# Slava in TLA+

Slava is a Redis-compatible key-value server in Go: a server of several databases, client
connections that are served by one goroutine each, an append-only file, RDB snapshots,
master/slave replication and a cluster mode with distributed transactions.  This directory
holds TLA+ models of the parts whose correctness depends on the order in which goroutines,
nodes and crashes interleave, the TLC runs that check them on small instances, and proofs
checked by TLAPS for every value of the parameters.

`PROJECT.json` is the index: which definition stands for which lines of the source
("map"), which run checks which property, a mutation of the model that each property
catches ("mutants"), what is hard to test in this code ("hazards"), where code and comments
disagree ("findings") and which theorems are proved ("theorems").

## 1. Inventory of the system

Paths are relative to `src/`.

| Component | State | Operations | Module |
|---|---|---|---|
| Striped key locks, `pkg/datastruct/lock/lock_map.go` | table of `sync.RWMutex` | `RWLocks`, `RWUnLocks` and their special cases | `LockMap`, `KeyLocks` |
| Command execution, `pkg/database/database.go`, `transaction.go`, `tx_utils.go`, `keys.go`, `string_cmd.go`; `pkg/connection/conn.go` | per database: data, versions, locks; per connection: MULTI flag, queue, watched versions, errors | normal command, MULTI, queueing, WATCH, DISCARD, EXEC with undo logs | `Transaction` |
| Commands and their persistence, `pkg/database/string_cmd.go`, `keys.go`, `sortedset_cmd.go`, `tx_utils.go` | data and deadlines of one database | the commands, each with the line it appends to the file, its locks and its undo log | `Commands` |
| Expiry, `pkg/database/database.go`, `pkg/timewheel` | TTL map; slots of the wheel, timers | deadlines set and removed, lazy removal, the job of a key, scan of a slot | `TimeWheel`, `Expiry`; deadlines in files in `Commands` |
| Append-only file, `internal/aof/aof.go`, `rewrite.go`, `marshal.go` | file, selected database, channel, mutex `pausingAof`, rewrite contexts | save directly or queued, fsync, rewrite, load, close | `Aof` |
| Replication, master: `pkg/database/replication_master.go`, `internal/aof/rdb.go` | backlog, slaves' states and offsets, dump, listener | PSYNC full and partial, ACK, cron, dump, replacement of the backlog | `Replication` |
| Replication, slave: `pkg/database/replication_slave.go` | role, configuration and its version, connection, context | SLAVEOF, NO ONE, handshake, load, receive, cron, reconnect | `SlaveRole` |
| Cluster transactions, `internal/cluster/tcc.go`, `mset.go`, `del.go` | per node: transactions with status, locks, undo log, timer; per coordinator: phase | prepare, commit, rollback, timer, relay with time-out | `TCC` |
| Publish/subscribe, `pkg/pubsub` | channel -> subscribers, per connection: channels | SUBSCRIBE, UNSUBSCRIBE, PUBLISH, clean-up | `PubSub` |
| Connections and server loop, `internal/slava/server`, `internal/tcp`, `pkg/connection` | set of active connections, pool of connection objects | accept, handle, close | `PubSub`; MULTI state in `Transaction` |
| Sorted set, `pkg/datastruct/sortedset` | skip list with spans, dictionary | insert, remove, rank, ranges | `SkipList`, `SortedSet` |
| Server of databases, `pkg/database/server.go` | array of databases, persister, hub | SELECT, FLUSHDB, FLUSHALL, BGREWRITEAOF, SAVE | not modelled; FLUSHDB of one database is in `Commands` |
| Connection pool, `pkg/pool` | idle channel, active count, waiters | Get, Put, Close | not modelled yet |
| Quick list, `pkg/datastruct/quicklist` | pages of 1024, iterator | insert, remove, iterate | not modelled: no list command can be called |
| Cluster routing, `internal/cluster/router.go`, `multi.go` | - | dispatch, broadcast | not modelled: calls without state of their own |
| Peer client, `internal/slava/client` | pending and waiting requests | send, heartbeat, reconnect | not modelled; its time-out is in `TCC` |
| Concurrent dictionary, `pkg/datastruct/dict` | sharded map | get, put, scan | an atomic map in the models |
| RDB files, `internal/aof/rdb.go` | - | dump, load | listeners and hook in `Replication`; the format is an external library's |
| Eviction, `pkg/database/maxmemory_policy.go` | access marks | sampling | not modelled: driven by the runtime's memory statistics |
| Consistent hashing, id generator, wildcards | - | pure functions | parameters of `TCC` |
| Protocol, parser, configuration, logging, command line | - | parsing and printing | not modelled |

### How the parts interact

* A connection's goroutine calls `Server.Exec`, which selects a database and calls `DB.Exec`.
  Special commands (MULTI, WATCH, EXEC, ...) are handled there; a normal command bumps the
  versions of its write keys, locks its keys in the striped table, runs its executor and,
  still under the locks, hands its command line to the append-only file.
* The append-only file gets lines either on the goroutines of the connections
  (`appendfsync always`) or through a channel with one consumer.  Rewriting works on a second
  server that loads the old file.
* In a cluster a command whose keys live on several nodes becomes a transaction: the
  coordinator calls the nodes one after the other through peer clients with a time-out; the
  nodes use the same `DB` with its locks (`ExecWithLock`) and the global time wheel.
* Replication listens to the append-only file and sends its lines to slaves.

### What is hard, and what makes each component correct

* **Locks**: goroutines with overlapping key sets whose keys collide in the table, keys named
  twice, writers behind readers and readers behind writers.  Correct: no two goroutines
  conflict on a key, no circular wait, nothing leaked, every request granted.
* **Transactions**: versions are read and written outside the locks by some paths, EXEC checks
  and then runs, a command may fail in the middle.  Correct: EXEC runs alone on its keys, a
  write of a watched key is noticed, a failed EXEC leaves nothing behind.
* **TCC**: lost, late and overtaking requests, timers that race with commits, opposite lock
  orders on two nodes.  Correct: prepared nodes hold exclusive locks, nothing is committed
  before all are prepared, success means executed everywhere, an abort changes nothing, locks
  are given back.
* **Append-only file**: rewrites beside commands and beside each other, switches of database,
  refused writes, crashes between fsyncs, shutdown.  Correct: the file and what is on its way
  make up the data; a restart brings back a past state, and the last one where promised.
* **Commands**: a file of lines that is replayed with another clock, keys past their deadline
  that some commands see and others do not, entities that two keys share after COPY, commands
  whose line says something else than they do.  Correct: a restart brings back each key as it
  is, undo logs restore what they promise, a command changes what it has locked.
* **Replication, master**: the size of the file is taken, the listener registered and the dump
  written in three steps beside the writer of the file; two mutexes are taken in two orders;
  the writer and the cron both send.  Correct: a replica holds a prefix of the file, after a full
  resynchronisation, a partial one and a reconnect; nobody who waits for a dump is forgotten.
* **Replication, slave**: SLAVEOF of a client, the cron and the goroutines of older
  configurations meet.  Correct: role, configuration and connection fit together whenever the
  mutex is free, and what is executed comes from the configured master.
* **Expiry**: a wheel with goroutines of its own, keys that are removed under locks for reading
  and deadlines that change meanwhile.  Correct: no key goes before its deadline; jobs run at
  the tick they were planned for.
* **Publish/subscribe and connections**: connection objects are given to the next client
  while the last one's goroutine cleans up.  Correct: hub and connections agree, a client reads
  the messages of its subscriptions in order, and misses none.
* **Sorted set**: spans and levels through insertions, removals of one and of many.  Correct:
  the list is the dictionary in order, and every query gives what the order says.

The full list, at the lines where it bites, is "hazards" in `PROJECT.json`.

## 2. Modules

```
KeyLocks              abstract: locks taken and given back as whole footprints
  ^ refined by
LockMap               the table of mutexes            <- MCLockMap, DatastructProofs
Transaction           uses KeyLocks for its locks     <- MCTransaction, TransactionProofs
PubSub                uses KeyLocks for its channels  <- MCPubSub, PubSubProofs
TCC                   cluster transactions            <- MCTCC, TCCProofs
Aof                   append-only file                <- MCAof, AofProofs
Commands              what commands do and save       <- MCCommands, CommandsProofs
Replication           master, its dumps and backlogs  <- MCReplication, ReplicationProofs
SlaveRole             slave, SLAVEOF and reconnects   <- MCSlaveRole, ReplicationProofs
TimeWheel <- Expiry   wheel; keys with deadlines      <- MCExpiry, ExpiryProofs
SkipList <- SortedSet list with spans; sorted set     <- MCSortedSet, DatastructProofs
```

### KeyLocks and LockMap

`KeyLocks` states what callers rely on: `RWLocks` returns with a footprint [write, read] that
conflicts with nobody's, `RWUnLocks` gives it back.  `LockMap` is the code.  `Slot` is
`spread`, `Indices` is `toLockindices`; `todo` is what is left of the sorted slot list of the
loop, ascending in `RWLocks` and descending in `RWUnLocks`.  A mutex is Go's `RWMutex`, in the
steps another goroutine can see: a writer first gets ahead of the other writers and closes the
slot (`AnnounceWrite`), then waits for the readers inside (`FinishWrite`); a reader enters
(`LockRead`) or queues behind a writer (`QueueRead`, `WakeRead`); an unlocking writer lets the
queued readers in (`UnlockWrite`).

The fact the whole design rests on is `OrderedAcquisition`; `NoCircularWait` says what it is
good for in terms of who waits for whom, including waits of writers for readers and of readers
for waiting writers.  `ImplementsKeyLocks` is the refinement of `KeyLocks`.

### Transaction

`run[c]` is the program counter of the goroutine of connection `c`, `conn[c]` the transaction
state of the connection.  Steps are cut where another goroutine may get in between:
`GetVersion` and `PutVersion` of `addVersion`, `Lock`, the comparison of each watched key,
the read and the write of each executor (`Fetch`, `Apply`), `Rollback`, `Unlock`.  A normal
command bumps its versions *before* it locks, EXEC *after* it has run, both as in the code.
`Lock` is an action of `KeyLocks`, so the stripes are proved away once and for all.

Commands stand for families: `set` writes whatever was there, `incr` reads, may fail and
writes, `get` reads, `del` removes, `rename` locks its source for reading and removes it
nevertheless (`keys.go`).  `UndoLog` is what `RollbackGivenKeys` produces as written: a DEL of
the keys that do not exist, nothing for those that do.

`run[c].bump` is the set of places, command and key, whose version is still to be bumped;
`addVersion` takes the first of them, once per occurrence of a key.

`base`, `quiet` and `touched` are history variables: what a command found under its locks,
which keys were watched while no writer was between bump and unlock, which were written since.

### TCC

`part[t][n]` is the `Transaction` object of command `t` on node `n`, `call[t][n]` the three
requests its coordinator may send there, `coord[t]` the coordinator (`MSet`, `requestCommit`,
`requestRollback`).  A request is "sent" until the node serves it, also when the coordinator
has given up on it; a node may serve it at any later time or never, which covers loss, delay
and reordering.  Time is abstract: each timer and time-out may fire at any moment.  `Commit`
writes key by key under `tx.mu` and does not look at the status, as `execCommit`; the timer
looks at the status in one step (`TimerFires`) and takes `tx.mu` in another (`TimerRollback`).
`late` is history: some node has committed after its locks had been given away.

### Aof

`file` is a sequence of lines (SELECT, APPEND, SET), `synced` the length that survives a
crash, `currentDB` the persister's database, `job[j]` a goroutine in BGREWRITEAOF.  Commands
are APPENDs of distinct numbers, so that replaying a file shows every line that is lost,
doubled, reordered or in the wrong database.  `WriteAof` has the two failing branches of
`writeAof`: a refused SELECT leaves `currentDB` behind, a refused line does not.
`StartRewrite`, `DoRewrite`, `FinishRewrite` and `Rename` are cut where `pausingAof` is free,
and where another part of the program can see the difference.  `Crash` keeps any part of the
file from the synced length on; `Close` and `CloseFile` are the two halves of `Close`.
`Load` is what `LoadAof` leaves in an empty server.

`spoiled` is history and marks the three cases in which the file may legitimately differ from
the data: the file system refused a write, a rewrite was overtaken by another one (`rdb.go:21`
has the TODO), and a rewrite started on an empty file (section 4).

### Commands

`db` is one database: `data` and `ttl` as in `DB`, `jobs` the keys with a job in the time
wheel, `shares` the pairs of keys that have a sorted set, or an array of bytes, in common, `cap` the
capacity of the array under a key.  Each executor
is an operator from a database, a command and the time to a database, the lines for the file
and whether the reply is an error; `Exec` is the command table.  Removal of a key past its
deadline is part of each executor that looks at the key (`Look`) and of none that does not: SET
NX, SETNX, MSET and the destination of RENAME see the key that is still there.  `Replay` runs
the lines of the file on an empty database with the clock of the start, as `LoadAof`, so the
same executors serve clients, replays, rewrites (`Dump` of a replay) and undo logs.

INCR stands for INCRBY, DECR and DECRBY, and commands that only read are one.  Integers wrap at
`IntMod` as int64 does.  A string is a sequence of pieces, each a number or `Text`.  APPEND, SETRANGE
and SETBIT go through Go's `append` (`PutBytes`): where there is room, the new bytes go into the
array of the old string (`Write`), else into a new one of at least twice the size (`Grow`).  A string
that comes from the parser has the line end as room behind it (`Room`, `Spare`).  After COPY two keys
have one array, perhaps with different lengths, and keep it until one of them gets a string of its own:
what is appended to the shorter one is then written over the end of the longer one (`InPlace`).
SETRANGE appends byte by byte, so it may write into the old array and then leave it.

`sure` and `lapsed` are history.  `sure[k]` is how long the file is bound to bring back `k`:
until the first deadline that a later line depends on, for ever after a SET, not at all after a
command with no line (SETBIT, FLUSHDB) or a wrong one (PSETEX is saved as a SETEX, INCRBYFLOAT
under a name no command has), after a command that has seen a key past its deadline, after
a rewrite that separates keys which share an entity, and after an APPEND or SETRANGE that makes a string
longer whose array other keys have (`Spills`): whether it writes into theirs depends on the room, and
a rewritten file or a restart does not have the same room.  `ReplayExact` says that these are the only ways in
which file and data part.

### Replication

A line of the file is a number, so the data of a replica shows what is lost, doubled or out of
order; a ping is 0.  `writer` is `writeAof`, which holds `pausingAof` from the line to the
last call-back (`PausingAof`); `mu` is `masterStatus.mu` where it is held across steps.  A dump
`job` goes through begin (`SaveBegins`), `size` and `register` (`Rewrite2RDBForReplication`
takes the size of the file and registers its listener at two moments), `hook`, `rewrite`, and
finishes with the slaves that wait (`sync`, `NextWaiting`).  The job of `Rewriter` is
`rewriteRDB`: it swaps the backlog and removes the old listener.  `sender` is
`masterSendUpdatesToSlave` on the two goroutines that call it: a copy of the backlog is taken,
written and the offset advanced, in three steps.  `task[c]` is the resynchronisation of a
connection.  `open`, `up` and `down` are TCP connections: ordered, cut at any moment.

`spoiled` is history.  Its members are the five ways in which the code lets a replica go astray
or panic, and each is a state of the model: "copy", a line between the size and the
listener; "savers", two dumps of two PSYNCs; "swap", a new backlog that counts from 0; "senders", writer and
cron at the same time; "ack", an ACK behind what was sent.  `ReplicaFollows` holds until the
first of them, `NobodyForgotten` until a second dump has started.
`crashed` is a panic on a goroutine without `recover`.

### SlaveRole

`pc` has the client that sends SLAVEOF, the cron, and each goroutine of `setupMaster`: dial,
greet (`masterHandshake`), psync, load, enter (`receiveAOF`), loop, select, payload.
`mutex` is `slaveStatus.mutex`; `config` pairs `configVersion` with `masterHost`; `setup[g]` holds
the locals of `g`, among them the version it has read.  `cancel` and `cancelled` are the
context, `Receiving` the `WaitGroup` that `stopSlaveWithMutex` waits for with the mutex held.
`LoadTooLate` and `PayloadTooLate` are goroutines that notice a newer configuration.  The
specification is `RoleSpec`: names are chosen so that a module can extend `Replication` as well.

### TimeWheel and Expiry

`slots` are the lists of elements, `timer` the map from names to elements, `task` the element's
value.  `Tick` starts a scan, `ScanPasses` and `ScanRuns` take one element each while
`AddTask` and `RemoveTask` work on the same lists, as nothing in the code keeps them apart.
`due` and `ran` are the numbers of the tick that must and that did run a job; `TickOf(s)` is the
tick whose scan slot `s` has had last.  `raced` is history: slots with a list that was changed under
a scan.

`Expiry` adds `data`, `ttl` and the clock.  A client sets a deadline (`SetEX`, `Expire`, `AddJob`),
removes one (`Set` or `Del`, then `Forget` and `Cancel`) or looks at a key under a lock for reading
(`Look`, `Check`, then `RemoveExpired`, `Forget` and `Cancel`).  Data, `ttlMap` and wheel change in
a step each.  COPY goes through the same steps with no lock: it looks at both keys (`Copy`, `CopyLooks`,
`Check`), puts the second (`CopyPuts`), reads the deadline of the first (`CopyReads`) and sets it
(`Expire`).  The job of the wheel takes the lock and checks again (`JobChecks`), removes
(`JobRemoves`, `JobForgets`), and cancels what its name has in the timer (`JobCancels`).  Names
have no database, so the keys are pairs of which the wheel sees one half.

`overtaken` is history: the goroutines and jobs that have seen a deadline pass and whose key has
since been put, or given a deadline, by a COPY, or by the rest of a removal after which a COPY has put it.
`KeysLiveOut` makes no promise against those, nor against COPY's own removal without a lock, and
holds against everybody else.

### PubSub

`conn`, `subs` and `pool` are the `Connection` objects of `sync.Pool`; `task[c]` is the goroutine
of a socket with its object, its request and the channels that are left; a channel is locked with
`KeyLocks`, per channel, as `subsLocker`.  `SubscribeOne`, `UnsubscribeOne` and `DeliverOne` are
one iteration each, so requests of several clients interleave channel by channel and receiver by
receiver.  `Close` clears the object and puts it into the pool; `AfterClientClose`
cleans the hub afterwards, by what it then finds in the object.  `stream[c]` is history: the
events a client has read, per channel.  `heirs` is history: sockets that were given an object
before its last owner had left it, or with subscriptions of that owner in the hub.  The three
properties are about all the others.

### SkipList and SortedSet

A list is a record with `forward` and `span` for every node and level; `Insert`, `RemoveNode`
and the removal of ranges are operators from lists to lists, with the drawn level as
a parameter.  `SortedSet` keeps the list beside the dictionary; its actions are the operations
that change a set, and its operators what is read.  `WellFormed` compares the links with the
dictionary in order, `FindsAll` every query with what that order says.

## 3. Runs

| Run | Module, cfg | Checks |
|---|---|---|
| `lock_map` | MCLockMap | type, `KeyExclusion`, `NoCircularWait`, `NoLeak`, refinement of `KeyLocks`, `EveryRequestGranted` |
| `transaction` | MCTransaction | type, `SuccessIsSerial`, `WatchDetects`, `AbortCreatesNothing`, `Isolation`, `Answered` |
| `tcc` | MCTCC | `PreparedExclusive`, `CommitNeedsAll`, `AckedExecuted`, `Isolation`, `CleanAbort` |
| `tcc_liveness` | TCCLiveness.cfg | `LocksReleased`, `Answered` |
| `aof` | MCAof | type, `Recoverable`, `FileInCurrentDB`, `RestartIsPast`, `RestartKeepsAnswered` |
| `commands` | MCCommands | type, `ReplayExact`, `UndoRestores`, `LocksCover` |
| `replication` | MCReplication | `ReplicaFollows`, `NobodyForgotten` |
| `slave_role` | MCSlaveRole | `RoleMatches`, `AppliedFromMaster` |
| `expiry` | MCExpiry | type, `OnTime`, `KeysLiveOut` |
| `sorted_set` | MCSortedSet | `WellFormed`, `FindsAll` |
| `pub_sub` | MCPubSub | `HubAgrees`, `NothingMissed`, `InOrder` |
| `replication_locks` | ReplicationLocks.cfg | violated: the order of two mutexes that a comment promises |

The types of `TCC`, `SlaveRole`, `Replication` and `PubSub` are theorems and are not checked
again by a run.

### Bounds, and why they are enough

* `lock_map`: three goroutines, three keys in a table of two slots with two keys colliding in
  slot 0 and one in slot 1.  The footprints include two that name the same slots from
  different keys in opposite modes, one that names a key in both lists, and the empty one.  A
  circular wait needs two slots and two goroutines; the third goroutine lets a reader queue
  behind a writer that itself waits for a reader.  The theorems cover all sizes.
* `transaction`: one client that watches `a` and queues SET b and INCR a, one that sends
  MSET, one that sends INCR, RENAME and GET; integers modulo 2, two commands per transaction,
  versions up to 1.  A watched key that changes between WATCH
  and EXEC, an EXEC whose second command fails, lost updates between any two of them, and
  a rename beside its readers all occur.
* `tcc`: two nodes and any two of three commands (`MaxStarts`) for the same two keys, one key existing
  and one missing: two MSETs sent from different nodes, and a command that fails in its prepare, after it has
  its locks; one time-out: 811,000 states.  This has the distributed deadlock, the overtaking
  rollback, a command that runs beside one that is rolled back, and commits that come too late.
  `tcc_liveness` has the two MSETs without time-outs: each gets its locks on one node and
  then waits for the other's, and since no request times out only the timers can resolve that.
* `aof`: two databases with one key each, two clients, two rewriting jobs, a queue of one,
  two commands, two rewrites, two restarts, one refused write, all three fsync policies.  Two
  commands are enough for an order, one before and one during a rewrite; two jobs for an
  overtaken rewrite; two restarts for a crash after a crash; a queue of one is full while a
  second client waits.  Clients and jobs are symmetric, and the run has no liveness property.

* `commands`: two keys, two members, all commands of the model, six files to start with (empty, a
  string, a string and a sorted set with a deadline, a sorted set copied, a string copied and then
  appended to, so that one key has the array of the other and is longer), room for one piece behind a
  new string, two commands, three moments after the start, a rewrite and a restart: 813,000 states.  Two commands after a prepared file make
  sequences of three or four lines: a deadline, a command before it and one after it; a copy, a
  write in place and a rename.  A second is two units of the clock, so that the job of the wheel may
  be early.  `UndoRestores` and `LocksCover` are evaluated for every command in every state.
* `replication`: one replica, three connections, two dumps and the rewriter, a backlog of one
  line, three events (lines, ticks, ACKs, breaks).  A full resynchronisation, a break, a partial
  one and another break, a line in each gap of a dump, and the replacement of a backlog all
  occur, in 680,000 states.  After the first deviation in `spoiled` what is under way goes on,
  without further events.
* `slave_role`: two masters, two goroutines, four versions, two executions: 842,000 states.  An old and
  a new goroutine, a reconnect of the cron and a SLAVEOF, each at every place of the other.
* `expiry`: one name in two databases, two elements, two clients, a wheel of two slots, a
  second of two units of the clock, delays of one second and of more than a round, seven units
  of the clock, three commands, any keys there at the start as from a loaded file: 1,540,000 states.  A job in
  its first and in a later round, a deadline inside a second, a key that is set again while its job
  runs, and a COPY between any two steps of a reader, a writer, another COPY or a job.
* `sorted_set`: three members, three levels, scores -1, 0 and 1 around the 0 of an infinite
  border, all borders and ranks, offsets up to the size, limits from none to 2: 2,070 states, every list of the size in every shape of
  levels.  The queries are evaluated in every state.
* `pub_sub`: three sockets on two objects and two channels.  One subscribes to both channels, one
  subscribes, unsubscribes and publishes, the third, which is served only once an object is
  free again, publishes: 3,030,000 states.  Objects change owners before and after the
  clean-up.

`CHECK_DEADLOCK FALSE` stands where the bounds, or clients that stop, end a behaviour; the
deadlocks that matter are `NoCircularWait` and `NoLockInversion`.

### Fairness

* `LockMap`: goroutines are scheduled (weak fairness of the steps inside the lock operations
  and of commands that hold locks: every command ends), and Go's mutex among writers is
  starvation free (strong fairness of `AnnounceWrite`), which its documentation promises.
* `Transaction`: weak fairness of the steps of a running command, strong fairness of `Lock`,
  which `EveryRequestGranted` of `LockMap` justifies.  Nothing makes a client send anything.
* `TCC`: a commit under way ends, the time wheel runs its jobs, `RWLocks` is starvation free.
  Neither coordinators nor requests are fair in `LocksReleased`: nodes give their locks back
  even if every further request is lost.  `Answered` states its extra assumption in the
  formula: a coordinator that keeps running and requests that are served in the end.

No run of the other modules has a liveness property, and their specifications state no fairness.

### Finding

`replication_master.go:159` states the order in which `pausingAof` and `masterStatus.mu` are taken,
"to avoid dead lock".  `rewriteRDB` takes them the other way round when it removes the old
listener: it waits for `pausingAof` with the mutex while the writer of the file waits for the
mutex in a call-back (`replication_locks`).

## 4. Deviations

What the code does and a reader might not expect, met while translating it.  The models have
these behaviours, unless the text says "not modelled"; the properties say in their exceptions where
they end.  Paths are below `src/`.

**Transactions.**  The undo logs of EXEC cover missing keys only (`tx_utils.go:36-47` has a
TODO): a value that a failing EXEC has overwritten stays overwritten (`transaction.go:91`).  What
does hold is `AbortCreatesNothing`.  A version is bumped before the write and read by WATCH
without a lock (`database.go:117`, `:158`): a key watched in between counts as unchanged although it is
written later.  What does hold is `WatchDetects`.

**Cluster transactions.**  A commit that comes after the rollback of its node runs without
locks, so an MSET can end with an error and half of its keys set (`tcc.go:188`); the timer tests the
status without `tx.mu` and may undo a transaction that has been committed in between
(`tcc.go:100`).  What does hold are the properties of `tcc`.

**Append-only file.**  A rewrite that starts on an empty file asks `LoadAof` for 0 bytes, which
means all of them: lines that arrive meanwhile are in the dump and in the copied rest
(`rewrite.go:52`, `aof.go:188`).  Deadlines are saved as absolute times and replayed with the
clock of the start, so a replayed PERSIST comes after the old deadline and finds no key
(`keys.go:149`).

**Master.**  Without slaves `masterCron` returns with the mutex held
(`replication_master.go:375-378`).  `Rewrite2RDBForReplication` works on a copy of the persister
(`rdb.go:47`): a line between the size and the listener is lost or doubled, and a mutex that is copied while
held is never free again.  Two PSYNCs before the first dump starts make two dumps; the second
sets `waitSlaves` to nil and the next PSYNC writes into it and panics.  `rewriteRDB` makes a
backlog that starts again at 0.  The offset of an ACK is taken as it is, and the lines after it
are sent again.  The writer and the cron send the same bytes, or advance an offset beyond what
the other's copy of the backlog has, which is a slice out of range.

**Slave.**  A goroutine of an old configuration whose connection fails calls `slaveOfNone` and
ends the newer SLAVEOF.  SLAVEOF does not stop the receiver of the master before.  `receiveAOF`
returns with the mutex held when the configuration has changed (`replication_slave.go:397-399`).
`stopSlaveWithMutex` waits for a receiver that may wait for that very mutex.  Two SLAVEOFs
before their goroutines start give two receivers of one version.  The hand-shake waits for the
master with the mutex held.

**Time wheel.**  A delay is cut to whole seconds (`delay.go:11`), so the job of a relative EXPIRE runs
before the deadline and leaves the key to those who look at it.  Jobs are named by key without
database.  An element that is added to a slot under scan may run up to an hour early or be lost; when the
element a scan is at is removed, the scan ends there and the rest waits for the next round; a
scan deletes what the timer has under a name, also a newer element.  COPY locks nothing
(`server.go:157-161`): it puts the key and its deadline (`keys.go:369-373`) between the steps of others.
Whoever has seen the old deadline pass, a reader (`database.go:206-208`) or the job (`:183-185`), then
removes the fresh key; who forgets the old deadline after COPY has put the key leaves it without one.
`GetEntity` reads the entity before it looks at the deadline.  Not modelled: two goroutines that use
the timer's map at once may end the process.

**Strings.**  COPY gives both keys one array of bytes, and a string has room behind it
(`parser.go:205-213`).  After SET a v, COPY a b and APPEND a x, an APPEND to b writes into the array of a
(`string_cmd.go:565`) and a reads something else, although only b is locked; a replay of a rewritten file
leaves a as it was.  SETRANGE does the same (`string_cmd.go:586-600`), and SETBIT, and both change what is
there in place.  What does hold is `LocksCover`: the command reaches only keys that share the array,
which stay, with their deadlines, and APPEND only such that are longer than its own.

**Sorted set.**  `hasInRange` compares the values of infinite borders, which are 0: a range
with one of them is taken for empty when 0 says so, whatever the set contains, as `1 +inf`, `-inf -1` and
`(0 +inf`.  `ForEachByScore` does not compare the first node after the offset
with the border.  A `PopMin` with a count of 0 pops all.  Not modelled: `getRank` takes the empty
member for the header; `Count` on an empty set panics.

**Connections.**  `Connection.Close` forgets the channels and puts the object into the pool, and
`AfterClientClose` then finds none to leave: the object stays in the hub.  Its next owner reads
the messages of the last one's channels, and gets no reply to a SUBSCRIBE of them; if it
subscribes before the clean-up has run, its own subscriptions are removed.  A slow subscriber
holds up its channel.  An UNSUBSCRIBE from a channel without subscribers has no reply.  Not
modelled: the two goroutines use one map, which may end the process; `Close` leaves the flags of
MULTI, slave and master (`conn.go:58-69`), so that the next owner may be inside a MULTI;
`activeConn.Delete` (`server.go:49`) may remove the entry of the next owner; a connection that is reset
ends its goroutine without `closeClient`; `Handler.closing` is never set.

**Connection pool**, not modelled: a factory that fails and `Close` wake no waiter
(`pool.go:64`), and `activeCount--` happens after the unlock (`pool.go:129`).

## 5. Proofs

Assumptions on the constants are the named ASSUMEs of the modules: a table has at least one
slot, hashes are naturals, footprints are sets of keys, keys live on nodes, special values are
not values, commands have the keys they need, counters have natural bounds.  The channels of
`PubSub` are finite, as the list of a client's channels is, and so are the keys and the members of
`Commands`, which a rewrite and a ZPOPMIN go through; the room behind a string is any natural
number; no other theorem assumes finiteness of
anything.  The commands of `Commands` are those of the command table with as many keys as their
arity asks for (`CmdType`), and the clock does not reach `Never`, which stands for having no
deadline.  `StartAssumption` is about the file of the first start: it makes the same at every
start.  A file with, say, an INCR of a key whose deadline passes between two starts does not, and
`Init`, which is sure of every key, would be wrong about it; the files that the run of the program
makes are under no such assumption, and what they may forget is what `sure` is about.

**DatastructProofs, the locks.**  `TypeCorrect`, `MutualExclusion`, `NothingLeaked`, `DeadlockFreedom` and
`Refinement` are `Spec => []TypeOK`, `[]KeyExclusion`, `[]NoLeak`, `[]NoCircularWait` and
`Spec => Locks!Spec`.  None of the safety properties is inductive: they speak of whoever is
granted, while a step concerns one slot.  `IInv` ties the mutexes to the bookkeeping of the
goroutines: whoever a mutex registers as writer, reader or queued reader is a goroutine that
owns the slot or is about to (`WriterInv`, `ReaderInv`, `BlockedInv`), whoever has locked a
slot is registered there in its mode (`OwnInv`), and the slots a goroutine has lie below those
it still wants (`OrderedAcquisition`).  Exclusion follows at the common slot.  Deadlock freedom
takes, in a group of goroutines, one whose next slot is greatest: whoever it waits for owns
that slot, and so has either got all its slots or waits at a greater one.  The refinement maps a goroutine's
footprint to granted when it has no slot left to lock; the only step that can violate
`KeyLocks` is the last slot of a request, where `KeyExclusion` of the next state gives the
guard.

**DatastructProofs, the sorted set.**  `SetIsWellFormed` is `WellFormed`, for any members, scores,
levels and borders.  `WellFormed` speaks of what one finds when one follows links, which a step cannot
be compared with.  The invariant `SInv` describes the list by a *row* instead: a function `q` from
positions to nodes and one, `h`, from positions to heights.  `Shape` says what follows for the list: a
link on level `i` leads to the next position that is as high as `i` (`Hop`), a span is the distance
or what is left of the list (`Links`), and tail, backward, length and level are those of the row (`Ends`).
`Ranked` says that the row is in the order of scores and names, `Records` that it has the elements of the
dictionary.  A search, whatever it looks for, stops on every level at the last node before the
position it splits the row at, and knows its rank (`WalkTo`, `PathIs`).  So `insert` puts a position
into the row (`InsertShape`), on all levels at once; `removeNode` drops one (`RemoveShape`), and the path
it was given is still that of the shorter row, which is why the removal of a range may search only
once (`LeftStep`, `RangeLeft`).  `RowWellFormed` goes from the row to `WellFormed`.  That the loops
end, that is that the recursive functions of `Walk`, `Path`, `Chain` and `RemoveRange` exist, is proved
from the row, too: no list goes in circles.

`SetFindsAll` is `FindsAll`, from the same invariant: the row is also what the queries read.  A list
in the order of the dictionary is the only one of its members (`InOrderIs`, `IncreasingIs`), so that
the order is the row.  `GetRankIs` and `GetByRankIs` say where a search for a member or a rank ends.
A query in the other direction reads the row from its other end (`Back`, `Seen`), which is a row,
too, and `OnwardIs` says what a loop through neighbours visits from a position on.  The borders of a
range split the row (`BoundsAre`), the members of the range are the stretch between (`InRangeIs`),
`hasInRange` finds it unless it is misled (`HasInRangeIs`), and then both searches start at its
first or last node (`FirstIs`, `LastIs`).  The rest is about stretches of stretches: what an offset, a border and
a limit leave of one (`MidPiece`, `UntilPiece`, `RangeByScoreIs`), and how many there are (`CountIs`).
The exceptions of `FindsAll` are needed in `HasInRangeIs` and `RangeByScoreIs` and nowhere else.

**TCCProofs.**  `TypeCorrect`, `PreparedAreExclusive`, `CommitsNeedAll`,
`AcknowledgedAreExecuted`, `TransactionsAreIsolated` and `AbortsAreClean`, for any number of
nodes, keys, commands and time-outs.  `IInv` consists of `LockInv` (prepared nodes hold their
locks, holders are disjoint), `UndoInv` (an undo log contains keys of the transaction that,
while locks are respected, are still missing), `CommitInv` (a coordinator in phase "commit"
has all prepares answered, and a commit exists only then; where the coordinator is
determines which requests exist) and `AnswerInv` (what a coordinator answers follows the
commits that came back).  The two action properties need `UndoInv`: that a rollback changes
nothing is a fact about the data at the time of the prepare, carried along by the locks.

**TransactionProofs.**  `TypeCorrect`, `Isolated`, `WatchSound` and `AbortsClean`: the types,
`Isolation`, `WatchDetects` and `AbortCreatesNothing`, for any connections, keys, queues and
interleavings.  `Control` says what a goroutine has in hand at each place, `Exclusive` that
footprints that are held go together.  `WatchDetects` needs a chain through the versions:
`VersionInv` says that the version of a key that was watched while nobody was writing it
exceeds the watched one as soon as the key is written, because a normal command has bumped
it before and EXEC still holds the lock; `WatchedInv` and `SeenInv` bound what a connection and a
half-done `addVersion` have read; `CheckInv` is what the comparisons have established so far.
`UndoInv` says that undo logs name the keys which were missing under the locks.

`Serial` is `SuccessIsSerial`.  The reference `Alone` runs the queue of a transaction, or the one
command, on `base` by itself.  `SerialInv` says that a goroutine which has run `i - 1` commands has
on the keys it writes what `Alone` makes of `base` with the first `i - 1`, and that what its
executor has read is that, too; the step from `i - 1` to `i` is one of the recursion (`RunNext`), and
`Exclusive` keeps others from the keys that are locked for writing.  A key that is locked for reading only
may have gone meanwhile, since RENAME removes its source under such a lock: `SerialAt` lets it be
what `Alone` says or nothing, and the executors are shown to give the same on the keys they write
in both cases.

**AofProofs.**  `TypeCorrect`, `InCurrentDB`, `Recovers`, `RestartsInThePast` and
`RestartsKeepAnswered`: the types, `FileInCurrentDB`, `Recoverable`, `RestartIsPast` and
`RestartKeepsAnswered`, for any databases, keys, clients, rewriting jobs and queue.
All of them speak of what a replay makes of a file.  `Steps(file)` is the sequence of the states of
a replay; that there is one, what it is for a prefix, for a file with one more line and for two
files one after the other are lemmas by induction over the length, and so is what the lines of
a dump make of an empty server.  The inductive invariant `IInv` has `InDB`, that the file ends in
the database `currentDB` names; `AllThere`, that file, queue and pending lines make up the data
(`Recoverable` follows); `JobsTrue`, that the temporary file of a rewrite, with the lines
that have been written since its size was taken, replays to the same as the file that it will replace,
unless another rewrite has overtaken it; `Growing`, that no line takes anything away, so that a
prefix of the file is a past; and `SyncedAll`, that what is not synced under `appendfsync always`
are SELECTs.  `Waits`, `Paused` and `OneEach` say who may have a line or the mutex in hand.

**CommandsProofs.**  `TypeCorrect`, `ChangesAreLocked`, `LogsUndo` and `ReplayIsExact`: the types,
`LocksCover`, `UndoRestores` and `ReplayExact`, for any keys, members, commands and files to start
with.  A database is `Good` if its
parts have their types, keys that share have one sorted set, or strings that read the same up to the
end of the shorter one (`OneObject`), sharing is transitive,
and jobs are for keys with a deadline.  The theorem about executors is `ExecDone`: run on a good
database, each leaves a good one and lines that are commands again, and what
a client finds changes only under the keys of the command (`Done`), or, where it writes in place,
under keys that share what it writes to: these stay with their deadlines, and APPEND reaches only
longer ones (`Spread`).  It rests on one lemma for each thing that
executors do to a database (`PutIs`, `RemovesIs`, `WriteIs`, `PutBytesIs`, `ShareIs`, `ExpireIs`,
`PersistIs`, `LookIs`) and one for each executor.  For strings `WriteIs` has to show that two keys which
share an array with the one written to still agree with each other (`InPlaceOne`).  `IInv` is that the database is good and the file has only
commands: a replay then makes a good database (`RunGood`), and a rewrite makes a file of commands
(`DumpIs`).  `ChangesAreLocked` compares the keys of `ExecDone` with those that the prepare
functions lock.

`LogsUndo` runs the lines that were made before the command on the database it has left.  A log of DELs removes exactly the keys that were missing
(`DelsAre`, `RollbackIs`), and what was missing elsewhere has not appeared (`MadeIsUndone`).  The
log of EXPIRE, PEXPIREAT and PERSIST puts the deadline back (`DeadlineUndone`); the log of the
sorted-set commands is a DEL for a key that was missing, a ZADD for a member that had a score and a
ZREM for one that had none, and is followed over keys that share the set (`ScoresUndone`).

`ReplayIsExact` compares two runs of every executor: by the client, and by a replay with the clock
of a later start.  That the file brings back what is there now is not inductive, since the next
line is replayed later than its command has run.  `RInv` is about every moment from now on:
a replay at that moment brings back all keys that are sure until then (`Brings`), that is value and
deadline, what of them is past its deadline, and with which other keys an entity is shared.  It
needs `Leftovers` beside it, on deadlines that are left without an entity.  The lemmas are:

* `ExecRuns`: what a command does not name, and what does not share an entity with a key it names,
  stays as it is, up to keys past their deadline that are removed on the way;
* `ExecAlike`: on databases that agree on what the command names, the command and its line
  leave databases that agree.  "Agree" is about values, deadlines and sharing and not about capacities:
  nothing fixes the room after a restart.  So APPEND and SETRANGE are alike only where the room does
  not matter: no other key has the array, or the string gets no longer (`BytesAlike`, and `Spills`
  in `Breaks`).  SET and SETEX do not read what they replace and have a lemma of
  their own (`SetBrings`); commands that write another line than they have executed, or none
  (`Gaps`), end what is sure of their keys, and `ExecRuns` says that they end no more than that;
* `RunConcat`: a replay of one file after another is a replay of the second from what the first has made;
* `DumpLoads`: the lines of a rewrite make every key once, with its deadline, and share nothing.

From these follows each action: a command (`DoRInv`), a job of the time wheel, the clock, a rewrite
(after which no replay shares an entity, so that keys which share one are not sure any more), and
a restart, which makes the replay the database.

**ExpiryProofs.**  `LivesOut` is `KeysLiveOut`.  The point is a goroutine that has seen a
deadline pass and removes the key two steps later, under a lock for reading.  `Overdue` says that
the deadline it has seen is still past when it removes, or the key is gone, unless the goroutine is
in `overtaken`: those who take locks change keys and deadlines under one for writing only
(`Locked`), COPY and the rest of a removal beside it put whom they pass into `overtaken`, and the clock
does not go back.  A client's step is a lemma about what it may change (`Spares`) and about where its
goroutine goes (`Moves`), a step of the wheel one about jobs, which it takes no further (`JobsStay`).

`TypeCorrect` and `JobsOnTime` are the types and `OnTime`, for any number of slots, elements and
delays.  `OnTime` compares numbers of ticks and is not inductive: what keeps it is `Timed`, that
the rounds of a listed job are the turns that are left until the tick it is due at, and one less as
long as the scan of its slot has still to come to it.  "Still to come" depends on the order of the
list, so the invariant `Good` has the lists without doubles (`Listed`), the scans at elements of
their slot (`Scanned`) and the timer (`Known`) beside it.  Each handler is a lemma about values
(`PushKeeps`, `DropKeeps`, `TickKeeps`, `PassKeeps`, `RunKeeps`, ...) on lemmas about lists and
about division: `LastTick`, the number of the last tick that started the scan of a slot, moves
by a turn for one slot and not at all for the others (`OneMoreTick`), and the place and the rounds of
`getPositionAndCircle` are those of the tick that the delay asks for (`InPlace`).

**ReplicationProofs.**  `TypeCorrect`, and `AllRemembered`, which is `NobodyForgotten` for any
connections and dumps.  `Waiting` ties the map of waiting slaves to the phase of the dump: it is
nil only between a dump and its hand-over, and only a second dump makes it running again.
`Placed` says which connections a resynchronisation or a dump may have.  The types need
`BufferOK`: `current` is the length of the buffer.

`AllFollow` is `ReplicaFollows`, for any replicas, connections and dumps, as long as `spoiled` is
empty.  Its invariant `FInv` has two halves.  `LogInv` is about the master: there is one dump,
nobody but its saver has registered a listener, and the dump with the backlog of the
listener is the file, but for the line that is being handed to the listeners.  `ConnInv` is about
connections: each is in one place only, waiting, taken by a dump, being resynchronised or online
(`Apart`); one goroutine sends at a time, from a snapshot of the backlog that no slave is beyond
(`Sending`, `Offsets`); what is on its way to a replica is the backlog from the offset of
the replica to the point up to which the master has sent (`Linking`); and what a replica holds
is the dump and the backlog up to its offset, also when it has lost its connection and will ask for
the rest (`Knowing`).  What dump and backlog give is a recursive function, with lemmas for one line
more, for a prefix and for what is left.

The slave's side, `SlaveRole`, is at the end of the module.  `RoleTypeCorrect`, `RoleMatching` and
`RoleApplied` are the types, `RoleMatches` and `AppliedFromMaster`, for any masters and goroutines.  `Holders` says who can hold the mutex,
`Versions` that no goroutine has a version from the future, `Consistent` and `Aborting` that
role and configuration match whenever nobody is between the halves of a stop.  `Dialling`,
`RoleLinked`, `Reading` and `RolePlaced` follow a connection from its dial to what is read from it: as long as the
version a goroutine has is the current one, its connection goes to the current master.

**PubSubProofs.**  `TypeCorrect`, `HubRight`, `NoneMissed` and `Ordered`: the types, `HubAgrees`,
`NothingMissed` and `InOrder`, for any sockets, objects and channels.  `Owners` says that nobody
shares a clean object, `Departed` that whoever had it before has left the hub and the object
alone, `Held` that a goroutine inside the hub has locked its channel and that a publisher still has to
reach a subset of its subscribers, `Sessions` that who is in the hub has read up to the message that is
being delivered, and who is not has a closed session.

### Induction over data

Replaying a file, running a queue and applying a backlog are recursive functions.  Nothing about
them is assumed: the theorems of the library that take a predicate as a parameter are not used,
but `SetInduction`, which is about a set of numbers and follows from the well-foundedness
of `<` on the naturals (`NatLessThanWellFounded`, `WFMin`), is proved where it is needed, in
`AofProofs`, `CommandsProofs`, `DatastructProofs`, `ReplicationProofs` and `TransactionProofs`.  The function that a recursion names
is shown to exist by such an induction over its domain before anything is said of it.

### Only model-checked

Liveness (`EveryRequestGranted`, the two `Answered`, `LocksReleased`) depends on fairness, and
the provers here do not treat it.  The violation run is a trace.  Every safety property of a
passing run is a theorem.

### Left out, and why

Each module's header names what it abstracts.  Beyond that:

* half-written lines at the end of the file, a matter of the parser's bytes;
* a line that waits in the queue of the file and whose bytes SETRANGE or SETBIT change in place, as
  line and entity may be the same bytes;
* `requirepass`: the connection of `LoadAof` has not given the password, so that its commands are refused;
* in `Commands`, how Go rounds capacities up (the theorems hold for any `Spare`, but with doubling),
  strings of several pieces that read as one number, and the value without bytes that APPEND and SETRANGE of
  nothing leave under a missing key;
* restarts of cluster nodes, whose transactions are in memory and are forgotten;
* interleavings of the commands of `Commands` with lazy removals, which `Expiry` has for keys alone;
* value types of a dump other than strings and sorted sets;
* the list commands, which are registered with an arity no call satisfies, and so the quick list;
* the array of databases: FLUSHALL, SAVE and BGSAVE;
* routing in a cluster and the peer client: calls to parts that are modelled, and I/O;
* eviction, which depends on the memory statistics of the runtime; parsing, configuration and
  logging.

## 6. Plan

What would come next, in this order:

1. `Pool`: Get, Put and Close with their waiters.  Property: whoever waits is woken or
   told that the pool is closed, under fair schedules without failing factories.
2. Restarts of nodes in `TCC`: a node that has forgotten a prepared transaction answers its commit
   with 0, which counts as success.
3. The server of databases: FLUSHALL between commands and the lines they save, together with `Aof`.
4. The peer client with its heartbeat and reconnect, as the transport of `TCC`.
5. The quick list against a sequence, once a command can reach it.
