------------------------------ MODULE Replication ------------------------------
(***************************************************************************)
(* Replication as the master runs it (pkg/database/replication_master.go,   *)
(* internal/aof/rdb.go): a PSYNC starts a dump of the append-only file or   *)
(* continues from the backlog; a listener of the file copies every line to  *)
(* the backlog and sends it to the slaves that are online; a cron pings     *)
(* them, and replaces dump and backlog when the backlog is too long.        *)
(*                                                                         *)
(* A line of the file is a number, so that the data of a replica shows what *)
(* is missing, doubled or out of order; a ping is the number 0.  Offsets    *)
(* count lines instead of bytes.  The file has one writer (appendfsync      *)
(* everysec or no), which holds pausingAof from the line to the last        *)
(* call-back.  A replica is here what its master sees of it: SlaveRole has  *)
(* its goroutines.  A connection is a member of Conns, used once.           *)
(***************************************************************************)
EXTENDS Integers, Sequences, FiniteSets

CONSTANTS
    Replicas, Conns,
    Savers,         \* goroutines of bgSaveForReplication
    Rewriter,       \* the goroutine of rewriteRDB
    Nil,            \* no file, no connection, a nil map
    MaxBacklog,     \* maxBacklogSize
    MaxEvents       \* bound on the lines, cron ticks, ACKs and breaks of a behaviour

Jobs == Savers \cup {Rewriter}
Senders == {"writer", "cron"}

\* The backlog of initMaster, and the one of rewriteRDB.
Logs == {"first", "new"}
LogOf(j) == IF j = Rewriter THEN "new" ELSE "first"

ASSUME ConnAssumption == Nil \notin Conns /\ \A cs \in SUBSET Conns : Nil # cs
ASSUME JobAssumption == Rewriter \notin Savers /\ Nil \notin Jobs /\ Nil \notin Nat
ASSUME BoundAssumption == {MaxBacklog, MaxEvents} \subseteq Nat

VARIABLES
    file,           \* the lines of the append-only file
    writer,         \* writeAof: [pc, todo], todo the listeners still to call
    listeners,      \* those of the persister, by the job that made them
    ready,          \* those with readyToSend
    mu,             \* who has masterStatus.mu beyond a step: Nil, "cron" or "rewriter"
    master,         \* the rest of masterStatus
    backlog,        \* of each log: [buf, begin, current]
    slave,          \* slaveClient: [state, offset]
    job,            \* [pc, size, todo] of each dump
    rdb,            \* the content of the file of each dump
    sender,         \* masterSendUpdatesToSlave on the writer's and the cron's goroutine
    task,           \* [by, pc, from, current] of a connection that is resynchronised
    open, up, down, \* connections: requests of the replica, bytes of the master
    replica,        \* [pc, conn, known, offset, data], known: it has a replId
    crashed,        \* a goroutine without recover has panicked
    spoiled,        \* history: what nothing in the code prevents, see below
    events          \* counter of the bound

net == <<open, up, down>>
vars == <<file, writer, listeners, ready, mu, master, backlog, slave, job, rdb,
          sender, task, net, replica, crashed, spoiled, events>>

Message(type, n) == [type |-> type, n |-> n]
Dumped(begin, size) == [type |-> "full", n |-> begin, size |-> size]
Line(n) == Message("line", n)
Lines(s) == [i \in DOMAIN s |-> Line(s[i])]
Upto(n) == [i \in 1 .. n |-> i]

Log == backlog[master.log]

AppendBytes(b, x) == [b EXCEPT !.buf = Append(@, x), !.current = @ + 1]

\* getSnapshotAfter; as a slice it exists for positions inside the buffer only.
After(buf, n) == SubSeq(buf, n + 1, Len(buf))

\* isValidOffset
IsValidOffset(n) == n >= Log.begin /\ n < Log.current

\* A panic ends the process.
Alive == ~crashed /\ UNCHANGED crashed

\* What happens to the system from outside, until it is spoiled; see ReplicaFollows.
Quiet == spoiled = {}
Event == Quiet /\ events < MaxEvents /\ events' = events + 1

Spoil(what, cond) == spoiled' = IF cond THEN spoiled \cup {what} ELSE spoiled

-------------------------------------------------------------------------------
(* The writer of the file *)

PausingAof == writer.pc # "idle" \/ sender["writer"].pc # "idle"

\* writeAof: the line, under pausingAof.
WriteLine ==
    /\ Alive
    /\ ~PausingAof
    /\ Event
    /\ file' = file + 1
    /\ writer' = [writer EXCEPT !.pc = "written"]
    /\ UNCHANGED <<listeners, ready, mu, master, backlog, slave, job, rdb, sender, task,
                   net, replica, spoiled>>

\* Its loop over the listeners.  startRewrite2RDB has excluded no writer, because it
\* locks a mutex of its own: a line may fall between size and listener.
CallListeners ==
    /\ Alive
    /\ writer.pc = "written"
    /\ writer' = [pc |-> IF listeners = {} THEN "idle" ELSE "call", todo |-> listeners]
    /\ Spoil("copy", \E j \in Jobs : job[j].pc = "register" /\ job[j].size < file)
    /\ UNCHANGED <<file, listeners, ready, mu, master, backlog, slave, job, rdb, sender,
                   task, net, replica, events>>

\* Callback: the line to the backlog of the listener, then the slaves.
Callback(j) ==
    /\ Alive
    /\ writer.pc = "call" /\ sender["writer"].pc = "idle"
    /\ j \in writer.todo
    /\ mu = Nil
    /\ backlog' = [backlog EXCEPT ![LogOf(j)] = AppendBytes(@, file)]
    /\ writer' = [pc |-> IF writer.todo = {j} THEN "idle" ELSE "call", todo |-> writer.todo \ {j}]
    /\ sender' = IF j \in ready THEN [sender EXCEPT !["writer"].pc = "snapshot"] ELSE sender
    /\ UNCHANGED <<file, listeners, ready, mu, master, slave, job, rdb, task, net, replica,
                   spoiled, events>>

-------------------------------------------------------------------------------
(* masterSendUpdatesToSlave *)

Idle == [pc |-> "idle", begin |-> 0, buf |-> <<>>, current |-> 0, todo |-> {}, conn |-> Nil]

\* The copy of what there is to send, under the mutex.
Snapshot(p) ==
    /\ Alive
    /\ sender[p].pc = "snapshot"
    /\ mu = Nil
    /\ sender' = [sender EXCEPT ![p] =
           IF master.online = {} THEN Idle
           ELSE [pc |-> "send", begin |-> Log.begin, buf |-> Log.buf,
                 current |-> Log.current, todo |-> master.online, conn |-> Nil]]
    /\ Spoil("senders", \E q \in Senders \ {p} : sender[q].pc # "idle")
    /\ UNCHANGED <<file, writer, listeners, ready, mu, master, backlog, slave, job, rdb,
                   task, net, replica, events>>

\* removeSlave
Forget(m, c) ==
    [m EXCEPT !.slaveMap = @ \ {c}, !.online = @ \ {c},
              !.waitSlaves = IF @ = Nil THEN Nil ELSE @ \ {c}]

\* slave.offset = currentOffset is a step of its own, after the write.
SendTo(p, c) ==
    LET from == slave[c].offset - sender[p].begin
    IN  /\ Alive
        /\ sender[p].pc = "send" /\ c \in sender[p].todo
        /\ from \in 0 .. Len(sender[p].buf)
        /\ open[c] = "open"
        /\ down' = [down EXCEPT ![c] = @ \o Lines(After(sender[p].buf, from))]
        /\ sender' = [sender EXCEPT ![p].pc = "advance", ![p].conn = c]
        /\ UNCHANGED <<file, writer, listeners, ready, mu, master, backlog, slave, job, rdb,
                       task, open, up, replica, spoiled, events>>

Served(p, c) ==
    IF sender[p].todo = {c} THEN Idle
    ELSE [sender[p] EXCEPT !.pc = "send", !.todo = @ \ {c}, !.conn = Nil]

Advance(p) ==
    LET c == sender[p].conn
    IN  /\ Alive
        /\ sender[p].pc = "advance"
        /\ slave' = [slave EXCEPT ![c].offset = sender[p].current]
        /\ sender' = [sender EXCEPT ![p] = Served(p, c)]
        /\ UNCHANGED <<file, writer, listeners, ready, mu, master, backlog, job, rdb, task,
                       net, replica, spoiled, events>>

SendFails(p, c) ==
    /\ Alive
    /\ sender[p].pc = "send" /\ c \in sender[p].todo
    /\ slave[c].offset - sender[p].begin \in 0 .. Len(sender[p].buf)
    /\ open[c] = "closed"
    /\ mu = Nil
    /\ master' = Forget(master, c)
    /\ sender' = [sender EXCEPT ![p] = Served(p, c)]
    /\ UNCHANGED <<file, writer, listeners, ready, mu, backlog, slave, job, rdb, task, net,
                   replica, spoiled, events>>

\* An offset outside the snapshot is a slice out of range, on a goroutine that does
\* not recover.
SendPanics(p, c) ==
    /\ sender[p].pc = "send" /\ c \in sender[p].todo
    /\ slave[c].offset - sender[p].begin \notin 0 .. Len(sender[p].buf)
    /\ ~crashed /\ crashed' = TRUE
    /\ UNCHANGED <<file, writer, listeners, ready, mu, master, backlog, slave, job, rdb,
                   sender, task, net, replica, spoiled, events>>

-------------------------------------------------------------------------------
(* The cron *)

\* masterCron without slaves returns and keeps the mutex.
CronKeepsMutex ==
    /\ Alive
    /\ mu = Nil /\ sender["cron"].pc = "idle"
    /\ master.slaveMap = {} /\ Quiet
    /\ mu' = "cron"
    /\ UNCHANGED <<file, writer, listeners, ready, master, backlog, slave, job, rdb, sender,
                   task, net, replica, spoiled, events>>

\* A ping to the backlog, updates to the slaves, and a new dump if the backlog is long.
CronPings ==
    /\ Alive
    /\ mu = Nil /\ sender["cron"].pc = "idle"
    /\ master.slaveMap # {}
    /\ Event
    /\ backlog' = IF master.saveState = "finish"
                  THEN [backlog EXCEPT ![master.log] = AppendBytes(@, 0)] ELSE backlog
    /\ sender' = [sender EXCEPT !["cron"].pc = "snapshot"]
    /\ job' = IF Len(backlog'[master.log].buf) > MaxBacklog /\ job[Rewriter].pc = "idle"
              THEN [job EXCEPT ![Rewriter].pc = "size"] ELSE job
    /\ UNCHANGED <<file, writer, listeners, ready, mu, master, slave, rdb, task, net,
                   replica, spoiled>>

-------------------------------------------------------------------------------
(* Dumps: saveForReplication and rewriteRDB *)

\* bgSaveState says running only once the goroutine has the mutex.
SaveBegins(j) ==
    /\ Alive
    /\ job[j].pc = "begin"
    /\ mu = Nil
    /\ master' = [master EXCEPT !.saveState = "running", !.rdbFile = j, !.listener = j]
    /\ job' = [job EXCEPT ![j].pc = "size"]
    /\ Spoil("savers", \E i \in Savers \ {j} : job[i].pc # "idle")
    /\ UNCHANGED <<file, writer, listeners, ready, mu, backlog, slave, rdb, sender, task,
                   net, replica, events>>

\* The receiver of Rewrite2RDBForReplication is a value: the persister is copied with
\* the mutex as it is.  Nobody unlocks a copy that is locked; a copy that is not, made
\* at some moment before, excludes nobody.
TakeSize(j) ==
    /\ Alive
    /\ job[j].pc = "size"
    /\ \/ job' = [job EXCEPT ![j].pc = "register", ![j].size = file]
       \/ PausingAof /\ job' = [job EXCEPT ![j].pc = "stuck"]
    /\ UNCHANGED <<file, writer, listeners, ready, mu, master, backlog, slave, rdb, sender,
                   task, net, replica, spoiled, events>>

\* The listener, and for rewriteRDB the hook that follows: a line that is in the dump
\* and still on its way to the listeners comes twice.
Register(j) ==
    /\ Alive
    /\ job[j].pc = "register"
    /\ listeners' = listeners \cup {j}
    /\ job' = [job EXCEPT ![j].pc = IF j = Rewriter THEN "hook" ELSE "rewrite"]
    /\ Spoil("copy", writer.pc = "written" /\ job[j].size = file)
    /\ UNCHANGED <<file, writer, ready, mu, master, backlog, slave, rdb, sender, task, net,
                   replica, events>>

\* newBacklog.currentOffset stays 0.
Hook ==
    /\ Alive
    /\ job[Rewriter].pc = "hook"
    /\ mu = Nil
    /\ backlog' = [backlog EXCEPT !["new"].begin = Log.current]
    /\ job' = [job EXCEPT ![Rewriter].pc = "rewrite"]
    /\ UNCHANGED <<file, writer, listeners, ready, mu, master, slave, rdb, sender, task,
                   net, replica, spoiled, events>>

\* rewrite2RDB, and the rename over the file of the dump.
RewriteRDB(j) ==
    /\ Alive
    /\ job[j].pc = "rewrite"
    /\ rdb' = [rdb EXCEPT ![j] = job[j].size]
    /\ job' = [job EXCEPT ![j].pc = IF j = Rewriter THEN "swap" ELSE "finish"]
    /\ UNCHANGED <<file, writer, listeners, ready, mu, master, backlog, slave, sender, task,
                   net, replica, spoiled, events>>

\* An error: bgSaveState stays running, the listener stays registered.
RewriteFails(j) ==
    /\ Alive
    /\ job[j].pc = "rewrite"
    /\ job' = [job EXCEPT ![j].pc = "failed"]
    /\ UNCHANGED <<file, writer, listeners, ready, mu, master, backlog, slave, rdb, sender,
                   task, net, replica, spoiled, events>>

\* saveForReplication sets readyToSend, takes the waiting slaves and leaves a nil map
\* behind.
SaveFinishes(j) ==
    /\ Alive
    /\ job[j].pc = "finish" /\ j # Rewriter
    /\ mu = Nil
    /\ job' = [job EXCEPT ![j].pc = "sync",
                          ![j].todo = IF master.waitSlaves = Nil THEN {} ELSE master.waitSlaves]
    /\ master' = [master EXCEPT !.saveState = "finish", !.waitSlaves = Nil]
    /\ ready' = ready \cup {j}
    /\ UNCHANGED <<file, writer, listeners, mu, backlog, slave, rdb, sender, task,
                   net, replica, spoiled, events>>

\* ... and resynchronises them one after the other.
NextWaiting(j, c) ==
    /\ Alive
    /\ job[j].pc = "sync" /\ c \in job[j].todo
    /\ \A d \in Conns : task[d].by # j
    /\ job' = [job EXCEPT ![j].todo = @ \ {c}]
    /\ task' = [task EXCEPT ![c] = [@ EXCEPT !.by = j, !.pc = "full"]]
    /\ UNCHANGED <<file, writer, listeners, ready, mu, master, backlog, slave, rdb, sender,
                   net, replica, spoiled, events>>

\* rewriteRDB puts dump and backlog into place and keeps the mutex for RemoveListener,
\* which wants pausingAof.
SwapBacklog ==
    /\ Alive
    /\ job[Rewriter].pc = "swap"
    /\ mu = Nil
    /\ mu' = "rewriter"
    /\ master' = [master EXCEPT !.rdbFile = Rewriter, !.log = "new"]
    /\ job' = [job EXCEPT ![Rewriter].pc = "remove"]
    /\ spoiled' = spoiled \cup {"swap"}
    /\ UNCHANGED <<file, writer, listeners, ready, backlog, slave, rdb, sender, task, net,
                   replica, events>>

RemoveListener ==
    /\ Alive
    /\ job[Rewriter].pc = "remove"
    /\ ~PausingAof
    /\ listeners' = listeners \ {master.listener}
    /\ master' = [master EXCEPT !.listener = Rewriter]
    /\ mu' = Nil
    /\ ready' = ready \cup {Rewriter}
    /\ job' = [job EXCEPT ![Rewriter].pc = "done"]
    /\ UNCHANGED <<file, writer, backlog, slave, rdb, sender, task, net, replica, spoiled,
                   events>>

-------------------------------------------------------------------------------
(* The resynchronisation of a connection *)

NoTask == [by |-> Nil, pc |-> "idle", from |-> 0, current |-> 0]

\* masterTryPartialSyncWithSlave: the decision and the snapshot are made under the mutex.
\* Nobody else writes to a connection that is not online, so the write is part of it.
TryPartialSync(c) ==
    /\ Alive
    /\ task[c].pc = "partial" /\ open[c] = "open"
    /\ mu = Nil
    /\ IsValidOffset(task[c].from)
    /\ down' = [down EXCEPT ![c] = @ \o <<Message("continue", 0)>> \o
                                   Lines(After(Log.buf, task[c].from - Log.begin))]
    /\ task' = [task EXCEPT ![c].pc = "online", ![c].current = Log.current]
    /\ UNCHANGED <<file, writer, listeners, ready, mu, master, backlog, slave, job, rdb,
                   sender, open, up, replica, spoiled, events>>

CannotPartialSync(c) ==
    /\ Alive
    /\ task[c].pc = "partial"
    /\ mu = Nil
    /\ ~IsValidOffset(task[c].from)
    /\ task' = [task EXCEPT ![c].pc = "full"]
    /\ UNCHANGED <<file, writer, listeners, ready, mu, master, backlog, slave, job, rdb,
                   sender, net, replica, spoiled, events>>

\* masterFullReSyncWithSlave: without the mutex a header with the begin of the backlog,
\* and the dump,
SendRDB(c) ==
    /\ Alive
    /\ task[c].pc = "full" /\ open[c] = "open"
    /\ slave' = [slave EXCEPT ![c].state = "sending"]
    /\ down' = [down EXCEPT ![c] = Append(@, Dumped(Log.begin, rdb[master.rdbFile]))]
    /\ task' = [task EXCEPT ![c].pc = "backlog"]
    /\ UNCHANGED <<file, writer, listeners, ready, mu, master, backlog, job, rdb, sender,
                   open, up, replica, spoiled, events>>

\* and the whole backlog.
SendBacklog(c) ==
    /\ Alive
    /\ task[c].pc = "backlog" /\ open[c] = "open"
    /\ mu = Nil
    /\ down' = [down EXCEPT ![c] = @ \o Lines(Log.buf)]
    /\ task' = [task EXCEPT ![c].pc = "online", ![c].current = Log.current]
    /\ UNCHANGED <<file, writer, listeners, ready, mu, master, backlog, slave, job, rdb,
                   sender, open, up, replica, spoiled, events>>

\* Mutant: what the backlog has by now instead of what was sent.
SetSlaveOnlineMutant(c) ==
    /\ Alive
    /\ task[c].pc = "online"
    /\ mu = Nil
    /\ slave' = [slave EXCEPT ![c] = [state |-> "online", offset |-> Log.current]]
    /\ master' = [master EXCEPT !.online = @ \cup {c}]
    /\ task' = [task EXCEPT ![c] = NoTask]
    /\ UNCHANGED <<file, writer, listeners, ready, mu, backlog, job, rdb, sender, net,
                   replica, spoiled, events>>

SetSlaveOnline(c) ==
    /\ Alive
    /\ task[c].pc = "online"
    /\ mu = Nil
    /\ slave' = [slave EXCEPT ![c] = [state |-> "online", offset |-> task[c].current]]
    /\ master' = [master EXCEPT !.online = @ \cup {c}]
    /\ task' = [task EXCEPT ![c] = NoTask]
    /\ UNCHANGED <<file, writer, listeners, ready, mu, backlog, job, rdb, sender, net,
                   replica, spoiled, events>>

SyncFails(c) ==
    /\ Alive
    /\ task[c].pc \in {"partial", "full", "backlog"} /\ open[c] = "closed"
    /\ mu = Nil
    /\ master' = Forget(master, c)
    /\ task' = [task EXCEPT ![c] = NoTask]
    /\ UNCHANGED <<file, writer, listeners, ready, mu, backlog, slave, job, rdb, sender, net,
                   replica, spoiled, events>>

-------------------------------------------------------------------------------
(* Requests of replicas *)

Request(c, type) == up[c] # <<>> /\ Head(up[c]).type = type

Serve(c) == up' = [up EXCEPT ![c] = Tail(@)]

\* Mutant: a slave that comes while the dump is running does not wait for it.
WaitMutant(m, c) == IF m.saveState = "running" THEN m ELSE [m EXCEPT !.waitSlaves = @ \cup {c}]

Wait(m, c) == [m EXCEPT !.waitSlaves = @ \cup {c}]

NewSlave(c) == [master EXCEPT !.slaveMap = @ \cup {c}]

\* execPSync before the dump is finished: the slave waits, and starts the dump if none
\* is running.
PSyncWaits(c) ==
    /\ Alive
    /\ Request(c, "psync")
    /\ mu = Nil
    /\ master.saveState \in {"idle", "running"} /\ master.waitSlaves # Nil
    /\ master' = Wait(NewSlave(c), c)
    /\ slave' = [slave EXCEPT ![c].state = "waiting"]
    /\ IF master.saveState = "running" THEN UNCHANGED job
       ELSE \E j \in Savers :
               /\ job[j].pc = "idle"
               /\ \A i \in Savers : i < j => job[i].pc # "idle"
               /\ job' = [job EXCEPT ![j].pc = "begin"]
    /\ Serve(c)
    /\ UNCHANGED <<file, writer, listeners, ready, mu, backlog, rdb, sender, task, open, down,
                   replica, spoiled, events>>

\* The map of waiting slaves is nil: a panic that Server.Exec answers with an error.
PSyncPanics(c) ==
    /\ Alive
    /\ Request(c, "psync")
    /\ mu = Nil
    /\ master.saveState \in {"idle", "running"} /\ master.waitSlaves = Nil
    /\ master' = NewSlave(c)
    /\ slave' = [slave EXCEPT ![c].state = "waiting"]
    /\ down' = [down EXCEPT ![c] = Append(@, Message("err", 0))]
    /\ Serve(c)
    /\ UNCHANGED <<file, writer, listeners, ready, mu, backlog, job, rdb, sender, task, open,
                   replica, spoiled, events>>

PSyncAfterDump(c) ==
    /\ Alive
    /\ Request(c, "psync")
    /\ mu = Nil
    /\ master.saveState = "finish"
    /\ master' = NewSlave(c)
    /\ task' = [task EXCEPT ![c] = [NoTask EXCEPT !.pc = "partial", !.from = Head(up[c]).n]]
    /\ Serve(c)
    /\ UNCHANGED <<file, writer, listeners, ready, mu, backlog, slave, job, rdb, sender, open,
                   down, replica, spoiled, events>>

\* execReplConf: the offset is taken as it is, although lines may be on their way.
ReplConfAck(c) ==
    /\ Alive
    /\ Request(c, "ack")
    /\ mu = Nil
    /\ slave' = IF c \in master.slaveMap
                THEN [slave EXCEPT ![c].offset = Head(up[c]).n] ELSE slave
    /\ Spoil("ack", c \in master.online /\ slave[c].offset # Head(up[c]).n)
    /\ Serve(c)
    /\ UNCHANGED <<file, writer, listeners, ready, mu, master, backlog, job, rdb, sender,
                   task, open, down, replica, events>>

-------------------------------------------------------------------------------
(* Replicas *)

Off(r) == [replica EXCEPT ![r] = [@ EXCEPT !.pc = "off", !.conn = Nil, !.known = FALSE,
                                           !.offset = -1]]

\* connectWithMaster: a new connection, and PSYNC with what is known.
Connect(r, c) ==
    /\ Alive
    /\ open[c] = "new" /\ Quiet /\ replica[r].pc \in {"off", "lost"}
    /\ open' = [open EXCEPT ![c] = "open"]
    /\ up' = [up EXCEPT ![c] =
           <<Message("psync", IF replica[r].known THEN replica[r].offset ELSE -1)>>]
    /\ replica' = [replica EXCEPT ![r].pc = "handshake", ![r].conn = c]
    /\ UNCHANGED <<file, writer, listeners, ready, mu, master, backlog, slave, job, rdb,
                   sender, task, down, spoiled, events>>

\* Replica r, at pc, has something to read.
Reads(r, pc) ==
    replica[r].pc = pc /\ replica[r].conn # Nil /\ down[replica[r].conn] # <<>>

Incoming(r) == Head(down[replica[r].conn])

Receive(r) == down' = [down EXCEPT ![replica[r].conn] = Tail(@)]

\* psyncHandshake, and loadMasterRDB after it: what is no header ends in slaveOfNone,
\* and so does a file that is empty.
ReceiveHeader(r) ==
    LET m == Incoming(r)
        good == m.type = "continue" \/ (m.type = "full" /\ m.size # Nil)
        offset == IF m.type = "full" THEN m.n ELSE replica[r].offset
        data == IF m.type = "full" THEN Upto(m.size) ELSE replica[r].data
    IN  /\ Alive
        /\ Reads(r, "handshake")
        /\ replica' = IF ~good THEN Off(r)
                      ELSE [replica EXCEPT ![r] = [@ EXCEPT !.pc = "stream", !.known = TRUE,
                                                            !.offset = offset, !.data = data]]
        /\ open' = IF good THEN open ELSE [open EXCEPT ![replica[r].conn] = "closed"]
        /\ Receive(r)
        /\ UNCHANGED <<file, writer, listeners, ready, mu, master, backlog, slave, job, rdb,
                       sender, task, up, spoiled, events>>

\* receiveAOF
ReceiveLine(r) ==
    LET n == Incoming(r).n
    IN  /\ Alive
        /\ Reads(r, "stream")
        /\ replica' = [replica EXCEPT ![r].offset = @ + 1,
                                      ![r].data = IF n = 0 THEN @ ELSE Append(@, n)]
        /\ Receive(r)
        /\ UNCHANGED <<file, writer, listeners, ready, mu, master, backlog, slave, job, rdb,
                       sender, task, open, up, spoiled, events>>

\* sendAck2Master: whatever has arrived.
Ack(r) ==
    /\ Alive
    /\ replica[r].pc = "stream" /\ Event
    /\ up' = [up EXCEPT ![replica[r].conn] = Append(@, Message("ack", replica[r].offset))]
    /\ UNCHANGED <<file, writer, listeners, ready, mu, master, backlog, slave, job, rdb,
                   sender, task, open, down, replica, spoiled>>

\* The connection breaks.  A replica that has its data keeps what it knows and
\* reconnects; before that it gives up.
Disconnect(r) ==
    /\ Alive
    /\ replica[r].conn # Nil /\ Event
    /\ open' = [open EXCEPT ![replica[r].conn] = "closed"]
    /\ down' = [down EXCEPT ![replica[r].conn] = <<>>]
    /\ replica' = IF replica[r].pc = "stream"
                  THEN [replica EXCEPT ![r].pc = "lost", ![r].conn = Nil] ELSE Off(r)
    /\ UNCHANGED <<file, writer, listeners, ready, mu, master, backlog, slave, job, rdb,
                   sender, task, up, spoiled>>

-------------------------------------------------------------------------------

Init ==
    /\ file = 0
    /\ writer = [pc |-> "idle", todo |-> {}]
    /\ listeners = {} /\ ready = {}
    /\ mu = Nil
    /\ master = [log |-> "first", saveState |-> "idle", rdbFile |-> Nil, listener |-> Nil,
                 slaveMap |-> {}, waitSlaves |-> {}, online |-> {}]
    /\ backlog = [l \in Logs |-> [buf |-> <<>>, begin |-> 0, current |-> 0]]
    /\ slave = [c \in Conns |-> [state |-> "handshake", offset |-> 0]]
    /\ job = [j \in Jobs |-> [pc |-> "idle", size |-> 0, todo |-> {}]]
    /\ rdb = [j \in Jobs |-> Nil]
    /\ sender = [p \in Senders |-> Idle]
    /\ task = [c \in Conns |-> NoTask]
    /\ open = [c \in Conns |-> "new"]
    /\ up = [c \in Conns |-> <<>>]
    /\ down = [c \in Conns |-> <<>>]
    /\ replica = [r \in Replicas |-> [pc |-> "off", conn |-> Nil, known |-> FALSE,
                                       offset |-> 0, data |-> <<>>]]
    /\ crashed = FALSE
    /\ spoiled = {}
    /\ events = 0

Write == WriteLine \/ CallListeners \/ \E j \in Jobs : Callback(j)

Send ==
    \E p \in Senders :
        \/ Snapshot(p) \/ Advance(p)
        \/ \E c \in Conns : SendTo(p, c) \/ SendFails(p, c) \/ SendPanics(p, c)

Cron == CronKeepsMutex \/ CronPings

Dump ==
    \/ \E j \in Savers : SaveBegins(j) \/ SaveFinishes(j)
    \/ \E j \in Jobs : TakeSize(j) \/ Register(j) \/ RewriteRDB(j)
                        \/ RewriteFails(j)
    \/ \E j \in Savers, c \in Conns : NextWaiting(j, c)
    \/ Hook \/ SwapBacklog \/ RemoveListener

Sync ==
    \E c \in Conns : \/ TryPartialSync(c) \/ CannotPartialSync(c) \/ SendRDB(c)
                     \/ SendBacklog(c) \/ SetSlaveOnline(c) \/ SyncFails(c)

Requests ==
    \E c \in Conns : PSyncWaits(c) \/ PSyncPanics(c) \/ PSyncAfterDump(c) \/ ReplConfAck(c)

Replica ==
    \E r \in Replicas : \/ \E c \in Conns : Connect(r, c)
                        \/ ReceiveHeader(r) \/ ReceiveLine(r)
                        \/ Ack(r) \/ Disconnect(r)

Next == Write \/ Send \/ Cron \/ Dump \/ Sync \/ Requests \/ Replica

Spec == Init /\ [][Next]_vars

-------------------------------------------------------------------------------
(* Properties *)

TypeOK ==
    /\ file \in Nat /\ events \in Nat
    /\ writer \in [pc : {"idle", "written", "call"}, todo : SUBSET Jobs]
    /\ listeners \in SUBSET Jobs /\ ready \in SUBSET Jobs
    /\ mu \in {Nil, "cron", "rewriter"}
    /\ master \in [log : Logs, saveState : {"idle", "running", "finish"},
                   rdbFile : Jobs \cup {Nil}, listener : Jobs \cup {Nil},
                   slaveMap : SUBSET Conns, waitSlaves : (SUBSET Conns) \cup {Nil},
                   online : SUBSET Conns]
    /\ backlog \in [Logs -> [buf : Seq(Nat), begin : Nat, current : Nat]]
    /\ Len(backlog["first"].buf) = backlog["first"].current
    /\ slave \in [Conns -> [state : {"handshake", "waiting", "sending", "online"},
                            offset : Int]]
    /\ job \in [Jobs -> [pc : {"idle", "begin", "stuck", "size", "register", "hook",
                               "rewrite", "failed", "finish", "sync", "swap", "remove", "done"},
                         size : Nat, todo : SUBSET Conns]]
    /\ rdb \in [Jobs -> Nat \cup {Nil}]
    /\ sender \in [Senders -> [pc : {"idle", "snapshot", "send", "advance"}, begin : Nat,
                               buf : Seq(Nat), current : Nat, todo : SUBSET Conns,
                               conn : Conns \cup {Nil}]]
    /\ task \in [Conns -> [by : Jobs \cup {Nil}, from : Int, current : Nat,
                           pc : {"idle", "partial", "full", "backlog", "online"}]]
    /\ open \in [Conns -> {"new", "open", "closed"}]
    /\ \A c \in Conns : /\ \A i \in DOMAIN up[c] : up[c][i].type \in {"psync", "ack"}
                        /\ \A i \in DOMAIN down[c] :
                               down[c][i].type \in {"line", "full", "continue", "err"}
    /\ replica \in [Replicas -> [pc : {"off", "handshake", "stream", "lost"},
                                 conn : Conns \cup {Nil}, known : BOOLEAN, offset : Int,
                                 data : Seq(Nat)]]
    /\ crashed \in BOOLEAN
    /\ spoiled \in SUBSET {"copy", "savers", "swap", "senders", "ack"}

(***************************************************************************)
(* What can go wrong, and nothing in the code prevents, is noted in         *)
(* "spoiled": a line written between the size of the file and the listener  *)
(* ("copy"), two PSYNCs that both start a dump ("savers"), a new backlog    *)
(* whose offsets start again at 0 ("swap"), the writer and the cron that    *)
(* send at the same time ("senders"), an ACK that is behind what has been   *)
(* sent ("ack").                                                            *)
(***************************************************************************)

\* What a replica with an offset must hold: the dump and the backlog up to there.
Held(n) ==
    LET data[i \in 0 .. n - Log.begin] ==
            IF i = 0 THEN Upto(rdb[master.rdbFile])
            ELSE IF Log.buf[i] = 0 THEN data[i - 1]
            ELSE Append(data[i - 1], Log.buf[i])
    IN  data[n - Log.begin]

\* As long as none of these happens, a replica that streams holds exactly the first
\* lines of the file, once and in order: dump, backlog and updates fit together in a full
\* resynchronisation, a partial one and after reconnects, and its offset is the place in the
\* backlog from which it can go on; and the master does not panic.
\* (saveForReplication, masterFullReSyncWithSlave, masterTryPartialSyncWithSlave, receiveAOF)
ReplicaFollows ==
    spoiled = {} =>
        /\ ~crashed
        /\ \A r \in Replicas :
               replica[r].pc \in {"stream", "lost"} =>
                   /\ replica[r].data = Held(replica[r].offset)
                   /\ replica[r].data = Upto(Len(replica[r].data))
                   /\ Len(replica[r].data) <= file

\* A slave that was told to wait for the dump is remembered by somebody who will serve
\* it: the map of waiting slaves, the goroutine that has taken it from there, or its
\* resynchronisation.  A second dump, which makes PSYNC panic, is the exception.
\* (execPSync and saveForReplication)
NobodyForgotten ==
    "savers" \notin spoiled =>
        \A c \in master.slaveMap :
            slave[c].state = "waiting" =>
                \/ master.waitSlaves # Nil /\ c \in master.waitSlaves
                \/ \E j \in Savers : c \in job[j].todo
                \/ task[c].pc # "idle"

\* replication_master.go:159: "pausing aof first, then lock masterStatus.  use the same
\* order as replAofListener to avoid dead lock".  rewriteRDB must not wait for pausingAof
\* with the mutex while the holder of pausingAof waits for the mutex.
NoLockInversion ==
    ~ /\ mu = "rewriter" /\ job[Rewriter].pc = "remove"
      /\ \/ writer.pc = "call" /\ writer.todo # {}
         \/ sender["writer"].pc = "snapshot"

===============================================================================
