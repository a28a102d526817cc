------------------------------ MODULE Transaction ------------------------------
(***************************************************************************)
(* pkg/database: commands, MULTI / EXEC / DISCARD and WATCH on one database *)
(* (database.go, transaction.go, tx_utils.go) and the transaction state of *)
(* a client connection (pkg/connection/conn.go).                           *)
(*                                                                         *)
(* Each connection is served by one goroutine.  A normal command bumps the *)
(* versions of its write keys, then locks its keys, runs and unlocks.  EXEC *)
(* locks the keys of its whole queue and the watched ones, compares the    *)
(* versions, runs the queue and bumps the versions; when a command fails it *)
(* runs the undo logs of those before it.  Locking is KeyLocks, which      *)
(* LockMap is proved to implement.                                         *)
(*                                                                         *)
(* A command is a record of its name, its keys and the value it writes.    *)
(* The commands stand for the families of string_cmd.go and keys.go: a     *)
(* plain write (set, mset), a read-modify-write that can fail (incr), a    *)
(* read (get), del, and rename, whose source is only locked for reading.   *)
(* Every error a command can meet in EXEC behaves as one of those two.     *)
(***************************************************************************)
EXTENDS Integers, Sequences, SequencesExt

CONSTANTS
    Conns,        \* client connections, each with its goroutine
    Keys,
    Normal,       \* the commands each client sends outside MULTI: [op, keys, val]
    Queued,       \* those it sends inside MULTI
    WatchKeys,    \* the keys it watches
    InitData,     \* what the database holds at first
    Nil,          \* the value of a missing key
    Text,         \* a string that is not an integer
    IntMod,       \* integers wrap, as int64 does
    MaxQueue,     \* bound on the commands of a transaction
    MaxVersion    \* bound on the versions of a key

Cmds == UNION {Normal[c] \cup Queued[c] : c \in Conns}
Values == 0 .. IntMod - 1 \cup {Nil, Text}

Ops == {"set", "mset", "incr", "get", "del", "rename"}

ASSUME NilAssumption == Nil \notin Int /\ Text \notin Int /\ Nil # Text
ASSUME IntAssumption == IntMod \in Nat /\ IntMod > 1
ASSUME DataAssumption == InitData \in [Keys -> Values]
ASSUME CmdAssumption ==
    \A cmd \in Cmds : /\ cmd \in [op : Ops, keys : Seq(Keys), val : Values]
                      /\ cmd.keys # <<>>
                      /\ cmd.op = "rename" => Len(cmd.keys) = 2
ASSUME WatchAssumption == \A c \in Conns : WatchKeys[c] \subseteq Keys

VARIABLES
    data,         \* DB.data: the entity of each key
    version,      \* DB.versionMap
    conn,         \* Connection: flagMulti, queue, watching, txErrors
    run           \* what the goroutine of a connection is doing

vars == <<data, version, conn, run>>

Unwatched == -1   \* the key is not in Connection.watching
Unread == -1      \* GetVersion of addVersion is still to come

KeysOf(cmd) == ToSet(cmd.keys)

\* The prepare functions: the keys locked for writing, in the order addVersion
\* goes through them, and those locked for reading.
WriteSeq(cmd) ==
    CASE cmd.op = "get" -> <<>>
      [] cmd.op = "rename" -> <<cmd.keys[2]>>
      [] OTHER -> cmd.keys
WriteKeys(cmd) == ToSet(WriteSeq(cmd))
ReadKeys(cmd) == IF cmd.op \in {"get", "rename"} THEN {cmd.keys[1]} ELSE {}

\* The executors: the first key's value v has been read; whether the command
\* answers with an error, and the data it leaves.
Fails(cmd, v) == \/ cmd.op = "incr" /\ v = Text
                 \/ cmd.op = "rename" /\ v = Nil

\* Mutant: incr does not wrap.
IncrementMutant(v) == IF v = Nil THEN 1 ELSE v + 1

\* execIncr on an integer.
Increment(v) == IF v = Nil THEN 1 ELSE (v + 1) % IntMod

Effect(cmd, v, d) ==
    CASE cmd.op = "get" -> d
      [] cmd.op = "incr" -> [d EXCEPT ![cmd.keys[1]] = Increment(v)]
      [] cmd.op = "rename" -> [d EXCEPT ![cmd.keys[2]] = v, ![cmd.keys[1]] = Nil]
      [] cmd.op = "del" -> [k \in Keys |-> IF k \in KeysOf(cmd) THEN Nil ELSE d[k]]
      [] OTHER -> [k \in Keys |-> IF k \in KeysOf(cmd) THEN cmd.val ELSE d[k]]

\* Mutant: the undo log covers the keys that exist instead of the missing ones.
UndoLogMutant(cmd, d) == IF cmd.op = "get" THEN {} ELSE {k \in KeysOf(cmd) : d[k] # Nil}

\* GetUndoLogs: RollbackGivenKeys plans a DEL of the keys that do not exist and
\* nothing for those that do; read commands have no undo function.
UndoLog(cmd, d) == IF cmd.op = "get" THEN {} ELSE {k \in KeysOf(cmd) : d[k] = Nil}

-------------------------------------------------------------------------------
NoConn == [multi |-> FALSE, queue |-> <<>>, watching |-> [k \in Keys |-> Unwatched],
           txErr |-> FALSE, quiet |-> {}, touched |-> {}]

Idle == [pc |-> "idle", tx |-> FALSE, cmds |-> <<>>, i |-> 1, bump |-> {}, seen |-> Unread,
         check |-> {}, loc |-> Nil, undo |-> <<>>, reply |-> "none",
         base |-> [k \in Keys |-> Nil]]

Init ==
    /\ data = InitData
    /\ version = [k \in Keys |-> 0]
    /\ conn = [c \in Conns |-> NoConn]
    /\ run = [c \in Conns |-> Idle]

Watched(c) == {k \in Keys : conn[c].watching[k] # Unwatched}

\* What addVersion goes through: the places of the write keys, command after command.
Places(cmds) == UNION {{<<i, j>> : j \in DOMAIN WriteSeq(cmds[i])} : i \in DOMAIN cmds}
KeyAt(c, p) == WriteSeq(run[c].cmds[p[1]])[p[2]]
FirstOf(ps) == {p \in ps : \A q \in ps : p[1] < q[1] \/ (p[1] = q[1] /\ p[2] <= q[2])}

Writes(c) == UNION {WriteKeys(run[c].cmds[j]) : j \in DOMAIN run[c].cmds}
Reads(c) == UNION {ReadKeys(run[c].cmds[j]) : j \in DOMAIN run[c].cmds}

\* Mutant: EXEC locks the keys of its first command only.
LockRequestMutant(c) ==
    LET first == {run[c].cmds[j] : j \in DOMAIN run[c].cmds \cap {1}}
    IN  [write |-> UNION {WriteKeys(cmd) : cmd \in first},
         read |-> UNION {ReadKeys(cmd) : cmd \in first}]

\* The footprint given to RWLocks: EXEC adds the watched keys to those it reads.
LockRequest(c) == [write |-> Writes(c),
                   read |-> Reads(c) \cup (IF run[c].tx THEN Watched(c) ELSE {})]

\* Between RWLocks and RWUnLocks; only EXEC bumps versions there.
Holding(c) == \/ run[c].pc \in {"check", "fetch", "apply", "rollback", "unlock"}
              \/ run[c].pc = "bump" /\ run[c].tx

Locks == INSTANCE KeyLocks WITH
    Procs <- Conns,
    granted <- [c \in Conns |-> IF Holding(c) THEN LockRequest(c)
                                ELSE [write |-> {}, read |-> {}]]

-------------------------------------------------------------------------------
(* Commands that only touch the connection *)

\* StartMulti.
Multi(c) ==
    /\ run[c].pc = "idle" /\ ~conn[c].multi /\ Queued[c] # {}
    /\ conn' = [conn EXCEPT ![c].multi = TRUE]
    /\ UNCHANGED <<data, version, run>>

\* SetMultiState(false): watching and queue are dropped, txErrors is kept.
LeaveMulti(s) == [NoConn EXCEPT !.txErr = s.txErr]

Discard(c) ==
    /\ run[c].pc = "idle" /\ conn[c].multi
    /\ conn' = [conn EXCEPT ![c] = LeaveMulti(@)]
    /\ UNCHANGED <<data, version, run>>

\* A normal command that writes k and is somewhere between addVersion and unlock.
InFlight(k) == \E d \in Conns : run[d].pc # "idle" /\ ~run[d].tx /\ k \in Writes(d)

\* Watch reads the version without a lock.  "quiet" and "touched" are history:
\* the keys watched while nobody was writing them, those written since.
Watch(c, k) ==
    /\ run[c].pc = "idle"
    /\ conn' = [conn EXCEPT
           ![c].watching[k] = version[k],
           ![c].quiet = IF InFlight(k) THEN @ \ {k} ELSE @ \cup {k},
           ![c].touched = @ \ {k}]
    /\ UNCHANGED <<data, version, run>>

\* EnqueueCmd, and its three error returns.
Enqueue(c, cmd) ==
    /\ run[c].pc = "idle" /\ conn[c].multi
    /\ Len(conn[c].queue) < MaxQueue
    /\ conn' = [conn EXCEPT ![c].queue = Append(@, cmd)]
    /\ UNCHANGED <<data, version, run>>

EnqueueError(c) ==
    /\ run[c].pc = "idle" /\ conn[c].multi
    /\ conn' = [conn EXCEPT ![c].txErr = TRUE]
    /\ UNCHANGED <<data, version, run>>

\* execMulti after an error in the queue.
ExecDiscarded(c) ==
    /\ run[c].pc = "idle" /\ conn[c].multi /\ conn[c].txErr
    /\ conn' = [conn EXCEPT ![c] = LeaveMulti(@)]
    /\ UNCHANGED <<data, version, run>>

-------------------------------------------------------------------------------
(* Running commands *)

\* Where a goroutine goes when addVersion has the places ps left.
AfterBump(ps, tx) == IF ps # {} THEN "bump" ELSE IF tx THEN "unlock" ELSE "lock"

\* Mutant: a command runs without bumping the versions.
StartNormalMutant(c, cmd) ==
    /\ run[c].pc = "idle" /\ ~conn[c].multi
    /\ run' = [run EXCEPT ![c] = [Idle EXCEPT !.pc = "lock", !.cmds = <<cmd>>]]
    /\ UNCHANGED <<data, version, conn>>

\* execNormalCommand.
StartNormal(c, cmd) ==
    /\ run[c].pc = "idle" /\ ~conn[c].multi
    /\ \A k \in WriteKeys(cmd) : version[k] < MaxVersion
    /\ run' = [run EXCEPT ![c] = [Idle EXCEPT !.pc = AfterBump(Places(<<cmd>>), FALSE),
                                              !.cmds = <<cmd>>, !.bump = Places(<<cmd>>)]]
    /\ UNCHANGED <<data, version, conn>>

\* execMulti and the key collection of ExecMulti.
StartExec(c) ==
    /\ run[c].pc = "idle" /\ conn[c].multi /\ ~conn[c].txErr
    /\ \A k \in Keys : version[k] < MaxVersion
    /\ run' = [run EXCEPT ![c] = [Idle EXCEPT !.pc = "lock", !.tx = TRUE,
                                              !.cmds = conn[c].queue, !.check = Watched(c)]]
    /\ UNCHANGED <<data, version, conn>>

\* addVersion: GetVersion, then Put, key by key and without a lock of its own.
GetVersion(c) ==
    /\ run[c].pc = "bump" /\ run[c].seen = Unread
    /\ \E p \in FirstOf(run[c].bump) : run' = [run EXCEPT ![c].seen = version[KeyAt(c, p)]]
    /\ UNCHANGED <<data, version, conn>>

PutVersion(c) ==
    /\ run[c].pc = "bump" /\ run[c].seen # Unread
    /\ \E p \in FirstOf(run[c].bump) :
           /\ version' = [version EXCEPT ![KeyAt(c, p)] = run[c].seen + 1]
           /\ run' = [run EXCEPT ![c].seen = Unread, ![c].bump = @ \ {p},
                                 ![c].pc = AfterBump(run[c].bump \ {p}, run[c].tx)]
    /\ UNCHANGED <<data, conn>>

\* Mutant: readers are not kept from a writer's keys.
LockMutant(c) ==
    /\ run[c].pc = "lock"
    /\ \A d \in Conns \ {c} : Holding(d) =>
           LockRequest(c).write \cap LockRequest(d).write = {}
    /\ run' = [run EXCEPT ![c].pc = IF run[c].tx THEN "check" ELSE "fetch"]
    /\ UNCHANGED <<data, version, conn>>

\* RWLocks returns.  "base" is history: the data the command finds under its keys.
Lock(c) ==
    /\ run[c].pc = "lock"
    /\ \A d \in Conns \ {c} : Holding(d) => Locks!Compatible(LockRequest(c), LockRequest(d))
    /\ run' = [run EXCEPT ![c].pc = IF run[c].tx THEN "check" ELSE "fetch",
                          ![c].base = [k \in Keys |->
                              IF k \in LockRequest(c).write \cup LockRequest(c).read
                              THEN data[k] ELSE Nil]]
    /\ UNCHANGED <<data, version, conn>>

\* isWatchingChanged, one watched key after the other.
WatchChanged(c) ==
    /\ run[c].pc = "check"
    /\ \E k \in run[c].check : version[k] # conn[c].watching[k]
    /\ run' = [run EXCEPT ![c].pc = "unlock", ![c].reply = "empty"]
    /\ UNCHANGED <<data, version, conn>>

WatchUnchanged(c) ==
    /\ run[c].pc = "check"
    /\ \E k \in run[c].check :
           /\ version[k] = conn[c].watching[k]
           /\ run' = [run EXCEPT ![c].check = @ \ {k}]
    /\ UNCHANGED <<data, version, conn>>

WatchPassed(c) ==
    /\ run[c].pc = "check" /\ run[c].check = {}
    /\ run' = IF run[c].cmds = <<>>
              THEN [run EXCEPT ![c].pc = "unlock", ![c].reply = "ok"]
              ELSE [run EXCEPT ![c].pc = "fetch"]
    /\ UNCHANGED <<data, version, conn>>

Current(c) == run[c].cmds[run[c].i]

\* EXEC asks for the undo log of the command; the executor reads its first key.
\* One step: a key the command writes is its own, and a source of rename that
\* disappears in between makes the command fail, which drops its undo log.
Fetch(c) ==
    /\ run[c].pc = "fetch"
    /\ run' = [run EXCEPT
           ![c].pc = "apply",
           ![c].loc = data[Current(c).keys[1]],
           ![c].undo = IF run[c].tx THEN Append(@, UndoLog(Current(c), data)) ELSE @]
    /\ UNCHANGED <<data, version, conn>>

\* The executor answers with an error: EXEC drops the undo log of the command
\* that failed and turns to those before it.
ApplyError(c) ==
    /\ run[c].pc = "apply" /\ Fails(Current(c), run[c].loc)
    /\ run' = [run EXCEPT ![c].pc = IF run[c].tx THEN "rollback" ELSE "unlock",
                          ![c].undo = IF run[c].tx THEN Front(@) ELSE @,
                          ![c].reply = "error"]
    /\ UNCHANGED <<data, version, conn>>

\* History: keys ks have been written under the lock.
Touch(ks) == [d \in Conns |-> [conn[d] EXCEPT !.touched = @ \cup (ks \cap Watched(d))]]

\* The executor writes; EXEC continues, and bumps every write key at the end.
Apply(c) ==
    /\ run[c].pc = "apply" /\ ~Fails(Current(c), run[c].loc)
    /\ data' = Effect(Current(c), run[c].loc, data)
    /\ IF run[c].i < Len(run[c].cmds)
       THEN /\ run' = [run EXCEPT ![c].i = @ + 1, ![c].pc = "fetch", ![c].loc = Nil]
            /\ UNCHANGED conn
       ELSE /\ LET ps == IF run[c].tx THEN Places(run[c].cmds) ELSE {}
               IN  run' = [run EXCEPT ![c].bump = ps, ![c].reply = "ok", ![c].loc = Nil,
                                      ![c].pc = AfterBump(ps, TRUE)]
            /\ conn' = Touch(Writes(c))
    /\ UNCHANGED version

\* The undo logs run in reverse order.  All of them are DELs of keys locked for
\* writing, so nobody sees the order.
Rollback(c) ==
    /\ run[c].pc = "rollback"
    /\ data' = [k \in Keys |-> IF k \in UNION ToSet(run[c].undo) THEN Nil ELSE data[k]]
    /\ run' = [run EXCEPT ![c].pc = "unlock"]
    /\ UNCHANGED <<version, conn>>

\* Mutant: the error path returns without unlocking.
UnlockMutant(c) ==
    /\ run[c].pc = "unlock"
    /\ run' = IF run[c].reply = "error" THEN run ELSE [run EXCEPT ![c] = Idle]
    /\ conn' = IF run[c].tx THEN [conn EXCEPT ![c] = LeaveMulti(@)] ELSE conn
    /\ UNCHANGED <<data, version>>

\* The deferred RWUnLocks, then the deferred SetMultiState(false) of execMulti.
Unlock(c) ==
    /\ run[c].pc = "unlock"
    /\ run' = [run EXCEPT ![c] = Idle]
    /\ conn' = IF run[c].tx THEN [conn EXCEPT ![c] = LeaveMulti(@)] ELSE conn
    /\ UNCHANGED <<data, version>>

Session(c) ==
    \/ Multi(c) \/ Discard(c) \/ EnqueueError(c) \/ ExecDiscarded(c)
    \/ \E k \in WatchKeys[c] : Watch(c, k)
    \/ \E cmd \in Queued[c] : Enqueue(c, cmd)

Start(c) == StartExec(c) \/ \E cmd \in Normal[c] : StartNormal(c, cmd)

Work(c) ==
    \/ GetVersion(c) \/ PutVersion(c)
    \/ WatchChanged(c) \/ WatchUnchanged(c) \/ WatchPassed(c)
    \/ Fetch(c) \/ Apply(c) \/ ApplyError(c) \/ Rollback(c) \/ Unlock(c)

Next == \E c \in Conns : Session(c) \/ Start(c) \/ Lock(c) \/ Work(c)

Spec == Init /\ [][Next]_vars

\* Goroutines inside a command are scheduled; a lock that is free again and
\* again is granted in the end (LockMap!EveryRequestGranted).
Fairness == \A c \in Conns : WF_vars(Work(c)) /\ SF_vars(Lock(c))
FairSpec == Spec /\ Fairness

-------------------------------------------------------------------------------
(* Properties *)

ConnType == [multi : BOOLEAN, queue : Seq(Cmds), watching : [Keys -> Nat \cup {Unwatched}],
             txErr : BOOLEAN, quiet : SUBSET Keys, touched : SUBSET Keys]

RunType == [pc : {"idle", "bump", "lock", "check", "fetch", "apply", "rollback", "unlock"},
            tx : BOOLEAN, cmds : Seq(Cmds), i : Nat, bump : SUBSET (Nat \X Nat),
            seen : Nat \cup {Unread}, check : SUBSET Keys, loc : Values,
            undo : Seq(SUBSET Keys), reply : {"none", "ok", "error", "empty"},
            base : [Keys -> Values]]

TypeOK ==
    /\ data \in [Keys -> Values]
    /\ version \in [Keys -> Nat]
    /\ conn \in [Conns -> ConnType]
    /\ run \in [Conns -> RunType]

\* What the commands leave when nobody else runs, from data d.
RunAlone(cmds, d) ==
    LET after[i \in 0 .. Len(cmds)] ==
            IF i = 0 THEN d
            ELSE Effect(cmds[i], after[i - 1][cmds[i].keys[1]], after[i - 1])
    IN  after[Len(cmds)]

\* A command or transaction that answers with success has, on all the keys it
\* writes, the effect of running alone from the data it found under its locks:
\* no update is lost between the read and the write of a command, between the
\* commands of an EXEC, or on a key of which another command is the writer.
SuccessIsSerial ==
    \A c \in Conns :
        Holding(c) /\ run[c].reply = "ok" =>
            LET alone == RunAlone(run[c].cmds, run[c].base)
            IN  \A k \in Writes(c) : data[k] = alone[k]

\* While a command runs nobody else changes a key it writes, and a key it reads
\* or watches changes only as the source of somebody's rename, which is locked
\* for reading although it is removed.
RenameSources(d) ==
    {cmd.keys[1] : cmd \in {run[d].cmds[j] : j \in {i \in DOMAIN run[d].cmds :
                                                   run[d].cmds[i].op = "rename"}}}

Isolation ==
    [][\A c \in Conns : Holding(c) /\ run'[c] = run[c] =>
           \A k \in LockRequest(c).write \cup LockRequest(c).read :
               data'[k] # data[k] =>
                   /\ k \notin LockRequest(c).write
                   /\ \E d \in Conns \ {c} : run'[d] # run[d] /\ k \in RenameSources(d)
      ]_vars

\* EXEC does not run its queue once a watched key has been written, by a command
\* or a committed EXEC that names the key among its write keys, if no such
\* command was under way when the key was watched.
WatchDetects ==
    \A c \in Conns : run[c].tx /\ run[c].pc \in {"fetch", "apply"} =>
        conn[c].quiet \cap conn[c].touched = {}

\* An EXEC that fails leaves no key behind that was not there when it started.
AbortCreatesNothing ==
    \A c \in Conns : run[c].tx /\ run[c].pc = "unlock" /\ run[c].reply = "error" =>
        \A k \in Writes(c) : run[c].base[k] = Nil => data[k] = Nil

\* Every command and every EXEC is answered, whoever else locks the same keys.
Answered == \A c \in Conns : run[c].pc # "idle" ~> run[c].pc = "idle"

===============================================================================
