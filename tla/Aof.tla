----------------------------------- MODULE Aof -----------------------------------
(***************************************************************************)
(* internal/aof: the append-only file (aof.go, rewrite.go), with the parts  *)
(* of pkg/database that feed it.  Clients change the data under the lock of *)
(* their key and save the command line, directly (appendfsync always) or    *)
(* through a queue; goroutines rewrite the file meanwhile; the server       *)
(* closes, or crashes, and loads the file again.                            *)
(*                                                                         *)
(* Commands stand for APPEND, whose replay shows every lost, doubled,       *)
(* reordered or misplaced line.  A line is cut nowhere but at its end: what *)
(* the parser makes of half a line is left out.  Listeners of the file      *)
(* belong to replication.  A critical section of pausingAof that touches    *)
(* nothing before it ends is one step, also for a crash: what a crash finds *)
(* inside it is a prefix of the file that follows.                          *)
(***************************************************************************)
EXTENDS Integers, Sequences, SequencesExt

CONSTANTS
    NDB,            \* config.Properties.Databases
    Keys,
    Clients,        \* goroutines that execute commands
    Jobs,           \* goroutines that rewrite the file
    Policies,       \* the values of appendfsync that are of interest
    NoJob,          \* nobody holds pausingAof across steps
    QueueSize,      \* aofQueueSize
    MaxOps,         \* bound on the commands
    MaxRewrites,    \* bound on the rewrites
    MaxBoots,       \* bound on the restarts, with or without a crash
    MaxFails        \* bound on the writes the file system refuses

ASSUME NDBAssumption == NDB \in Nat \ {0}
ASSUME PolicyAssumption == Policies \subseteq {"always", "everysec", "no"}
ASSUME NoJobAssumption == NoJob \notin Jobs
ASSUME BoundAssumption == {QueueSize, MaxOps, MaxRewrites, MaxBoots, MaxFails} \subseteq Nat

DBs == 0 .. NDB - 1

VARIABLES
    policy,         \* aofFsync
    mode,           \* "up", "closing" once aofChan is closed, "down"
    data,           \* what each key of each database holds, <<>> if nothing
    line,           \* per client: the line it has to save, its key still locked
    queue,          \* aofChan
    file,           \* the append-only file
    synced,         \* how much of the file is on the disk for sure
    currentDB,      \* the database the file is in
    pausing,        \* the job that holds pausingAof
    job,            \* per job: its RewriteCtx
    ops, rewrites, boots, fails,    \* counters of the bounds
    spoiled         \* history: the file has parted from the data, see Recoverable

counters == <<ops, rewrites, boots, fails>>
vars == <<policy, mode, data, line, queue, file, synced, currentDB, pausing, job,
          counters, spoiled>>

-------------------------------------------------------------------------------
(* Lines and files *)

Select(d) == [op |-> "select", db |-> d]
AppendCmd(k, v) == [op |-> "append", key |-> k, val |-> <<v>>]
SetCmd(k, vs) == [op |-> "set", key |-> k, val |-> vs]

\* Exec of one line of a file, on a connection that has selected s.db.
Apply(s, r) ==
    CASE r.op = "select" -> [s EXCEPT !.db = r.db]
      [] r.op = "append" -> [s EXCEPT !.data[s.db][r.key] = @ \o r.val]
      [] r.op = "set" -> [s EXCEPT !.data[s.db][r.key] = r.val]

\* LoadAof of a file into an empty server: its data, and the database selected
\* last, which becomes currentDB.
Load(f) ==
    LET s[i \in 0 .. Len(f)] ==
            IF i = 0 THEN [db |-> 0, data |-> [d \in DBs |-> [k \in Keys |-> <<>>]]]
            ELSE Apply(s[i - 1], f[i])
    IN  s[Len(f)]

Sets(m) == LET ks == SetToSeq({k \in Keys : m[k] # <<>>})
           IN  [i \in DOMAIN ks |-> SetCmd(ks[i], m[ks[i]])]

\* Mutant: no SELECT between the databases.
DumpMutant(m) ==
    FlattenSeq([i \in 1 .. NDB |-> Sets(m[i - 1])])

\* Mutant: one database too many.
DumpTooFarMutant(m) ==
    FlattenSeq([i \in 1 .. NDB |-> <<Select(i - 1)>> \o Sets(m[i - 1])]) \o <<Select(NDB)>>

\* DoRewrite: for every database a SELECT and a SET per key.
Dump(m) ==
    FlattenSeq([i \in 1 .. NDB |-> <<Select(i - 1)>> \o Sets(m[i - 1])])

From(f, n) == SubSeq(f, n + 1, Len(f))

-------------------------------------------------------------------------------
NoLine == [db |-> -1, cmd |-> <<>>]
Idle == [pc |-> "idle", size |-> 0, db |-> 0, stale |-> FALSE, bad |-> FALSE,
         tmp |-> <<>>]

Init ==
    /\ policy \in Policies
    /\ mode = "up"
    /\ data = Load(<<>>).data
    /\ line = [c \in Clients |-> NoLine]
    /\ queue = <<>> /\ file = <<>> /\ synced = 0 /\ currentDB = 0
    /\ pausing = NoJob /\ job = [j \in Jobs |-> Idle]
    /\ ops = 0 /\ rewrites = 0 /\ boots = 0 /\ fails = 0
    /\ spoiled = FALSE

-------------------------------------------------------------------------------
(* Clients *)

\* Between the change and its line, the client has the lock of the key.
Holds(c, d, k) == line[c] # NoLine /\ line[c].db = d /\ line[c].cmd[1].key = k
Busy(d, k) == \E c \in Clients : Holds(c, d, k)

\* A command changes the data; its lock is held until the line is saved.
Exec(c) ==
    /\ mode = "up" /\ line[c] = NoLine /\ ops < MaxOps
    /\ ops' = ops + 1
    /\ \E d \in DBs, k \in Keys :
           /\ ~Busy(d, k)
           /\ data' = [data EXCEPT ![d][k] = Append(@, ops')]
           /\ line' = [line EXCEPT ![c] = [db |-> d, cmd |-> <<AppendCmd(k, ops')>>]]
    /\ UNCHANGED <<policy, mode, queue, file, synced, currentDB, pausing, job,
                   rewrites, boots, fails, spoiled>>

\* Mutant: the file's database is noted before the SELECT is known to be written.
WriteAofMutant(p) ==
    LET sel == IF p.db = currentDB THEN <<>> ELSE <<Select(p.db)>>
    IN  /\ pausing = NoJob
        /\ currentDB' = p.db
        /\ \/ /\ file' = file \o sel \o p.cmd
              /\ UNCHANGED <<fails, spoiled>>
           \/ /\ fails < MaxFails
              /\ fails' = fails + 1
              /\ spoiled' = TRUE
              /\ file' \in {file, file \o sel}
        /\ synced' = IF policy = "always" THEN Len(file') ELSE synced

\* writeAof: a SELECT if the file is in another database, then the line.  When
\* the file system refuses the one or the other, the line is skipped.
WriteAof(p) ==
    LET sel == IF p.db = currentDB THEN <<>> ELSE <<Select(p.db)>>
    IN  /\ pausing = NoJob
        /\ \/ /\ file' = file \o sel \o p.cmd
              /\ currentDB' = p.db
              /\ UNCHANGED <<fails, spoiled>>
           \/ /\ fails < MaxFails
              /\ fails' = fails + 1
              /\ spoiled' = TRUE
              /\ \/ /\ p.db # currentDB
                    /\ UNCHANGED <<file, currentDB>>
                 \/ /\ file' = file \o sel
                    /\ currentDB' = p.db
        /\ synced' = IF policy = "always" /\ currentDB' = p.db THEN Len(file') ELSE synced

\* SaveCmdLine under appendfsync always, on the goroutine of the client.
SaveDirectly(c) ==
    /\ policy = "always" /\ mode # "down" /\ line[c] # NoLine
    /\ WriteAof(line[c])
    /\ line' = [line EXCEPT ![c] = NoLine]
    /\ UNCHANGED <<policy, mode, data, queue, pausing, job, ops, rewrites, boots>>

\* SaveCmdLine otherwise.  When aofChan has been closed meanwhile it panics: the
\* client keeps its line for ever.
SaveToQueue(c) ==
    /\ policy # "always" /\ mode = "up" /\ line[c] # NoLine
    /\ Len(queue) < QueueSize
    /\ queue' = Append(queue, line[c])
    /\ line' = [line EXCEPT ![c] = NoLine]
    /\ UNCHANGED <<policy, mode, data, file, synced, currentDB, pausing, job, counters,
                   spoiled>>

\* listenCmd.
ListenCmd ==
    /\ queue # <<>>
    /\ WriteAof(Head(queue))
    /\ queue' = Tail(queue)
    /\ UNCHANGED <<policy, mode, data, line, pausing, job, ops, rewrites, boots>>

\* fsyncEverySecond.
FsyncEverySecond ==
    /\ policy = "everysec" /\ mode # "down" /\ pausing = NoJob
    /\ synced # Len(file) /\ synced' = Len(file)
    /\ UNCHANGED <<policy, mode, data, line, queue, file, currentDB, pausing, job, counters,
                   spoiled>>

-------------------------------------------------------------------------------
(* Rewriting: BGREWRITEAOF and REWRITEAOF *)

\* StartRewrite.
StartRewrite(j) ==
    /\ mode = "up" /\ job[j].pc = "idle" /\ pausing = NoJob /\ rewrites < MaxRewrites
    /\ rewrites' = rewrites + 1
    /\ synced' = Len(file)
    /\ job' = [job EXCEPT ![j] = [Idle EXCEPT !.pc = "load", !.size = Len(file),
                                              !.db = currentDB]]
    /\ UNCHANGED <<policy, mode, data, line, queue, file, currentDB, pausing, ops, boots,
                   fails, spoiled>>

\* DoRewrite: LoadAof(size) into an auxiliary server, without pausingAof, and a
\* dump of it.  LoadAof(0) reads the whole file.  In a file that another job has
\* put in place since, the size means nothing: any part may be read.
DoRewrite(j) ==
    /\ mode # "down" /\ job[j].pc = "load"
    /\ \E n \in IF job[j].stale THEN 0 .. Len(file)
                ELSE {IF job[j].size = 0 THEN Len(file) ELSE job[j].size} :
           job' = [job EXCEPT ![j].pc = "finish", ![j].bad = (n # job[j].size),
                              ![j].tmp = Dump(Load(SubSeq(file, 1, n)).data)]
    /\ UNCHANGED <<policy, mode, data, line, queue, file, synced, currentDB, pausing, counters,
                   spoiled>>

\* Mutant: the database selected at the start is forgotten.
FinishRewriteMutant(j) ==
    /\ mode # "down" /\ job[j].pc = "finish" /\ pausing = NoJob
    /\ pausing' = j
    /\ job' = [job EXCEPT ![j].pc = "rename", ![j].tmp = @ \o From(file, job[j].size)]
    /\ UNCHANGED <<policy, mode, data, line, queue, file, synced, currentDB, counters, spoiled>>

\* FinishRewrite, up to the copy: pausingAof is taken, and what has been written
\* since the start is added.
FinishRewrite(j) ==
    /\ mode # "down" /\ job[j].pc = "finish" /\ pausing = NoJob
    /\ pausing' = j
    /\ \E n \in IF job[j].stale THEN 0 .. Len(file) ELSE {job[j].size} :
           job' = [job EXCEPT ![j].pc = "rename",
                              ![j].tmp = @ \o <<Select(job[j].db)>> \o From(file, n)]
    /\ UNCHANGED <<policy, mode, data, line, queue, file, synced, currentDB, counters, spoiled>>

\* FinishRewrite, the rest: the new file replaces the old one and goes back to
\* the database of currentDB.  The rename may fail, as it does from one file
\* system to another; its error is ignored.  The new file is not synced.
Rename(j) ==
    /\ mode # "down" /\ job[j].pc = "rename"
    /\ \/ /\ file' = job[j].tmp \o <<Select(currentDB)>>
          /\ synced' = 0
          /\ job' = [i \in Jobs |-> IF i = j THEN Idle ELSE [job[i] EXCEPT !.stale = TRUE]]
          /\ spoiled' = (spoiled \/ job[j].stale \/ job[j].bad)
       \/ /\ file' = file \o <<Select(currentDB)>>
          /\ job' = [job EXCEPT ![j] = Idle]
          /\ UNCHANGED <<synced, spoiled>>
    /\ pausing' = NoJob
    /\ UNCHANGED <<policy, mode, data, line, queue, currentDB, counters>>

\* DoRewrite and FinishRewrite return at an error of the file system.
AbandonRewrite(j) ==
    /\ job[j].pc \in {"load", "finish"} /\ fails < MaxFails
    /\ fails' = fails + 1
    /\ job' = [job EXCEPT ![j] = Idle]
    /\ UNCHANGED <<policy, mode, data, line, queue, file, synced, currentDB, pausing, ops,
                   rewrites, boots, spoiled>>

-------------------------------------------------------------------------------
(* Closing and starting *)

\* NewPersister and bindPersister on a file.
Boot(f) ==
    /\ boots < MaxBoots
    /\ boots' = boots + 1
    /\ mode' = "up"
    /\ file' = f
    /\ data' = Load(f).data
    /\ currentDB' = Load(f).db
    /\ line' = [c \in Clients |-> NoLine]
    /\ queue' = <<>> /\ pausing' = NoJob /\ job' = [j \in Jobs |-> Idle]
    /\ UNCHANGED <<policy, ops, rewrites, fails, spoiled>>

\* The server or its machine stops, and starts again with what is left of the
\* file: at least what was synced.
Crash == \E n \in synced .. Len(file) : Boot(SubSeq(file, 1, n)) /\ synced' = n

\* Mutant: Close does not wait for aofFinished.
CloseFileMutant ==
    /\ mode = "closing" /\ pausing = NoJob
    /\ mode' = "down"
    /\ UNCHANGED <<policy, data, line, queue, file, synced, currentDB, pausing, job, counters,
                   spoiled>>

\* Close: aofChan is closed ...
Close ==
    /\ mode = "up" /\ boots < MaxBoots
    /\ mode' = "closing"
    /\ UNCHANGED <<policy, data, line, queue, file, synced, currentDB, pausing, job, counters,
                   spoiled>>

\* ... and the file when listenCmd has written the rest of it.
CloseFile ==
    /\ mode = "closing" /\ queue = <<>>
    /\ mode' = "down"
    /\ UNCHANGED <<policy, data, line, queue, file, synced, currentDB, pausing, job, counters,
                   spoiled>>

Restart == mode = "down" /\ Boot(file) /\ UNCHANGED synced

Next ==
    \/ \E c \in Clients : Exec(c) \/ SaveDirectly(c) \/ SaveToQueue(c)
    \/ ListenCmd \/ FsyncEverySecond
    \/ \E j \in Jobs : \/ StartRewrite(j) \/ DoRewrite(j) \/ FinishRewrite(j) \/ Rename(j)
                      \/ AbandonRewrite(j)
    \/ Crash \/ Close \/ CloseFile \/ Restart

Spec == Init /\ [][Next]_vars

-------------------------------------------------------------------------------
(* Properties *)

Record == [op : {"select"}, db : DBs] \cup [op : {"append", "set"}, key : Keys, val : Seq(Nat)]
Line == [db : DBs, cmd : Seq(Record)]

TypeOK ==
    /\ policy \in Policies /\ mode \in {"up", "closing", "down"}
    /\ data \in [DBs -> [Keys -> Seq(Nat)]]
    /\ line \in [Clients -> Line \cup {NoLine}] /\ queue \in Seq(Line)
    /\ file \in Seq(Record) /\ synced \in 0 .. Len(file) /\ currentDB \in DBs
    /\ pausing \in Jobs \cup {NoJob}
    /\ job \in [Jobs -> [pc : {"idle", "load", "finish", "rename"}, size : Nat, db : DBs,
                         stale : BOOLEAN, bad : BOOLEAN, tmp : Seq(Record)]]
    /\ \A n \in {ops, rewrites, boots, fails} : n \in Nat
    /\ spoiled \in BOOLEAN

\* The lines of the queue as they would come after the file.
Written(q) == FlattenSeq([i \in DOMAIN q |-> <<Select(q[i].db)>> \o q[i].cmd])

\* What a client that holds the key's lock has still to save.
Unsaved(d, k) ==
    IF Busy(d, k)
    THEN line[CHOOSE c \in Clients : Holds(c, d, k)].cmd[1].val
    ELSE <<>>

\* What a key holds once the lines on their way to the file have reached it.
Recovered(d, k) == Load(file \o Written(queue)).data[d][k] \o Unsaved(d, k)

\* The file and the lines on their way to it make up exactly the data, key by
\* key and in order, through rewrites with commands under way, switches of
\* database, crashes and restarts.  Excepted ("spoiled") are a file system that
\* refused a line, a rewrite of a file that was empty when it started and not
\* when it was read, and a rewrite during which another one replaced the file.
Recoverable == ~spoiled => \A d \in DBs, k \in Keys : Recovered(d, k) = data[d][k]

\* The next line that is written without a SELECT goes to the right database,
\* also after refused writes and rewrites that went wrong.
FileInCurrentDB == pausing = NoJob => Load(file).db = currentDB

\* Whatever a crash leaves of the file, no key comes back with a value it never
\* had: not one with a gap, a doubled or a foreign part.
RestartIsPast ==
    [][boots' # boots /\ ~spoiled =>
           \A d \in DBs, k \in Keys : IsPrefix(data'[d][k], data[d][k])]_vars

\* An answered command survives a shutdown, and under appendfsync always a
\* crash, unless the file is fresh from a rewrite, which does not sync it.
RestartKeepsAnswered ==
    [][/\ boots' # boots /\ ~spoiled
       /\ \/ mode = "down" /\ Len(file') = Len(file)
          \/ policy = "always" /\ synced # 0
       => \A d \in DBs, k \in Keys : ~Busy(d, k) => data'[d][k] = data[d][k]]_vars

===============================================================================
