--------------------------- MODULE ReplicationProofs ---------------------------
(***************************************************************************)
(* TypeOK, NobodyForgotten and ReplicaFollows of Replication, for any       *)
(* number of replicas, connections and dumps; and at the end the slave's    *)
(* side, TypeOK, RoleMatches and AppliedFromMaster of SlaveRole.            *)
(*                                                                         *)
(* A waiting slave is forgotten if the dump that takes the waiting slaves   *)
(* runs twice, or if one comes when there is no map to enter: IInv relates  *)
(* the map, the state of the dump and the goroutines that have taken slaves *)
(* from the map (Waiting).                                                  *)
(*                                                                         *)
(* A replica follows because of FInv: the dump of the master and the        *)
(* backlog of its listener are together the file, but for the line that is  *)
(* being written (LogInv); and what is on its way to a replica is what the  *)
(* backlog has between the offset of the replica and the offset of its      *)
(* slave on the master (ConnInv).  What dump and backlog make of a replica  *)
(* is a recursion over the backlog: its steps come from well-founded        *)
(* induction (LeastNumber, SetInduction).                                   *)
(***************************************************************************)
EXTENDS Replication, SlaveRole, WellFoundedInduction, SequenceTheorems, TLAPS

UpMessage == [type : {"psync", "ack"}, n : Int]
DownMessage == [type : {"line", "continue", "err"}, n : Nat]
                   \cup [type : {"full"}, n : Nat, size : Nat \cup {Nil}]

MasterType == [log : Logs, saveState : {"idle", "running", "finish"},
               rdbFile : Jobs \cup {Nil}, listener : Jobs \cup {Nil},
               slaveMap : SUBSET Conns, waitSlaves : (SUBSET Conns) \cup {Nil},
               online : SUBSET Conns]
JobType == [pc : {"idle", "begin", "stuck", "size", "register", "hook", "rewrite", "failed",
                  "finish", "sync", "swap", "remove", "done"},
            size : Nat, todo : SUBSET Conns]
SlaveType == [state : {"handshake", "waiting", "sending", "online"}, offset : Int]
LogType == [buf : Seq(Nat), begin : Nat, current : Nat]
SenderType == [pc : {"idle", "snapshot", "send", "advance"}, begin : Nat, buf : Seq(Nat),
               current : Nat, todo : SUBSET Conns, conn : Conns \cup {Nil}]
TaskType == [by : Jobs \cup {Nil}, from : Int, current : Nat,
             pc : {"idle", "partial", "full", "backlog", "online"}]
ReplicaType == [pc : {"off", "handshake", "stream", "lost"}, conn : Conns \cup {Nil},
                known : BOOLEAN, offset : Int, data : Seq(Nat)]

MasterOK ==
    /\ file \in Nat /\ events \in Nat
    /\ writer \in [pc : {"idle", "written", "call"}, todo : SUBSET Jobs]
    /\ listeners \in SUBSET Jobs /\ ready \in SUBSET Jobs
    /\ mu \in {Nil, "cron", "rewriter"}
    /\ master \in MasterType
    /\ job \in [Jobs -> JobType]
    /\ rdb \in [Jobs -> Nat \cup {Nil}]
    /\ crashed \in BOOLEAN
    /\ spoiled \in SUBSET {"copy", "savers", "swap", "senders", "ack"}

BufferOK ==
    /\ backlog \in [Logs -> LogType]
    /\ Len(backlog["first"].buf) = backlog["first"].current
    /\ sender \in [Senders -> SenderType]

LinkOK ==
    /\ slave \in [Conns -> SlaveType]
    /\ task \in [Conns -> TaskType]
    /\ open \in [Conns -> {"new", "open", "closed"}]
    /\ up \in [Conns -> Seq(UpMessage)]
    /\ down \in [Conns -> Seq(DownMessage)]
    /\ replica \in [Replicas -> ReplicaType]

\* No connection is resynchronised before a dump has a file.
Placed ==
    master.rdbFile = Nil =>
        /\ master.saveState = "idle"
        /\ \A c \in Conns : task[c].pc = "idle"
        /\ \A j \in Savers : job[j].pc \in {"idle", "begin"}

\* The map of waiting slaves is nil only after a dump: its goroutine goes on with the
\* slaves that it has taken, and only a second dump can make the state "running" again.
Waiting ==
    /\ \A j \in Savers : job[j].pc # "sync" => job[j].todo = {}
    /\ master.waitSlaves = Nil =>
           /\ \E j \in Savers : job[j].pc = "sync"
           /\ "savers" \in spoiled \/ master.saveState = "finish"

IInv == MasterOK /\ BufferOK /\ LinkOK /\ Placed /\ Waiting /\ NobodyForgotten

\* What the invariant says of a connection that waits.
Remembered(c) ==
    \/ master.waitSlaves # Nil /\ c \in master.waitSlaves
    \/ \E j \in Savers : c \in job[j].todo
    \/ task[c].pc # "idle"

-------------------------------------------------------------------------------
(* Values *)

LEMMA LineSeq ==
    ASSUME NEW s \in Seq(Nat)
    PROVE  Lines(s) \in Seq(DownMessage)
<1>1. \A i \in 1 .. Len(s) : Line(s[i]) \in DownMessage
  BY DEF Line, Message, DownMessage
<1> QED BY <1>1 DEF Lines

LEMMA AfterSeq ==
    ASSUME NEW s \in Seq(Nat), NEW n \in Nat
    PROVE  After(s, n) \in Seq(Nat)
BY DEF After

LEMMA UptoSeq == ASSUME NEW n \in Nat PROVE Upto(n) \in Seq(Nat)
BY DEF Upto

LEMMA AppendLog ==
    ASSUME NEW b \in LogType, NEW x \in Nat
    PROVE  LET q == AppendBytes(b, x)
           IN  /\ q \in LogType
               /\ Len(b.buf) = b.current => Len(q.buf) = q.current
<1> DEFINE s == Append(b.buf, x)
           n == b.current + 1
           q == [b EXCEPT !.buf = s, !.current = n]
<1>1. b.buf \in Seq(Nat) /\ b.current \in Nat
  BY DEF LogType
<1>2. s \in Seq(Nat) /\ Len(s) = Len(b.buf) + 1 /\ n \in Nat
  BY <1>1
<1>3. AppendBytes(b, x) = q
  BY DEF AppendBytes, LogType
<1>4. q \in LogType /\ q.buf = s /\ q.current = n
  <2> HIDE DEF s, n
  <2> QED BY <1>2 DEF LogType
<1> QED BY <1>2, <1>3, <1>4

LEMMA LogFacts == IInv => Log \in LogType
BY DEF IInv, BufferOK, MasterOK, MasterType, Log

\* A goroutine of the senders that has served a connection, or has nothing to send.
LEMMA SenderRest == Idle \in SenderType
BY DEF Idle, SenderType

LEMMA ServedType ==
    ASSUME IInv, NEW p \in Senders, NEW c \in Conns
    PROVE  Served(p, c) \in SenderType
BY SenderRest DEF IInv, BufferOK, Served, SenderType

LEMMA ForgetType ==
    ASSUME IInv, NEW c \in Conns
    PROVE  LET m == Forget(master, c)
           IN  /\ m \in MasterType
               /\ m.saveState = master.saveState /\ m.rdbFile = master.rdbFile
               /\ m.waitSlaves = Nil <=> master.waitSlaves = Nil
               /\ m.slaveMap = master.slaveMap \ {c}
               /\ master.waitSlaves # Nil => m.waitSlaves = master.waitSlaves \ {c}
<1> DEFINE w == IF master.waitSlaves = Nil THEN Nil ELSE master.waitSlaves \ {c}
<1>1. master \in MasterType
  BY DEF IInv, MasterOK
<1>0. /\ master.waitSlaves \in (SUBSET Conns) \cup {Nil}
      /\ master.slaveMap \in SUBSET Conns /\ master.online \in SUBSET Conns
  BY <1>1 DEF MasterType
<1>2. master.waitSlaves # Nil => master.waitSlaves \ {c} \in SUBSET Conns
  BY <1>0
<1>3. w \in (SUBSET Conns) \cup {Nil} /\ (w = Nil <=> master.waitSlaves = Nil)
  BY <1>2, ConnAssumption
<1>5. Forget(master, c) = [master EXCEPT !.slaveMap = master.slaveMap \ {c},
                                         !.online = master.online \ {c}, !.waitSlaves = w]
  BY <1>1 DEF Forget, MasterType
<1>6. master.slaveMap \ {c} \in SUBSET Conns /\ master.online \ {c} \in SUBSET Conns
  BY <1>0
<1>7. master.waitSlaves # Nil => w = master.waitSlaves \ {c}
  OBVIOUS
<1> HIDE DEF w
<1>8. LET m == [master EXCEPT !.slaveMap = master.slaveMap \ {c},
                              !.online = master.online \ {c}, !.waitSlaves = w]
      IN  /\ m \in MasterType
          /\ m.saveState = master.saveState /\ m.rdbFile = master.rdbFile
          /\ m.slaveMap = master.slaveMap \ {c} /\ m.waitSlaves = w
  BY <1>1, <1>3, <1>6 DEF MasterType
<1> QED BY <1>3, <1>5, <1>7, <1>8


-------------------------------------------------------------------------------
(* The master's variables *)

LEMMA SpoilType ==
    ASSUME MasterOK, NEW w \in {"copy", "savers", "swap", "senders", "ack"}, NEW b, Spoil(w, b)
    PROVE  spoiled' \in SUBSET {"copy", "savers", "swap", "senders", "ack"} /\ spoiled \subseteq spoiled'
BY DEF MasterOK, Spoil

\* Steps of the job of j.
JobPcs == {"idle", "begin", "stuck", "size", "register", "hook", "rewrite", "failed",
           "finish", "sync", "swap", "remove", "done"}

LEMMA JobPc ==
    ASSUME MasterOK, NEW j \in Jobs, NEW p \in JobPcs
    PROVE  [job EXCEPT ![j] = [job[j] EXCEPT !.pc = p]] \in [Jobs -> JobType]
<1>1. job[j] \in JobType
  BY DEF MasterOK
<1>2. [job[j] EXCEPT !.pc = p] \in JobType
  BY <1>1 DEF JobType, JobPcs
<1> QED BY <1>2 DEF MasterOK

LEMMA JobSize ==
    ASSUME MasterOK, NEW j \in Jobs, NEW p \in JobPcs, NEW n \in Nat
    PROVE  [job EXCEPT ![j] = [job[j] EXCEPT !.pc = p, !.size = n]] \in [Jobs -> JobType]
<1>1. job[j] \in JobType
  BY DEF MasterOK
<1>2. [job[j] EXCEPT !.pc = p, !.size = n] \in JobType
  BY <1>1 DEF JobType, JobPcs
<1> QED BY <1>2 DEF MasterOK

LEMMA JobTodo ==
    ASSUME MasterOK, NEW j \in Jobs, NEW p \in JobPcs, NEW t \in SUBSET Conns
    PROVE  [job EXCEPT ![j] = [job[j] EXCEPT !.pc = p, !.todo = t]] \in [Jobs -> JobType]
<1>1. job[j] \in JobType
  BY DEF MasterOK
<1>2. [job[j] EXCEPT !.pc = p, !.todo = t] \in JobType
  BY <1>1 DEF JobType, JobPcs
<1> QED BY <1>2 DEF MasterOK

LEMMA JobTakes ==
    ASSUME MasterOK, NEW j \in Jobs, NEW t \in SUBSET Conns
    PROVE  [job EXCEPT ![j] = [job[j] EXCEPT !.todo = t]] \in [Jobs -> JobType]
<1>1. job[j] \in JobType
  BY DEF MasterOK
<1>2. [job[j] EXCEPT !.todo = t] \in JobType
  BY <1>1 DEF JobType
<1> QED BY <1>2 DEF MasterOK

LEMMA WriteMaster == ASSUME MasterOK, Write PROVE MasterOK'
<1>1. CASE WriteLine
  BY <1>1 DEF WriteLine, MasterOK, Alive, Event
<1>2. CASE CallListeners
  BY <1>2, SpoilType DEF CallListeners, MasterOK, Alive
<1>3. ASSUME NEW j \in Jobs, Callback(j) PROVE MasterOK'
  BY <1>3 DEF Callback, MasterOK, Alive
<1> QED BY <1>1, <1>2, <1>3 DEF Write

LEMMA SendMaster == ASSUME IInv, Send PROVE MasterOK'
<1> USE DEF IInv
<1>1. ASSUME NEW p \in Senders, Snapshot(p) PROVE MasterOK'
  BY <1>1, SpoilType DEF Snapshot, MasterOK, Alive
<1>2. ASSUME NEW p \in Senders, Advance(p) PROVE MasterOK'
  BY <1>2 DEF Advance, MasterOK, Alive, net
<1>3. ASSUME NEW p \in Senders, NEW c \in Conns, SendTo(p, c) PROVE MasterOK'
  BY <1>3 DEF SendTo, MasterOK, Alive
<1>4. ASSUME NEW p \in Senders, NEW c \in Conns, SendFails(p, c) PROVE MasterOK'
  <2>1. master' \in MasterType
    BY <1>4, ForgetType DEF SendFails
  <2> QED BY <1>4, <2>1 DEF SendFails, MasterOK, Alive
<1>5. ASSUME NEW p \in Senders, NEW c \in Conns, SendPanics(p, c) PROVE MasterOK'
  BY <1>5 DEF SendPanics, MasterOK
<1> QED BY <1>1, <1>2, <1>3, <1>4, <1>5 DEF Send

LEMMA CronMaster == ASSUME MasterOK, Cron PROVE MasterOK'
<1>1. CASE CronKeepsMutex
  BY <1>1 DEF CronKeepsMutex, MasterOK, Alive
<1>2. CASE CronPings
  <2>1. job' \in [Jobs -> JobType]
    <3>1. Rewriter \in Jobs
      BY DEF Jobs
    <3>2. \/ job' = job
          \/ job' = [job EXCEPT ![Rewriter] = [job[Rewriter] EXCEPT !.pc = "size"]]
      BY <1>2 DEF CronPings
    <3>3. job \in [Jobs -> JobType]
      BY DEF MasterOK
    <3>4. [job EXCEPT ![Rewriter] = [job[Rewriter] EXCEPT !.pc = "size"]] \in [Jobs -> JobType]
      BY <3>1, JobPc DEF JobPcs
    <3> QED BY <3>2, <3>3, <3>4
  <2> QED BY <1>2, <2>1 DEF CronPings, MasterOK, Alive, Event
<1> QED BY <1>1, <1>2 DEF Cron

\* saveForReplication and rewriteRDB change the master in these fields.
LEMMA MasterFields ==
    ASSUME MasterOK, NEW j \in Jobs
    PROVE  /\ [master EXCEPT !.saveState = "running", !.rdbFile = j, !.listener = j] \in MasterType
           /\ [master EXCEPT !.saveState = "finish", !.waitSlaves = Nil] \in MasterType
           /\ [master EXCEPT !.rdbFile = j, !.log = "new"] \in MasterType
           /\ [master EXCEPT !.listener = j] \in MasterType
<1>1. master \in MasterType
  BY DEF MasterOK
<1>2. [master EXCEPT !.saveState = "running", !.rdbFile = j, !.listener = j] \in MasterType
  BY <1>1 DEF MasterType
<1>3. [master EXCEPT !.saveState = "finish", !.waitSlaves = Nil] \in MasterType
  BY <1>1 DEF MasterType
<1>4. [master EXCEPT !.rdbFile = j, !.log = "new"] \in MasterType
  BY <1>1 DEF MasterType, Logs
<1>5. [master EXCEPT !.listener = j] \in MasterType
  BY <1>1 DEF MasterType
<1> QED BY <1>2, <1>3, <1>4, <1>5

LEMMA DumpMaster == ASSUME IInv, Dump PROVE MasterOK'
<1>0. MasterOK /\ Savers \subseteq Jobs /\ Rewriter \in Jobs
  BY DEF IInv, Jobs
<1>1. ASSUME NEW j \in Savers, SaveBegins(j) PROVE MasterOK'
  <2>1. job' \in [Jobs -> JobType] /\ master' \in MasterType
    BY <1>0, <1>1, JobPc, MasterFields DEF SaveBegins, JobPcs
  <2> QED BY <1>0, <1>1, <2>1, SpoilType DEF SaveBegins, MasterOK, Alive
<1>2. ASSUME NEW j \in Savers, SaveFinishes(j) PROVE MasterOK'
  <2>1. (IF master.waitSlaves = Nil THEN {} ELSE master.waitSlaves) \in SUBSET Conns
    BY <1>0 DEF MasterOK, MasterType
  <2>3. job' = [job EXCEPT ![j] = [job[j] EXCEPT !.pc = "sync",
                      !.todo = IF master.waitSlaves = Nil THEN {} ELSE master.waitSlaves]]
    BY <1>0, <1>2 DEF SaveFinishes, MasterOK, JobType
  <2>4. "sync" \in JobPcs
    BY DEF JobPcs
  <2>5. job' \in [Jobs -> JobType]
    BY <1>0, <2>1, <2>3, <2>4, JobTodo
  <2>6. master' \in MasterType
    BY <1>0, <1>2, MasterFields DEF SaveFinishes
  <2> QED BY <1>0, <1>2, <2>5, <2>6 DEF SaveFinishes, MasterOK, Alive
<1>3. ASSUME NEW j \in Jobs, TakeSize(j) PROVE MasterOK'
  <2>1. job' \in [Jobs -> JobType]
    <3>1. \/ job' = [job EXCEPT ![j] = [job[j] EXCEPT !.pc = "register", !.size = file]]
          \/ job' = [job EXCEPT ![j] = [job[j] EXCEPT !.pc = "stuck"]]
      BY <1>0, <1>3 DEF TakeSize, MasterOK, JobType
    <3>2. file \in Nat
      BY <1>0 DEF MasterOK
    <3>3. "register" \in JobPcs /\ "stuck" \in JobPcs
      BY DEF JobPcs
    <3>4. [job EXCEPT ![j] = [job[j] EXCEPT !.pc = "register", !.size = file]] \in [Jobs -> JobType]
      BY <1>0, <3>2, <3>3, JobSize
    <3>5. [job EXCEPT ![j] = [job[j] EXCEPT !.pc = "stuck"]] \in [Jobs -> JobType]
      BY <1>0, <3>3, JobPc
    <3> QED BY <3>1, <3>4, <3>5
  <2> QED BY <1>0, <1>3, <2>1 DEF TakeSize, MasterOK, Alive
<1>4. ASSUME NEW j \in Jobs, Register(j) PROVE MasterOK'
  <2>1. job' \in [Jobs -> JobType]
    BY <1>0, <1>4, JobPc DEF Register, JobPcs
  <2> QED BY <1>0, <1>4, <2>1, SpoilType DEF Register, MasterOK, Alive
<1>5. ASSUME NEW j \in Jobs, RewriteRDB(j) PROVE MasterOK'
  <2>1. job' \in [Jobs -> JobType]
    BY <1>0, <1>5, JobPc DEF RewriteRDB, JobPcs
  <2>2. job[j].size \in Nat
    BY <1>0 DEF MasterOK, JobType
  <2> QED BY <1>0, <1>5, <2>1, <2>2 DEF RewriteRDB, MasterOK, Alive
<1>6. ASSUME NEW j \in Jobs, RewriteFails(j) PROVE MasterOK'
  <2>1. job' \in [Jobs -> JobType]
    BY <1>0, <1>6, JobPc DEF RewriteFails, JobPcs
  <2> QED BY <1>0, <1>6, <2>1 DEF RewriteFails, MasterOK, Alive
<1>7. ASSUME NEW j \in Savers, NEW c \in Conns, NextWaiting(j, c) PROVE MasterOK'
  <2>1. job[j].todo \ {c} \in SUBSET Conns
    BY <1>0 DEF MasterOK, JobType
  <2>2. job' \in [Jobs -> JobType]
    BY <1>0, <1>7, <2>1, JobTakes DEF NextWaiting
  <2> QED BY <1>0, <1>7, <2>2 DEF NextWaiting, MasterOK, Alive
<1>8. CASE Hook
  <2>1. job' \in [Jobs -> JobType]
    BY <1>0, <1>8, JobPc DEF Hook, JobPcs
  <2> QED BY <1>0, <1>8, <2>1 DEF Hook, MasterOK, Alive
<1>9. CASE SwapBacklog
  <2>1. job' \in [Jobs -> JobType] /\ master' \in MasterType
    BY <1>0, <1>9, JobPc, MasterFields DEF SwapBacklog, JobPcs
  <2> QED BY <1>0, <1>9, <2>1 DEF SwapBacklog, MasterOK, Alive
<1>10. CASE RemoveListener
  <2>1. job' \in [Jobs -> JobType] /\ master' \in MasterType
    BY <1>0, <1>10, JobPc, MasterFields DEF RemoveListener, JobPcs
  <2> QED BY <1>0, <1>10, <2>1 DEF RemoveListener, MasterOK, Alive
<1> QED BY <1>1, <1>2, <1>3, <1>4, <1>5, <1>6, <1>7, <1>8, <1>9, <1>10 DEF Dump

LEMMA SyncMaster == ASSUME IInv, Sync PROVE MasterOK'
<1> USE DEF IInv, MasterOK, Alive
<1>1. ASSUME NEW c \in Conns, TryPartialSync(c) \/ CannotPartialSync(c) \/ SendRDB(c) \/ SendBacklog(c)
      PROVE  MasterOK'
  BY <1>1 DEF TryPartialSync, CannotPartialSync, SendRDB, SendBacklog, net
<1>2. ASSUME NEW c \in Conns, SetSlaveOnline(c) PROVE MasterOK'
  <2>1. master' \in MasterType
    BY <1>2 DEF SetSlaveOnline, MasterType
  <2> QED BY <1>2, <2>1 DEF SetSlaveOnline
<1>3. ASSUME NEW c \in Conns, SyncFails(c) PROVE MasterOK'
  <2>1. master' \in MasterType
    BY <1>3, ForgetType DEF SyncFails
  <2> QED BY <1>3, <2>1 DEF SyncFails
<1> QED BY <1>1, <1>2, <1>3 DEF Sync

\* A slave that is new, and one that waits.
LEMMA NewSlaveType ==
    ASSUME MasterOK, NEW c \in Conns
    PROVE  LET m == NewSlave(c)
           IN  /\ m \in MasterType
               /\ m.saveState = master.saveState /\ m.rdbFile = master.rdbFile
               /\ m.waitSlaves = master.waitSlaves
               /\ m.slaveMap = master.slaveMap \cup {c}
<1>1. master \in MasterType /\ master.slaveMap \cup {c} \in SUBSET Conns
  BY DEF MasterOK, MasterType
<1> QED BY <1>1 DEF NewSlave, MasterType

LEMMA WaitType ==
    ASSUME NEW m \in MasterType, m.waitSlaves # Nil, NEW c \in Conns
    PROVE  LET q == Wait(m, c)
           IN  /\ q \in MasterType
               /\ q.saveState = m.saveState /\ q.rdbFile = m.rdbFile
               /\ q.waitSlaves = m.waitSlaves \cup {c} /\ q.waitSlaves # Nil
               /\ q.slaveMap = m.slaveMap
<1>1. m.waitSlaves \in SUBSET Conns
  BY DEF MasterType
<1>2. m.waitSlaves \cup {c} \in SUBSET Conns
  BY <1>1
<1>3. m.waitSlaves \cup {c} # Nil
  BY <1>2, ConnAssumption
<1> QED BY <1>2, <1>3 DEF Wait, MasterType

LEMMA RequestsMaster == ASSUME IInv, Requests PROVE MasterOK'
<1>0. MasterOK
  BY DEF IInv
<1>1. ASSUME NEW c \in Conns, PSyncWaits(c) PROVE MasterOK'
  <2>1. master' \in MasterType
    BY <1>0, <1>1, NewSlaveType, WaitType DEF PSyncWaits
  <2>2. job' \in [Jobs -> JobType]
    <3>1. \/ UNCHANGED job
          \/ \E j \in Savers : job' = [job EXCEPT ![j] = [job[j] EXCEPT !.pc = "begin"]]
      BY <1>1 DEF PSyncWaits
    <3>2. job \in [Jobs -> JobType]
      BY <1>0 DEF MasterOK
    <3>3. \A j \in Savers :
              [job EXCEPT ![j] = [job[j] EXCEPT !.pc = "begin"]] \in [Jobs -> JobType]
      BY <1>0, JobPc DEF Jobs, JobPcs
    <3> QED BY <3>1, <3>2, <3>3
  <2> QED BY <1>0, <1>1, <2>1, <2>2 DEF PSyncWaits, MasterOK, Alive
<1>2. ASSUME NEW c \in Conns, PSyncPanics(c) \/ PSyncAfterDump(c) PROVE MasterOK'
  <2>1. master' \in MasterType
    BY <1>0, <1>2, NewSlaveType DEF PSyncPanics, PSyncAfterDump
  <2> QED BY <1>0, <1>2, <2>1 DEF PSyncPanics, PSyncAfterDump, MasterOK, Alive
<1>3. ASSUME NEW c \in Conns, ReplConfAck(c) PROVE MasterOK'
  BY <1>0, <1>3, SpoilType DEF ReplConfAck, MasterOK, Alive
<1> QED BY <1>1, <1>2, <1>3 DEF Requests

LEMMA ReplicaMaster == ASSUME MasterOK, Replica PROVE MasterOK'
BY DEF Replica, Connect, ReceiveHeader, ReceiveLine, Ack, Disconnect, MasterOK, Alive, Event

LEMMA NextMaster == ASSUME IInv, Next PROVE MasterOK'
BY WriteMaster, SendMaster, CronMaster, DumpMaster, SyncMaster, RequestsMaster, ReplicaMaster
DEF Next, IInv

-------------------------------------------------------------------------------
(* Backlogs and senders *)

LEMMA LogStep ==
    ASSUME BufferOK, NEW l \in Logs, NEW x \in Nat,
           backlog' = [backlog EXCEPT ![l] = AppendBytes(@, x)]
    PROVE  /\ backlog' \in [Logs -> LogType]
           /\ Len(backlog'["first"].buf) = backlog'["first"].current
<1>1. backlog[l] \in LogType
  BY DEF BufferOK
<1>2. AppendBytes(backlog[l], x) \in LogType
  BY <1>1, AppendLog
<1>3. l = "first" => Len(AppendBytes(backlog[l], x).buf) = AppendBytes(backlog[l], x).current
  BY <1>1, AppendLog DEF BufferOK
<1> QED BY <1>2, <1>3 DEF BufferOK, Logs

LEMMA NextBuffer == ASSUME IInv, Next PROVE BufferOK'
<1>0. MasterOK /\ BufferOK
  BY DEF IInv
<1>1. CASE Write
  <2>1. ASSUME NEW j \in Jobs, Callback(j) PROVE BufferOK'
    <3>1. LogOf(j) \in Logs /\ file \in Nat
      BY <1>0 DEF LogOf, Logs, MasterOK
    <3>2. /\ backlog' \in [Logs -> LogType]
          /\ Len(backlog'["first"].buf) = backlog'["first"].current
      BY <1>0, <2>1, <3>1, LogStep DEF Callback
    <3>3. sender["writer"] \in SenderType
      BY <1>0 DEF BufferOK, Senders
    <3>4. [sender["writer"] EXCEPT !.pc = "snapshot"] \in SenderType
      BY <3>3 DEF SenderType
    <3>5. sender' \in [Senders -> SenderType]
      BY <1>0, <2>1, <3>4 DEF Callback, BufferOK
    <3> QED BY <3>2, <3>5 DEF BufferOK
  <2> QED BY <1>0, <1>1, <2>1 DEF Write, WriteLine, CallListeners, BufferOK
<1>2. CASE Send
  <2>1. ASSUME NEW p \in Senders, Snapshot(p) PROVE BufferOK'
    <3>1. master \in MasterType
      BY <1>0 DEF MasterOK
    <3>2. Log.begin \in Nat /\ Log.buf \in Seq(Nat) /\ Log.current \in Nat
      BY LogFacts DEF LogType
    <3>3. [pc |-> "send", begin |-> Log.begin, buf |-> Log.buf,
           current |-> Log.current, todo |-> master.online, conn |-> Nil] \in SenderType
      BY <3>1, <3>2 DEF SenderType, MasterType
    <3> QED BY <1>0, <2>1, <3>3, SenderRest DEF Snapshot, BufferOK
  <2>2. ASSUME NEW p \in Senders, NEW c \in Conns, SendTo(p, c) PROVE BufferOK'
    <3>1. sender[p] \in SenderType
      BY <1>0 DEF BufferOK
    <3>2. [sender[p] EXCEPT !.pc = "advance", !.conn = c] \in SenderType
      BY <3>1 DEF SenderType
    <3>3. sender' = [sender EXCEPT ![p] = [sender[p] EXCEPT !.pc = "advance", !.conn = c]]
      BY <1>0, <2>2 DEF SendTo, BufferOK, SenderType
    <3> QED BY <1>0, <2>2, <3>2, <3>3 DEF SendTo, BufferOK
  <2>3. ASSUME NEW p \in Senders, Advance(p) PROVE BufferOK'
    <3>1. sender[p].pc = "advance" => Served(p, sender[p].conn) \in SenderType
      <4>1. sender[p] \in SenderType
        BY <1>0 DEF BufferOK
      <4> QED BY <4>1, SenderRest DEF Served, SenderType
    <3> QED BY <1>0, <2>3, <3>1 DEF Advance, BufferOK
  <2>4. ASSUME NEW p \in Senders, NEW c \in Conns, SendFails(p, c) \/ SendPanics(p, c) PROVE BufferOK'
    BY <1>0, <2>4, ServedType DEF SendFails, SendPanics, BufferOK
  <2> QED BY <1>2, <2>1, <2>2, <2>3, <2>4 DEF Send
<1>3. CASE Cron
  <2>1. CASE CronKeepsMutex
    BY <1>0, <2>1 DEF CronKeepsMutex, BufferOK
  <2>2. CASE CronPings
    <3>1. master.log \in Logs
      BY <1>0 DEF MasterOK, MasterType
    <3>2. /\ backlog' \in [Logs -> LogType]
          /\ Len(backlog'["first"].buf) = backlog'["first"].current
      <4>1. CASE master.saveState = "finish"
        BY <1>0, <2>2, <3>1, <4>1, LogStep DEF CronPings
      <4>2. CASE master.saveState # "finish"
        BY <1>0, <2>2, <4>2 DEF CronPings, BufferOK
      <4> QED BY <4>1, <4>2
    <3>3. sender["cron"] \in SenderType
      BY <1>0 DEF BufferOK, Senders
    <3>4. [sender["cron"] EXCEPT !.pc = "snapshot"] \in SenderType
      BY <3>3 DEF SenderType
    <3>5. sender' \in [Senders -> SenderType]
      BY <1>0, <2>2, <3>4 DEF CronPings, BufferOK
    <3> QED BY <3>2, <3>5 DEF BufferOK
  <2> QED BY <1>3, <2>1, <2>2 DEF Cron
<1>4. CASE Dump
  <2>1. CASE Hook
    <3>1. backlog["new"] \in LogType /\ Log.current \in Nat
      BY <1>0, LogFacts DEF BufferOK, Logs, LogType
    <3>2. [backlog["new"] EXCEPT !.begin = Log.current] \in LogType
      BY <3>1 DEF LogType
    <3> QED BY <1>0, <2>1, <3>2 DEF Hook, BufferOK, Logs
  <2> QED
    BY <1>0, <1>4, <2>1
    DEF Dump, BufferOK, SaveBegins, SaveFinishes, TakeSize, Register, RewriteRDB, RewriteFails,
        NextWaiting, SwapBacklog, RemoveListener
<1>5. CASE Sync
  BY <1>0, <1>5 DEF Sync, BufferOK, TryPartialSync, CannotPartialSync, SendRDB, SendBacklog,
                    SetSlaveOnline, SyncFails
<1>6. CASE Requests
  BY <1>0, <1>6 DEF Requests, BufferOK, PSyncWaits, PSyncPanics, PSyncAfterDump, ReplConfAck
<1>7. CASE Replica
  BY <1>0, <1>7 DEF Replica, BufferOK, Connect, ReceiveHeader, ReceiveLine, Ack, Disconnect
<1> QED BY <1>1, <1>2, <1>3, <1>4, <1>5, <1>6, <1>7 DEF Next

-------------------------------------------------------------------------------
(* Connections, tasks and replicas *)

\* What is added to the bytes of a connection.
LEMMA DownAppend ==
    ASSUME LinkOK, NEW c \in Conns, NEW s \in Seq(DownMessage)
    PROVE  [down EXCEPT ![c] = down[c] \o s] \in [Conns -> Seq(DownMessage)]
<1>1. down[c] \o s \in Seq(DownMessage)
  BY DEF LinkOK
<1> QED BY <1>1 DEF LinkOK

LEMMA DownMessageAppend ==
    ASSUME LinkOK, NEW c \in Conns, NEW m \in DownMessage
    PROVE  [down EXCEPT ![c] = Append(down[c], m)] \in [Conns -> Seq(DownMessage)]
<1>1. Append(down[c], m) \in Seq(DownMessage)
  BY DEF LinkOK
<1> QED BY <1>1 DEF LinkOK

LEMMA SendLink == ASSUME IInv, Send PROVE LinkOK'
<1>0. BufferOK /\ LinkOK
  BY DEF IInv
<1>1. ASSUME NEW p \in Senders, NEW c \in Conns, SendTo(p, c) PROVE LinkOK'
  <2> DEFINE first == slave[c].offset - sender[p].begin
  <2>1. sender[p].buf \in Seq(Nat)
    BY <1>0 DEF BufferOK, SenderType
  <2>2. first \in Nat
    BY <1>1, <2>1 DEF SendTo
  <2>3. Lines(After(sender[p].buf, first)) \in Seq(DownMessage)
    BY <2>1, <2>2, AfterSeq, LineSeq
  <2>4. down' \in [Conns -> Seq(DownMessage)]
    BY <1>0, <1>1, <2>3, DownAppend DEF SendTo
  <2> QED BY <1>0, <1>1, <2>4 DEF SendTo, LinkOK
<1>2. ASSUME NEW p \in Senders, Advance(p) PROVE LinkOK'
  <2>1. sender[p].current \in Nat
    BY <1>0 DEF BufferOK, SenderType
  <2>2. ASSUME NEW c \in Conns PROVE [slave[c] EXCEPT !.offset = sender[p].current] \in SlaveType
    <3>1. slave[c] \in SlaveType
      BY <1>0 DEF LinkOK
    <3>2. \A n \in Int : [slave[c] EXCEPT !.offset = n] \in SlaveType
      BY <3>1 DEF SlaveType
    <3> QED BY <2>1, <3>2
  <2>3. slave' \in [Conns -> SlaveType]
    BY <1>0, <1>2, <2>1, <2>2 DEF Advance, LinkOK
  <2> QED BY <1>0, <1>2, <2>3 DEF Advance, LinkOK, net
<1>3. ASSUME NEW p \in Senders, \/ Snapshot(p)
                                \/ \E c \in Conns : SendFails(p, c) \/ SendPanics(p, c)
      PROVE  LinkOK'
  BY <1>0, <1>3 DEF Snapshot, SendFails, SendPanics, LinkOK, net
<1> QED BY <1>1, <1>2, <1>3 DEF Send

LEMMA NoTaskType == NoTask \in TaskType
BY DEF NoTask, TaskType

\* A task goes on.
LEMMA TaskStep ==
    ASSUME LinkOK, NEW c \in Conns, NEW p \in {"idle", "partial", "full", "backlog", "online"}
    PROVE  [task EXCEPT ![c] = [task[c] EXCEPT !.pc = p]] \in [Conns -> TaskType]
<1>1. [task[c] EXCEPT !.pc = p] \in TaskType
  BY DEF LinkOK, TaskType
<1> QED BY <1>1 DEF LinkOK

LEMMA SyncLink == ASSUME IInv, Sync PROVE LinkOK'
<1>0. MasterOK /\ LinkOK /\ Placed /\ Log.buf \in Seq(Nat) /\ Log.begin \in Nat /\ Log.current \in Nat
  BY LogFacts DEF IInv, LogType
<1>1. \A c \in Conns : task[c].from \in Int /\ task[c].current \in Nat
  BY <1>0 DEF LinkOK, TaskType
<1>2. ASSUME NEW c \in Conns
      PROVE  [task EXCEPT ![c] = [task[c] EXCEPT !.pc = "online", !.current = Log.current]]
                 \in [Conns -> TaskType]
  <2>1. [task[c] EXCEPT !.pc = "online", !.current = Log.current] \in TaskType
    BY <1>0 DEF LinkOK, TaskType
  <2> QED BY <1>0, <2>1 DEF LinkOK
<1>3. ASSUME NEW c \in Conns, TryPartialSync(c) PROVE LinkOK'
  <2>1. task[c].from - Log.begin \in Nat
    BY <1>0, <1>1, <1>3 DEF TryPartialSync, IsValidOffset
  <2>2. Lines(After(Log.buf, task[c].from - Log.begin)) \in Seq(DownMessage)
    BY <1>0, <2>1, AfterSeq, LineSeq
  <2>3. <<Message("continue", 0)>> \in Seq(DownMessage)
    BY DEF Message, DownMessage
  <2>4. down[c] \in Seq(DownMessage)
    BY <1>0 DEF LinkOK
  <2>5. down' = [down EXCEPT ![c] = (down[c] \o <<Message("continue", 0)>>) \o
                                    Lines(After(Log.buf, task[c].from - Log.begin))]
    BY <1>3 DEF TryPartialSync
  <2>6. down' \in [Conns -> Seq(DownMessage)]
    BY <1>0, <2>2, <2>3, <2>4, <2>5 DEF LinkOK
  <2>7. task' \in [Conns -> TaskType]
    <3>1. task' = [task EXCEPT ![c] = [task[c] EXCEPT !.pc = "online", !.current = Log.current]]
      BY <1>0, <1>3 DEF TryPartialSync, LinkOK, TaskType
    <3> QED BY <1>2, <3>1
  <2> QED BY <1>0, <1>3, <2>6, <2>7 DEF TryPartialSync, LinkOK
<1>4. ASSUME NEW c \in Conns, CannotPartialSync(c) PROVE LinkOK'
  <2>1. task' \in [Conns -> TaskType]
    BY <1>0, <1>4, TaskStep DEF CannotPartialSync
  <2> QED BY <1>0, <1>4, <2>1 DEF CannotPartialSync, LinkOK, net
<1>5. ASSUME NEW c \in Conns, SendRDB(c) PROVE LinkOK'
  <2>1. master.rdbFile \in Jobs
    BY <1>0, <1>5 DEF SendRDB, Placed, MasterOK, MasterType
  <2>2. Dumped(Log.begin, rdb[master.rdbFile]) \in DownMessage
    BY <1>0, <2>1 DEF Dumped, DownMessage, MasterOK
  <2>3. down' \in [Conns -> Seq(DownMessage)]
    BY <1>0, <1>5, <2>2, DownMessageAppend DEF SendRDB
  <2>4. task' \in [Conns -> TaskType]
    BY <1>0, <1>5, TaskStep DEF SendRDB
  <2>5. [slave[c] EXCEPT !.state = "sending"] \in SlaveType
    BY <1>0 DEF LinkOK, SlaveType
  <2> QED BY <1>0, <1>5, <2>3, <2>4, <2>5 DEF SendRDB, LinkOK
<1>6. ASSUME NEW c \in Conns, SendBacklog(c) PROVE LinkOK'
  <2>1. Lines(Log.buf) \in Seq(DownMessage)
    BY <1>0, LineSeq
  <2>2. down' \in [Conns -> Seq(DownMessage)]
    BY <1>0, <1>6, <2>1, DownAppend DEF SendBacklog
  <2>3. task' \in [Conns -> TaskType]
    <3>1. task' = [task EXCEPT ![c] = [task[c] EXCEPT !.pc = "online", !.current = Log.current]]
      BY <1>0, <1>6 DEF SendBacklog, LinkOK, TaskType
    <3> QED BY <1>2, <3>1
  <2> QED BY <1>0, <1>6, <2>2, <2>3 DEF SendBacklog, LinkOK
<1>7. ASSUME NEW c \in Conns, SetSlaveOnline(c) PROVE LinkOK'
  <2>1. [state |-> "online", offset |-> task[c].current] \in SlaveType
    BY <1>1 DEF SlaveType
  <2> QED BY <1>0, <1>7, <2>1, NoTaskType DEF SetSlaveOnline, LinkOK, net
<1>8. ASSUME NEW c \in Conns, SyncFails(c) PROVE LinkOK'
  BY <1>0, <1>8, NoTaskType DEF SyncFails, LinkOK, net
<1> QED BY <1>3, <1>4, <1>5, <1>6, <1>7, <1>8 DEF Sync

LEMMA RequestsLink == ASSUME IInv, Requests PROVE LinkOK'
<1>0. LinkOK
  BY DEF IInv
<1>1. ASSUME NEW c \in Conns, up[c] # <<>>, Serve(c)
      PROVE  up' \in [Conns -> Seq(UpMessage)] /\ Head(up[c]).n \in Int
  <2>1. up[c] \in Seq(UpMessage)
    BY <1>0 DEF LinkOK
  <2>2. Head(up[c]) \in UpMessage /\ Tail(up[c]) \in Seq(UpMessage)
    BY <1>1, <2>1
  <2> QED BY <1>0, <1>1, <2>2 DEF Serve, LinkOK, UpMessage
<1>2. \A c \in Conns : [slave[c] EXCEPT !.state = "waiting"] \in SlaveType
  BY <1>0 DEF LinkOK, SlaveType
<1>3. ASSUME NEW c \in Conns, PSyncWaits(c) PROVE LinkOK'
  <2>1. up' \in [Conns -> Seq(UpMessage)]
    BY <1>1, <1>3 DEF PSyncWaits, Request
  <2> QED BY <1>0, <1>2, <1>3, <2>1 DEF PSyncWaits, LinkOK
<1>4. ASSUME NEW c \in Conns, PSyncPanics(c) PROVE LinkOK'
  <2>1. up' \in [Conns -> Seq(UpMessage)]
    BY <1>1, <1>4 DEF PSyncPanics, Request
  <2>2. Message("err", 0) \in DownMessage
    BY DEF Message, DownMessage
  <2>3. down' \in [Conns -> Seq(DownMessage)]
    BY <1>0, <1>4, <2>2, DownMessageAppend DEF PSyncPanics
  <2> QED BY <1>0, <1>2, <1>4, <2>1, <2>3 DEF PSyncPanics, LinkOK
<1>5. ASSUME NEW c \in Conns, PSyncAfterDump(c) PROVE LinkOK'
  <2>1. up' \in [Conns -> Seq(UpMessage)] /\ Head(up[c]).n \in Int
    BY <1>1, <1>5 DEF PSyncAfterDump, Request
  <2>2. [NoTask EXCEPT !.pc = "partial", !.from = Head(up[c]).n] \in TaskType
    BY <2>1, NoTaskType DEF TaskType
  <2> QED BY <1>0, <1>5, <2>1, <2>2 DEF PSyncAfterDump, LinkOK
<1>6. ASSUME NEW c \in Conns, ReplConfAck(c) PROVE LinkOK'
  <2>1. up' \in [Conns -> Seq(UpMessage)] /\ Head(up[c]).n \in Int
    BY <1>1, <1>6 DEF ReplConfAck, Request
  <2>2. [slave[c] EXCEPT !.offset = Head(up[c]).n] \in SlaveType
    BY <1>0, <2>1 DEF LinkOK, SlaveType
  <2>3. slave' \in [Conns -> SlaveType]
    BY <1>0, <1>6, <2>2 DEF ReplConfAck, LinkOK
  <2> QED BY <1>0, <1>6, <2>1, <2>3 DEF ReplConfAck, LinkOK
<1> QED BY <1>3, <1>4, <1>5, <1>6 DEF Requests

LEMMA ReplicaLink == ASSUME IInv, Replica PROVE LinkOK'
<1>0. LinkOK
  BY DEF IInv
<1>1. \A r \in Replicas : replica[r] \in ReplicaType
  BY <1>0 DEF LinkOK
<1>2. ASSUME NEW r \in Replicas PROVE Off(r) \in [Replicas -> ReplicaType]
  <2>1. \A n \in Int :
            [replica[r] EXCEPT !.pc = "off", !.conn = Nil, !.known = FALSE, !.offset = n] \in ReplicaType
    BY <1>1 DEF ReplicaType
  <2>2. -1 \in Int
    OBVIOUS
  <2>3. [replica[r] EXCEPT !.pc = "off", !.conn = Nil, !.known = FALSE, !.offset = -1] \in ReplicaType
    BY <2>1, <2>2
  <2> QED BY <1>0, <2>3 DEF Off, LinkOK
<1>3. ASSUME NEW r \in Replicas, NEW l, Reads(r, l)
      PROVE  /\ replica[r].conn \in Conns
             /\ Incoming(r) \in DownMessage
             /\ Tail(down[replica[r].conn]) \in Seq(DownMessage)
  <2>1. replica[r].conn \in Conns
    BY <1>1, <1>3 DEF Reads, ReplicaType
  <2>2. down[replica[r].conn] \in Seq(DownMessage) /\ down[replica[r].conn] # <<>>
    BY <1>0, <1>3, <2>1 DEF LinkOK, Reads
  <2> QED BY <2>1, <2>2 DEF Incoming
<1>4. ASSUME NEW r \in Replicas, NEW c \in Conns, Connect(r, c) PROVE LinkOK'
  <2>1. (IF replica[r].known THEN replica[r].offset ELSE -1) \in Int
    BY <1>1 DEF ReplicaType
  <2>2. Message("psync", IF replica[r].known THEN replica[r].offset ELSE -1) \in UpMessage
    BY <2>1 DEF Message, UpMessage
  <2>3. [replica[r] EXCEPT !.pc = "handshake", !.conn = c] \in ReplicaType
    BY <1>1 DEF ReplicaType
  <2>4. replica' = [replica EXCEPT ![r] = [replica[r] EXCEPT !.pc = "handshake", !.conn = c]]
    BY <1>0, <1>4 DEF Connect, LinkOK, ReplicaType
  <2>5. up' \in [Conns -> Seq(UpMessage)]
    BY <1>0, <1>4, <2>2 DEF Connect, LinkOK
  <2> QED BY <1>0, <1>4, <2>3, <2>4, <2>5 DEF Connect, LinkOK
<1>5. ASSUME NEW r \in Replicas, ReceiveHeader(r) PROVE LinkOK'
  <2> DEFINE m == Incoming(r)
             good == m.type = "continue" \/ (m.type = "full" /\ m.size # Nil)
             offset == IF m.type = "full" THEN m.n ELSE replica[r].offset
             data == IF m.type = "full" THEN Upto(m.size) ELSE replica[r].data
  <2>1. m \in DownMessage /\ Tail(down[replica[r].conn]) \in Seq(DownMessage)
    BY <1>3, <1>5 DEF ReceiveHeader
  <2>2. ASSUME good PROVE offset \in Int /\ data \in Seq(Nat)
    <3>1. m.type = "full" => m.n \in Nat /\ m.size \in Nat
      BY <2>1, <2>2 DEF DownMessage
    <3>2. CASE m.type = "full"
      <4>1. Upto(m.size) \in Seq(Nat)
        BY <3>1, <3>2, UptoSeq
      <4> QED BY <3>1, <3>2, <4>1
    <3>3. CASE m.type # "full"
      BY <1>1, <3>3 DEF ReplicaType
    <3> QED BY <3>2, <3>3
  <2>3. ASSUME good
        PROVE  [replica[r] EXCEPT !.pc = "stream", !.known = TRUE, !.offset = offset, !.data = data]
                   \in ReplicaType
    <3> HIDE DEF offset, data
    <3> QED BY <1>1, <2>2, <2>3 DEF ReplicaType
  <2>4. ASSUME good PROVE replica' \in [Replicas -> ReplicaType]
    <3>1. replica' = [replica EXCEPT ![r] =
                        [replica[r] EXCEPT !.pc = "stream", !.known = TRUE,
                                           !.offset = offset, !.data = data]]
      BY <1>5, <2>4 DEF ReceiveHeader
    <3> QED BY <1>0, <2>3, <2>4, <3>1 DEF LinkOK
  <2>5. replica' \in [Replicas -> ReplicaType]
    BY <1>2, <1>5, <2>4 DEF ReceiveHeader
  <2>6. down' \in [Conns -> Seq(DownMessage)]
    BY <1>0, <1>5, <2>1 DEF ReceiveHeader, Receive, LinkOK
  <2>7. open' \in [Conns -> {"new", "open", "closed"}]
    BY <1>0, <1>5 DEF ReceiveHeader, LinkOK
  <2> QED BY <1>0, <1>5, <2>5, <2>6, <2>7 DEF ReceiveHeader, LinkOK
<1>6. ASSUME NEW r \in Replicas, ReceiveLine(r) PROVE LinkOK'
  <2> DEFINE n == Incoming(r).n
             data == IF n = 0 THEN replica[r].data ELSE Append(replica[r].data, n)
             offset == replica[r].offset + 1
  <2>1. Incoming(r) \in DownMessage /\ Tail(down[replica[r].conn]) \in Seq(DownMessage)
    BY <1>3, <1>6 DEF ReceiveLine
  <2>2. n \in Nat
    BY <2>1 DEF DownMessage
  <2>3. data \in Seq(Nat) /\ offset \in Int
    BY <1>1, <2>2 DEF ReplicaType
  <2>4. [replica[r] EXCEPT !.offset = offset, !.data = data] \in ReplicaType
    <3> HIDE DEF offset, data
    <3> QED BY <1>1, <2>3 DEF ReplicaType
  <2>5. replica' = [replica EXCEPT ![r] = [replica[r] EXCEPT !.offset = offset, !.data = data]]
    BY <1>0, <1>1, <1>6 DEF ReceiveLine, LinkOK, ReplicaType
  <2>6. replica' \in [Replicas -> ReplicaType]
    <3> HIDE DEF offset, data
    <3> QED BY <1>0, <2>4, <2>5 DEF LinkOK
  <2>7. down' \in [Conns -> Seq(DownMessage)]
    BY <1>0, <1>6, <2>1 DEF ReceiveLine, Receive, LinkOK
  <2> QED BY <1>0, <1>6, <2>6, <2>7 DEF ReceiveLine, LinkOK
<1>7. ASSUME NEW r \in Replicas, Ack(r) PROVE LinkOK'
  <2>1. Message("ack", replica[r].offset) \in UpMessage
    BY <1>1 DEF ReplicaType, Message, UpMessage
  <2>2. \A c \in Conns : Append(up[c], Message("ack", replica[r].offset)) \in Seq(UpMessage)
    BY <1>0, <2>1 DEF LinkOK
  <2>3. up' \in [Conns -> Seq(UpMessage)]
    BY <1>0, <1>7, <2>2 DEF Ack, LinkOK
  <2> QED BY <1>0, <1>7, <2>3 DEF Ack, LinkOK
<1>8. ASSUME NEW r \in Replicas, Disconnect(r) PROVE LinkOK'
  <2>1. [replica[r] EXCEPT !.pc = "lost", !.conn = Nil] \in ReplicaType
    BY <1>1 DEF ReplicaType
  <2>2. replica' = IF replica[r].pc = "stream"
                   THEN [replica EXCEPT ![r] = [replica[r] EXCEPT !.pc = "lost", !.conn = Nil]]
                   ELSE Off(r)
    BY <1>0, <1>8 DEF Disconnect, LinkOK, ReplicaType
  <2>3. replica' \in [Replicas -> ReplicaType]
    BY <1>0, <1>2, <2>1, <2>2 DEF LinkOK
  <2>4. <<>> \in Seq(DownMessage)
    OBVIOUS
  <2> QED BY <1>0, <1>8, <2>3, <2>4 DEF Disconnect, LinkOK
<1> QED BY <1>4, <1>5, <1>6, <1>7, <1>8 DEF Replica

LEMMA NextLink == ASSUME IInv, Next PROVE LinkOK'
<1>0. LinkOK
  BY DEF IInv
<1>1. CASE Write
  BY <1>0, <1>1 DEF Write, WriteLine, CallListeners, Callback, LinkOK, net
<1>2. CASE Cron
  BY <1>0, <1>2 DEF Cron, CronKeepsMutex, CronPings, LinkOK, net
<1>3. CASE Dump
  <2>1. ASSUME NEW j \in Savers, NEW c \in Conns, NextWaiting(j, c) PROVE LinkOK'
    <3>1. [task[c] EXCEPT !.by = j, !.pc = "full"] \in TaskType
      BY <1>0 DEF LinkOK, TaskType, Jobs
    <3> QED BY <1>0, <2>1, <3>1 DEF NextWaiting, LinkOK, net
  <2> QED
    BY <1>0, <1>3, <2>1
    DEF Dump, LinkOK, net, SaveBegins, SaveFinishes, TakeSize, Register, Hook, RewriteRDB,
        RewriteFails, SwapBacklog, RemoveListener
<1> QED BY <1>1, <1>2, <1>3, SendLink, SyncLink, RequestsLink, ReplicaLink DEF Next

-------------------------------------------------------------------------------
(* Waiting slaves *)

Queue == Placed /\ Waiting /\ NobodyForgotten

\* Whoever waits after a step is remembered, or was and still is.
LEMMA StillRemembered ==
    ASSUME NobodyForgotten, spoiled \subseteq spoiled',
           \A c \in master'.slaveMap : slave'[c].state = "waiting" =>
               \/ Remembered(c)'
               \/ /\ c \in master.slaveMap /\ slave[c].state = "waiting"
                  /\ Remembered(c) => Remembered(c)'
    PROVE  NobodyForgotten'
BY DEF NobodyForgotten, Remembered

\* Most steps leave alone who waits, who has finished, and who is resynchronised.
LEMMA QueueSame ==
    ASSUME IInv, spoiled \subseteq spoiled',
           master'.saveState = master.saveState, master'.waitSlaves = master.waitSlaves,
           master'.slaveMap = master.slaveMap, master'.rdbFile \in {master.rdbFile, Rewriter},
           \A j \in Savers : /\ job'[j].todo = job[j].todo
                             /\ job'[j].pc = "sync" <=> job[j].pc = "sync"
                             /\ job[j].pc \in {"idle", "begin"} => job'[j].pc = job[j].pc,
           \A c \in Conns : task'[c].pc = task[c].pc /\ slave'[c].state = slave[c].state
    PROVE  Queue'
<1>1. Placed'
  BY JobAssumption DEF IInv, Placed, Jobs
<1>2. Waiting'
  BY DEF IInv, Waiting
<1>3. NobodyForgotten'
  <2>1. master.slaveMap \subseteq Conns
    BY DEF IInv, MasterOK, MasterType
  <2> QED BY <2>1, StillRemembered DEF IInv, Remembered
<1> QED BY <1>1, <1>2, <1>3 DEF Queue

LEMMA WriteQueue == ASSUME IInv, Write PROVE Queue'
<1>1. spoiled \subseteq spoiled' /\ UNCHANGED <<master, job, task, slave>>
  BY DEF Write, WriteLine, CallListeners, Callback, Spoil
<1> QED BY <1>1, QueueSame

\* A slave that is removed is no longer waited for.
LEMMA ForgetQueue ==
    ASSUME IInv, NEW c \in Conns, master' = Forget(master, c), UNCHANGED <<job, slave, spoiled>>,
           task \in [Conns -> TaskType],
           \/ UNCHANGED task
           \/ task[c].pc # "idle" /\ task' = [task EXCEPT ![c] = NoTask]
    PROVE  Queue'
<1>1. /\ master'.saveState = master.saveState /\ master'.rdbFile = master.rdbFile
      /\ master'.waitSlaves = Nil <=> master.waitSlaves = Nil
      /\ master'.slaveMap = master.slaveMap \ {c}
      /\ master.waitSlaves # Nil => master'.waitSlaves = master.waitSlaves \ {c}
  BY ForgetType
<1>2. \A d \in Conns \ {c} : task'[d] = task[d]
  OBVIOUS
<1>3. Placed'
  BY <1>1, <1>2 DEF IInv, Placed, NoTask
<1>4. Waiting'
  BY <1>1 DEF IInv, Waiting
<1>5. NobodyForgotten'
  <2>1. master.slaveMap \subseteq Conns
    BY DEF IInv, MasterOK, MasterType
  <2> QED BY <1>1, <1>2, <2>1, StillRemembered DEF IInv, Remembered
<1> QED BY <1>3, <1>4, <1>5 DEF Queue

LEMMA SendQueue == ASSUME IInv, Send PROVE Queue'
<1>1. ASSUME NEW p \in Senders, \/ Snapshot(p)
                                \/ \E c \in Conns : SendTo(p, c) \/ SendPanics(p, c)
      PROVE  Queue'
  <2>1. spoiled \subseteq spoiled' /\ UNCHANGED <<master, job, task, slave>>
    BY <1>1 DEF Snapshot, SendTo, SendPanics, Spoil
  <2> QED BY <2>1, QueueSame
<1>2. ASSUME NEW p \in Senders, Advance(p) PROVE Queue'
  <2>1. \A c \in Conns : slave'[c].state = slave[c].state
    BY <1>2 DEF Advance, IInv, LinkOK, SlaveType
  <2> QED BY <1>2, <2>1, QueueSame DEF Advance
<1>3. ASSUME NEW p \in Senders, NEW c \in Conns, SendFails(p, c) PROVE Queue'
  BY <1>3, ForgetQueue DEF SendFails, IInv, LinkOK
<1> QED BY <1>1, <1>2, <1>3 DEF Send

LEMMA CronQueue == ASSUME IInv, Cron PROVE Queue'
<1>1. \A j \in Savers : job'[j] = job[j]
  BY JobAssumption DEF Cron, CronKeepsMutex, CronPings, IInv, MasterOK, Jobs
<1>2. UNCHANGED <<master, task, slave, spoiled>>
  BY DEF Cron, CronKeepsMutex, CronPings
<1> QED BY <1>1, <1>2, QueueSame

LEMMA DumpQueue == ASSUME IInv, Dump PROVE Queue'
<1>0. /\ Savers \subseteq Jobs /\ Rewriter \in Jobs /\ job \in [Jobs -> JobType]
      /\ master \in MasterType /\ master.slaveMap \subseteq Conns
      /\ Placed /\ Waiting /\ NobodyForgotten
  BY DEF IInv, MasterOK, MasterType, Jobs
<1>1. ASSUME NEW j \in Savers, SaveBegins(j) PROVE Queue'
  <2>1. /\ master'.saveState = "running" /\ master'.rdbFile = j
        /\ master'.waitSlaves = master.waitSlaves /\ master'.slaveMap = master.slaveMap
    BY <1>0, <1>1 DEF SaveBegins, MasterType
  <2>2. job[j].pc = "begin" /\ job'[j].pc = "size" /\ job'[j].todo = job[j].todo
    BY <1>0, <1>1 DEF SaveBegins, JobType
  <2>3. \A i \in Savers \ {j} : job'[i] = job[i]
    BY <1>0, <1>1 DEF SaveBegins
  <2>4. spoiled \subseteq spoiled'
    BY <1>1 DEF SaveBegins, Spoil
  <2>5. Placed'
    BY <1>0, <2>1, JobAssumption DEF Placed
  <2>6. Waiting'
    <3>1. \A i \in Savers : job'[i].pc # "sync" => job'[i].todo = {}
      BY <1>0, <2>2, <2>3 DEF Waiting
    <3>2. ASSUME master'.waitSlaves = Nil
          PROVE  (\E i \in Savers : job'[i].pc = "sync") /\ "savers" \in spoiled'
      <4>1. PICK i \in Savers : job[i].pc = "sync"
        BY <1>0, <2>1, <3>2 DEF Waiting
      <4>2. i # j
        BY <2>2, <4>1
      <4> QED BY <1>1, <2>3, <4>1, <4>2 DEF SaveBegins, Spoil
    <3> QED BY <3>1, <3>2 DEF Waiting
  <2>7. NobodyForgotten'
    <3>1. \A i \in Savers : job'[i].todo = job[i].todo
      BY <2>2, <2>3
    <3>2. UNCHANGED <<task, slave>>
      BY <1>1 DEF SaveBegins
    <3> QED BY <1>0, <2>1, <2>4, <3>1, <3>2, StillRemembered DEF Remembered
  <2> QED BY <2>5, <2>6, <2>7 DEF Queue
<1>2. ASSUME NEW j \in Savers, SaveFinishes(j) PROVE Queue'
  <2>1. /\ master'.saveState = "finish" /\ master'.rdbFile = master.rdbFile
        /\ master'.waitSlaves = Nil /\ master'.slaveMap = master.slaveMap
    BY <1>0, <1>2 DEF SaveFinishes, MasterType
  <2>2. /\ job[j].pc = "finish" /\ job'[j].pc = "sync"
        /\ job'[j].todo = IF master.waitSlaves = Nil THEN {} ELSE master.waitSlaves
    BY <1>0, <1>2 DEF SaveFinishes, JobType
  <2>3. \A i \in Savers \ {j} : job'[i] = job[i]
    BY <1>0, <1>2 DEF SaveFinishes
  <2>4. UNCHANGED <<task, slave, spoiled>>
    BY <1>2 DEF SaveFinishes
  <2>5. Placed'
    BY <1>0, <2>1, <2>2 DEF Placed
  <2>6. Waiting'
    BY <1>0, <2>1, <2>2, <2>3 DEF Waiting
  <2>7. NobodyForgotten'
    <3>1. job[j].todo = {}
      BY <1>0, <2>2 DEF Waiting
    <3>2. \A c \in Conns : Remembered(c) => Remembered(c)'
      BY <2>2, <2>3, <2>4, <3>1 DEF Remembered
    <3> QED BY <1>0, <2>1, <2>4, <3>2, StillRemembered
  <2> QED BY <2>5, <2>6, <2>7 DEF Queue
<1>3. ASSUME NEW j \in Savers, NEW c \in Conns, NextWaiting(j, c) PROVE Queue'
  <2>1. job[j].pc = "sync" /\ job'[j].pc = "sync" /\ job'[j].todo = job[j].todo \ {c}
    BY <1>0, <1>3 DEF NextWaiting, JobType
  <2>2. \A i \in Savers \ {j} : job'[i] = job[i]
    BY <1>0, <1>3 DEF NextWaiting
  <2>3. task'[c].pc = "full" /\ \A d \in Conns \ {c} : task'[d] = task[d]
    BY <1>3 DEF NextWaiting, IInv, LinkOK, TaskType
  <2>4. UNCHANGED <<master, slave, spoiled>>
    BY <1>3 DEF NextWaiting
  <2>5. Placed'
    BY <1>0, <2>1, <2>4 DEF Placed
  <2>6. Waiting'
    BY <1>0, <2>1, <2>2, <2>4 DEF Waiting
  <2>7. NobodyForgotten'
    <3>1. \A d \in Conns : Remembered(d) => Remembered(d)'
      BY <2>1, <2>2, <2>3, <2>4 DEF Remembered
    <3> QED BY <1>0, <2>4, <3>1, StillRemembered
  <2> QED BY <2>5, <2>6, <2>7 DEF Queue
<1>4. ASSUME NEW j \in Jobs, TakeSize(j) \/ Register(j) \/ RewriteRDB(j) \/ RewriteFails(j)
      PROVE  Queue'
  <2>1. /\ job[j].pc \in {"size", "register", "rewrite"}
        /\ UNCHANGED <<master, task, slave>> /\ spoiled \subseteq spoiled'
    BY <1>4 DEF TakeSize, Register, RewriteRDB, RewriteFails, Spoil
  <2>2. \A i \in Savers \ {j} : job'[i] = job[i]
    BY <1>0, <1>4 DEF TakeSize, Register, RewriteRDB, RewriteFails
  <2>3. job'[j].todo = job[j].todo /\ job'[j].pc # "sync"
    BY <1>0, <1>4 DEF TakeSize, Register, RewriteRDB, RewriteFails, JobType
  <2>4. \A i \in Savers : /\ job'[i].todo = job[i].todo
                          /\ job'[i].pc = "sync" <=> job[i].pc = "sync"
                          /\ job[i].pc \in {"idle", "begin"} => job'[i].pc = job[i].pc
    BY <2>1, <2>2, <2>3
  <2> QED BY <2>1, <2>4, QueueSame
<1>5. CASE Hook \/ SwapBacklog \/ RemoveListener
  <2>1. \A i \in Savers : job'[i] = job[i]
    BY <1>0, <1>5, JobAssumption DEF Hook, SwapBacklog, RemoveListener
  <2>2. UNCHANGED <<task, slave>> /\ spoiled \subseteq spoiled'
    BY <1>5 DEF Hook, SwapBacklog, RemoveListener
  <2>3. /\ master'.saveState = master.saveState /\ master'.waitSlaves = master.waitSlaves
        /\ master'.slaveMap = master.slaveMap /\ master'.rdbFile \in {master.rdbFile, Rewriter}
    BY <1>0, <1>5 DEF Hook, SwapBacklog, RemoveListener, MasterType
  <2> QED BY <2>1, <2>2, <2>3, QueueSame
<1> QED BY <1>1, <1>2, <1>3, <1>4, <1>5 DEF Dump

\* A task that goes on keeps its connection remembered; only a slave that is online by
\* then loses it.
LEMMA TaskQueue ==
    ASSUME IInv, NEW c \in Conns, task[c].pc # "idle",
           master'.saveState = master.saveState, master'.waitSlaves = master.waitSlaves,
           master'.slaveMap = master.slaveMap, master'.rdbFile = master.rdbFile,
           UNCHANGED <<job, spoiled>>,
           \A d \in Conns \ {c} : task'[d] = task[d] /\ slave'[d] = slave[d],
           \/ task'[c].pc # "idle"
           \/ slave'[c].state # "waiting"
    PROVE  Queue'
<1>1. Placed'
  BY DEF IInv, Placed
<1>2. Waiting'
  BY DEF IInv, Waiting
<1>3. NobodyForgotten'
  <2>1. master.slaveMap \subseteq Conns
    BY DEF IInv, MasterOK, MasterType
  <2> QED BY <2>1, StillRemembered DEF IInv, Remembered
<1> QED BY <1>1, <1>2, <1>3 DEF Queue

LEMMA SyncQueue == ASSUME IInv, Sync PROVE Queue'
<1>0. /\ task \in [Conns -> TaskType] /\ slave \in [Conns -> SlaveType]
      /\ master \in MasterType
  BY DEF IInv, LinkOK, MasterOK
<1>1. ASSUME NEW c \in Conns, TryPartialSync(c) \/ CannotPartialSync(c) \/ SendRDB(c) \/ SendBacklog(c)
      PROVE  Queue'
  <2>1. /\ task[c].pc # "idle" /\ UNCHANGED <<master, job, spoiled>>
        /\ \A d \in Conns \ {c} : task'[d] = task[d] /\ slave'[d] = slave[d]
    BY <1>0, <1>1 DEF TryPartialSync, CannotPartialSync, SendRDB, SendBacklog
  <2>2. task'[c].pc # "idle"
    BY ZenonT(60), <1>0, <1>1 DEF TryPartialSync, CannotPartialSync, SendRDB, SendBacklog, TaskType
  <2> QED BY <2>1, <2>2, TaskQueue
<1>2. ASSUME NEW c \in Conns, SetSlaveOnline(c) PROVE Queue'
  <2>1. /\ task[c].pc # "idle" /\ UNCHANGED <<job, spoiled>> /\ slave'[c].state = "online"
        /\ \A d \in Conns \ {c} : task'[d] = task[d] /\ slave'[d] = slave[d]
    BY <1>0, <1>2 DEF SetSlaveOnline
  <2>2. /\ master'.saveState = master.saveState /\ master'.waitSlaves = master.waitSlaves
        /\ master'.slaveMap = master.slaveMap /\ master'.rdbFile = master.rdbFile
    BY <1>0, <1>2 DEF SetSlaveOnline, MasterType
  <2> QED BY <2>1, <2>2, TaskQueue
<1>3. ASSUME NEW c \in Conns, SyncFails(c) PROVE Queue'
  <2>1. task[c].pc # "idle"
    BY <1>3 DEF SyncFails
  <2> QED BY <1>0, <1>3, <2>1, ForgetQueue DEF SyncFails
<1> QED BY <1>1, <1>2, <1>3 DEF Sync

LEMMA RequestsQueue == ASSUME IInv, Requests PROVE Queue'
<1>0. /\ task \in [Conns -> TaskType] /\ slave \in [Conns -> SlaveType]
      /\ master \in MasterType /\ master.slaveMap \subseteq Conns
      /\ job \in [Jobs -> JobType] /\ Savers \subseteq Jobs
      /\ MasterOK /\ Placed /\ Waiting /\ NobodyForgotten
  BY DEF IInv, LinkOK, MasterOK, MasterType, Jobs
<1>1. ASSUME NEW c \in Conns
      PROVE  LET m == NewSlave(c)
             IN  /\ m.saveState = master.saveState /\ m.rdbFile = master.rdbFile
                 /\ m.waitSlaves = master.waitSlaves /\ m.slaveMap = master.slaveMap \cup {c}
  BY <1>0, NewSlaveType
<1>2. ASSUME NEW c \in Conns, PSyncWaits(c) PROVE Queue'
  <2>1. NewSlave(c) \in MasterType /\ NewSlave(c).waitSlaves # Nil /\ master.waitSlaves # Nil
    BY <1>0, <1>1, <1>2, NewSlaveType DEF PSyncWaits
  <2>2. /\ master'.saveState = master.saveState /\ master'.rdbFile = master.rdbFile
        /\ master'.waitSlaves = master.waitSlaves \cup {c} /\ master'.waitSlaves # Nil
        /\ master'.slaveMap = master.slaveMap \cup {c}
    BY <1>1, <1>2, <2>1, WaitType DEF PSyncWaits
  <2>3. UNCHANGED <<task, spoiled>> /\ \A d \in Conns \ {c} : slave'[d] = slave[d]
    BY <1>0, <1>2 DEF PSyncWaits
  <2>4. \A j \in Savers : /\ job'[j].todo = job[j].todo
                          /\ job'[j].pc # "sync" => job[j].pc # "sync"
                          /\ job[j].pc = "idle" \/ job'[j] = job[j]
                          /\ job[j].pc = "idle" => job'[j].pc \in {"idle", "begin"}
    BY <1>0, <1>2 DEF PSyncWaits, JobType
  <2>5. Placed'
    BY <1>0, <2>2, <2>3, <2>4 DEF Placed
  <2>6. Waiting'
    BY <1>0, <2>2, <2>4 DEF Waiting
  <2>7. NobodyForgotten'
    BY <1>0, <2>2, <2>3, <2>4, StillRemembered DEF Remembered
  <2> QED BY <2>5, <2>6, <2>7 DEF Queue
<1>3. ASSUME NEW c \in Conns, PSyncPanics(c) PROVE Queue'
  <2>1. "savers" \in spoiled
    BY <1>0, <1>3 DEF PSyncPanics, Waiting
  <2>2. /\ master'.saveState = master.saveState /\ master'.rdbFile = master.rdbFile
        /\ master'.waitSlaves = master.waitSlaves
    BY <1>1, <1>3 DEF PSyncPanics
  <2>3. UNCHANGED <<task, spoiled, job>>
    BY <1>3 DEF PSyncPanics
  <2> QED BY <1>0, <2>1, <2>2, <2>3 DEF Queue, Placed, Waiting, NobodyForgotten
<1>4. ASSUME NEW c \in Conns, PSyncAfterDump(c) PROVE Queue'
  <2>1. master.saveState = "finish" /\ UNCHANGED <<slave, spoiled, job>>
    BY <1>4 DEF PSyncAfterDump
  <2>2. /\ master'.saveState = master.saveState /\ master'.rdbFile = master.rdbFile
        /\ master'.waitSlaves = master.waitSlaves /\ master'.slaveMap = master.slaveMap \cup {c}
    BY <1>1, <1>4 DEF PSyncAfterDump
  <2>3. task'[c].pc = "partial" /\ \A d \in Conns \ {c} : task'[d] = task[d]
    BY <1>0, <1>4 DEF PSyncAfterDump, NoTask
  <2>4. Placed'
    BY <1>0, <2>1, <2>2 DEF Placed
  <2>5. Waiting'
    BY <1>0, <2>1, <2>2 DEF Waiting
  <2>6. NobodyForgotten'
    BY <1>0, <2>1, <2>2, <2>3, StillRemembered DEF Remembered
  <2> QED BY <2>4, <2>5, <2>6 DEF Queue
<1>5. ASSUME NEW c \in Conns, ReplConfAck(c) PROVE Queue'
  <2>1. \A d \in Conns : slave'[d].state = slave[d].state
    BY <1>0, <1>5 DEF ReplConfAck, SlaveType
  <2>2. UNCHANGED <<master, job, task>> /\ spoiled \subseteq spoiled'
    BY <1>5 DEF ReplConfAck, Spoil
  <2> QED BY <2>1, <2>2, QueueSame
<1> QED BY <1>2, <1>3, <1>4, <1>5 DEF Requests

LEMMA ReplicaQueue == ASSUME IInv, Replica PROVE Queue'
<1>1. UNCHANGED <<master, job, task, slave, spoiled>>
  BY DEF Replica, Connect, ReceiveHeader, ReceiveLine, Ack, Disconnect
<1> QED BY <1>1, QueueSame

-------------------------------------------------------------------------------

LEMMA InitIInv == Init => IInv
<1> SUFFICES ASSUME Init PROVE IInv
  OBVIOUS
<1>1. MasterOK
  BY DEF Init, MasterOK, MasterType, JobType, Logs
<1>2. <<>> \in Seq(Nat) /\ Len(<<>>) = 0 /\ <<>> \in Seq(UpMessage) /\ <<>> \in Seq(DownMessage)
  OBVIOUS
<1>3. BufferOK
  BY <1>2, SenderRest DEF Init, BufferOK, LogType, Logs
<1>4. LinkOK
  BY <1>2, NoTaskType DEF Init, LinkOK, SlaveType, ReplicaType
<1>5. Placed /\ NobodyForgotten
  BY DEF Init, Placed, NobodyForgotten, NoTask, Jobs
<1>6. Waiting
  BY ConnAssumption DEF Init, Waiting, Jobs
<1> QED BY <1>1, <1>3, <1>4, <1>5, <1>6 DEF IInv

LEMMA NextIInv == IInv /\ [Next]_vars => IInv'
<1> SUFFICES ASSUME IInv, [Next]_vars PROVE IInv'
  OBVIOUS
<1>1. CASE Next
  <2>1. Queue'
    BY <1>1, WriteQueue, SendQueue, CronQueue, DumpQueue, SyncQueue, RequestsQueue, ReplicaQueue
    DEF Next
  <2> QED BY <1>1, <2>1, NextMaster, NextBuffer, NextLink DEF IInv, Queue
<1>2. CASE UNCHANGED vars
  BY <1>2 DEF vars, net, IInv, MasterOK, BufferOK, LinkOK, Placed, Waiting, NobodyForgotten
<1> QED BY <1>1, <1>2

\* The waiting slaves, the dump and the resynchronisations fit together in every
\* reachable state.
THEOREM Invariance == Spec => []IInv
BY InitIInv, NextIInv, PTL DEF Spec

\* Every variable of the master, of its connections and of its replicas keeps its type;
\* so no dump without a file is ever sent, and no buffer is read before its start.
THEOREM TypeCorrect == Spec => []TypeOK
<1>1. IInv => TypeOK
  <2>1. ASSUME LinkOK, NEW c \in Conns
        PROVE  /\ \A i \in DOMAIN up[c] : up[c][i].type \in {"psync", "ack"}
               /\ \A i \in DOMAIN down[c] :
                      down[c][i].type \in {"line", "full", "continue", "err"}
    <3>1. up[c] \in Seq(UpMessage) /\ down[c] \in Seq(DownMessage)
      BY <2>1 DEF LinkOK
    <3>2. \A i \in DOMAIN up[c] : up[c][i] \in UpMessage
      BY <3>1
    <3>3. \A i \in DOMAIN down[c] : down[c][i] \in DownMessage
      BY <3>1
    <3> QED BY <3>2, <3>3 DEF UpMessage, DownMessage
  <2> QED
    BY <2>1
    DEF IInv, TypeOK, MasterOK, BufferOK, LinkOK, MasterType, JobType, SlaveType, LogType,
        SenderType, TaskType, ReplicaType
<1> QED BY <1>1, Invariance, PTL

\* NobodyForgotten for every value of the constants: a slave that was told to wait for
\* the dump is in the map of waiting slaves, with the goroutine that has taken it from
\* there, or being resynchronised, as long as no second dump was started.
\* (execPSync and saveForReplication, replication_master.go:104-145, 278-326)
THEOREM AllRemembered == Spec => []NobodyForgotten
<1>1. IInv => NobodyForgotten
  BY DEF IInv
<1> QED BY <1>1, Invariance, PTL


-------------------------------------------------------------------------------
(* Induction *)

\* A set of numbers with a member has a least one.
LEMMA LeastNumber ==
    ASSUME NEW T \in SUBSET Nat, T # {}
    PROVE  \E x \in T : \A y \in T : ~(y < x)
<1> DEFINE R == OpToRel(<, Nat)
<1>1. IsWellFoundedOn(R, Nat)
  BY NatLessThanWellFounded
<1>2. \E x \in T : \A y \in T : <<y, x>> \notin R
  BY <1>1, WFMin
<1>3. \A x, y \in Nat : y < x => <<y, x>> \in R
  BY DEF OpToRel
<1> QED
  BY <1>2, <1>3

\* A set with 0, and with the successor of each number in it, has every number.
LEMMA SetInduction ==
    ASSUME NEW S, 0 \in S, \A n \in Nat : n \in S => n + 1 \in S
    PROVE  \A n \in Nat : n \in S
<1> DEFINE T == Nat \ S
<1>1. SUFFICES ASSUME T # {} PROVE FALSE
  OBVIOUS
<1>2. PICK x \in T : \A y \in T : ~(y < x)
  BY <1>1, LeastNumber
<1>3. x - 1 \in Nat /\ x - 1 \notin T
  BY <1>2
<1> QED
  BY <1>2, <1>3

-------------------------------------------------------------------------------
(* What a dump of k lines and n entries of a backlog b make of a replica *)

Next1(b, s, i) == IF b[i] = 0 THEN s[i - 1] ELSE Append(s[i - 1], b[i])
Played(b, k, n, s) == s = [i \in 0 .. n |-> IF i = 0 THEN Upto(k) ELSE Next1(b, s, i)]
Content(b, k, n) == (CHOOSE s : Played(b, k, n, s))[n]

\* The recursion of Held defines a function.
LEMMA PlayedExists ==
    ASSUME NEW b, NEW k, NEW m \in Nat
    PROVE  \E s : Played(b, k, m, s)
<1> DEFINE T == {n \in Nat : \E s : Played(b, k, n, s)}
<1>1. 0 \in T
  <2> DEFINE s == [i \in 0 .. 0 |-> Upto(k)]
  <2>1. Played(b, k, 0, s)
    BY DEF Played
  <2> QED
    BY <2>1
<1>2. ASSUME NEW n \in Nat, n \in T
      PROVE  n + 1 \in T
  <2>1. PICK s : Played(b, k, n, s)
    BY <1>2
  <2> DEFINE t == [i \in 0 .. n + 1 |->
                       IF i <= n THEN s[i] ELSE IF b[i] = 0 THEN s[n] ELSE Append(s[n], b[i])]
  <2>2. ASSUME NEW i \in 0 .. n + 1
        PROVE  t[i] = IF i = 0 THEN Upto(k) ELSE Next1(b, t, i)
    <3>1. CASE i = n + 1
      <4>1. t[i - 1] = s[n] /\ t[i] = IF b[i] = 0 THEN s[n] ELSE Append(s[n], b[i])
        BY <3>1
      <4> HIDE DEF t
      <4> QED
        BY <3>1, <4>1 DEF Next1
    <3>2. CASE i <= n
      <4>1. s[i] = IF i = 0 THEN Upto(k) ELSE Next1(b, s, i)
        BY <2>1, <3>2 DEF Played
      <4>2. t[i] = s[i] /\ (i # 0 => t[i - 1] = s[i - 1])
        BY <3>2
      <4> HIDE DEF t
      <4> QED
        BY <4>1, <4>2 DEF Next1
    <3> QED
      BY <3>1, <3>2
  <2>3. t = [i \in 0 .. n + 1 |-> t[i]]
    OBVIOUS
  <2> HIDE DEF t
  <2>4. Played(b, k, n + 1, t)
    BY <2>2, <2>3 DEF Played
  <2> QED
    BY <2>4
<1> HIDE DEF T
<1>3. m \in T
  BY <1>1, <1>2, SetInduction
<1> QED
  BY <1>3 DEF T

\* It depends on the entries it has met only.
LEMMA PlayedSame ==
    ASSUME NEW b, NEW c, NEW k, NEW m \in Nat, NEW n \in Nat, NEW s, NEW t,
           Played(b, k, m, s), Played(c, k, n, t),
           NEW l \in Nat, l <= m, l <= n, \A i \in 1 .. l : b[i] = c[i]
    PROVE  s[l] = t[l]
<1> DEFINE T == {i \in Nat : i <= l => s[i] = t[i]}
<1>1. 0 \in T
  BY DEF Played
<1>2. ASSUME NEW i \in Nat, i \in T
      PROVE  i + 1 \in T
  <2> SUFFICES ASSUME i + 1 <= l
               PROVE  s[i + 1] = t[i + 1]
    OBVIOUS
  <2>0. i + 1 \in 0 .. m /\ i + 1 \in 0 .. n /\ i + 1 # 0
    OBVIOUS
  <2>1. s[i + 1] = Next1(b, s, i + 1)
    BY <2>0 DEF Played
  <2>3. t[i + 1] = Next1(c, t, i + 1)
    BY <2>0 DEF Played
  <2>2. s[i] = t[i] /\ b[i + 1] = c[i + 1] /\ (i + 1) - 1 = i
    BY <1>2
  <2> QED
    BY <2>1, <2>2, <2>3 DEF Next1
<1> HIDE DEF T
<1>3. l \in T
  BY <1>1, <1>2, SetInduction
<1> QED
  BY <1>3 DEF T

LEMMA ContentIs ==
    ASSUME NEW b, NEW k, NEW n \in Nat
    PROVE  Played(b, k, n, CHOOSE s : Played(b, k, n, s))
BY PlayedExists

LEMMA ContentSame ==
    ASSUME NEW b, NEW c, NEW k, NEW n \in Nat, \A i \in 1 .. n : b[i] = c[i]
    PROVE  Content(b, k, n) = Content(c, k, n)
BY ContentIs, PlayedSame DEF Content

LEMMA ContentNone == ASSUME NEW b, NEW k PROVE Content(b, k, 0) = Upto(k)
<1>1. Played(b, k, 0, CHOOSE s : Played(b, k, 0, s))
  BY ContentIs
<1> QED
  BY <1>1 DEF Content, Played

LEMMA ContentNext ==
    ASSUME NEW b, NEW k, NEW n \in Nat
    PROVE  Content(b, k, n + 1) = IF b[n + 1] = 0 THEN Content(b, k, n)
                                  ELSE Append(Content(b, k, n), b[n + 1])
<1> DEFINE s == CHOOSE s : Played(b, k, n, s)
           t == CHOOSE t : Played(b, k, n + 1, t)
<1>1. Played(b, k, n, s) /\ Played(b, k, n + 1, t)
  BY ContentIs
<1>2. s[n] = t[n]
  <2> HIDE DEF s, t
  <2> QED
    BY <1>1, PlayedSame
<1>3. t[n + 1] = Next1(b, t, n + 1)
  <2> HIDE DEF s, t
  <2> QED
    BY <1>1 DEF Played
<1>4. Content(b, k, n) = s[n] /\ Content(b, k, n + 1) = t[n + 1]
  BY DEF Content
<1> HIDE DEF s, t
<1> QED
  BY <1>2, <1>3, <1>4 DEF Next1

\* A line more.
LEMMA UptoNext == ASSUME NEW n \in Nat PROVE Append(Upto(n), n + 1) = Upto(n + 1)
<1>1. Upto(n) \in Seq(Nat) /\ Len(Upto(n)) = n /\ Upto(n + 1) \in Seq(Nat) /\ Len(Upto(n + 1)) = n + 1
  BY UptoSeq DEF Upto
<1>2. \A i \in 1 .. n + 1 : Append(Upto(n), n + 1)[i] = Upto(n + 1)[i]
  BY DEF Upto
<1>3. Append(Upto(n), n + 1) \in Seq(Nat) /\ Len(Append(Upto(n), n + 1)) = n + 1
  BY <1>1
<1> QED
  BY <1>1, <1>2, <1>3, SeqEqual

LEMMA UptoLen == ASSUME NEW n \in Nat PROVE Len(Upto(n)) = n
BY DEF Upto

\* Every entry of the backlog of a dump of k lines adds the next line, up to m lines.
Follows(b, k, m) == \A n \in 0 .. Len(b) : \E l \in 0 .. m : Content(b, k, n) = Upto(l)

LEMMA ContentAppend ==
    ASSUME NEW b \in Seq(Nat), NEW k \in Nat, NEW x \in Nat, NEW m \in Nat, Follows(b, k, m),
           NEW l \in 0 .. m, Content(b, k, Len(b)) = Upto(l),
           NEW e \in 0 .. m, \/ x = 0 /\ e = l
                             \/ x = l + 1 /\ e = l + 1
    PROVE  LET c == Append(b, x)
           IN  Content(c, k, Len(c)) = Upto(e) /\ Follows(c, k, m)
<1> DEFINE c == Append(b, x)
<1>1. /\ Len(b) \in Nat /\ Len(c) = Len(b) + 1 /\ c[Len(b) + 1] = x
      /\ \A i \in 1 .. Len(b) : c[i] = b[i]
  OBVIOUS
<1> HIDE DEF c
<1>2. ASSUME NEW n \in 0 .. Len(b)
      PROVE  Content(c, k, n) = Content(b, k, n)
  <2>1. \A i \in 1 .. n : c[i] = b[i]
    BY <1>1
  <2> QED
    BY <2>1, <1>1, ContentSame
<1>3. Content(c, k, Len(b)) = Upto(l)
  BY <1>1, <1>2
<1>4. Content(c, k, Len(b) + 1) = IF x = 0 THEN Upto(l) ELSE Append(Upto(l), x)
  BY <1>1, <1>3, ContentNext
<1>5. Content(c, k, Len(c)) = Upto(e)
  <2>1. CASE x = 0 /\ e = l
    BY <1>1, <1>4, <2>1
  <2>2. CASE x = l + 1 /\ e = l + 1
    <3>1. l \in Nat /\ x # 0
      BY <2>2
    <3> QED
      BY <1>1, <1>4, <2>2, <3>1, UptoNext
  <2> QED
    BY <2>1, <2>2
<1>6. Follows(c, k, m)
  <2> SUFFICES ASSUME NEW n \in 0 .. Len(c)
               PROVE  \E i \in 0 .. m : Content(c, k, n) = Upto(i)
    BY DEF Follows
  <2>1. CASE n = Len(c)
    BY <1>5, <2>1
  <2>2. CASE n \in 0 .. Len(b)
    BY <1>2, <2>2 DEF Follows
  <2> QED
    BY <1>1, <2>1, <2>2
<1> QED
  BY <1>5, <1>6 DEF c

-------------------------------------------------------------------------------
(* Entries of the backlog on their way *)

\* Those from o to n.
Cut(b, o, n) == [i \in 1 .. n - o |-> Line(b[o + i])]

LEMMA CutIs ==
    ASSUME NEW b \in Seq(Nat), NEW n \in 0 .. Len(b), NEW o \in 0 .. n
    PROVE  /\ Cut(b, o, n) \in Seq(DownMessage) /\ Len(Cut(b, o, n)) = n - o
           /\ \A i \in 1 .. n - o : Cut(b, o, n)[i] = Line(b[o + i])
<1>1. \A i \in 1 .. n - o : o + i \in 1 .. Len(b)
  OBVIOUS
<1>2. \A i \in 1 .. n - o : Line(b[o + i]) \in DownMessage
  BY <1>1 DEF Line, Message, DownMessage
<1> QED
  BY <1>2 DEF Cut

LEMMA CutLines ==
    ASSUME NEW b \in Seq(Nat), NEW o \in 0 .. Len(b)
    PROVE  Lines(After(b, o)) = Cut(b, o, Len(b))
<1> DEFINE s == After(b, o)
<1>1. s \in Seq(Nat) /\ Len(s) = Len(b) - o /\ \A i \in 1 .. Len(b) - o : s[i] = b[o + i]
  BY DEF After
<1>2. DOMAIN s = 1 .. Len(b) - o
  BY <1>1
<1> HIDE DEF s
<1>3. Lines(s) = [i \in 1 .. Len(b) - o |-> Line(s[i])]
  BY <1>2 DEF Lines
<1> QED
  BY <1>1, <1>3 DEF Cut, s

LEMMA CutWhole == ASSUME NEW b \in Seq(Nat) PROVE Lines(b) = Cut(b, 0, Len(b))
<1>1. DOMAIN b = 1 .. Len(b) /\ Len(b) - 0 = Len(b) /\ \A i \in 1 .. Len(b) : 0 + i = i
  OBVIOUS
<1> QED
  BY <1>1 DEF Lines, Cut

LEMMA CutNone == ASSUME NEW b, NEW o \in Nat PROVE Cut(b, o, o) = <<>>
BY DEF Cut

LEMMA CutLonger ==
    ASSUME NEW b \in Seq(Nat), NEW c, \A i \in 1 .. Len(b) : c[i] = b[i],
           NEW n \in 0 .. Len(b), NEW o \in 0 .. n
    PROVE  Cut(b, o, n) = Cut(c, o, n)
<1>1. \A i \in 1 .. n - o : o + i \in 1 .. Len(b)
  OBVIOUS
<1> QED
  BY <1>1 DEF Cut

LEMMA ConcatAt ==
    ASSUME NEW S, NEW s \in Seq(S), NEW t \in Seq(S), NEW i \in 1 .. Len(t)
    PROVE  (s \o t)[Len(s) + i] = t[i]
OBVIOUS

LEMMA CutJoin ==
    ASSUME NEW b \in Seq(Nat), NEW m \in 0 .. Len(b), NEW n \in 0 .. m, NEW o \in 0 .. n
    PROVE  Cut(b, o, n) \o Cut(b, n, m) = Cut(b, o, m)
<1> DEFINE x == Cut(b, o, n)
           y == Cut(b, n, m)
           z == Cut(b, o, m)
<1>1. /\ x \in Seq(DownMessage) /\ Len(x) = n - o /\ \A i \in 1 .. n - o : x[i] = Line(b[o + i])
      /\ y \in Seq(DownMessage) /\ Len(y) = m - n /\ \A i \in 1 .. m - n : y[i] = Line(b[n + i])
      /\ z \in Seq(DownMessage) /\ Len(z) = m - o /\ \A i \in 1 .. m - o : z[i] = Line(b[o + i])
  <2>1. o \in 0 .. m /\ n \in 0 .. Len(b) /\ o \in 0 .. n
    OBVIOUS
  <2>2. x \in Seq(DownMessage) /\ Len(x) = n - o /\ \A i \in 1 .. n - o : x[i] = Line(b[o + i])
    BY <2>1, CutIs
  <2>3. y \in Seq(DownMessage) /\ Len(y) = m - n /\ \A i \in 1 .. m - n : y[i] = Line(b[n + i])
    BY <2>1, CutIs
  <2>4. z \in Seq(DownMessage) /\ Len(z) = m - o /\ \A i \in 1 .. m - o : z[i] = Line(b[o + i])
    BY <2>1, CutIs
  <2> QED
    BY <2>2, <2>3, <2>4
<1>0. o \in Nat /\ n \in Nat /\ m \in Nat /\ o <= n /\ n <= m
  OBVIOUS
<1> HIDE DEF x, y, z
<1>2. x \o y \in Seq(DownMessage) /\ Len(x \o y) = m - o
  BY <1>0, <1>1
<1>3. ASSUME NEW i \in 1 .. m - o
      PROVE  (x \o y)[i] = z[i]
  <2>1. CASE i <= n - o
    <3>1. (x \o y)[i] = x[i] /\ i \in 1 .. n - o
      BY <1>0, <1>1, <2>1
    <3> QED
      BY <1>1, <3>1
  <2>2. CASE i > n - o
    <3>1. i - (n - o) \in 1 .. m - n /\ n + (i - (n - o)) = o + i
      BY <2>2
    <3> DEFINE j == i - (n - o)
    <3>2. j \in 1 .. Len(y) /\ i = Len(x) + j
      BY <1>0, <1>1, <3>1
    <3> HIDE DEF j
    <3>3. (x \o y)[Len(x) + j] = y[j]
      <4>1. x \in Seq(DownMessage) /\ y \in Seq(DownMessage) /\ j \in 1 .. Len(y)
        BY <1>1, <3>2
      <4> QED
        BY ONLY <4>1, ConcatAt
    <3>4. y[j] = Line(b[n + j]) /\ n + j = o + i
      BY <1>0, <1>1, <3>2
    <3>5. z[i] = Line(b[o + i])
      BY <1>1
    <3> QED
      BY <3>2, <3>3, <3>4, <3>5
  <2>3. i <= n - o \/ i > n - o
    BY <1>0
  <2> QED
    BY <2>1, <2>2, <2>3
<1> QED
  BY ZenonT(60), <1>1, <1>2, <1>3, SeqEqual DEF x, y, z

\* Head and tail of a sequence with one more element in front.
LEMMA BehindFirst ==
    ASSUME NEW S, NEW h \in S, NEW s \in Seq(S)
    PROVE  Head(<<h>> \o s) = h /\ Tail(<<h>> \o s) = s
<1> DEFINE r == <<h>> \o s
<1>1. <<h>> \in Seq(S) /\ Len(<<h>>) = 1 /\ <<h>>[1] = h /\ Len(s) \in Nat
  OBVIOUS
<1>2. /\ r \in Seq(S) /\ Len(r) = 1 + Len(s)
      /\ \A i \in 1 .. 1 + Len(s) : r[i] = IF i <= 1 THEN <<h>>[i] ELSE s[i - 1]
  <2>1. /\ r \in Seq(S) /\ Len(r) = Len(<<h>>) + Len(s)
        /\ \A i \in 1 .. Len(<<h>>) + Len(s) :
               r[i] = IF i <= Len(<<h>>) THEN <<h>>[i] ELSE s[i - Len(<<h>>)]
    BY ONLY <1>1, ConcatProperties, h \in S, s \in Seq(S)
  <2> HIDE DEF r
  <2> QED
    BY <1>1, <2>1
<1> HIDE DEF r
<1>3. r[1] = h /\ \A i \in 1 .. Len(s) : r[i + 1] = s[i]
  BY <1>1, <1>2
<1>4. r # <<>>
  BY <1>1, <1>2
<1>5. /\ Head(r) = r[1] /\ Tail(r) \in Seq(S) /\ Len(Tail(r)) = Len(r) - 1
      /\ \A i \in 1 .. Len(Tail(r)) : Tail(r)[i] = r[i + 1]
  BY <1>2, <1>4, HeadTailProperties
<1>6. Tail(r) = s
  <2>1. Len(Tail(r)) = Len(s) /\ \A i \in 1 .. Len(Tail(r)) : Tail(r)[i] = s[i]
    BY <1>1, <1>2, <1>3, <1>5
  <2> QED
    BY ONLY <1>5, <2>1, s \in Seq(S), SeqEqual
<1> QED
  BY <1>3, <1>5, <1>6 DEF r

LEMMA CutTail ==
    ASSUME NEW b \in Seq(Nat), NEW n \in 0 .. Len(b), NEW o \in 0 .. n, Cut(b, o, n) # <<>>
    PROVE  /\ o + 1 \in 0 .. n /\ b[o + 1] \in Nat
           /\ Head(Cut(b, o, n)) = Line(b[o + 1]) /\ Tail(Cut(b, o, n)) = Cut(b, o + 1, n)
<1>1. o < n
  BY CutNone
<1>2. Cut(b, o, o + 1) = <<Line(b[o + 1])>>
  BY <1>1 DEF Cut
<1>3. Cut(b, o, n) = <<Line(b[o + 1])>> \o Cut(b, o + 1, n)
  <2>1. o + 1 \in 0 .. n /\ o \in 0 .. o + 1
    BY <1>1
  <2> QED
    BY <1>2, <2>1, CutJoin
<1>4. Line(b[o + 1]) \in DownMessage /\ Cut(b, o + 1, n) \in Seq(DownMessage)
  <2>1. o + 1 \in 0 .. n /\ b[o + 1] \in Nat
    BY <1>1
  <2>2. Cut(b, o + 1, n) \in Seq(DownMessage)
    BY <2>1, CutIs
  <2> QED
    BY <2>1, <2>2 DEF Line, Message, DownMessage
<1>5. \A h \in DownMessage, s \in Seq(DownMessage) : Head(<<h>> \o s) = h /\ Tail(<<h>> \o s) = s
  BY ONLY BehindFirst
<1> QED
  BY SMTT(60), <1>1, <1>3, <1>4, <1>5

-------------------------------------------------------------------------------
(***************************************************************************)
(* ReplicaFollows.  One dump is made; from its listener on, dump and        *)
(* backlog make up the file but for a line that is being written (Logged).  *)
(* Every connection is in one place: its request, the waiting slaves, the   *)
(* dump that took it, its resynchronisation, the slaves online (Apart).     *)
(* What is on its way to a replica is the backlog between its offset and    *)
(* the offset that the master has for it (Linked).                          *)
(***************************************************************************)

Buf == backlog["first"].buf

\* The dump of j has started, its listener gets every line, its file exists.
Started(j) == job[j].pc \notin {"idle", "begin"}
Registered(j) == job[j].pc \in {"rewrite", "failed", "finish", "sync"}
Saved(j) == job[j].pc \in {"finish", "sync"}

DumpOf(j) ==
    /\ job[j].pc \notin {"hook", "swap", "remove", "done"}
    /\ Started(j) <=> master.rdbFile = j
    /\ master.rdbFile \notin {Nil, j} => job[j].pc = "idle"
    /\ master.rdbFile = j => (job[j].pc = "sync" <=> master.saveState = "finish")
    /\ Saved(j) => rdb[j] = job[j].size

OneDump ==
    /\ master.log = "first" /\ backlog["first"].begin = 0
    /\ job[Rewriter].pc \notin {"remove", "done"}
    /\ master.rdbFile \in Savers \cup {Nil}
    /\ master.rdbFile = Nil <=> master.saveState = "idle"
    /\ \A j \in Savers : DumpOf(j)

Listening ==
    /\ writer.todo \subseteq listeners
    /\ writer.pc # "call" => writer.todo = {}
    /\ writer.pc # "idle" => file > 0
    /\ \A j \in Savers : j \in listeners <=> Registered(j)

\* The lines that the listener of j has had, or that were there before it.
Delivered(j) == IF writer.pc = "written" \/ j \in writer.todo THEN file - 1 ELSE file

LoggedOf(j) ==
    /\ job[j].pc = "register" =>
           file = job[j].size \/ (file = job[j].size + 1 /\ writer.pc = "written")
    /\ Registered(j) => /\ Content(Buf, job[j].size, Len(Buf)) = Upto(Delivered(j))
                        /\ Follows(Buf, job[j].size, file)

Logged ==
    /\ (\A j \in Savers : ~Registered(j)) => Buf = <<>>
    /\ \A j \in Savers : LoggedOf(j)

\* The places of a connection.
New(c) == open[c] = "new"
Asks(c) == up[c] # <<>> /\ Head(up[c]).type = "psync"
Waits(c) == master.waitSlaves # Nil /\ c \in master.waitSlaves
Taken(c) == \E j \in Savers : c \in job[j].todo
Tasked(c) == task[c].pc # "idle"
Online(c) == c \in master.online

ApartOf(c) ==
    /\ \A i \in 2 .. Len(up[c]) : up[c][i].type = "ack"
    /\ New(c) => up[c] = <<>> /\ down[c] = <<>>
    /\ Waits(c) => ~New(c) /\ ~Asks(c)
    /\ Taken(c) => ~New(c) /\ ~Asks(c) /\ ~Waits(c)
    /\ Tasked(c) => ~New(c) /\ ~Asks(c) /\ ~Waits(c) /\ ~Taken(c)
    /\ Online(c) => ~New(c) /\ ~Asks(c) /\ ~Waits(c) /\ ~Taken(c) /\ ~Tasked(c)
    /\ Tasked(c) \/ Online(c) => master.saveState = "finish"

Apart == \A c \in Conns : ApartOf(c)

\* A goroutine that sends has a snapshot of the backlog, and sends to slaves that are
\* online and not beyond it.
Busy(p) == sender[p].pc \in {"send", "advance"}

SendingOf(p) ==
    Busy(p) =>
        /\ sender[p].begin = 0 /\ sender[p].current \in 0 .. Len(Buf)
        /\ sender[p].buf = SubSeq(Buf, 1, sender[p].current)
        /\ \A c \in sender[p].todo : Online(c) /\ slave[c].offset <= sender[p].current
        /\ sender[p].pc = "advance" => sender[p].conn \in sender[p].todo
        /\ \A q \in Senders : q # p => ~Busy(q)

Sending == \A p \in Senders : SendingOf(p)

OffsetOf(c) ==
    /\ Online(c) => slave[c].offset \in 0 .. Len(Buf)
    /\ task[c].pc = "online" => task[c].current \in 0 .. Len(Buf)

Offsets == \A c \in Conns : OffsetOf(c)

\* The master has sent the backlog up to n to c.
Sent(c) == task[c].pc \in {"backlog", "online"} \/ Online(c)
Advancing(p, c) == sender[p].pc = "advance" /\ sender[p].conn = c

At(c, n) ==
    \/ task[c].pc = "backlog" /\ n = 0
    \/ task[c].pc = "online" /\ n = task[c].current
    \/ Online(c) /\ n = slave[c].offset /\ \A p \in Senders : ~Advancing(p, c)
    \/ \E p \in Senders : Advancing(p, c) /\ n = sender[p].current

Wish(r) == IF replica[r].known THEN replica[r].offset ELSE -1

Underway(r, c, n) ==
    \/ /\ replica[r].pc = "handshake"
       /\ down[c] = <<Dumped(0, rdb[master.rdbFile])>> \o Cut(Buf, 0, n)
    \/ /\ replica[r].pc = "handshake" /\ replica[r].known /\ replica[r].offset <= n
       /\ down[c] = <<Message("continue", 0)>> \o Cut(Buf, replica[r].offset, n)
    \/ /\ replica[r].pc = "stream" /\ replica[r].offset <= n
       /\ down[c] = Cut(Buf, replica[r].offset, n)

Linked(r, c) ==
    /\ open[c] = "open"
    /\ replica[r].pc \in {"handshake", "stream"}
    /\ Asks(c) => Head(up[c]).n = Wish(r)
    /\ task[c].pc = "partial" => task[c].from = Wish(r)
    /\ ~Sent(c) => replica[r].pc = "handshake" /\ down[c] = <<>>
    /\ Sent(c) => \E n \in 0 .. Len(Buf) : At(c, n) /\ Underway(r, c, n)

KnownOf(r) ==
    /\ replica[r].pc \in {"stream", "lost"} => replica[r].known
    /\ replica[r].pc \in {"off", "lost"} => replica[r].conn = Nil
    /\ replica[r].known =>
           /\ master.saveState = "finish" /\ replica[r].offset \in 0 .. Len(Buf)
           /\ replica[r].data = Content(Buf, rdb[master.rdbFile], replica[r].offset)

Linking == \A r \in Replicas : replica[r].conn # Nil => Linked(r, replica[r].conn)
Knowing == \A r \in Replicas : KnownOf(r)
Alone == \A r, q \in Replicas :
             replica[r].conn # Nil /\ replica[q].conn = replica[r].conn => q = r

LogInv == OneDump /\ Listening /\ Logged
ConnInv == Apart /\ Sending /\ Offsets /\ Linking /\ Knowing /\ Alone

FInv == spoiled = {} => LogInv /\ ConnInv /\ ~crashed

LEMMA InitFInv == Init => FInv
<1> SUFFICES ASSUME Init PROVE LogInv /\ ConnInv /\ ~crashed
  BY DEF FInv
<1>1. Buf = <<>>
  BY DEF Init, Buf, Logs
<1>2. OneDump
  BY JobAssumption DEF Init, OneDump, DumpOf, Started, Saved, Logs, Jobs
<1>3. Listening
  BY DEF Init, Listening, Registered, Jobs
<1>4. Logged
  BY <1>1 DEF Init, Logged, LoggedOf, Registered, Jobs
<1>5. Apart
  BY DEF Init, Apart, ApartOf, New, Asks, Waits, Taken, Tasked, Online, NoTask, Jobs
<1>6. Sending
  BY DEF Init, Sending, SendingOf, Busy, Idle
<1>7. Offsets
  BY DEF Init, Offsets, OffsetOf, Online, NoTask
<1>8. Linking /\ Knowing /\ Alone
  BY DEF Init, Linking, Knowing, KnownOf, Alone
<1> QED
  BY <1>2, <1>3, <1>4, <1>5, <1>6, <1>7, <1>8 DEF LogInv, ConnInv, Init

-------------------------------------------------------------------------------
(* The dump and the backlog *)

LEMMA LogSame ==
    ASSUME IInv, LogInv, UNCHANGED <<file, writer, listeners, rdb>>,
           Buf' = Buf, backlog'["first"].begin = 0,
           master'.log = master.log, master'.saveState = master.saveState,
           master'.rdbFile = master.rdbFile,
           \A j \in Savers : job'[j].pc = job[j].pc /\ job'[j].size = job[j].size,
           job'[Rewriter].pc \notin {"remove", "done"}
    PROVE  LogInv'
<1>1. OneDump'
  BY DEF LogInv, OneDump, DumpOf, Started, Saved
<1>2. Listening'
  BY DEF LogInv, Listening, Registered
<1>3. Logged'
  BY DEF LogInv, Logged, LoggedOf, Registered, Delivered
<1> QED
  BY <1>1, <1>2, <1>3 DEF LogInv

LEMMA WriteLineLog ==
    ASSUME IInv, LogInv, WriteLine
    PROVE  LogInv'
<1>1. /\ file \in Nat /\ file' = file + 1
      /\ writer.pc = "idle" /\ writer'.pc = "written" /\ writer'.todo = writer.todo
      /\ UNCHANGED <<listeners, master, backlog, job, rdb>>
  BY DEF WriteLine, PausingAof, IInv, MasterOK
<1>2. OneDump'
  BY <1>1 DEF LogInv, OneDump, DumpOf, Started, Saved
<1>3. Listening'
  BY <1>1 DEF LogInv, Listening, Registered
<1>4. ASSUME NEW j \in Savers
      PROVE  LoggedOf(j)'
  <2>1. LoggedOf(j) /\ writer.todo = {}
    BY <1>1 DEF LogInv, Logged, Listening
  <2>2. Delivered(j) = file /\ Delivered(j)' = file
    BY <1>1, <2>1 DEF Delivered
  <2>3. \A b, k : Follows(b, k, file) => Follows(b, k, file + 1)
    BY <1>1 DEF Follows
  <2> QED
    BY <1>1, <2>1, <2>2, <2>3 DEF LoggedOf, Registered, Buf
<1>5. Logged'
  BY <1>1, <1>4 DEF LogInv, Logged, Registered, Buf
<1> QED
  BY <1>2, <1>3, <1>5 DEF LogInv

LEMMA CallListenersLog ==
    ASSUME IInv, LogInv, CallListeners, spoiled' = {}
    PROVE  LogInv'
<1>1. /\ writer.pc = "written" /\ writer'.todo = listeners
      /\ writer'.pc = (IF listeners = {} THEN "idle" ELSE "call")
      /\ UNCHANGED <<file, listeners, master, backlog, job, rdb>>
      /\ \A j \in Jobs : ~(job[j].pc = "register" /\ job[j].size < file)
  BY DEF CallListeners, Spoil
<1>2. OneDump'
  BY <1>1 DEF LogInv, OneDump, DumpOf, Started, Saved
<1>3. Listening'
  BY <1>1 DEF LogInv, Listening, Registered
<1>4. ASSUME NEW j \in Savers
      PROVE  LoggedOf(j)'
  <2>1. LoggedOf(j) /\ (j \in listeners <=> Registered(j))
    BY DEF LogInv, Logged, Listening
  <2>2. file \in Nat /\ job[j].size \in Nat /\ j \in Jobs
    BY DEF IInv, MasterOK, JobType, Jobs
  <2>3. Registered(j) => Delivered(j)' = Delivered(j)
    BY <1>1, <2>1 DEF Delivered
  <2>4. job[j].pc = "register" => file = job[j].size
    BY <1>1, <2>1, <2>2 DEF LoggedOf
  <2> QED
    BY <1>1, <2>1, <2>3, <2>4 DEF LoggedOf, Registered, Buf
<1>5. Logged'
  BY <1>1, <1>4 DEF LogInv, Logged, Registered, Buf
<1> QED
  BY <1>2, <1>3, <1>5 DEF LogInv

\* An entry more in the backlog, a line or a ping.
LEMMA Appended ==
    ASSUME IInv, NEW x \in Nat, backlog' = [backlog EXCEPT !["first"] = AppendBytes(@, x)]
    PROVE  /\ Buf' = Append(Buf, x) /\ Buf \in Seq(Nat)
           /\ backlog'["first"].begin = backlog["first"].begin
<1>1. backlog["first"] \in LogType /\ "first" \in DOMAIN backlog
  BY DEF IInv, BufferOK, Logs
<1>2. backlog'["first"] = AppendBytes(backlog["first"], x)
  BY <1>1
<1> QED
  BY <1>1, <1>2 DEF Buf, AppendBytes, LogType

LEMMA CallbackLog ==
    ASSUME IInv, LogInv, NEW j \in Jobs, Callback(j)
    PROVE  LogInv'
<1>1. /\ writer.pc = "call" /\ j \in writer.todo /\ writer'.todo = writer.todo \ {j}
      /\ writer'.pc = (IF writer.todo = {j} THEN "idle" ELSE "call")
      /\ UNCHANGED <<file, listeners, master, job, rdb>>
      /\ backlog' = [backlog EXCEPT ![LogOf(j)] = AppendBytes(@, file)]
  BY DEF Callback
<1>2. file \in Nat /\ file > 0 /\ j \in listeners
  BY <1>1 DEF IInv, MasterOK, LogInv, Listening
<1>3. Listening'
  BY <1>1, <1>2 DEF LogInv, Listening, Registered
<1>4. CASE j = Rewriter
  <2>1. Buf' = Buf /\ backlog'["first"].begin = 0
    BY <1>1, <1>4 DEF LogOf, Buf, LogInv, OneDump
  <2>2. OneDump'
    BY <1>1, <2>1 DEF LogInv, OneDump, DumpOf, Started, Saved
  <2>3. Logged'
    BY <1>1, <1>4, <2>1, JobAssumption DEF LogInv, Logged, LoggedOf, Registered, Delivered
  <2> QED
    BY <1>3, <2>2, <2>3 DEF LogInv
<1>5. CASE j \in Savers
  <2>1. LogOf(j) = "first"
    BY <1>5, JobAssumption DEF LogOf
  <2>2. /\ Buf' = Append(Buf, file) /\ Buf \in Seq(Nat)
        /\ backlog'["first"].begin = 0
    BY <1>1, <1>2, <2>1, Appended DEF LogInv, OneDump
  <2>3. OneDump'
    BY <1>1, <2>2 DEF LogInv, OneDump, DumpOf, Started, Saved
  <2>4. Registered(j) /\ LoggedOf(j) /\ Delivered(j) = file - 1 /\ Delivered(j)' = file
    BY <1>1, <1>2, <1>5 DEF LogInv, Listening, Logged, Delivered
  <2>5. LoggedOf(j)'
    <3>1. /\ job[j].size \in Nat
          /\ Content(Buf, job[j].size, Len(Buf)) = Upto(file - 1)
          /\ Follows(Buf, job[j].size, file)
      BY <2>4 DEF LoggedOf, IInv, MasterOK, JobType
    <3>2. /\ Content(Append(Buf, file), job[j].size, Len(Append(Buf, file))) = Upto(file)
          /\ Follows(Append(Buf, file), job[j].size, file)
      <4>1. file - 1 \in 0 .. file /\ file \in 0 .. file /\ file = (file - 1) + 1
        BY <1>2
      <4> QED
        BY <1>2, <2>2, <3>1, <4>1, ContentAppend
    <3> QED
      BY <1>1, <2>2, <2>4, <3>2 DEF LoggedOf, Registered
  <2>6. ASSUME NEW i \in Savers, i # j
        PROVE  LoggedOf(i)'
    <3>1. ~Started(i)
      BY <1>5, <2>4, <2>6 DEF LogInv, OneDump, DumpOf, Started, Registered
    <3> QED
      BY <1>1, <3>1 DEF LoggedOf, Registered, Started
  <2>7. Logged'
    BY <1>1, <1>5, <2>4, <2>5, <2>6 DEF Logged, Registered
  <2> QED
    BY <1>3, <2>3, <2>7 DEF LogInv
<1> QED
  BY <1>4, <1>5 DEF Jobs

\* While nothing is spoiled, a dump that has finished is the one of the master.
LEMMA Finished ==
    ASSUME IInv, LogInv, master.saveState = "finish"
    PROVE  \E j \in Savers : /\ master.rdbFile = j /\ Saved(j) /\ Registered(j)
                             /\ rdb[j] = job[j].size /\ job[j].size \in Nat
<1>1. PICK j \in Savers : master.rdbFile = j
  BY DEF LogInv, OneDump
<1>2. DumpOf(j) /\ job[j].size \in Nat
  BY DEF LogInv, OneDump, IInv, MasterOK, JobType, Jobs
<1> QED
  BY <1>1, <1>2 DEF DumpOf, Saved, Registered

LEMMA CronPingsLog ==
    ASSUME IInv, LogInv, CronPings
    PROVE  LogInv'
<1>1. /\ UNCHANGED <<file, writer, listeners, master, rdb>>
      /\ backlog' = IF master.saveState = "finish"
                    THEN [backlog EXCEPT ![master.log] = AppendBytes(@, 0)] ELSE backlog
  BY DEF CronPings
<1>2. \A j \in Savers : job'[j] = job[j]
  BY JobAssumption DEF CronPings
<1>3. job'[Rewriter].pc \notin {"remove", "done"}
  BY DEF CronPings, LogInv, OneDump, IInv, MasterOK, Jobs, JobType
<1>4. CASE master.saveState # "finish"
  BY <1>1, <1>2, <1>3, <1>4, LogSame DEF Buf, LogInv, OneDump
<1>5. CASE master.saveState = "finish"
  <2>1. /\ Buf' = Append(Buf, 0) /\ Buf \in Seq(Nat)
        /\ backlog'["first"].begin = 0
    <3>1. master.log = "first" /\ backlog["first"].begin = 0 /\ 0 \in Nat
      BY DEF LogInv, OneDump
    <3>2. backlog' = [backlog EXCEPT !["first"] = AppendBytes(@, 0)]
      BY <1>1, <1>5, <3>1
    <3> QED
      BY <3>1, <3>2, Appended
  <2>2. PICK j \in Savers : master.rdbFile = j /\ Registered(j) /\ job[j].size \in Nat
    BY <1>5, Finished
  <2>3. OneDump'
    BY <1>1, <1>2, <1>3, <2>1 DEF LogInv, OneDump, DumpOf, Started, Saved
  <2>4. Listening'
    BY <1>1, <1>2 DEF LogInv, Listening, Registered
  <2>5. LoggedOf(j)'
    <3> DEFINE l == Delivered(j)
    <3>1. l \in 0 .. file /\ file \in Nat
      BY DEF Delivered, LogInv, Listening, IInv, MasterOK
    <3>2. /\ Content(Buf, job[j].size, Len(Buf)) = Upto(l)
          /\ Follows(Buf, job[j].size, file)
      BY <2>2 DEF LogInv, Logged, LoggedOf
    <3>3. Delivered(j)' = l
      BY <1>1 DEF Delivered
    <3> HIDE DEF l
    <3>4. /\ Content(Append(Buf, 0), job[j].size, Len(Append(Buf, 0))) = Upto(l)
          /\ Follows(Append(Buf, 0), job[j].size, file)
      BY <2>1, <2>2, <3>1, <3>2, ContentAppend
    <3> QED
      BY <1>1, <1>2, <2>1, <2>2, <3>3, <3>4 DEF LoggedOf, Registered
  <2>6. ASSUME NEW i \in Savers, i # j
        PROVE  LoggedOf(i)'
    <3>1. job[i].pc = "idle"
      BY <2>2, <2>6, JobAssumption DEF LogInv, OneDump, DumpOf, Jobs
    <3> QED
      BY <1>2, <3>1 DEF LoggedOf, Registered
  <2>7. Logged'
    BY <1>2, <2>2, <2>5, <2>6 DEF Logged, Registered
  <2> QED
    BY <2>3, <2>4, <2>7 DEF LogInv
<1> QED
  BY <1>4, <1>5

\* The master before a dump has started.
LEMMA NotStarted ==
    ASSUME LogInv, NEW j \in Savers, ~Started(j), \A i \in Savers : i # j => job[i].pc = "idle"
    PROVE  /\ master.rdbFile = Nil /\ master.saveState = "idle" /\ Buf = <<>>
           /\ \A i \in Savers : ~Registered(i)
<1>1. \A i \in Savers : ~Started(i) /\ ~Registered(i)
  BY DEF Started, Registered
<1> QED
  BY <1>1 DEF LogInv, OneDump, DumpOf, Logged

LEMMA SaveBeginsLog ==
    ASSUME IInv, LogInv, NEW j \in Savers, SaveBegins(j), spoiled' = {}
    PROVE  LogInv'
<1>0. j \in Jobs /\ job \in [Jobs -> JobType] /\ master \in MasterType /\ Savers \subseteq Jobs
  BY DEF IInv, MasterOK, Jobs
<1>1. /\ job[j].pc = "begin" /\ \A i \in Savers : i # j => job[i].pc = "idle"
      /\ UNCHANGED <<file, writer, listeners, backlog, rdb>>
  BY DEF SaveBegins, Spoil
<1>2. /\ master'.log = master.log /\ master'.saveState = "running" /\ master'.rdbFile = j
      /\ job'[j].pc = "size" /\ job'[j].size = job[j].size
      /\ \A i \in Jobs : i # j => job'[i] = job[i]
  BY <1>0 DEF SaveBegins, MasterType, JobType
<1>3. Rewriter # j /\ Rewriter \in Jobs /\ j # Nil
  BY JobAssumption DEF Jobs
<1>4. OneDump'
  BY <1>0, <1>1, <1>2, <1>3 DEF LogInv, OneDump, DumpOf, Started, Saved
<1>5. Listening'
  BY <1>0, <1>1, <1>2 DEF LogInv, Listening, Registered
<1>6. Logged'
  <2>1. Buf = <<>>
    BY <1>1, NotStarted DEF Started
  <2> QED
    BY <1>0, <1>1, <1>2, <2>1 DEF Logged, LoggedOf, Registered, Buf
<1> QED
  BY <1>4, <1>5, <1>6 DEF LogInv

LEMMA SaveFinishesLog ==
    ASSUME IInv, LogInv, NEW j \in Savers, SaveFinishes(j)
    PROVE  LogInv'
<1>0. j \in Jobs /\ job \in [Jobs -> JobType] /\ master \in MasterType /\ Savers \subseteq Jobs
  BY DEF IInv, MasterOK, Jobs
<1>1. /\ job[j].pc = "finish"
      /\ UNCHANGED <<file, writer, listeners, backlog, rdb>>
  BY DEF SaveFinishes
<1>2. /\ master'.log = master.log /\ master'.saveState = "finish"
      /\ master'.rdbFile = master.rdbFile
      /\ job'[j].pc = "sync" /\ job'[j].size = job[j].size
      /\ \A i \in Jobs : i # j => job'[i] = job[i]
  BY <1>0 DEF SaveFinishes, MasterType, JobType
<1>3. Rewriter # j /\ Rewriter \in Jobs /\ j # Nil /\ master.rdbFile = j
  BY <1>1, JobAssumption DEF Jobs, LogInv, OneDump, DumpOf, Started
<1>4. OneDump'
  BY <1>0, <1>1, <1>2, <1>3 DEF LogInv, OneDump, DumpOf, Started, Saved
<1>5. Listening'
  BY <1>0, <1>1, <1>2 DEF LogInv, Listening, Registered
<1>6. Logged'
  BY <1>0, <1>1, <1>2 DEF LogInv, Logged, LoggedOf, Registered, Buf, Delivered
<1> QED
  BY <1>4, <1>5, <1>6 DEF LogInv

\* Steps of one dump that are none of the master.
LEMMA DumpStep ==
    ASSUME IInv, LogInv, NEW j \in Jobs, job[j].pc \in {"size", "register", "rewrite"},
           UNCHANGED <<file, writer, master, backlog>>,
           \A i \in Jobs : i # j => job'[i] = job[i] /\ rdb'[i] = rdb[i],
           j = Rewriter => /\ \A i \in Savers : i \in listeners' <=> i \in listeners
                           /\ job'[j].pc \notin {"remove", "done"},
           j # Rewriter =>
               /\ job'[j].pc \in {"stuck", "register", "rewrite", "failed", "finish"}
               /\ \A i \in Savers : i # j => (i \in listeners' <=> i \in listeners)
               /\ j \in listeners' <=> Registered(j)'
               /\ Registered(j) => Registered(j)'
               /\ LoggedOf(j)' /\ (Saved(j)' => rdb'[j] = job'[j].size),
           listeners \subseteq listeners'
    PROVE  LogInv'
<1>1. Rewriter \notin Savers /\ j \in Savers \cup {Rewriter} /\ Savers \subseteq Jobs /\ Nil \notin Jobs
  BY JobAssumption DEF Jobs
<1>2. CASE j = Rewriter
  <2>1. \A i \in Savers : job'[i] = job[i] /\ rdb'[i] = rdb[i]
    BY <1>1, <1>2
  <2>2. OneDump'
    BY <1>2, <2>1 DEF LogInv, OneDump, DumpOf, Started, Saved
  <2>3. Listening'
    BY <1>2, <2>1 DEF LogInv, Listening, Registered
  <2>4. Logged'
    BY <2>1 DEF LogInv, Logged, LoggedOf, Registered, Buf, Delivered
  <2> QED
    BY <2>2, <2>3, <2>4 DEF LogInv
<1>3. CASE j # Rewriter
  <2>1. j \in Savers /\ master.rdbFile = j /\ \A i \in Savers : i # j => job[i].pc = "idle"
    BY <1>1, <1>3 DEF LogInv, OneDump, DumpOf, Started
  <2>2. \A i \in Savers : i # j => job'[i] = job[i] /\ rdb'[i] = rdb[i]
    BY <1>1
  <2>3. OneDump'
    BY <1>1, <1>3, <2>1, <2>2 DEF LogInv, OneDump, DumpOf, Started, Saved, Jobs
  <2>4. Listening'
    BY <1>3, <2>1, <2>2 DEF LogInv, Listening, Registered
  <2>5. Logged'
    <3>1. (\A i \in Savers : ~Registered(i)') => \A i \in Savers : ~Registered(i)
      BY <1>3, <2>1, <2>2 DEF Registered
    <3> QED
      BY <1>3, <2>1, <2>2, <3>1 DEF LogInv, Logged, LoggedOf, Registered, Buf
  <2> QED
    BY <2>3, <2>4, <2>5 DEF LogInv
<1> QED
  BY <1>2, <1>3

LEMMA TakeSizeLog ==
    ASSUME IInv, LogInv, NEW j \in Jobs, TakeSize(j)
    PROVE  LogInv'
<1>0. job[j] \in JobType /\ job \in [Jobs -> JobType] /\ Savers \subseteq Jobs
  BY DEF IInv, MasterOK, Jobs
<1>1. /\ job[j].pc = "size" /\ UNCHANGED <<file, writer, listeners, master, backlog, rdb>>
      /\ \A i \in Jobs : i # j => job'[i] = job[i]
      /\ job'[j].pc \in {"stuck", "register"}
      /\ job'[j].pc = "register" => job'[j].size = file
  BY <1>0 DEF TakeSize, JobType
<1>2. j # Rewriter => j \in Savers /\ (j \in listeners <=> Registered(j))
  BY DEF Jobs, LogInv, Listening
<1>3. LoggedOf(j)' /\ ~Registered(j)' /\ ~Saved(j)' /\ ~Registered(j)
  BY <1>1 DEF LoggedOf, Registered, Saved
<1> QED
  BY <1>1, <1>2, <1>3, DumpStep

LEMMA RegisterLog ==
    ASSUME IInv, LogInv, NEW j \in Jobs, Register(j), spoiled' = {}
    PROVE  LogInv'
<1>0. job[j] \in JobType /\ job \in [Jobs -> JobType] /\ Savers \subseteq Jobs /\ file \in Nat
  BY DEF IInv, MasterOK, Jobs
<1>1. /\ job[j].pc = "register" /\ UNCHANGED <<file, writer, master, backlog, rdb>>
      /\ listeners' = listeners \cup {j}
      /\ \A i \in Jobs : i # j => job'[i] = job[i]
      /\ job'[j].pc = (IF j = Rewriter THEN "hook" ELSE "rewrite") /\ job'[j].size = job[j].size
      /\ ~(writer.pc = "written" /\ job[j].size = file)
  BY <1>0 DEF Register, Spoil, JobType
<1>2. ASSUME j # Rewriter
      PROVE  LoggedOf(j)'
  <2>1. j \in Savers /\ ~Registered(j) /\ LoggedOf(j) /\ j \notin writer.todo
    BY <1>1, <1>2 DEF Jobs, Registered, LogInv, Logged, Listening
  <2>2. Buf = <<>>
    BY <1>1, <2>1 DEF LogInv, Logged, OneDump, DumpOf, Started, Registered
  <2>3. Delivered(j)' = job[j].size
    BY <1>0, <1>1, <2>1 DEF LoggedOf, Delivered, JobType
  <2>4. Content(<<>>, job[j].size, 0) = Upto(job[j].size) /\ Len(<<>>) = 0
    BY ContentNone
  <2>5. job[j].size \in 0 .. file
    BY <1>0, <1>1, <2>1 DEF LoggedOf, JobType
  <2>6. Follows(<<>>, job[j].size, file)
    BY <2>4, <2>5 DEF Follows
  <2> QED
    BY <1>1, <1>2, <2>2, <2>3, <2>4, <2>6 DEF LoggedOf, Registered, Buf
<1>3. Registered(j)' <=> j # Rewriter
  BY <1>1 DEF Registered
<1>4. ~Saved(j)' /\ ~Registered(j)
  BY <1>1 DEF Registered, Saved
<1>5. Rewriter \notin Savers
  BY JobAssumption
<1> QED
  BY <1>1, <1>2, <1>3, <1>4, <1>5, DumpStep

LEMMA RewriteLog ==
    ASSUME IInv, LogInv, NEW j \in Jobs, RewriteRDB(j) \/ RewriteFails(j)
    PROVE  LogInv'
<1>0. /\ job[j] \in JobType /\ job \in [Jobs -> JobType] /\ Savers \subseteq Jobs
      /\ rdb \in [Jobs -> Nat \cup {Nil}]
  BY DEF IInv, MasterOK, Jobs
<1>1. /\ job[j].pc = "rewrite" /\ UNCHANGED <<file, writer, listeners, master, backlog>>
      /\ \A i \in Jobs : i # j => job'[i] = job[i] /\ rdb'[i] = rdb[i]
      /\ \/ job'[j].pc = (IF j = Rewriter THEN "swap" ELSE "finish") /\ rdb'[j] = job[j].size
         \/ job'[j].pc = "failed"
      /\ job'[j].size = job[j].size
  BY <1>0 DEF RewriteRDB, RewriteFails, JobType
<1>2. j # Rewriter => /\ Registered(j) /\ Registered(j)' /\ (Saved(j)' => rdb'[j] = job'[j].size)
                      /\ j \in Savers /\ LoggedOf(j) /\ (j \in listeners <=> Registered(j))
  BY <1>1 DEF Registered, Saved, Jobs, LogInv, Logged, Listening
<1>3. j # Rewriter => LoggedOf(j)'
  BY <1>1, <1>2 DEF LoggedOf, Registered, Delivered, Buf
<1> QED
  BY <1>1, <1>2, <1>3, DumpStep

LEMMA DumpLog ==
    ASSUME IInv, LogInv, Dump, spoiled' = {}
    PROVE  LogInv'
<1>1. ASSUME NEW j \in Savers, NEW c \in Conns, NextWaiting(j, c)
      PROVE  LogInv'
  <2>1. \A i \in Jobs : job'[i].pc = job[i].pc /\ job'[i].size = job[i].size
    BY <1>1 DEF NextWaiting, IInv, MasterOK, JobType, Jobs
  <2> QED
    BY <1>1, <2>1, LogSame DEF NextWaiting, Buf, LogInv, OneDump, Jobs
<1>2. CASE Hook
  <2>1. /\ Buf' = Buf /\ backlog'["first"].begin = 0
        /\ job'[Rewriter].pc = "rewrite" /\ \A i \in Savers : job'[i] = job[i]
    BY <1>2, JobAssumption DEF Hook, Buf, LogInv, OneDump, IInv, MasterOK, JobType, Jobs
  <2> QED
    BY <1>2, <2>1, LogSame DEF Hook
<1>3. CASE SwapBacklog
  BY <1>3 DEF SwapBacklog
<1>4. CASE RemoveListener
  BY <1>4 DEF RemoveListener, LogInv, OneDump
<1> QED
  BY <1>1, <1>2, <1>3, <1>4, SaveBeginsLog, SaveFinishesLog, TakeSizeLog, RegisterLog, RewriteLog
  DEF Dump

LEMMA PSyncWaitsLog ==
    ASSUME IInv, LogInv, NEW c \in Conns, PSyncWaits(c)
    PROVE  LogInv'
<1>0. job \in [Jobs -> JobType] /\ master \in MasterType /\ Savers \subseteq Jobs
  BY DEF IInv, MasterOK, Jobs
<1>1. /\ master.saveState \in {"idle", "running"} /\ master.waitSlaves # Nil
      /\ UNCHANGED <<file, writer, listeners, backlog, rdb>>
      /\ \/ UNCHANGED job
         \/ /\ master.saveState = "idle"
            /\ \E j \in Savers : job[j].pc = "idle" /\ job' = [job EXCEPT ![j].pc = "begin"]
  BY DEF PSyncWaits
<1>2. master'.log = master.log /\ master'.saveState = master.saveState /\ master'.rdbFile = master.rdbFile
  BY <1>0 DEF PSyncWaits, Wait, NewSlave, MasterType
<1>3. CASE UNCHANGED job
  BY <1>1, <1>2, <1>3, LogSame DEF Buf, LogInv, OneDump
<1>4. CASE ~ UNCHANGED job
  <2>1. PICK j \in Savers : job[j].pc = "idle" /\ job' = [job EXCEPT ![j].pc = "begin"]
    BY <1>1, <1>4
  <2>2. /\ job'[j].pc = "begin" /\ job'[j].size = job[j].size
        /\ \A i \in Jobs : i # j => job'[i] = job[i]
    BY <1>0, <2>1 DEF JobType
  <2>3. master.rdbFile = Nil /\ Rewriter # j /\ Rewriter \in Jobs
    BY <1>1, <1>4, JobAssumption DEF LogInv, OneDump, Jobs
  <2>4. OneDump'
    BY <1>0, <1>1, <1>2, <2>1, <2>2, <2>3 DEF LogInv, OneDump, DumpOf, Started, Saved
  <2>5. Listening'
    BY <1>0, <1>1, <2>1, <2>2 DEF LogInv, Listening, Registered
  <2>6. Logged'
    BY <1>0, <1>1, <2>1, <2>2 DEF LogInv, Logged, LoggedOf, Registered, Delivered, Buf
  <2> QED
    BY <2>4, <2>5, <2>6 DEF LogInv
<1> QED
  BY <1>3, <1>4

LEMMA NextLog ==
    ASSUME IInv, LogInv, Next, spoiled' = {}
    PROVE  LogInv'
<1>0. master \in MasterType
  BY DEF IInv, MasterOK
<1>1. CASE Write
  BY <1>1, WriteLineLog, CallListenersLog, CallbackLog DEF Write
<1>2. CASE Send \/ Sync \/ Replica \/ CronKeepsMutex
           \/ \E c \in Conns : PSyncPanics(c) \/ PSyncAfterDump(c) \/ ReplConfAck(c)
  <2>1. UNCHANGED <<file, writer, listeners, rdb, backlog, job>>
    BY ZenonT(60), <1>2 DEF Send, Snapshot, SendTo, Advance, SendFails, SendPanics, Sync, TryPartialSync,
                CannotPartialSync, SendRDB, SendBacklog, SetSlaveOnline, SyncFails, Replica,
                Connect, ReceiveHeader, ReceiveLine, Ack, Disconnect, CronKeepsMutex,
                PSyncPanics, PSyncAfterDump, ReplConfAck
  <2>2. \/ UNCHANGED master
        \/ \E c \in Conns : \/ master' = Forget(master, c) \/ master' = NewSlave(c)
                            \/ master' = [master EXCEPT !.online = @ \cup {c}]
    BY ZenonT(60), <1>2 DEF Send, Snapshot, SendTo, Advance, SendFails, SendPanics, Sync, TryPartialSync,
                CannotPartialSync, SendRDB, SendBacklog, SetSlaveOnline, SyncFails, Replica,
                Connect, ReceiveHeader, ReceiveLine, Ack, Disconnect, CronKeepsMutex,
                PSyncPanics, PSyncAfterDump, ReplConfAck
  <2>3. /\ master'.log = master.log /\ master'.saveState = master.saveState
        /\ master'.rdbFile = master.rdbFile
    BY <1>0, <2>2 DEF Forget, NewSlave, MasterType
  <2> QED
    BY <2>1, <2>3, LogSame DEF Buf, LogInv, OneDump
<1> QED
  BY <1>1, <1>2, CronPingsLog, DumpLog, PSyncWaitsLog DEF Next, Cron, Requests

-------------------------------------------------------------------------------
(* Connections and replicas *)

\* The backlog is the same or longer, and a dump that has finished stays.
Longer == /\ Buf \in Seq(Nat) /\ Buf' \in Seq(Nat) /\ Len(Buf) <= Len(Buf')
          /\ \A i \in 1 .. Len(Buf) : Buf'[i] = Buf[i]

Settled == master.saveState = "finish" =>
               /\ master'.saveState = "finish" /\ master'.rdbFile = master.rdbFile
               /\ rdb'[master.rdbFile] = rdb[master.rdbFile]

LEMMA NextLonger == ASSUME IInv, IInv', LogInv, Next PROVE Longer
<1>1. Buf \in Seq(Nat) /\ Buf' \in Seq(Nat) /\ backlog \in [Logs -> LogType] /\ "first" \in Logs
  BY DEF IInv, BufferOK, LogType, Logs, Buf
<1>2. \/ Buf' = Buf
      \/ \E x \in Nat : backlog' = [backlog EXCEPT !["first"] = AppendBytes(@, x)]
  <2>1. CASE Write
    <3>1. file \in Nat
      BY DEF IInv, MasterOK
    <3>2. ASSUME NEW j \in Jobs, Callback(j)
          PROVE  \/ Buf' = Buf
                 \/ backlog' = [backlog EXCEPT !["first"] = AppendBytes(@, file)]
      BY <1>1, <3>2 DEF Callback, LogOf, Buf
    <3> QED
      BY <2>1, <3>1, <3>2 DEF Write, WriteLine, CallListeners, Buf
  <2>2. CASE CronPings
    <3>1. master.log = "first" /\ 0 \in Nat
      BY DEF LogInv, OneDump
    <3> QED
      BY <2>2, <3>1 DEF CronPings, Buf
  <2>3. CASE Hook
    BY <1>1, <2>3 DEF Hook, Buf
  <2>4. CASE Dump /\ ~Hook
    BY <2>4 DEF Dump, SaveBegins, SaveFinishes, TakeSize, Register, RewriteRDB, RewriteFails,
                NextWaiting, SwapBacklog, RemoveListener, Buf
  <2>5. CASE Send \/ Sync \/ Requests \/ Replica \/ CronKeepsMutex
    BY ZenonT(60), <2>5 DEF Send, Snapshot, SendTo, Advance, SendFails, SendPanics, Sync, TryPartialSync,
                CannotPartialSync, SendRDB, SendBacklog, SetSlaveOnline, SyncFails, Replica,
                Connect, ReceiveHeader, ReceiveLine, Ack, Disconnect, CronKeepsMutex, Requests,
                PSyncWaits, PSyncPanics, PSyncAfterDump, ReplConfAck, Buf
  <2> QED
    BY <2>1, <2>2, <2>3, <2>4, <2>5 DEF Next, Cron
<1>3. CASE Buf' = Buf
  BY <1>1, <1>3 DEF Longer
<1>4. CASE \E x \in Nat : backlog' = [backlog EXCEPT !["first"] = AppendBytes(@, x)]
  <2>1. PICK x \in Nat : Buf' = Append(Buf, x)
    BY <1>4, Appended
  <2> QED
    BY <1>1, <2>1 DEF Longer
<1> QED
  BY <1>2, <1>3, <1>4

LEMMA NextSettled == ASSUME IInv, LogInv, Next, spoiled' = {} PROVE Settled
<1> SUFFICES ASSUME master.saveState = "finish"
             PROVE  /\ master'.saveState = "finish" /\ master'.rdbFile = master.rdbFile
                    /\ rdb'[master.rdbFile] = rdb[master.rdbFile]
  BY DEF Settled
<1>0. /\ master \in MasterType /\ master.waitSlaves \in (SUBSET Conns) \cup {Nil}
      /\ rdb \in [Jobs -> Nat \cup {Nil}] /\ job \in [Jobs -> JobType]
  BY DEF IInv, MasterOK, MasterType
<1>1. PICK j \in Savers : master.rdbFile = j /\ Saved(j)
  BY Finished
<1>2. ASSUME NEW i \in Savers, SaveBegins(i)
      PROVE  FALSE
  <2>1. \A k \in Savers : i # k => job[k].pc = "idle"
    BY <1>2 DEF SaveBegins, Spoil
  <2> QED
    BY <1>1, <1>2, <2>1 DEF SaveBegins, Saved
<1>3. ASSUME NEW i \in Jobs, RewriteRDB(i)
      PROVE  i # j
  BY <1>1, <1>3 DEF RewriteRDB, Saved, LogInv, OneDump, DumpOf
<1>4. ~SwapBacklog /\ ~RemoveListener
  BY DEF SwapBacklog, RemoveListener, LogInv, OneDump
<1>5. CASE Dump
  <2>1. ASSUME NEW i \in Jobs, RewriteRDB(i)
        PROVE  UNCHANGED master /\ rdb'[j] = rdb[j]
    BY <1>0, <1>3, <2>1 DEF RewriteRDB, Jobs
  <2>2. ASSUME NEW i \in Savers, SaveFinishes(i)
        PROVE  master'.saveState = "finish" /\ master'.rdbFile = master.rdbFile /\ UNCHANGED rdb
    BY <1>0, <2>2 DEF SaveFinishes, MasterType
  <2>3. CASE \/ \E i \in Jobs : TakeSize(i) \/ Register(i) \/ RewriteFails(i)
             \/ \E i \in Savers, c \in Conns : NextWaiting(i, c)
             \/ Hook
    BY <2>3 DEF TakeSize, Register, RewriteFails, NextWaiting, Hook
  <2> QED
    BY <1>1, <1>2, <1>4, <1>5, <2>1, <2>2, <2>3 DEF Dump
<1>6. CASE ~Dump
  <2>1. UNCHANGED rdb
    BY ZenonT(60), <1>6 DEF Next, Write, WriteLine, CallListeners, Callback, Cron, CronPings,
                Send, Snapshot, SendTo, Advance, SendFails, SendPanics, Sync, TryPartialSync,
                CannotPartialSync, SendRDB, SendBacklog, SetSlaveOnline, SyncFails, Replica,
                Connect, ReceiveHeader, ReceiveLine, Ack, Disconnect, CronKeepsMutex, Requests,
                PSyncWaits, PSyncPanics, PSyncAfterDump, ReplConfAck
  <2>2. \/ UNCHANGED master
        \/ \E c \in Conns : \/ master' = Forget(master, c) \/ master' = NewSlave(c)
                            \/ master' = [master EXCEPT !.online = @ \cup {c}]
    BY ZenonT(60), <1>6 DEF Next, Write, WriteLine, CallListeners, Callback, Cron, CronPings,
                Send, Snapshot, SendTo, Advance, SendFails, SendPanics, Sync, TryPartialSync,
                CannotPartialSync, SendRDB, SendBacklog, SetSlaveOnline, SyncFails, Replica,
                Connect, ReceiveHeader, ReceiveLine, Ack, Disconnect, CronKeepsMutex, Requests,
                PSyncWaits, PSyncPanics, PSyncAfterDump, ReplConfAck
  <2> QED
    BY <1>0, <2>1, <2>2 DEF Forget, NewSlave, MasterType
<1> QED
  BY <1>5, <1>6

LEMMA KnownStays ==
    ASSUME IInv, NEW r \in Replicas, KnownOf(r), Longer, Settled, replica'[r] = replica[r]
    PROVE  KnownOf(r)'
<1>1. ASSUME NEW n \in 0 .. Len(Buf)
      PROVE  n \in 0 .. Len(Buf') /\ \A k : Content(Buf', k, n) = Content(Buf, k, n)
  <2>1. \A i \in 1 .. n : Buf'[i] = Buf[i]
    BY DEF Longer
  <2>2. n \in Nat /\ n \in 0 .. Len(Buf')
    BY DEF Longer
  <2> QED
    BY <2>1, <2>2, ContentSame
<1>2. replica[r].known => /\ master'.saveState = "finish" /\ master'.rdbFile = master.rdbFile
                          /\ rdb'[master.rdbFile] = rdb[master.rdbFile]
  BY DEF KnownOf, Settled
<1> QED
  BY <1>1, <1>2 DEF KnownOf

\* Nothing happens to a connection, and the master's place in it stays.
LEMMA LinkedStays ==
    ASSUME IInv, NEW r \in Replicas, NEW c \in Conns, KnownOf(r), Linked(r, c), Longer, Settled,
           Sent(c) => master.saveState = "finish",
           replica'[r] = replica[r], open'[c] = open[c], down'[c] = down[c],
           Asks(c)' => Asks(c) /\ Head(up[c])' = Head(up[c]),
           task'[c].pc = "partial" => task'[c] = task[c],
           Sent(c)' <=> Sent(c), \A n \in Nat : At(c, n) => At(c, n)'
    PROVE  Linked(r, c)'
<1>1. ASSUME Sent(c)
      PROVE  \E n \in 0 .. Len(Buf') : At(c, n)' /\ Underway(r, c, n)'
  <2>1. PICK n \in 0 .. Len(Buf) : At(c, n) /\ Underway(r, c, n)
    BY <1>1 DEF Linked
  <2>2. n \in 0 .. Len(Buf') /\ n \in Nat
    BY DEF Longer
  <2>3. rdb'[master'.rdbFile] = rdb[master.rdbFile]
    BY <1>1 DEF Settled
  <2>4. Cut(Buf', 0, n) = Cut(Buf, 0, n)
    <3>1. 0 \in 0 .. n
      BY <2>2
    <3>2. Buf \in Seq(Nat) /\ \A i \in 1 .. Len(Buf) : Buf'[i] = Buf[i]
      BY DEF Longer
    <3> QED
      BY <2>1, <3>1, <3>2, CutLonger
  <2>5. replica[r].known /\ replica[r].offset <= n =>
            Cut(Buf', replica[r].offset, n) = Cut(Buf, replica[r].offset, n)
    <3> SUFFICES ASSUME replica[r].known, replica[r].offset <= n
                 PROVE  Cut(Buf', replica[r].offset, n) = Cut(Buf, replica[r].offset, n)
      OBVIOUS
    <3>1. replica[r].offset \in 0 .. n
      BY DEF KnownOf
    <3> QED
      BY <3>1, CutLonger DEF Longer
  <2>6. replica[r].pc = "stream" => replica[r].known
    BY DEF KnownOf
  <2>7. Underway(r, c, n)'
    BY <2>1, <2>3, <2>4, <2>5, <2>6 DEF Underway
  <2> QED
    BY <2>1, <2>2, <2>7
<1>2. Wish(r)' = Wish(r)
  BY DEF Wish
<1> QED
  BY <1>1, <1>2 DEF Linked

LEMMA AtStays ==
    ASSUME NEW c \in Conns, task'[c].pc = task[c].pc, task'[c].current = task[c].current,
           Online(c)' <=> Online(c), slave'[c].offset = slave[c].offset,
           \A p \in Senders : /\ Advancing(p, c)' <=> Advancing(p, c)
                              /\ Advancing(p, c) => sender'[p].current = sender[p].current
    PROVE  (Sent(c)' <=> Sent(c)) /\ \A n \in Nat : At(c, n) => At(c, n)'
BY DEF Sent, At

LEMMA ApartStays ==
    ASSUME NEW c \in Conns, ApartOf(c), Settled, up'[c] = up[c],
           New(c)' => New(c) /\ down'[c] = down[c],
           Waits(c)' => Waits(c), Taken(c)' => Taken(c),
           Tasked(c)' => Tasked(c), Online(c)' => Online(c)
    PROVE  ApartOf(c)'
BY DEF ApartOf, Settled, Asks

LEMMA SendingStays ==
    ASSUME NEW p \in Senders, SendingOf(p), Longer,
           sender'[p] = sender[p] \/ ~Busy(p)',
           Busy(p) => \A q \in Senders : q # p => ~Busy(q)',
           \A c \in Conns : Online(c) => Online(c)' /\ slave'[c].offset = slave[c].offset,
           sender[p].todo \subseteq Conns
    PROVE  SendingOf(p)'
<1> SUFFICES ASSUME Busy(p)', sender'[p] = sender[p]
             PROVE  SendingOf(p)'
  BY DEF SendingOf
<1>1. Busy(p)
  BY DEF Busy
<1>2. sender[p].current \in 0 .. Len(Buf')
  BY <1>1 DEF SendingOf, Longer
<1>3. SubSeq(Buf', 1, sender[p].current) = SubSeq(Buf, 1, sender[p].current)
  <2> DEFINE n == sender[p].current
  <2>1. n \in 0 .. Len(Buf) /\ \A i \in 1 .. n : Buf'[i] = Buf[i]
    BY <1>1 DEF SendingOf, Longer
  <2> HIDE DEF n
  <2>2. Len(Buf) <= Len(Buf') /\ Buf \in Seq(Nat) /\ Buf' \in Seq(Nat)
    BY DEF Longer
  <2>3. /\ SubSeq(Buf', 1, n) \in Seq(Nat) /\ Len(SubSeq(Buf', 1, n)) = n
        /\ SubSeq(Buf, 1, n) \in Seq(Nat) /\ Len(SubSeq(Buf, 1, n)) = n
        /\ \A i \in 1 .. n : SubSeq(Buf', 1, n)[i] = Buf'[i] /\ SubSeq(Buf, 1, n)[i] = Buf[i]
    BY SMTT(60), <2>1, <2>2
  <2>4. SubSeq(Buf', 1, n) = SubSeq(Buf, 1, n)
    BY <2>1, <2>3, SeqEqual
  <2> QED
    BY <2>4 DEF n
<1> QED
  BY <1>1, <1>2, <1>3 DEF SendingOf

LEMMA OffsetStays ==
    ASSUME NEW c \in Conns, OffsetOf(c), Longer, Online(c)' => Online(c),
           Online(c) => slave'[c].offset = slave[c].offset,
           task'[c].pc = "online" => task'[c] = task[c]
    PROVE  OffsetOf(c)'
BY DEF OffsetOf, Longer

LEMMA ConnTypes ==
    ASSUME IInv
    PROVE  /\ \A r \in Replicas : replica[r] \in ReplicaType /\ replica[r].conn \in Conns \cup {Nil}
           /\ \A p \in Senders : sender[p] \in SenderType /\ sender[p].todo \subseteq Conns
           /\ Nil \notin Conns /\ master \in MasterType /\ master.online \subseteq Conns
           /\ job \in [Jobs -> JobType] /\ task \in [Conns -> TaskType]
           /\ slave \in [Conns -> SlaveType] /\ sender \in [Senders -> SenderType]
           /\ Buf \in Seq(Nat) /\ Len(Buf) = backlog["first"].current
BY ConnAssumption
DEF IInv, LinkOK, BufferOK, MasterOK, ReplicaType, SenderType, MasterType, LogType, Logs, Buf

LEMMA ApartSame ==
    ASSUME ConnInv, Settled, UNCHANGED <<down, task, open, up>>, master'.online = master.online,
           master'.waitSlaves = master.waitSlaves,
           \A j \in Savers : job'[j].todo = job[j].todo
    PROVE  Apart'
<1>1. ASSUME NEW c \in Conns
      PROVE  /\ (New(c)' <=> New(c)) /\ (Waits(c)' <=> Waits(c)) /\ (Taken(c)' <=> Taken(c))
             /\ (Online(c)' <=> Online(c)) /\ (Tasked(c)' <=> Tasked(c))
             /\ up'[c] = up[c] /\ down'[c] = down[c] /\ ApartOf(c)
  BY DEF New, Waits, Taken, Online, Tasked, ConnInv, Apart
<1> QED
  BY <1>1, ApartStays DEF Apart

\* Steps that leave connections and replicas alone.
LEMMA ConnSame ==
    ASSUME IInv, ConnInv, Longer, Settled, UNCHANGED <<replica, down, task, open, up, slave>>,
           master'.online = master.online, Apart', Sending',
           \A p \in Senders, c \in Conns :
               /\ Advancing(p, c)' <=> Advancing(p, c)
               /\ Advancing(p, c) => sender'[p].current = sender[p].current
    PROVE  ConnInv'
<1>1. \A c \in Conns : Online(c)' <=> Online(c)
  BY DEF Online
<1>2. Offsets'
  BY <1>1, OffsetStays DEF ConnInv, Offsets
<1>3. Linking'
  <2> SUFFICES ASSUME NEW r \in Replicas, replica[r].conn # Nil
               PROVE  Linked(r, replica[r].conn)'
    BY DEF Linking
  <2>1. PICK c \in Conns : c = replica[r].conn
    BY ConnTypes
  <2>2. Linked(r, c) /\ KnownOf(r) /\ (Sent(c) => master.saveState = "finish")
    BY <2>1 DEF ConnInv, Linking, Knowing, Apart, ApartOf, Sent, Tasked
  <2>3. \A p \in Senders : /\ Advancing(p, c)' <=> Advancing(p, c)
                           /\ Advancing(p, c) => sender'[p].current = sender[p].current
    OBVIOUS
  <2>4. /\ task'[c] = task[c] /\ slave'[c] = slave[c] /\ open'[c] = open[c]
        /\ up'[c] = up[c] /\ down'[c] = down[c] /\ replica'[r] = replica[r]
        /\ Online(c)' <=> Online(c)
    BY <1>1, <2>1
  <2>5. (Sent(c)' <=> Sent(c)) /\ \A n \in Nat : At(c, n) => At(c, n)'
    BY ONLY <2>1, <2>3, <2>4, AtStays
  <2>6. Asks(c)' => Asks(c) /\ Head(up[c])' = Head(up[c])
    BY <2>4 DEF Asks
  <2>7. Linked(r, c)'
    BY ONLY IInv, Longer, Settled, r \in Replicas, <2>1, <2>2, <2>4, <2>5, <2>6, LinkedStays
  <2>8. replica'[r].conn = c
    BY <2>1, <2>4
  <2> QED
    BY <2>7, <2>8
<1>4. Knowing'
  BY KnownStays DEF ConnInv, Knowing
<1>5. Alone'
  BY DEF ConnInv, Alone
<1> QED
  BY <1>2, <1>3, <1>4, <1>5 DEF ConnInv

\* ... and the senders, but for one that is woken.
LEMMA ConnStays ==
    ASSUME IInv, ConnInv, Longer, Settled, UNCHANGED <<replica, down, task, open, up, slave>>,
           master'.online = master.online, Apart',
           \A p \in Senders : sender'[p] = sender[p] \/ (~Busy(p) /\ ~Busy(p)')
    PROVE  ConnInv'
<1>1. \A c \in Conns : Online(c)' <=> Online(c)
  BY DEF Online
<1>2. Sending'
  <2>1. \A p \in Senders : Busy(p)' <=> Busy(p)
    BY DEF Busy
  <2>2. \A p \in Senders : SendingOf(p)
    BY DEF ConnInv, Sending
  <2>3. ASSUME NEW p \in Senders
        PROVE  SendingOf(p)'
    <3>1. Busy(p) => \A q \in Senders : q # p => ~Busy(q)'
      BY <2>1, <2>2 DEF SendingOf
    <3>2. sender'[p] = sender[p] \/ ~Busy(p)'
      OBVIOUS
    <3> QED
      BY <1>1, <2>2, <3>1, <3>2, SendingStays, ConnTypes
  <2> QED
    BY <2>3 DEF Sending
<1>3. ASSUME NEW p \in Senders, NEW c \in Conns
      PROVE  /\ Advancing(p, c)' <=> Advancing(p, c)
             /\ Advancing(p, c) => sender'[p].current = sender[p].current
  <2>1. CASE sender'[p] = sender[p]
    BY <2>1 DEF Advancing
  <2>2. CASE ~Busy(p) /\ ~Busy(p)'
    BY <2>2 DEF Advancing, Busy
  <2> QED
    BY <2>1, <2>2
<1> QED
  BY <1>2, <1>3, ConnSame

\* A step that concerns the connection d only.
Only(d) ==
    \A c \in Conns \ {d} :
        /\ task'[c] = task[c] /\ slave'[c] = slave[c] /\ open'[c] = open[c]
        /\ up'[c] = up[c] /\ down'[c] = down[c]
        /\ Online(c)' <=> Online(c)
        /\ (Waits(c)' => Waits(c)) /\ (Taken(c)' => Taken(c))
        /\ \A p \in Senders : /\ Advancing(p, c)' <=> Advancing(p, c)
                              /\ Advancing(p, c) => sender'[p].current = sender[p].current

LEMMA OnlyApart ==
    ASSUME ConnInv, Settled, NEW d \in Conns, Only(d), ApartOf(d)'
    PROVE  Apart'
<1> SUFFICES ASSUME NEW c \in Conns, c # d
             PROVE  ApartOf(c)'
  BY DEF Apart
<1>1. ApartOf(c)
  BY DEF ConnInv, Apart
<1>2. /\ task'[c] = task[c] /\ open'[c] = open[c] /\ up'[c] = up[c] /\ down'[c] = down[c]
      /\ Online(c)' <=> Online(c)
      /\ (Waits(c)' => Waits(c)) /\ (Taken(c)' => Taken(c))
  BY DEF Only
<1> QED
  BY <1>1, <1>2, ApartStays DEF New, Tasked

LEMMA OnlyOffsets ==
    ASSUME ConnInv, Longer, NEW d \in Conns, Only(d), OffsetOf(d)'
    PROVE  Offsets'
<1> SUFFICES ASSUME NEW c \in Conns, c # d
             PROVE  OffsetOf(c)'
  BY DEF Offsets
<1>1. OffsetOf(c)
  BY DEF ConnInv, Offsets
<1>2. task'[c] = task[c] /\ slave'[c] = slave[c] /\ (Online(c)' <=> Online(c))
  BY DEF Only
<1> QED
  BY <1>1, <1>2, OffsetStays

LEMMA OnlyLinked ==
    ASSUME IInv, IInv', ConnInv, Longer, Settled, NEW d \in Conns, Only(d),
           \A r \in Replicas : \/ replica'[r] = replica[r]
                               \/ KnownOf(r)' /\ replica'[r].conn \in {Nil, d},
           \A r \in Replicas : replica'[r].conn = d => Linked(r, d)'
    PROVE  Linking' /\ Knowing'
<1>1. Linking'
  <2> SUFFICES ASSUME NEW r \in Replicas, replica'[r].conn # Nil, replica'[r].conn # d
               PROVE  Linked(r, replica[r].conn)'
    BY DEF Linking
  <2>1. replica'[r] = replica[r]
    OBVIOUS
  <2>2. PICK c \in Conns : c = replica[r].conn
    BY <2>1, ConnTypes
  <2>3. Linked(r, c) /\ KnownOf(r) /\ (Sent(c) => master.saveState = "finish")
    BY <2>1, <2>2 DEF ConnInv, Linking, Knowing, Apart, ApartOf, Sent, Tasked
  <2>4. c # d
    BY <2>1, <2>2
  <2>5. /\ task'[c] = task[c] /\ slave'[c] = slave[c] /\ open'[c] = open[c]
        /\ up'[c] = up[c] /\ down'[c] = down[c]
        /\ Online(c)' <=> Online(c)
    BY <2>4 DEF Only
  <2>6. \A p \in Senders : /\ Advancing(p, c)' <=> Advancing(p, c)
                           /\ Advancing(p, c) => sender'[p].current = sender[p].current
    BY <2>4 DEF Only
  <2>7. (Sent(c)' <=> Sent(c)) /\ \A n \in Nat : At(c, n) => At(c, n)'
    BY ONLY <2>2, <2>5, <2>6, AtStays
  <2>8. Asks(c)' => Asks(c) /\ Head(up[c])' = Head(up[c])
    BY <2>5 DEF Asks
  <2>9. Linked(r, c)'
    BY ONLY IInv, Longer, Settled, r \in Replicas, <2>1, <2>2, <2>3, <2>5, <2>7, <2>8, LinkedStays
  <2> QED
    BY <2>1, <2>2, <2>9
<1>2. Knowing'
  <2> SUFFICES ASSUME NEW r \in Replicas, replica'[r] = replica[r]
               PROVE  KnownOf(r)'
    BY DEF Knowing
  <2> QED
    BY KnownStays DEF ConnInv, Knowing
<1> QED
  BY <1>1, <1>2

LEMMA OnlyConn ==
    ASSUME IInv, IInv', ConnInv, Longer, Settled, NEW d \in Conns, Only(d), UNCHANGED replica,
           Sending', ApartOf(d)', OffsetOf(d)',
           \A r \in Replicas : replica[r].conn = d => Linked(r, d)'
    PROVE  ConnInv'
<1>1. Apart' /\ Offsets'
  BY OnlyApart, OnlyOffsets
<1>2. Linking' /\ Knowing'
  <2>1. \A r \in Replicas : replica'[r].conn = d => Linked(r, d)'
    OBVIOUS
  <2> QED
    BY <2>1, OnlyLinked
<1>3. Alone'
  BY DEF ConnInv, Alone
<1> QED
  BY <1>1, <1>2, <1>3 DEF ConnInv

\* The senders go on, if the slaves they have are online with the offsets they had.
LEMMA SendingSame ==
    ASSUME IInv, ConnInv, Longer, UNCHANGED sender,
           \A c \in Conns : Online(c) => Online(c)' /\ slave'[c].offset = slave[c].offset
    PROVE  Sending'
<1>1. \A p \in Senders : SendingOf(p) /\ sender[p].todo \subseteq Conns /\ (Busy(p)' <=> Busy(p))
  BY ConnTypes DEF ConnInv, Sending, Busy
<1>2. \A p \in Senders : Busy(p) => \A q \in Senders : q # p => ~Busy(q)'
  BY <1>1 DEF SendingOf
<1> QED
  BY <1>1, <1>2, SendingStays DEF Sending

\* More of the backlog is sent.
LEMMA UnderwayGrows ==
    ASSUME IInv, NEW r \in Replicas, NEW c \in Conns, KnownOf(r),
           NEW m \in 0 .. Len(Buf), NEW n \in 0 .. m, Underway(r, c, n),
           UNCHANGED <<backlog, master, rdb>>, replica'[r] = replica[r],
           down'[c] = down[c] \o Cut(Buf, n, m)
    PROVE  Underway(r, c, m)'
<1>1. Buf \in Seq(Nat) /\ n \in 0 .. Len(Buf) /\ Buf' = Buf /\ n <= m
  BY ConnTypes DEF Buf
<1>2. ASSUME NEW o \in 0 .. n
      PROVE  Cut(Buf, o, n) \o Cut(Buf, n, m) = Cut(Buf, o, m)
  BY <1>1, CutJoin
<1>3. ASSUME NEW o \in 0 .. n, NEW x
      PROVE  (<<x>> \o Cut(Buf, o, n)) \o Cut(Buf, n, m) = <<x>> \o Cut(Buf, o, m)
  <2> DEFINE s == Cut(Buf, o, n)
             t == Cut(Buf, n, m)
  <2>1. s \in Seq(DownMessage) /\ t \in Seq(DownMessage)
    BY <1>1, CutIs
  <2>2. s \in Seq(DownMessage \cup {x}) /\ t \in Seq(DownMessage \cup {x})
    BY <2>1
  <2> HIDE DEF s, t
  <2>3. (<<x>> \o s) \o t = <<x>> \o (s \o t)
    BY <2>2
  <2> QED
    BY <1>2, <2>3 DEF s, t
<1>4. replica[r].pc = "stream" => replica[r].known
  BY DEF KnownOf
<1>5. replica[r].known /\ replica[r].offset <= n => replica[r].offset \in 0 .. n
  BY DEF KnownOf
<1>6. CASE replica[r].pc = "handshake" /\ down[c] = <<Dumped(0, rdb[master.rdbFile])>> \o Cut(Buf, 0, n)
  <2>1. 0 \in 0 .. n
    BY <1>1
  <2>2. down'[c] = <<Dumped(0, rdb[master.rdbFile])>> \o Cut(Buf, 0, m)
    BY <1>3, <1>6, <2>1
  <2> QED
    BY <1>1, <1>6, <2>2 DEF Underway
<1>7. CASE /\ replica[r].pc = "handshake" /\ replica[r].known /\ replica[r].offset <= n
           /\ down[c] = <<Message("continue", 0)>> \o Cut(Buf, replica[r].offset, n)
  <2>1. down'[c] = <<Message("continue", 0)>> \o Cut(Buf, replica[r].offset, m)
    BY <1>3, <1>5, <1>7
  <2>2. replica[r].offset <= m
    BY <1>1, <1>5, <1>7
  <2> QED
    BY <1>1, <1>7, <2>1, <2>2 DEF Underway
<1>8. CASE /\ replica[r].pc = "stream" /\ replica[r].offset <= n
           /\ down[c] = Cut(Buf, replica[r].offset, n)
  <2>1. down'[c] = Cut(Buf, replica[r].offset, m)
    BY <1>2, <1>4, <1>5, <1>8
  <2>2. replica[r].offset <= m
    BY <1>1, <1>4, <1>5, <1>8
  <2> QED
    BY <1>1, <1>8, <2>1, <2>2 DEF Underway
<1> QED
  BY <1>6, <1>7, <1>8 DEF Underway

(* Resynchronisations *)

\* A connection that is being resynchronised has one place.
LEMMA TaskedApart ==
    ASSUME ConnInv, NEW c \in Conns, Tasked(c)
    PROVE  /\ ~New(c) /\ ~Asks(c) /\ ~Waits(c) /\ ~Taken(c) /\ ~Online(c)
           /\ master.saveState = "finish" /\ \A p \in Senders : ~Advancing(p, c)
           /\ \A p \in Senders : Busy(p) => c \notin sender[p].todo
<1>1. ApartOf(c) /\ \A p \in Senders : SendingOf(p)
  BY DEF ConnInv, Apart, Sending
<1>2. ~Online(c)
  BY <1>1 DEF ApartOf
<1> QED
  BY <1>1, <1>2 DEF ApartOf, SendingOf, Advancing, Busy

\* The master's log and the Log of LogInv.
LEMMA LogIs ==
    ASSUME IInv, LogInv
    PROVE  /\ Log = backlog["first"] /\ Log.buf = Buf /\ Log.begin = 0 /\ Log.current = Len(Buf)
           /\ Buf \in Seq(Nat)
<1>1. master.log = "first" /\ backlog["first"].begin = 0
  BY DEF LogInv, OneDump
<1> QED
  BY <1>1, ConnTypes DEF Log, Buf

LEMMA SyncOnly ==
    ASSUME IInv, NEW c \in Conns,
           \/ TryPartialSync(c) \/ CannotPartialSync(c) \/ SendRDB(c)
           \/ SendBacklog(c) \/ SetSlaveOnline(c) \/ SyncFails(c)
    PROVE  /\ Only(c) /\ UNCHANGED <<backlog, rdb, sender, open, up, replica, job>>
           /\ task \in [Conns -> TaskType] /\ slave \in [Conns -> SlaveType]
           /\ Buf' = Buf /\ (Waits(c)' => Waits(c)) /\ (Taken(c)' => Taken(c))
<1>1. master \in MasterType /\ task \in [Conns -> TaskType] /\ slave \in [Conns -> SlaveType]
  BY ConnTypes
<1>2. down \in [Conns -> Seq(DownMessage)]
  BY DEF IInv, LinkOK
<1>3. UNCHANGED <<backlog, rdb, sender, open, up, replica, job>>
  BY DEF TryPartialSync, CannotPartialSync, SendRDB, SendBacklog, SetSlaveOnline, SyncFails, net
<1>4. \A e \in Conns \ {c} : task'[e] = task[e] /\ slave'[e] = slave[e] /\ down'[e] = down[e]
  BY <1>1, <1>2
  DEF TryPartialSync, CannotPartialSync, SendRDB, SendBacklog, SetSlaveOnline, SyncFails, net
<1>5. \/ master' = master
      \/ master' = Forget(master, c)
      \/ master' = [master EXCEPT !.online = @ \cup {c}]
  BY DEF TryPartialSync, CannotPartialSync, SendRDB, SendBacklog, SetSlaveOnline, SyncFails
<1>6. /\ master'.online = master.online \/ master'.online = master.online \ {c}
             \/ master'.online = master.online \cup {c}
      /\ \/ master'.waitSlaves = master.waitSlaves
         \/ master.waitSlaves # Nil /\ master'.waitSlaves = master.waitSlaves \ {c}
  BY <1>1, <1>5 DEF Forget, MasterType
<1>7. \A e \in Conns \ {c} : Online(e)' <=> Online(e)
  BY <1>6 DEF Online
<1>8. \A e \in Conns : Waits(e)' => Waits(e)
  BY <1>6 DEF Waits
<1>9. \A e \in Conns : Taken(e)' <=> Taken(e)
  BY <1>3 DEF Taken
<1>10. \A e \in Conns, p \in Senders :
           (Advancing(p, e)' <=> Advancing(p, e)) /\ sender'[p].current = sender[p].current
  BY <1>3 DEF Advancing
<1>11. Only(c)
  BY <1>3, <1>4, <1>7, <1>8, <1>9, <1>10 DEF Only
<1> QED
  BY <1>1, <1>3, <1>8, <1>9, <1>11 DEF Buf

LEMMA SyncSending ==
    ASSUME IInv, LogInv, ConnInv, Longer, NEW c \in Conns,
           \/ TryPartialSync(c) \/ CannotPartialSync(c) \/ SendRDB(c)
           \/ SendBacklog(c) \/ SetSlaveOnline(c) \/ SyncFails(c)
    PROVE  Sending'
<1>1. /\ Only(c) /\ UNCHANGED sender
  BY SyncOnly
<1>2. Tasked(c)
  BY DEF Tasked, TryPartialSync, CannotPartialSync, SendRDB, SendBacklog, SetSlaveOnline, SyncFails
<1>3. ~Online(c)
  BY <1>2, TaskedApart
<1>4. \A e \in Conns : Online(e) => Online(e)' /\ slave'[e].offset = slave[e].offset
  BY <1>1, <1>3 DEF Only
<1> QED
  BY <1>1, <1>4, SendingSame

LEMMA TryPartialConn ==
    ASSUME IInv, IInv', LogInv, ConnInv, Longer, Settled, NEW c \in Conns, TryPartialSync(c)
    PROVE  ConnInv'
<1>1. /\ Only(c) /\ UNCHANGED <<backlog, rdb, sender, open, up, replica, master>> /\ Buf' = Buf
      /\ (Waits(c)' => Waits(c)) /\ (Taken(c)' => Taken(c))
  BY SyncOnly DEF TryPartialSync
<1>2. Tasked(c) /\ task[c].pc = "partial"
  BY DEF Tasked, TryPartialSync
<1>3. /\ ~New(c) /\ ~Asks(c) /\ ~Waits(c) /\ ~Taken(c) /\ ~Online(c)
      /\ master.saveState = "finish" /\ \A p \in Senders : ~Advancing(p, c)
  BY <1>2, TaskedApart
<1>4. /\ Log.buf = Buf /\ Log.begin = 0 /\ Log.current = Len(Buf) /\ Buf \in Seq(Nat)
      /\ Len(Buf) \in Nat
  BY LogIs
<1>5. /\ task'[c].pc = "online" /\ task'[c].current = Len(Buf)
  BY <1>4, ConnTypes DEF TryPartialSync, TaskType
<1> DEFINE f == task[c].from
<1>6. f \in 0 .. Len(Buf)
  <2>1. f \in Int
    BY ConnTypes DEF TaskType
  <2> QED
    BY <1>4, <2>1 DEF TryPartialSync, IsValidOffset
<1>7. down'[c] = down[c] \o <<Message("continue", 0)>> \o Cut(Buf, f, Len(Buf))
  <2>1. down'[c] = down[c] \o <<Message("continue", 0)>> \o Lines(After(Buf, f - 0))
    BY <1>4 DEF TryPartialSync, IInv, LinkOK
  <2>2. f - 0 = f
    BY <1>6
  <2>3. Lines(After(Buf, f)) = Cut(Buf, f, Len(Buf))
    BY <1>4, <1>6, CutLines
  <2> QED
    BY <2>1, <2>2, <2>3
<1>8. ApartOf(c)'
  BY <1>1, <1>3, <1>5 DEF ConnInv, Apart, ApartOf, New, Asks, Online, Tasked
<1>9. OffsetOf(c)'
  BY <1>1, <1>3, <1>4, <1>5 DEF OffsetOf, Online
<1>10. ASSUME NEW r \in Replicas, replica[r].conn = c
       PROVE  Linked(r, c)'
  <2>1. Linked(r, c) /\ KnownOf(r)
    BY <1>10, ConnTypes DEF ConnInv, Linking, Knowing
  <2>2. open[c] = "open" /\ replica[r].pc = "handshake" /\ down[c] = <<>> /\ f = Wish(r)
    BY <1>2, <1>3, <2>1 DEF Linked, Sent
  <2>3. replica[r].known /\ replica[r].offset = f
    BY <1>6, <2>2 DEF Wish
  <2>4. down'[c] = <<Message("continue", 0)>> \o Cut(Buf, f, Len(Buf))
    <3>1. down[c] \o <<Message("continue", 0)>> = <<Message("continue", 0)>>
      BY <2>2
    <3> QED
      BY <1>7, <3>1
  <2>5. Underway(r, c, Len(Buf))'
    BY <1>1, <1>6, <2>2, <2>3, <2>4 DEF Underway
  <2>6. At(c, Len(Buf))'
    BY <1>1, <1>5 DEF At
  <2>7. Len(Buf) \in 0 .. Len(Buf)'
    BY <1>1, <1>4
  <2>8. \E n \in 0 .. Len(Buf)' : At(c, n)' /\ Underway(r, c, n)'
    BY <1>1, <2>5, <2>6, <2>7
  <2>9. open'[c] = "open" /\ replica'[r].pc = "handshake" /\ ~Asks(c)' /\ Sent(c)'
    BY <1>1, <1>3, <1>5, <2>2 DEF Asks, Sent
  <2> QED
    BY <1>5, <2>8, <2>9 DEF Linked
<1>11. Sending'
  BY SyncSending
<1> QED
  BY ONLY IInv, IInv', ConnInv, Longer, Settled, c \in Conns, <1>1, <1>8, <1>9, <1>10, <1>11, OnlyConn

LEMMA CannotPartialConn ==
    ASSUME IInv, IInv', LogInv, ConnInv, Longer, Settled, NEW c \in Conns, CannotPartialSync(c)
    PROVE  ConnInv'
<1>1. /\ Only(c) /\ UNCHANGED <<sender, open, up, down, replica, master>>
      /\ (Waits(c)' => Waits(c)) /\ (Taken(c)' => Taken(c))
  BY SyncOnly DEF CannotPartialSync, net
<1>2. Tasked(c) /\ task[c].pc = "partial"
  BY DEF Tasked, CannotPartialSync
<1>3. /\ ~New(c) /\ ~Asks(c) /\ ~Waits(c) /\ ~Taken(c) /\ ~Online(c)
      /\ master.saveState = "finish"
  BY <1>2, TaskedApart
<1>4. task'[c].pc = "full"
  BY ConnTypes DEF CannotPartialSync, TaskType
<1>5. ApartOf(c)'
  BY <1>1, <1>3, <1>4 DEF ConnInv, Apart, ApartOf, New, Asks, Online, Tasked
<1>6. OffsetOf(c)'
  BY <1>1, <1>3, <1>4 DEF OffsetOf, Online
<1>7. ASSUME NEW r \in Replicas, replica[r].conn = c
      PROVE  Linked(r, c)'
  <2>1. Linked(r, c)
    BY <1>7, ConnTypes DEF ConnInv, Linking
  <2>2. open[c] = "open" /\ replica[r].pc = "handshake" /\ down[c] = <<>>
    BY <1>2, <1>3, <2>1 DEF Linked, Sent
  <2>3. ~Asks(c)' /\ ~Sent(c)'
    BY <1>1, <1>3, <1>4 DEF Asks, Sent, Online
  <2> QED
    BY <1>1, <1>4, <2>2, <2>3 DEF Linked
<1>8. Sending'
  BY SyncSending
<1> QED
  BY ONLY IInv, IInv', ConnInv, Longer, Settled, c \in Conns, <1>1, <1>5, <1>6, <1>7, <1>8, OnlyConn

LEMMA SendRDBConn ==
    ASSUME IInv, IInv', LogInv, ConnInv, Longer, Settled, NEW c \in Conns, SendRDB(c)
    PROVE  ConnInv'
<1>1. /\ Only(c) /\ UNCHANGED <<backlog, rdb, sender, open, up, replica, master>> /\ Buf' = Buf
      /\ (Waits(c)' => Waits(c)) /\ (Taken(c)' => Taken(c))
  BY SyncOnly DEF SendRDB
<1>2. Tasked(c) /\ task[c].pc = "full"
  BY DEF Tasked, SendRDB
<1>3. /\ ~New(c) /\ ~Asks(c) /\ ~Waits(c) /\ ~Taken(c) /\ ~Online(c)
      /\ master.saveState = "finish"
  BY <1>2, TaskedApart
<1>4. /\ task'[c].pc = "backlog"
      /\ down'[c] = Append(down[c], Dumped(0, rdb[master.rdbFile]))
  BY ConnTypes, LogIs DEF SendRDB, TaskType, IInv, LinkOK
<1>5. ApartOf(c)'
  BY <1>1, <1>3, <1>4 DEF ConnInv, Apart, ApartOf, New, Asks, Online, Tasked
<1>6. OffsetOf(c)'
  BY <1>1, <1>3, <1>4 DEF OffsetOf, Online
<1>7. ASSUME NEW r \in Replicas, replica[r].conn = c
      PROVE  Linked(r, c)'
  <2>1. Linked(r, c)
    BY <1>7, ConnTypes DEF ConnInv, Linking
  <2>2. open[c] = "open" /\ replica[r].pc = "handshake" /\ down[c] = <<>>
    BY <1>2, <1>3, <2>1 DEF Linked, Sent
  <2>3. ~Asks(c)' /\ Sent(c)'
    BY <1>1, <1>3, <1>4 DEF Asks, Sent
  <2>4. down'[c] = <<Dumped(0, rdb[master.rdbFile])>> \o Cut(Buf, 0, 0)
    <3>1. down'[c] = <<Dumped(0, rdb[master.rdbFile])>>
      BY <1>4, <2>2
    <3>2. <<Dumped(0, rdb[master.rdbFile])>> \o <<>> = <<Dumped(0, rdb[master.rdbFile])>>
      OBVIOUS
    <3> QED
      BY <3>1, <3>2, CutNone
  <2>5. Underway(r, c, 0)'
    BY <1>1, <2>2, <2>4 DEF Underway
  <2>6. At(c, 0)'
    BY <1>4 DEF At
  <2>7. 0 \in 0 .. Len(Buf)'
    BY <1>1, LogIs
  <2>8. \E n \in 0 .. Len(Buf)' : At(c, n)' /\ Underway(r, c, n)'
    BY <1>1, <2>5, <2>6, <2>7
  <2> QED
    BY <1>1, <1>4, <2>2, <2>3, <2>8 DEF Linked
<1>8. Sending'
  BY SyncSending
<1> QED
  BY ONLY IInv, IInv', ConnInv, Longer, Settled, c \in Conns, <1>1, <1>5, <1>6, <1>7, <1>8, OnlyConn

LEMMA SendBacklogConn ==
    ASSUME IInv, IInv', LogInv, ConnInv, Longer, Settled, NEW c \in Conns, SendBacklog(c)
    PROVE  ConnInv'
<1>1. /\ Only(c) /\ UNCHANGED <<backlog, rdb, sender, open, up, replica, master>> /\ Buf' = Buf
      /\ (Waits(c)' => Waits(c)) /\ (Taken(c)' => Taken(c))
  BY SyncOnly DEF SendBacklog
<1>2. Tasked(c) /\ task[c].pc = "backlog"
  BY DEF Tasked, SendBacklog
<1>3. /\ ~New(c) /\ ~Asks(c) /\ ~Waits(c) /\ ~Taken(c) /\ ~Online(c)
      /\ master.saveState = "finish" /\ \A p \in Senders : ~Advancing(p, c)
  BY <1>2, TaskedApart
<1>4. Log.buf = Buf /\ Log.current = Len(Buf) /\ Buf \in Seq(Nat) /\ Len(Buf) \in Nat
  BY LogIs
<1>5. /\ task'[c].pc = "online" /\ task'[c].current = Len(Buf)
      /\ down'[c] = down[c] \o Cut(Buf, 0, Len(Buf))
  <2>1. task'[c].pc = "online" /\ task'[c].current = Len(Buf)
    BY <1>4, ConnTypes DEF SendBacklog, TaskType
  <2>2. down'[c] = down[c] \o Lines(Buf)
    BY <1>4 DEF SendBacklog, IInv, LinkOK
  <2> QED
    BY <1>4, <2>1, <2>2, CutWhole
<1>6. ApartOf(c)'
  BY <1>1, <1>3, <1>5 DEF ConnInv, Apart, ApartOf, New, Asks, Online, Tasked
<1>7. OffsetOf(c)'
  BY <1>1, <1>3, <1>4, <1>5 DEF OffsetOf, Online
<1>8. ASSUME NEW r \in Replicas, replica[r].conn = c
      PROVE  Linked(r, c)'
  <2>1. Linked(r, c) /\ KnownOf(r) /\ Sent(c)
    BY <1>2, <1>8, ConnTypes DEF ConnInv, Linking, Knowing, Sent
  <2>2. PICK n \in 0 .. Len(Buf) : At(c, n) /\ Underway(r, c, n)
    BY <2>1 DEF Linked
  <2>3. n = 0
    BY <1>2, <1>3, <2>2 DEF At
  <2>4. Len(Buf) \in 0 .. Len(Buf) /\ 0 \in 0 .. Len(Buf)
    BY <1>4
  <2>5. Underway(r, c, Len(Buf))'
    BY <1>1, <1>5, <2>1, <2>2, <2>3, <2>4, UnderwayGrows
  <2>6. At(c, Len(Buf))'
    BY <1>1, <1>5 DEF At
  <2>7. \E m \in 0 .. Len(Buf)' : At(c, m)' /\ Underway(r, c, m)'
    BY <1>1, <2>4, <2>5, <2>6
  <2>8. open'[c] = "open" /\ replica'[r].pc \in {"handshake", "stream"} /\ ~Asks(c)' /\ Sent(c)'
    BY <1>1, <1>3, <1>5, <2>1 DEF Asks, Sent, Linked
  <2> QED
    BY <1>5, <2>7, <2>8 DEF Linked
<1>9. Sending'
  BY SyncSending
<1> QED
  BY ONLY IInv, IInv', ConnInv, Longer, Settled, c \in Conns, <1>1, <1>6, <1>7, <1>8, <1>9, OnlyConn

LEMMA SetOnlineConn ==
    ASSUME IInv, IInv', LogInv, ConnInv, Longer, Settled, NEW c \in Conns, SetSlaveOnline(c)
    PROVE  ConnInv'
<1>1. /\ Only(c) /\ UNCHANGED <<backlog, rdb, sender, open, up, down, replica>> /\ Buf' = Buf
      /\ (Waits(c)' => Waits(c)) /\ (Taken(c)' => Taken(c))
  BY SyncOnly DEF SetSlaveOnline, net
<1>2. Tasked(c) /\ task[c].pc = "online"
  BY DEF Tasked, SetSlaveOnline
<1>3. /\ ~New(c) /\ ~Asks(c) /\ ~Waits(c) /\ ~Taken(c) /\ ~Online(c)
      /\ master.saveState = "finish" /\ \A p \in Senders : ~Advancing(p, c)
  BY <1>2, TaskedApart
<1>4. task'[c].pc = "idle" /\ slave'[c].offset = task[c].current
  BY ConnTypes DEF SetSlaveOnline, NoTask
<1>5. /\ master'.saveState = "finish" /\ master'.rdbFile = master.rdbFile /\ Online(c)'
      /\ master'.waitSlaves = master.waitSlaves
  BY <1>3, ConnTypes DEF SetSlaveOnline, MasterType, Online
<1>6. ApartOf(c)'
  BY <1>1, <1>3, <1>4, <1>5 DEF ConnInv, Apart, ApartOf, New, Asks, Tasked
<1>7. OffsetOf(c)'
  BY <1>1, <1>2, <1>4 DEF ConnInv, Offsets, OffsetOf
<1>8. ASSUME NEW r \in Replicas, replica[r].conn = c
      PROVE  Linked(r, c)'
  <2>1. Linked(r, c) /\ Sent(c)
    BY <1>2, <1>8, ConnTypes DEF ConnInv, Linking, Sent
  <2>2. PICK n \in 0 .. Len(Buf) : At(c, n) /\ Underway(r, c, n)
    BY <2>1 DEF Linked
  <2>3. n = task[c].current
    BY <1>2, <1>3, <2>2 DEF At
  <2>4. At(c, n)'
    BY <1>1, <1>3, <1>4, <1>5, <2>3 DEF At, Advancing
  <2>5. Underway(r, c, n)'
    BY <1>1, <1>5, <2>2 DEF Underway
  <2>6. \E m \in 0 .. Len(Buf)' : At(c, m)' /\ Underway(r, c, m)'
    BY <1>1, <2>2, <2>4, <2>5
  <2>7. open'[c] = "open" /\ replica'[r].pc \in {"handshake", "stream"} /\ ~Asks(c)' /\ Sent(c)'
    BY <1>1, <1>3, <1>5, <2>1 DEF Asks, Sent, Linked
  <2> QED
    BY <1>4, <2>6, <2>7 DEF Linked
<1>9. Sending'
  BY SyncSending
<1> QED
  BY ONLY IInv, IInv', ConnInv, Longer, Settled, c \in Conns, <1>1, <1>6, <1>7, <1>8, <1>9, OnlyConn

LEMMA SyncFailsConn ==
    ASSUME IInv, IInv', LogInv, ConnInv, Longer, Settled, NEW c \in Conns, SyncFails(c)
    PROVE  ConnInv'
<1>1. /\ Only(c) /\ UNCHANGED <<sender, open, up, down, replica>>
      /\ (Waits(c)' => Waits(c)) /\ (Taken(c)' => Taken(c))
  BY SyncOnly DEF SyncFails, net
<1>2. Tasked(c) /\ open[c] = "closed"
  BY DEF Tasked, SyncFails
<1>3. ~New(c) /\ ~Asks(c) /\ ~Waits(c) /\ ~Taken(c)
  BY <1>2, TaskedApart
<1>4. task'[c].pc = "idle" /\ ~Online(c)'
  BY ConnTypes DEF SyncFails, NoTask, Forget, Online, MasterType
<1>5. ApartOf(c)'
  BY <1>1, <1>3, <1>4 DEF ConnInv, Apart, ApartOf, New, Asks, Tasked
<1>6. OffsetOf(c)'
  BY <1>4 DEF OffsetOf
<1>7. \A r \in Replicas : replica[r].conn = c => Linked(r, c)'
  BY <1>2, ConnTypes DEF ConnInv, Linking, Linked
<1>8. Sending'
  BY SyncSending
<1> QED
  BY ONLY IInv, IInv', ConnInv, Longer, Settled, c \in Conns, <1>1, <1>5, <1>6, <1>7, <1>8, OnlyConn

LEMMA SyncConn ==
    ASSUME IInv, IInv', LogInv, ConnInv, Longer, Settled, Sync
    PROVE  ConnInv'
BY TryPartialConn, CannotPartialConn, SendRDBConn, SendBacklogConn, SetOnlineConn, SyncFailsConn
DEF Sync

-------------------------------------------------------------------------------
(* Requests *)

LEMMA ServedUp ==
    ASSUME IInv, ConnInv, NEW c \in Conns, up[c] # <<>>, Serve(c)
    PROVE  /\ up'[c] = Tail(up[c]) /\ \A d \in Conns \ {c} : up'[d] = up[d]
           /\ ~Asks(c)' /\ ~New(c)
           /\ \A i \in 2 .. Len(up'[c]) : up'[c][i].type = "ack"
<1>1. up \in [Conns -> Seq(UpMessage)] /\ up[c] \in Seq(UpMessage)
  BY DEF IInv, LinkOK
<1>2. up'[c] = Tail(up[c]) /\ \A d \in Conns \ {c} : up'[d] = up[d]
  BY <1>1 DEF Serve
<1>3. \A i \in 2 .. Len(up[c]) : up[c][i].type = "ack"
  BY DEF ConnInv, Apart, ApartOf
<1>4. \A i \in 1 .. Len(Tail(up[c])) : Tail(up[c])[i].type = "ack"
  <2>1. \A i \in 1 .. Len(Tail(up[c])) : i + 1 \in 2 .. Len(up[c]) /\ Tail(up[c])[i] = up[c][i + 1]
    BY <1>1
  <2> QED
    BY <1>3, <2>1
<1>5. ~Asks(c)'
  <2> SUFFICES ASSUME Tail(up[c]) # <<>>
               PROVE  Head(Tail(up[c])).type # "psync"
    BY <1>2 DEF Asks
  <2> DEFINE t == Tail(up[c])
  <2>1. t \in Seq(UpMessage)
    BY <1>1
  <2>2. 1 \in 1 .. Len(t) /\ Head(t) = t[1]
    BY <2>1
  <2> QED
    BY <1>4, <2>2
<1>6. ~New(c)
  BY DEF ConnInv, Apart, ApartOf
<1> QED
  BY <1>2, <1>4, <1>5, <1>6

LEMMA AsksApart ==
    ASSUME ConnInv, NEW c \in Conns, Asks(c)
    PROVE  ~New(c) /\ ~Waits(c) /\ ~Taken(c) /\ ~Tasked(c) /\ ~Online(c) /\ ~Sent(c)
<1>1. ApartOf(c)
  BY DEF ConnInv, Apart
<1>2. ~New(c)
  BY <1>1 DEF ApartOf, Asks
<1>3. ~Waits(c) /\ ~Taken(c) /\ ~Tasked(c) /\ ~Online(c)
  BY <1>1 DEF ApartOf
<1> QED
  BY <1>2, <1>3 DEF Sent, Tasked

LEMMA PSyncWaitsConn ==
    ASSUME IInv, IInv', LogInv, ConnInv, Longer, Settled, NEW c \in Conns, PSyncWaits(c)
    PROVE  ConnInv'
<1>1. UNCHANGED <<backlog, rdb, sender, open, down, replica, task>>
  BY DEF PSyncWaits
<1>2. Asks(c) /\ up[c] # <<>> /\ Serve(c)
  BY DEF PSyncWaits, Request, Asks
<1>3. ~New(c) /\ ~Waits(c) /\ ~Taken(c) /\ ~Tasked(c) /\ ~Online(c) /\ ~Sent(c)
  BY <1>2, AsksApart
<1>4. /\ up'[c] = Tail(up[c]) /\ \A d \in Conns \ {c} : up'[d] = up[d]
      /\ ~Asks(c)' /\ \A i \in 2 .. Len(up'[c]) : up'[c][i].type = "ack"
  BY <1>2, ServedUp
<1>5. /\ \A d \in Conns \ {c} : slave'[d] = slave[d]
      /\ \A d \in Conns : slave'[d].offset = slave[d].offset
  BY ConnTypes DEF PSyncWaits, SlaveType
<1>6. /\ master'.online = master.online /\ master.waitSlaves # Nil
      /\ master'.waitSlaves = master.waitSlaves \cup {c}
  BY ConnTypes DEF PSyncWaits, Wait, NewSlave, MasterType
<1>7. \A j \in Savers : job'[j].todo = job[j].todo
  <2>1. job \in [Jobs -> JobType]
    BY ConnTypes
  <2>2. job' = job \/ \E j \in Savers : job' = [job EXCEPT ![j].pc = "begin"]
    BY DEF PSyncWaits
  <2>3. ASSUME NEW j \in Savers, job' = [job EXCEPT ![j].pc = "begin"], NEW i \in Savers
        PROVE  job'[i].todo = job[i].todo
    BY <2>1, <2>3 DEF JobType, Jobs
  <2> QED
    BY <2>2, <2>3
<1>8. \A d \in Conns : /\ (Online(d)' <=> Online(d)) /\ (Taken(d)' <=> Taken(d))
                       /\ (d # c /\ Waits(d)' => Waits(d))
  BY <1>6, <1>7 DEF Online, Taken, Waits
<1>9. Only(c)
  BY <1>1, <1>4, <1>5, <1>8 DEF Only, Advancing
<1>10. ApartOf(c)'
  BY <1>1, <1>3, <1>4, <1>8 DEF ApartOf, New, Tasked
<1>11. OffsetOf(c)'
  BY <1>1, <1>3, <1>8 DEF OffsetOf, Tasked
<1>12. ASSUME NEW r \in Replicas, replica[r].conn = c
       PROVE  Linked(r, c)'
  <2>1. Linked(r, c)
    BY <1>12, ConnTypes DEF ConnInv, Linking
  <2>2. ~Sent(c)'
    BY <1>1, <1>3, <1>8 DEF Sent
  <2> QED
    BY <1>1, <1>3, <1>4, <2>1, <2>2 DEF Linked, Tasked
<1>13. Sending'
  BY <1>1, <1>5, <1>8, SendingSame
<1> QED
  BY ONLY IInv, IInv', ConnInv, Longer, Settled, c \in Conns, <1>1, <1>9, <1>10, <1>11, <1>12, <1>13, OnlyConn

LEMMA PSyncAfterConn ==
    ASSUME IInv, IInv', LogInv, ConnInv, Longer, Settled, NEW c \in Conns, PSyncAfterDump(c)
    PROVE  ConnInv'
<1>1. UNCHANGED <<backlog, rdb, sender, open, down, replica, slave, job>>
  BY DEF PSyncAfterDump
<1>2. Asks(c) /\ up[c] # <<>> /\ Serve(c) /\ master.saveState = "finish"
  BY DEF PSyncAfterDump, Request, Asks
<1>3. ~New(c) /\ ~Waits(c) /\ ~Taken(c) /\ ~Tasked(c) /\ ~Online(c) /\ ~Sent(c)
  BY <1>2, AsksApart
<1>4. /\ up'[c] = Tail(up[c]) /\ \A d \in Conns \ {c} : up'[d] = up[d]
      /\ ~Asks(c)' /\ \A i \in 2 .. Len(up'[c]) : up'[c][i].type = "ack"
  BY <1>2, ServedUp
<1>5. /\ \A d \in Conns \ {c} : task'[d] = task[d]
      /\ task'[c].pc = "partial" /\ task'[c].from = Head(up[c]).n
  BY ConnTypes DEF PSyncAfterDump, NoTask
<1>6. /\ master'.online = master.online /\ master'.waitSlaves = master.waitSlaves
      /\ master'.saveState = "finish"
  BY <1>2, ConnTypes DEF PSyncAfterDump, NewSlave, MasterType
<1>7. \A d \in Conns : /\ (Online(d)' <=> Online(d)) /\ (Taken(d)' <=> Taken(d))
                       /\ (Waits(d)' <=> Waits(d))
  BY <1>1, <1>6 DEF Online, Taken, Waits
<1>8. Only(c)
  BY <1>1, <1>4, <1>5, <1>7 DEF Only, Advancing
<1>9. ApartOf(c)'
  BY <1>1, <1>3, <1>4, <1>6, <1>7 DEF ApartOf, New, Tasked
<1>10. OffsetOf(c)'
  BY <1>3, <1>5, <1>7 DEF OffsetOf
<1>11. ASSUME NEW r \in Replicas, replica[r].conn = c
       PROVE  Linked(r, c)'
  <2>1. Linked(r, c)
    BY <1>11, ConnTypes DEF ConnInv, Linking
  <2>2. ~Sent(c)'
    BY <1>3, <1>5, <1>7 DEF Sent
  <2>3. task'[c].from = Wish(r)'
    BY <1>1, <1>2, <1>5, <2>1 DEF Linked, Wish
  <2> QED
    BY <1>1, <1>3, <1>4, <2>1, <2>2, <2>3 DEF Linked
<1>12. Sending'
  BY <1>1, <1>7, SendingSame
<1> QED
  BY ONLY IInv, IInv', ConnInv, Longer, Settled, c \in Conns, <1>1, <1>8, <1>9, <1>10, <1>11, <1>12, OnlyConn

LEMMA ReplConfConn ==
    ASSUME IInv, IInv', LogInv, ConnInv, Longer, Settled, NEW c \in Conns, ReplConfAck(c),
           spoiled' = {}
    PROVE  ConnInv'
<1>1. UNCHANGED <<backlog, rdb, sender, open, down, replica, task, job, master>>
  BY DEF ReplConfAck
<1>2. ~Asks(c) /\ up[c] # <<>> /\ Serve(c)
  BY DEF ReplConfAck, Request, Asks
<1>3. /\ up'[c] = Tail(up[c]) /\ \A d \in Conns \ {c} : up'[d] = up[d]
      /\ ~Asks(c)' /\ ~New(c) /\ \A i \in 2 .. Len(up'[c]) : up'[c][i].type = "ack"
  BY <1>2, ServedUp
<1>4. \A d \in Conns \ {c} : slave'[d] = slave[d]
  BY ConnTypes DEF ReplConfAck
<1>5. Online(c) => slave'[c].offset = slave[c].offset
  <2>1. Online(c) => slave[c].offset = Head(up[c]).n
    BY DEF ReplConfAck, Spoil, Online
  <2>2. slave'[c].offset \in {slave[c].offset, Head(up[c]).n}
    BY ConnTypes DEF ReplConfAck, SlaveType
  <2> QED
    BY <2>1, <2>2
<1>6. \A d \in Conns : /\ (Online(d)' <=> Online(d)) /\ (Taken(d)' <=> Taken(d))
                       /\ (Waits(d)' <=> Waits(d)) /\ (New(d)' <=> New(d))
                       /\ (Tasked(d)' <=> Tasked(d))
  BY <1>1 DEF Online, Taken, Waits, New, Tasked
<1>7. Only(c)
  BY <1>1, <1>3, <1>4, <1>6 DEF Only, Advancing
<1>8. ApartOf(c)'
  <2>1. ApartOf(c)
    BY DEF ConnInv, Apart
  <2>2. master'.saveState = master.saveState
    BY <1>1
  <2> QED
    BY <1>3, <1>6, <2>1, <2>2 DEF ApartOf
<1>9. OffsetOf(c)'
  <2>1. OffsetOf(c) /\ task'[c] = task[c] /\ Buf' = Buf
    BY <1>1 DEF ConnInv, Offsets, Buf
  <2> QED
    BY <1>5, <1>6, <2>1 DEF OffsetOf
<1>10. ASSUME NEW r \in Replicas, replica[r].conn = c
       PROVE  Linked(r, c)'
  <2>1. Linked(r, c) /\ KnownOf(r) /\ (Sent(c) => master.saveState = "finish")
    BY <1>10, ConnTypes DEF ConnInv, Linking, Knowing, Apart, ApartOf, Sent, Tasked
  <2>2. /\ task'[c] = task[c] /\ open'[c] = open[c] /\ down'[c] = down[c]
        /\ replica'[r] = replica[r]
        /\ \A p \in Senders : (Advancing(p, c)' <=> Advancing(p, c)) /\ sender'[p] = sender[p]
    BY <1>1 DEF Advancing
  <2>3. Sent(c)' <=> Sent(c)
    BY <1>6, <2>2 DEF Sent
  <2>4. \A n \in Nat : At(c, n) => At(c, n)'
    BY <1>5, <1>6, <2>2 DEF At
  <2> QED
    BY ONLY IInv, Longer, Settled, r \in Replicas, c \in Conns, <1>3, <2>1, <2>2, <2>3, <2>4, LinkedStays
<1>11. Sending'
  <2>1. \A d \in Conns : Online(d) => Online(d)' /\ slave'[d].offset = slave[d].offset
    BY <1>4, <1>5, <1>6
  <2> QED
    BY <1>1, <2>1, SendingSame
<1> QED
  BY ONLY IInv, IInv', ConnInv, Longer, Settled, c \in Conns, <1>1, <1>7, <1>8, <1>9, <1>10, <1>11, OnlyConn

LEMMA RequestsConn ==
    ASSUME IInv, IInv', LogInv, ConnInv, Longer, Settled, Requests, spoiled' = {}
    PROVE  ConnInv'
<1>1. ASSUME NEW c \in Conns, PSyncPanics(c)
      PROVE  FALSE
  BY <1>1 DEF PSyncPanics, IInv, Waiting
<1> QED
  BY <1>1, PSyncWaitsConn, PSyncAfterConn, ReplConfConn DEF Requests

-------------------------------------------------------------------------------
(* The writer, the cron and the dumps leave the connections alone *)

\* A sender is woken when it has nothing to send.
LEMMA Woken ==
    ASSUME IInv, NEW p \in Senders, sender[p].pc = "idle",
           sender' = [sender EXCEPT ![p].pc = "snapshot"]
    PROVE  \A q \in Senders : sender'[q] = sender[q] \/ (~Busy(q) /\ ~Busy(q)')
<1>1. \A q \in Senders \ {p} : sender'[q] = sender[q]
  BY ConnTypes
<1>2. sender'[p].pc = "snapshot"
  BY ConnTypes DEF SenderType
<1> QED
  BY <1>1, <1>2 DEF Busy

LEMMA WriteConn ==
    ASSUME IInv, LogInv, ConnInv, Longer, Settled, Write
    PROVE  ConnInv'
<1>1. UNCHANGED <<replica, down, task, open, up, slave, master, job>>
  BY DEF Write, WriteLine, CallListeners, Callback, net
<1>2. Apart'
  BY <1>1, ApartSame
<1>3. \A p \in Senders : sender'[p] = sender[p] \/ (~Busy(p) /\ ~Busy(p)')
  <2>1. CASE sender' = sender
    BY <2>1
  <2>2. CASE sender["writer"].pc = "idle" /\ sender' = [sender EXCEPT !["writer"].pc = "snapshot"]
    BY <2>2, Woken DEF Senders
  <2> QED
    BY <2>1, <2>2 DEF Write, WriteLine, CallListeners, Callback
<1> QED
  BY <1>1, <1>2, <1>3, ConnStays

LEMMA CronConn ==
    ASSUME IInv, LogInv, ConnInv, Longer, Settled, Cron
    PROVE  ConnInv'
<1>1. UNCHANGED <<replica, down, task, open, up, slave, master>>
  BY DEF Cron, CronKeepsMutex, CronPings, net
<1>2. \A j \in Savers : job'[j].todo = job[j].todo
  BY ConnTypes, JobAssumption DEF Cron, CronKeepsMutex, CronPings, JobType, Jobs
<1>3. Apart'
  BY <1>1, <1>2, ApartSame
<1>4. \A p \in Senders : sender'[p] = sender[p] \/ (~Busy(p) /\ ~Busy(p)')
  <2>1. CASE sender' = sender
    BY <2>1
  <2>2. CASE sender["cron"].pc = "idle" /\ sender' = [sender EXCEPT !["cron"].pc = "snapshot"]
    BY <2>2, Woken DEF Senders
  <2> QED
    BY <2>1, <2>2 DEF Cron, CronKeepsMutex, CronPings
<1> QED
  BY <1>1, <1>3, <1>4, ConnStays

LEMMA SaveFinishesConn ==
    ASSUME IInv, LogInv, ConnInv, Longer, Settled, NEW j \in Savers, SaveFinishes(j)
    PROVE  ConnInv'
<1>1. UNCHANGED <<replica, down, task, open, up, slave, sender>>
  BY DEF SaveFinishes, net
<1>2. /\ master'.online = master.online /\ master'.waitSlaves = Nil
      /\ master'.saveState = "finish"
  BY ConnTypes DEF SaveFinishes, MasterType
<1>3. \A i \in Savers \ {j} : job'[i] = job[i]
  BY ConnTypes DEF SaveFinishes, Jobs
<1>4. job'[j].todo = IF master.waitSlaves = Nil THEN {} ELSE master.waitSlaves
  BY ConnTypes DEF SaveFinishes, JobType, Jobs
<1>5. ASSUME NEW c \in Conns
      PROVE  ApartOf(c)'
  <2>1. ApartOf(c)
    BY DEF ConnInv, Apart
  <2>2. ~Waits(c)'
    BY <1>2 DEF Waits
  <2>3. Taken(c)' => Taken(c) \/ Waits(c)
    BY <1>3, <1>4 DEF Taken, Waits
  <2>4. /\ (New(c)' <=> New(c)) /\ (Online(c)' <=> Online(c)) /\ (Tasked(c)' <=> Tasked(c))
        /\ (Asks(c)' <=> Asks(c)) /\ up'[c] = up[c] /\ down'[c] = down[c]
    BY <1>1, <1>2 DEF New, Online, Tasked, Asks
  <2> QED
    BY <1>2, <2>1, <2>2, <2>3, <2>4 DEF ApartOf
<1>6. Apart'
  BY <1>5 DEF Apart
<1> QED
  BY <1>1, <1>2, <1>6, ConnStays

LEMMA NextWaitingConn ==
    ASSUME IInv, IInv', LogInv, ConnInv, Longer, Settled, NEW j \in Savers, NEW c \in Conns,
           NextWaiting(j, c)
    PROVE  ConnInv'
<1>1. UNCHANGED <<backlog, replica, down, open, up, slave, sender, master>>
  BY DEF NextWaiting, net
<1>2. /\ c \in job[j].todo /\ Taken(c) /\ job[j].pc = "sync"
  BY DEF NextWaiting, Taken
<1>3. \A i \in Savers \ {j} : job[i].todo = {} /\ job'[i] = job[i]
  <2>1. master.rdbFile = j /\ j # Nil
    BY <1>2, JobAssumption DEF LogInv, OneDump, DumpOf, Started, Jobs
  <2>2. \A i \in Savers \ {j} : job[i].pc = "idle"
    BY <2>1 DEF LogInv, OneDump, DumpOf
  <2>3. \A i \in Savers \ {j} : job'[i] = job[i]
    BY ConnTypes DEF NextWaiting, Jobs
  <2> QED
    BY <2>2, <2>3 DEF IInv, Waiting
<1>4. job'[j].todo = job[j].todo \ {c}
  BY ConnTypes DEF NextWaiting, JobType, Jobs
<1>5. master.saveState = "finish"
  <2>1. DumpOf(j) /\ Started(j)
    BY <1>2 DEF LogInv, OneDump, Started
  <2> QED
    BY <1>2, <2>1 DEF DumpOf
<1>6. ~New(c) /\ ~Asks(c) /\ ~Waits(c) /\ ~Tasked(c) /\ ~Online(c)
  <2>1. ApartOf(c)
    BY DEF ConnInv, Apart
  <2> QED
    BY <1>2, <2>1 DEF ApartOf
<1>7. /\ \A d \in Conns \ {c} : task'[d] = task[d]
      /\ task'[c].pc = "full"
  BY ConnTypes DEF NextWaiting, TaskType
<1>8. ~Taken(c)' /\ \A d \in Conns : Taken(d)' => Taken(d)
  BY <1>3, <1>4 DEF Taken
<1>9. \A d \in Conns : (Online(d)' <=> Online(d)) /\ (Waits(d)' <=> Waits(d))
  BY <1>1 DEF Online, Waits
<1>10. Only(c)
  BY <1>1, <1>7, <1>8, <1>9 DEF Only, Advancing
<1>11. ApartOf(c)'
  <2>1. \A i \in 2 .. Len(up'[c]) : up'[c][i].type = "ack"
    BY <1>1 DEF ConnInv, Apart, ApartOf
  <2>2. ~New(c)' /\ ~Asks(c)' /\ ~Waits(c)' /\ ~Online(c)' /\ master'.saveState = "finish"
    BY <1>1, <1>5, <1>6, <1>9 DEF New, Asks
  <2> QED
    BY <1>8, <2>1, <2>2 DEF ApartOf
<1>12. OffsetOf(c)'
  BY <1>6, <1>7, <1>9 DEF OffsetOf
<1>13. ASSUME NEW r \in Replicas, replica[r].conn = c
       PROVE  Linked(r, c)'
  <2>1. Linked(r, c) /\ ~Sent(c)
    BY <1>6, <1>13, ConnTypes DEF ConnInv, Linking, Sent, Tasked
  <2>2. ~Sent(c)' /\ ~Asks(c)'
    BY <1>1, <1>6, <1>7, <1>9 DEF Sent, Asks
  <2> QED
    BY <1>1, <1>7, <2>1, <2>2 DEF Linked
<1>14. Sending'
  BY <1>1, <1>9, SendingSame
<1> QED
  BY ONLY IInv, IInv', ConnInv, Longer, Settled, c \in Conns, <1>1, <1>10, <1>11, <1>12, <1>13, <1>14, OnlyConn

LEMMA DumpConn ==
    ASSUME IInv, IInv', LogInv, ConnInv, Longer, Settled, Dump, spoiled' = {}
    PROVE  ConnInv'
<1>1. ~SwapBacklog /\ ~RemoveListener
  BY DEF SwapBacklog, RemoveListener, LogInv, OneDump
<1>2. CASE \/ \E j \in Savers : SaveBegins(j)
           \/ \E j \in Jobs : TakeSize(j) \/ Register(j) \/ RewriteRDB(j) \/ RewriteFails(j)
           \/ Hook
  <2>1. UNCHANGED <<replica, down, task, open, up, slave, sender>>
    BY <1>2 DEF SaveBegins, TakeSize, Register, RewriteRDB, RewriteFails, Hook, net
  <2>2. master'.online = master.online /\ master'.waitSlaves = master.waitSlaves
    BY <1>2, ConnTypes
    DEF SaveBegins, TakeSize, Register, RewriteRDB, RewriteFails, Hook, MasterType
  <2>3. \A i \in Jobs : job'[i].todo = job[i].todo
    <3>1. ASSUME NEW j \in Savers, SaveBegins(j), NEW i \in Jobs
          PROVE  job'[i].todo = job[i].todo
      BY <3>1, ConnTypes DEF SaveBegins, JobType
    <3>2. ASSUME NEW j \in Jobs, NEW i \in Jobs,
                 TakeSize(j) \/ Register(j) \/ RewriteRDB(j) \/ RewriteFails(j)
          PROVE  job'[i].todo = job[i].todo
      <4>1. \/ \E x : job' = [job EXCEPT ![j].pc = x]
            \/ job' = [job EXCEPT ![j].pc = "register", ![j].size = file]
        BY <3>2 DEF TakeSize, Register, RewriteRDB, RewriteFails
      <4>2. job \in [Jobs -> JobType]
        BY ConnTypes
      <4>3. ASSUME NEW x, job' = [job EXCEPT ![j].pc = x]
            PROVE  job'[i].todo = job[i].todo
        BY <4>2, <4>3 DEF JobType
      <4>4. CASE job' = [job EXCEPT ![j].pc = "register", ![j].size = file]
        BY <4>2, <4>4 DEF JobType
      <4> QED
        BY <4>1, <4>3, <4>4
    <3>3. ASSUME Hook, NEW i \in Jobs
          PROVE  job'[i].todo = job[i].todo
      BY <3>3, ConnTypes DEF Hook, JobType
    <3> QED
      BY <1>2, <3>1, <3>2, <3>3
  <2>4. Apart'
    BY <2>1, <2>2, <2>3, ApartSame DEF Jobs
  <2> QED
    BY <2>1, <2>2, <2>4, ConnStays
<1> QED
  BY <1>1, <1>2, SaveFinishesConn, NextWaitingConn DEF Dump

-------------------------------------------------------------------------------
(* The senders *)

LEMMA SendFacts ==
    ASSUME IInv, ConnInv, NEW p \in Senders, Busy(p), NEW c \in sender[p].todo
    PROVE  /\ c \in Conns /\ Online(c)
           /\ ~New(c) /\ ~Asks(c) /\ ~Waits(c) /\ ~Taken(c) /\ ~Tasked(c)
           /\ master.saveState = "finish"
           /\ sender[p].begin = 0 /\ sender[p].current \in 0 .. Len(Buf)
           /\ sender[p].buf = SubSeq(Buf, 1, sender[p].current)
           /\ slave[c].offset \in 0 .. sender[p].current
           /\ \A q \in Senders \ {p} : ~Busy(q) /\ ~Advancing(q, c)
<1>1. c \in Conns
  BY ConnTypes
<1>2. SendingOf(p) /\ ApartOf(c) /\ OffsetOf(c)
  BY <1>1 DEF ConnInv, Sending, Apart, Offsets
<1>3. Online(c) /\ slave[c].offset <= sender[p].current
  BY <1>2 DEF SendingOf
<1>4. ~New(c) /\ ~Asks(c) /\ ~Waits(c) /\ ~Taken(c) /\ ~Tasked(c) /\ master.saveState = "finish"
  BY <1>2, <1>3 DEF ApartOf
<1>5. /\ sender[p].begin = 0 /\ sender[p].current \in 0 .. Len(Buf)
      /\ sender[p].buf = SubSeq(Buf, 1, sender[p].current)
      /\ \A q \in Senders \ {p} : ~Busy(q)
  BY <1>2 DEF SendingOf
<1>6. slave[c].offset \in 0 .. sender[p].current
  <2>1. slave[c].offset \in 0 .. Len(Buf)
    BY <1>2, <1>3 DEF OffsetOf
  <2> QED
    BY <1>3, <1>5, <2>1
<1> QED
  BY <1>1, <1>3, <1>4, <1>5, <1>6 DEF Advancing, Busy

LEMMA SnapshotConn ==
    ASSUME IInv, IInv', LogInv, ConnInv, Longer, Settled, NEW p \in Senders, Snapshot(p),
           spoiled' = {}
    PROVE  ConnInv'
<1>1. UNCHANGED <<backlog, replica, down, task, open, up, slave, master, job>>
  BY DEF Snapshot, net
<1>2. Apart'
  BY <1>1, ApartSame
<1>3. \A q \in Senders \ {p} : sender'[q] = sender[q] /\ sender[q].pc = "idle"
  BY ConnTypes DEF Snapshot, Spoil
<1>4. /\ sender[p].pc = "snapshot"
      /\ \/ sender'[p].pc = "idle"
         \/ /\ sender'[p].pc = "send" /\ sender'[p].begin = 0 /\ sender'[p].buf = Buf
            /\ sender'[p].current = Len(Buf) /\ sender'[p].todo = master.online
  BY ConnTypes, LogIs DEF Snapshot, Idle
<1>5. Sending'
  <2>1. \A q \in Senders \ {p} : ~Busy(q)'
    BY <1>3 DEF Busy
  <2>2. ASSUME Busy(p)'
        PROVE  SendingOf(p)'
    <3>1. /\ sender'[p].pc = "send" /\ sender'[p].begin = 0 /\ sender'[p].buf = Buf
          /\ sender'[p].current = Len(Buf) /\ sender'[p].todo = master.online
      BY <1>4, <2>2 DEF Busy
    <3>2. Buf' = Buf /\ Buf \in Seq(Nat) /\ Len(Buf) \in 0 .. Len(Buf)
      BY <1>1, ConnTypes DEF Buf
    <3>3. SubSeq(Buf, 1, Len(Buf)) = Buf
      BY <3>2, SeqEqual
    <3>4. \A c \in master.online : c \in Conns /\ Online(c)' /\ slave'[c].offset <= Len(Buf)
      <4>1. \A c \in master.online : c \in Conns /\ slave[c].offset \in 0 .. Len(Buf)
        BY ConnTypes DEF ConnInv, Offsets, OffsetOf, Online
      <4> QED
        BY <1>1, <4>1, <3>2 DEF Online
    <3> QED
      BY <2>1, <3>1, <3>2, <3>3, <3>4 DEF SendingOf
  <2> QED
    BY <2>1, <2>2 DEF Sending, SendingOf
<1>6. \A q \in Senders, c \in Conns :
          /\ Advancing(q, c)' <=> Advancing(q, c)
          /\ Advancing(q, c) => sender'[q].current = sender[q].current
  BY <1>3, <1>4 DEF Advancing
<1> QED
  BY <1>1, <1>2, <1>5, <1>6, ConnSame

LEMMA SendToConn ==
    ASSUME IInv, IInv', LogInv, ConnInv, Longer, Settled, NEW p \in Senders, NEW c \in Conns,
           SendTo(p, c)
    PROVE  ConnInv'
<1>1. UNCHANGED <<backlog, replica, task, open, up, slave, master, job, rdb>> /\ Buf' = Buf
  BY DEF SendTo, Buf
<1>2. Busy(p) /\ sender[p].pc = "send" /\ c \in sender[p].todo
  BY DEF SendTo, Busy
<1>3. PICK m : m = sender[p].current
  OBVIOUS
<1>4. PICK o : o = slave[c].offset
  OBVIOUS
<1>5. /\ Online(c) /\ ~New(c) /\ ~Tasked(c) /\ ~Asks(c)
      /\ sender[p].begin = 0 /\ m \in 0 .. Len(Buf)
      /\ sender[p].buf = SubSeq(Buf, 1, m) /\ o \in 0 .. m
      /\ \A q \in Senders \ {p} : ~Busy(q) /\ ~Advancing(q, c)
  BY <1>2, <1>3, <1>4, SendFacts
<1>6. /\ \A q \in Senders \ {p} : sender'[q] = sender[q]
      /\ sender'[p].pc = "advance" /\ sender'[p].conn = c /\ sender'[p].begin = sender[p].begin
      /\ sender'[p].buf = sender[p].buf /\ sender'[p].current = m
      /\ sender'[p].todo = sender[p].todo
  BY <1>3, ConnTypes DEF SendTo, SenderType
<1>7. /\ \A d \in Conns \ {c} : down'[d] = down[d]
      /\ down'[c] = down[c] \o Lines(After(SubSeq(Buf, 1, m), o - 0))
  BY <1>5, <1>4 DEF SendTo, IInv, LinkOK
<1>8. down'[c] = down[c] \o Cut(Buf, o, m)
  <2> DEFINE s == SubSeq(Buf, 1, m)
  <2>1. Buf \in Seq(Nat) /\ o - 0 = o /\ m <= Len(Buf)
    BY <1>5, ConnTypes
  <2>2. s \in Seq(Nat) /\ Len(s) = m /\ \A i \in 1 .. m : s[i] = Buf[i]
    BY <1>5, <2>1
  <2> HIDE DEF s
  <2>3. Lines(After(s, o)) = Cut(s, o, m)
    BY <1>5, <2>2, CutLines
  <2>4. Cut(s, o, m) = Cut(Buf, o, m)
    BY <1>5, <2>2, CutLonger
  <2> QED
    BY <1>7, <2>1, <2>3, <2>4 DEF s
<1>9. \A d \in Conns : /\ (Online(d)' <=> Online(d)) /\ (Waits(d)' <=> Waits(d))
                       /\ (Taken(d)' <=> Taken(d))
  BY <1>1 DEF Online, Waits, Taken
<1>10. Only(c)
  BY <1>1, <1>2, <1>6, <1>7, <1>9 DEF Only, Advancing
<1>11. ApartOf(c)'
  <2>1. ApartOf(c) /\ up'[c] = up[c] /\ ~New(c)' /\ (Asks(c)' <=> Asks(c)) /\ (Tasked(c)' <=> Tasked(c))
    BY <1>1, <1>5 DEF ConnInv, Apart, New, Asks, Tasked
  <2> QED
    BY <1>1, <1>9, <2>1 DEF ApartOf
<1>12. OffsetOf(c)'
  BY <1>1, <1>9 DEF ConnInv, Offsets, OffsetOf
<1>13. ASSUME NEW r \in Replicas, replica[r].conn = c
       PROVE  Linked(r, c)'
  <2>1. Linked(r, c) /\ KnownOf(r) /\ Sent(c)
    BY <1>5, <1>13, ConnTypes DEF ConnInv, Linking, Knowing, Sent
  <2>2. PICK n \in 0 .. Len(Buf) : At(c, n) /\ Underway(r, c, n)
    BY <2>1 DEF Linked
  <2>3. n = o
    BY <1>2, <1>5, <1>4, <2>2 DEF At, Advancing, Tasked
  <2>4. Underway(r, c, m)'
    BY <1>1, <1>5, <1>8, <2>1, <2>2, <2>3, UnderwayGrows
  <2>5. At(c, m)'
    BY <1>6 DEF At, Advancing
  <2>6. \E k \in 0 .. Len(Buf)' : At(c, k)' /\ Underway(r, c, k)'
    BY <1>1, <1>5, <2>4, <2>5
  <2> QED
    BY <1>1, <1>5, <1>9, <2>1, <2>6 DEF Linked, Sent, Asks, Tasked
<1>14. Sending'
  <2>1. \A q \in Senders \ {p} : ~Busy(q)'
    BY <1>5, <1>6 DEF Busy
  <2>2. \A d \in sender[p].todo : Online(d)' /\ slave'[d].offset <= m
    BY <1>1, <1>2, <1>9, <1>3, SendFacts
  <2>3. SendingOf(p)'
    BY <1>1, <1>2, <1>5, <1>6, <2>1, <2>2 DEF SendingOf
  <2> QED
    BY <2>1, <2>3 DEF Sending, SendingOf
<1> QED
  BY ONLY IInv, IInv', ConnInv, Longer, Settled, c \in Conns, <1>1, <1>10, <1>11, <1>12, <1>13, <1>14, OnlyConn

\* What is left when c has been served.
LEMMA ServedLeft ==
    ASSUME IInv, NEW p \in Senders, NEW c \in sender[p].todo,
           sender' = [sender EXCEPT ![p] = Served(p, c)]
    PROVE  /\ \A q \in Senders \ {p} : sender'[q] = sender[q]
           /\ sender'[p].pc # "advance"
           /\ Busy(p)' => /\ sender'[p].begin = sender[p].begin /\ sender'[p].buf = sender[p].buf
                          /\ sender'[p].current = sender[p].current
                          /\ sender'[p].todo = sender[p].todo \ {c}
<1>1. sender \in [Senders -> SenderType] /\ sender[p] \in SenderType
  BY ConnTypes
<1>2. sender'[p] = Served(p, c) /\ \A q \in Senders \ {p} : sender'[q] = sender[q]
  BY <1>1
<1>3. CASE sender[p].todo = {c}
  BY <1>2, <1>3 DEF Served, Idle, Busy
<1>4. CASE sender[p].todo # {c}
  BY <1>1, <1>2, <1>4 DEF Served, SenderType
<1> QED
  BY <1>2, <1>3, <1>4

LEMMA ServedSending ==
    ASSUME IInv, ConnInv, NEW p \in Senders, Busy(p), NEW c \in sender[p].todo,
           sender' = [sender EXCEPT ![p] = Served(p, c)], UNCHANGED backlog,
           \A d \in Conns \ {c} : Online(d) => Online(d)' /\ slave'[d].offset = slave[d].offset
    PROVE  Sending'
<1>1. \A q \in Senders \ {p} : ~Busy(q)'
  BY SendFacts, ServedLeft DEF Busy
<1>2. SendingOf(p) /\ sender[p].todo \subseteq Conns /\ Buf' = Buf
  BY ConnTypes DEF ConnInv, Sending, Buf
<1>3. ASSUME Busy(p)'
      PROVE  SendingOf(p)'
  <2>1. /\ sender'[p].begin = sender[p].begin /\ sender'[p].buf = sender[p].buf
        /\ sender'[p].current = sender[p].current /\ sender'[p].todo = sender[p].todo \ {c}
        /\ sender'[p].pc # "advance"
    BY <1>3, ServedLeft
  <2>2. \A d \in sender'[p].todo : Online(d)' /\ slave'[d].offset <= sender'[p].current
    BY <1>2, <2>1 DEF SendingOf
  <2> QED
    BY <1>1, <1>2, <2>1, <2>2 DEF SendingOf
<1> QED
  BY <1>1, <1>3 DEF Sending, SendingOf

LEMMA AdvanceConn ==
    ASSUME IInv, IInv', LogInv, ConnInv, Longer, Settled, NEW p \in Senders, Advance(p)
    PROVE  ConnInv'
<1>1. UNCHANGED <<backlog, replica, task, open, up, down, master, job, rdb>> /\ Buf' = Buf
  BY DEF Advance, Buf, net
<1>2. Busy(p) /\ sender[p].pc = "advance"
  BY DEF Advance, Busy
<1>3. PICK c \in sender[p].todo : sender[p].conn = c
  BY <1>2 DEF ConnInv, Sending, SendingOf
<1>4. /\ c \in Conns /\ Online(c) /\ ~New(c) /\ ~Tasked(c) /\ ~Asks(c) /\ ~Waits(c) /\ ~Taken(c)
      /\ sender[p].current \in 0 .. Len(Buf) /\ master.saveState = "finish"
      /\ \A q \in Senders \ {p} : ~Busy(q) /\ ~Advancing(q, c)
  BY <1>2, SendFacts
<1>5. sender' = [sender EXCEPT ![p] = Served(p, c)]
  BY <1>3 DEF Advance
<1>6. /\ \A q \in Senders \ {p} : sender'[q] = sender[q]
      /\ sender'[p].pc # "advance"
  BY <1>5, ServedLeft
<1>7. /\ \A d \in Conns \ {c} : slave'[d] = slave[d]
      /\ slave'[c].offset = sender[p].current
  BY <1>3, <1>4, ConnTypes DEF Advance, SlaveType
<1>8. \A d \in Conns : /\ (Online(d)' <=> Online(d)) /\ (Waits(d)' <=> Waits(d))
                       /\ (Taken(d)' <=> Taken(d)) /\ (New(d)' <=> New(d))
                       /\ (Asks(d)' <=> Asks(d)) /\ (Tasked(d)' <=> Tasked(d))
  BY <1>1 DEF Online, Waits, Taken, New, Asks, Tasked
<1>9. Only(c)
  <2>1. \A d \in Conns \ {c}, q \in Senders : ~Advancing(q, d) /\ ~Advancing(q, d)'
    BY <1>3, <1>4, <1>6 DEF Advancing, Busy
  <2> QED
    BY <1>1, <1>7, <1>8, <2>1 DEF Only
<1>10. ApartOf(c)'
  <2>1. \A i \in 2 .. Len(up'[c]) : up'[c][i].type = "ack"
    BY <1>1, <1>4 DEF ConnInv, Apart, ApartOf
  <2>2. master'.saveState = "finish"
    BY <1>1, <1>4
  <2> QED
    BY <1>4, <1>8, <2>1, <2>2 DEF ApartOf
<1>11. OffsetOf(c)'
  BY <1>1, <1>4, <1>7, <1>8 DEF OffsetOf, Tasked
<1>12. ASSUME NEW r \in Replicas, replica[r].conn = c
       PROVE  Linked(r, c)'
  <2>1. Linked(r, c) /\ Sent(c)
    BY <1>4, <1>12, ConnTypes DEF ConnInv, Linking, Sent
  <2>2. PICK n \in 0 .. Len(Buf) : At(c, n) /\ Underway(r, c, n)
    BY <2>1 DEF Linked
  <2>3. n = sender[p].current
    BY <1>2, <1>3, <1>4, <2>2 DEF At, Advancing, Tasked
  <2>4. Underway(r, c, n)'
    BY <1>1, <2>2 DEF Underway
  <2>5. At(c, n)'
    BY <1>4, <1>6, <1>7, <1>8, <2>3 DEF At, Advancing, Busy
  <2>6. \E k \in 0 .. Len(Buf)' : At(c, k)' /\ Underway(r, c, k)'
    BY <1>1, <2>4, <2>5
  <2> QED
    BY <1>1, <1>4, <1>8, <2>1, <2>6 DEF Linked, Sent, Tasked
<1>13. Sending'
  BY <1>1, <1>2, <1>5, <1>7, <1>8, ServedSending
<1> QED
  BY ONLY IInv, IInv', ConnInv, Longer, Settled, <1>1, <1>4, <1>9, <1>10, <1>11, <1>12, <1>13, OnlyConn

LEMMA SendFailsConn ==
    ASSUME IInv, IInv', LogInv, ConnInv, Longer, Settled, NEW p \in Senders, NEW c \in Conns,
           SendFails(p, c)
    PROVE  ConnInv'
<1>1. UNCHANGED <<backlog, replica, task, open, up, down, job, rdb, slave>>
  BY DEF SendFails, net
<1>2. Busy(p) /\ sender[p].pc = "send" /\ c \in sender[p].todo /\ open[c] = "closed"
  BY DEF SendFails, Busy
<1>3. /\ ~New(c) /\ ~Tasked(c) /\ ~Asks(c) /\ ~Taken(c) /\ ~Waits(c)
      /\ \A q \in Senders \ {p} : ~Busy(q)
  BY <1>2, SendFacts
<1>4. sender' = [sender EXCEPT ![p] = Served(p, c)]
  BY DEF SendFails
<1>5. /\ \A q \in Senders \ {p} : sender'[q] = sender[q]
      /\ sender'[p].pc # "advance"
  BY <1>2, <1>4, ServedLeft
<1>6. /\ master'.online = master.online \ {c}
      /\ \/ master'.waitSlaves = master.waitSlaves
         \/ master.waitSlaves # Nil /\ master'.waitSlaves = master.waitSlaves \ {c}
  BY ConnTypes DEF SendFails, Forget, MasterType
<1>7. /\ \A d \in Conns \ {c} : Online(d)' <=> Online(d)
      /\ \A d \in Conns : /\ (Waits(d)' => Waits(d)) /\ (Taken(d)' <=> Taken(d))
                          /\ (New(d)' <=> New(d)) /\ (Asks(d)' <=> Asks(d))
                          /\ (Tasked(d)' <=> Tasked(d))
      /\ ~Online(c)'
  BY <1>1, <1>6 DEF Online, Waits, Taken, New, Asks, Tasked
<1>8. Only(c)
  <2>1. \A d \in Conns, q \in Senders : ~Advancing(q, d) /\ ~Advancing(q, d)'
    BY <1>2, <1>3, <1>5 DEF Advancing, Busy
  <2> QED
    BY <1>1, <1>7, <2>1 DEF Only
<1>9. ApartOf(c)'
  <2>1. ApartOf(c) /\ up'[c] = up[c] /\ down'[c] = down[c]
    BY <1>1 DEF ConnInv, Apart
  <2> QED
    BY <1>3, <1>7, <2>1 DEF ApartOf
<1>10. OffsetOf(c)'
  BY <1>3, <1>7 DEF OffsetOf, Tasked
<1>11. \A r \in Replicas : replica[r].conn = c => Linked(r, c)'
  BY <1>2, ConnTypes DEF ConnInv, Linking, Linked
<1>12. Sending'
  BY <1>1, <1>2, <1>4, <1>7, ServedSending
<1> QED
  BY ONLY IInv, IInv', ConnInv, Longer, Settled, c \in Conns, <1>1, <1>8, <1>9, <1>10, <1>11, <1>12, OnlyConn

\* The offset of a slave is in the snapshot.
LEMMA NoPanic ==
    ASSUME IInv, ConnInv, NEW p \in Senders, NEW c \in Conns
    PROVE  ~SendPanics(p, c)
<1> SUFFICES ASSUME SendPanics(p, c)
             PROVE  FALSE
  OBVIOUS
<1>1. /\ Busy(p) /\ c \in sender[p].todo
      /\ slave[c].offset - sender[p].begin \notin 0 .. Len(sender[p].buf)
  BY DEF SendPanics, Busy
<1>2. /\ sender[p].begin = 0 /\ sender[p].current \in 0 .. Len(Buf)
      /\ sender[p].buf = SubSeq(Buf, 1, sender[p].current)
      /\ slave[c].offset \in 0 .. sender[p].current
  BY <1>1, SendFacts
<1>3. Len(sender[p].buf) = sender[p].current
  BY <1>2, ConnTypes
<1> QED
  BY <1>1, <1>2, <1>3

LEMMA SendConn ==
    ASSUME IInv, IInv', LogInv, ConnInv, Longer, Settled, Send, spoiled' = {}
    PROVE  ConnInv'
BY SnapshotConn, SendToConn, AdvanceConn, SendFailsConn, NoPanic DEF Send

-------------------------------------------------------------------------------
(* The replicas *)

LEMMA OnlyReplica ==
    ASSUME IInv, IInv', ConnInv, Longer, Settled, NEW c \in Conns, NEW r \in Replicas, Only(c),
           UNCHANGED <<sender, slave, master, task>>,
           \A q \in Replicas \ {r} : replica'[q] = replica[q] /\ replica[q].conn # c,
           KnownOf(r)', replica'[r].conn \in {Nil, c},
           replica'[r].conn = c => Linked(r, c)', ApartOf(c)'
    PROVE  ConnInv'
<1>1. \A d \in Conns : Online(d)' <=> Online(d)
  BY DEF Online
<1>2. Sending'
  BY <1>1, SendingSame
<1>3. OffsetOf(c)'
  BY <1>1, OffsetStays DEF ConnInv, Offsets
<1>4. Apart' /\ Offsets'
  BY <1>3, OnlyApart, OnlyOffsets
<1>5. Linking' /\ Knowing'
  <2>1. \A q \in Replicas : \/ replica'[q] = replica[q]
                            \/ KnownOf(q)' /\ replica'[q].conn \in {Nil, c}
    OBVIOUS
  <2>2. \A q \in Replicas : replica'[q].conn = c => Linked(q, c)'
    OBVIOUS
  <2> QED
    BY <2>1, <2>2, OnlyLinked
<1>6. Alone'
  BY ConnTypes DEF ConnInv, Alone
<1> QED
  BY <1>2, <1>4, <1>5, <1>6 DEF ConnInv

LEMMA ConnectConn ==
    ASSUME IInv, IInv', LogInv, ConnInv, Longer, Settled, NEW r \in Replicas, NEW c \in Conns,
           Connect(r, c)
    PROVE  ConnInv'
<1>1. UNCHANGED <<backlog, task, down, master, job, rdb, slave, sender>> /\ Buf' = Buf
  BY DEF Connect, Buf
<1>2. /\ open[c] = "new" /\ New(c) /\ replica[r].pc \in {"off", "lost"}
  BY DEF Connect, New
<1>3. KnownOf(r) /\ replica[r].conn = Nil
  BY <1>2 DEF ConnInv, Knowing, KnownOf
<1>4. /\ down[c] = <<>> /\ ~Waits(c) /\ ~Taken(c) /\ ~Tasked(c) /\ ~Online(c)
  BY <1>2 DEF ConnInv, Apart, ApartOf
<1>5. /\ \A d \in Conns \ {c} : open'[d] = open[d] /\ up'[d] = up[d]
      /\ open'[c] = "open" /\ up'[c] = <<Message("psync", Wish(r))>>
  BY DEF Connect, Wish, IInv, LinkOK
<1>6. /\ \A q \in Replicas \ {r} : replica'[q] = replica[q]
      /\ replica'[r].pc = "handshake" /\ replica'[r].conn = c
      /\ replica'[r].known = replica[r].known /\ replica'[r].offset = replica[r].offset
      /\ replica'[r].data = replica[r].data
  BY DEF Connect, IInv, LinkOK, ReplicaType
<1>7. \A d \in Conns : /\ (Online(d)' <=> Online(d)) /\ (Waits(d)' <=> Waits(d))
                       /\ (Taken(d)' <=> Taken(d)) /\ (Tasked(d)' <=> Tasked(d))
  BY <1>1 DEF Online, Waits, Taken, Tasked
<1>8. Only(c)
  BY <1>1, <1>5, <1>7 DEF Only, Advancing
<1>9. \A q \in Replicas \ {r} : replica[q].conn # c
  BY <1>2, ConnTypes DEF ConnInv, Linking, Linked
<1>10. KnownOf(r)'
  BY <1>1, <1>3, <1>6 DEF KnownOf
<1>11. Linked(r, c)'
  <2>1. Head(up'[c]).n = Wish(r)'
    BY <1>5, <1>6 DEF Wish, Message
  <2>2. ~Sent(c)' /\ task'[c].pc # "partial" /\ down'[c] = <<>>
    BY <1>1, <1>4, <1>7 DEF Sent, Tasked
  <2> QED
    BY <1>5, <1>6, <2>1, <2>2 DEF Linked
<1>12. ApartOf(c)'
  <2>1. ~New(c)' /\ Len(up'[c]) = 1
    BY <1>5 DEF New
  <2> QED
    BY <1>4, <1>7, <2>1 DEF ApartOf
<1> QED
  BY ONLY IInv, IInv', ConnInv, Longer, Settled, c \in Conns, r \in Replicas,
          <1>1, <1>6, <1>8, <1>9, <1>10, <1>11, <1>12, OnlyReplica

\* What the other replicas and the master see when a replica reads or writes.
LEMMA ReplicaOnly ==
    ASSUME IInv, ConnInv, NEW r \in Replicas, NEW c \in Conns, replica[r].conn = c,
           ReceiveHeader(r) \/ ReceiveLine(r) \/ Ack(r) \/ Disconnect(r)
    PROVE  /\ UNCHANGED <<backlog, task, master, job, rdb, slave, sender>> /\ Buf' = Buf
           /\ Only(c)
           /\ \A q \in Replicas \ {r} : replica'[q] = replica[q] /\ replica[q].conn # c
           /\ Linked(r, c) /\ KnownOf(r) /\ ApartOf(c) /\ ~New(c)
           /\ \A d \in Conns : /\ (Online(d)' <=> Online(d)) /\ (Waits(d)' <=> Waits(d))
                               /\ (Taken(d)' <=> Taken(d)) /\ (Tasked(d)' <=> Tasked(d))
                               /\ (Sent(d)' <=> Sent(d))
           /\ \A n : At(c, n)' <=> At(c, n)
<1>1. UNCHANGED <<backlog, task, master, job, rdb, slave, sender>>
  BY DEF ReceiveHeader, ReceiveLine, Ack, Disconnect, net
<1>2. /\ open \in [Conns -> {"new", "open", "closed"}] /\ up \in [Conns -> Seq(UpMessage)]
      /\ down \in [Conns -> Seq(DownMessage)] /\ replica \in [Replicas -> ReplicaType]
  BY DEF IInv, LinkOK
<1>3. \A d \in Conns \ {c} : open'[d] = open[d] /\ up'[d] = up[d] /\ down'[d] = down[d]
  BY <1>2 DEF ReceiveHeader, ReceiveLine, Ack, Disconnect, Receive
<1>4. \A q \in Replicas \ {r} : replica'[q] = replica[q]
  BY <1>2 DEF ReceiveHeader, ReceiveLine, Ack, Disconnect, Off
<1>5. \A q \in Replicas \ {r} : replica[q].conn # c
  BY ConnTypes DEF ConnInv, Alone
<1>6. Linked(r, c) /\ KnownOf(r) /\ ApartOf(c)
  BY ConnTypes DEF ConnInv, Linking, Knowing, Apart
<1>7. ~New(c)
  BY <1>6 DEF Linked, New
<1>8. \A d \in Conns : /\ (Online(d)' <=> Online(d)) /\ (Waits(d)' <=> Waits(d))
                       /\ (Taken(d)' <=> Taken(d)) /\ (Tasked(d)' <=> Tasked(d))
                       /\ (Sent(d)' <=> Sent(d))
  BY <1>1 DEF Online, Waits, Taken, Tasked, Sent
<1>9. \A p \in Senders, d \in Conns : Advancing(p, d)' <=> Advancing(p, d)
  BY <1>1 DEF Advancing
<1>10. Only(c)
  BY <1>1, <1>3, <1>8, <1>9 DEF Only
<1>11. \A n : At(c, n)' <=> At(c, n)
  BY <1>1, <1>8, <1>9 DEF At
<1> QED
  BY <1>1, <1>4, <1>5, <1>6, <1>7, <1>8, <1>10, <1>11 DEF Buf

\* What was sent to a replica, when it has something to read.
LEMMA ReadsSent ==
    ASSUME IInv, ConnInv, NEW r \in Replicas, NEW c \in Conns, replica[r].conn = c, down[c] # <<>>
    PROVE  /\ Sent(c) /\ ~Asks(c) /\ task[c].pc # "partial" /\ master.saveState = "finish"
           /\ \E n \in 0 .. Len(Buf) : At(c, n) /\ Underway(r, c, n)
<1>1. Linked(r, c) /\ ApartOf(c)
  BY ConnTypes DEF ConnInv, Linking, Apart
<1>2. Sent(c) /\ \E n \in 0 .. Len(Buf) : At(c, n) /\ Underway(r, c, n)
  BY <1>1 DEF Linked
<1>3. ~Asks(c) /\ task[c].pc # "partial" /\ master.saveState = "finish"
  BY <1>1, <1>2 DEF ApartOf, Sent, Tasked
<1> QED
  BY <1>2, <1>3

\* The connection after a replica has read from it.
LEMMA ReadConn ==
    ASSUME IInv, IInv', LogInv, ConnInv, Longer, Settled, NEW r \in Replicas, NEW c \in Conns,
           replica[r].conn = c, ReceiveHeader(r) \/ ReceiveLine(r),
           UNCHANGED <<open, up>>, replica'[r].pc = "stream", replica'[r].conn = c, KnownOf(r)',
           down[c] # <<>>,
           NEW n \in 0 .. Len(Buf), At(c, n), Underway(r, c, n)'
    PROVE  ConnInv'
<1>1. /\ UNCHANGED <<sender, slave, master, task>> /\ Only(c) /\ Buf' = Buf
      /\ \A q \in Replicas \ {r} : replica'[q] = replica[q] /\ replica[q].conn # c
      /\ Linked(r, c) /\ ApartOf(c) /\ ~New(c)
      /\ (Online(c)' <=> Online(c)) /\ (Waits(c)' <=> Waits(c))
      /\ (Taken(c)' <=> Taken(c)) /\ (Tasked(c)' <=> Tasked(c))
      /\ (Sent(c)' <=> Sent(c))
  BY ReplicaOnly
<1>2. At(c, n)'
  BY ReplicaOnly
<1>3. Sent(c) /\ ~Asks(c) /\ task[c].pc # "partial"
  BY ReadsSent
<1>4. Linked(r, c)'
  <2>1. open'[c] = "open" /\ ~Asks(c)' /\ Sent(c)' /\ task'[c].pc # "partial"
    BY <1>1, <1>3 DEF Linked, Asks
  <2>2. \E k \in 0 .. Len(Buf)' : At(c, k)' /\ Underway(r, c, k)'
    BY <1>1, <1>2
  <2> QED
    BY <2>1, <2>2 DEF Linked
<1>5. ApartOf(c)'
  <2>1. up'[c] = up[c] /\ ~New(c)' /\ ~Asks(c)' /\ master'.saveState = master.saveState
    BY <1>1, <1>3 DEF New, Asks
  <2> QED
    BY <1>1, <1>3, <2>1 DEF ApartOf
<1> QED
  BY ONLY IInv, IInv', ConnInv, Longer, Settled, c \in Conns, r \in Replicas, replica'[r].conn = c,
          KnownOf(r)', <1>1, <1>4, <1>5, OnlyReplica

LEMMA HeaderConn ==
    ASSUME IInv, IInv', LogInv, ConnInv, Longer, Settled, NEW r \in Replicas, ReceiveHeader(r)
    PROVE  ConnInv'
<1>1. /\ replica[r].pc = "handshake" /\ replica[r].conn # Nil /\ down[replica[r].conn] # <<>>
  BY DEF ReceiveHeader, Reads
<1>2. PICK c \in Conns : c = replica[r].conn
  BY <1>1, ConnTypes
<1>3. /\ UNCHANGED <<backlog, rdb, master>> /\ Buf' = Buf /\ KnownOf(r)
  BY <1>2, ReplicaOnly
<1>4. /\ master.saveState = "finish"
      /\ \E n \in 0 .. Len(Buf) : At(c, n) /\ Underway(r, c, n)
  BY <1>1, <1>2, ReadsSent
<1>5. PICK n \in 0 .. Len(Buf) : At(c, n) /\ Underway(r, c, n)
  BY <1>4
<1>6. rdb[master.rdbFile] \in Nat /\ rdb[master.rdbFile] # Nil
  BY <1>4, Finished, JobAssumption
<1>7. Buf \in Seq(Nat) /\ n \in Nat /\ 0 \in 0 .. n
  BY ConnTypes
<1> DEFINE m == Head(down[c])
<1>8. /\ down'[c] = Tail(down[c])
      /\ m.type = "continue" \/ (m.type = "full" /\ m.size # Nil) =>
             /\ UNCHANGED <<open, up>>
             /\ replica'[r].pc = "stream" /\ replica'[r].conn = c /\ replica'[r].known
             /\ replica'[r].offset = IF m.type = "full" THEN m.n ELSE replica[r].offset
             /\ replica'[r].data = IF m.type = "full" THEN Upto(m.size) ELSE replica[r].data
  BY ZenonT(60), <1>2 DEF ReceiveHeader, Receive, Incoming, IInv, LinkOK, ReplicaType
<1>9. CASE down[c] = <<Dumped(0, rdb[master.rdbFile])>> \o Cut(Buf, 0, n)
  <2>1. m = Dumped(0, rdb[master.rdbFile]) /\ Tail(down[c]) = Cut(Buf, 0, n)
    <3>1. Cut(Buf, 0, n) \in Seq(DownMessage \cup {Dumped(0, rdb[master.rdbFile])})
      BY <1>7, CutIs
    <3> QED
      BY <1>9, <3>1
  <2>2. m.type = "full" /\ m.size # Nil /\ m.n = 0 /\ m.size = rdb[master.rdbFile]
    BY <1>6, <2>1 DEF Dumped
  <2>3. /\ UNCHANGED <<open, up>>
        /\ replica'[r].pc = "stream" /\ replica'[r].conn = c /\ replica'[r].known
        /\ replica'[r].offset = 0 /\ replica'[r].data = Upto(rdb[master.rdbFile])
        /\ down'[c] = Cut(Buf, 0, n)
    BY <1>8, <2>1, <2>2
  <2>4. KnownOf(r)'
    <3>1. replica'[r].data = Content(Buf, rdb[master.rdbFile], 0)
      BY <2>3, ContentNone
    <3>2. 0 \in 0 .. Len(Buf)
      BY <1>7
    <3> QED
      BY <1>3, <1>4, <2>3, <3>1, <3>2 DEF KnownOf
  <2>5. Underway(r, c, n)'
    BY <1>3, <1>7, <2>3 DEF Underway
  <2> QED
    BY <1>1, <1>2, <1>5, <2>3, <2>4, <2>5, ReadConn
<1>10. CASE /\ replica[r].known /\ replica[r].offset <= n
            /\ down[c] = <<Message("continue", 0)>> \o Cut(Buf, replica[r].offset, n)
  <2>1. replica[r].offset \in 0 .. n
    BY <1>3, <1>10 DEF KnownOf
  <2>2. m = Message("continue", 0) /\ Tail(down[c]) = Cut(Buf, replica[r].offset, n)
    <3>1. PICK o \in 0 .. n : o = replica[r].offset
      BY <2>1
    <3>2. Cut(Buf, o, n) \in Seq(DownMessage)
      BY <1>7, CutIs
    <3>3. Cut(Buf, o, n) \in Seq(DownMessage \cup {Message("continue", 0)})
      BY <3>2
    <3> QED
      BY <1>10, <3>1, <3>3
  <2>3. m.type = "continue"
    BY <2>2 DEF Message
  <2>4. /\ UNCHANGED <<open, up>>
        /\ replica'[r].pc = "stream" /\ replica'[r].conn = c /\ replica'[r].known
        /\ replica'[r].offset = replica[r].offset /\ replica'[r].data = replica[r].data
        /\ down'[c] = Cut(Buf, replica[r].offset, n)
    BY <1>8, <2>2, <2>3
  <2>5. KnownOf(r)'
    BY <1>3, <1>10, <2>4 DEF KnownOf
  <2>6. Underway(r, c, n)'
    BY <1>3, <1>10, <2>4 DEF Underway
  <2> QED
    BY <1>1, <1>2, <1>5, <2>4, <2>5, <2>6, ReadConn
<1> QED
  BY <1>1, <1>5, <1>9, <1>10 DEF Underway

LEMMA LineConn ==
    ASSUME IInv, IInv', LogInv, ConnInv, Longer, Settled, NEW r \in Replicas, ReceiveLine(r)
    PROVE  ConnInv'
<1>1. /\ replica[r].pc = "stream" /\ replica[r].conn # Nil /\ down[replica[r].conn] # <<>>
  BY DEF ReceiveLine, Reads
<1>2. PICK c \in Conns : c = replica[r].conn
  BY <1>1, ConnTypes
<1>3. /\ UNCHANGED <<backlog, rdb, master>> /\ Buf' = Buf /\ KnownOf(r)
  BY <1>2, ReplicaOnly
<1>4. PICK n \in 0 .. Len(Buf) : At(c, n) /\ Underway(r, c, n)
  BY <1>1, <1>2, ReadsSent
<1>5. PICK o : o = replica[r].offset
  OBVIOUS
<1>6. /\ replica[r].known /\ o \in 0 .. n /\ down[c] = Cut(Buf, o, n)
      /\ master.saveState = "finish"
      /\ replica[r].data = Content(Buf, rdb[master.rdbFile], o)
  BY <1>1, <1>3, <1>4, <1>5 DEF Underway, KnownOf
<1>7. /\ o + 1 \in 0 .. n /\ Buf[o + 1] \in Nat
      /\ Head(down[c]) = Line(Buf[o + 1]) /\ Tail(down[c]) = Cut(Buf, o + 1, n)
  <2>1. Buf \in Seq(Nat) /\ Cut(Buf, o, n) # <<>>
    BY <1>1, <1>2, <1>6, ConnTypes
  <2> QED
    BY ONLY n \in 0 .. Len(Buf), <1>6, <2>1, CutTail
<1>8. Head(down[c]).n = Buf[o + 1]
  BY <1>7 DEF Line, Message
<1>9. /\ UNCHANGED <<open, up>>
      /\ replica'[r].pc = "stream" /\ replica'[r].conn = c /\ replica'[r].known
      /\ replica'[r].offset = o + 1
      /\ replica'[r].data = IF Buf[o + 1] = 0 THEN replica[r].data
                            ELSE Append(replica[r].data, Buf[o + 1])
      /\ down'[c] = Tail(down[c])
  <2>1. replica'[r] = [replica[r] EXCEPT !.offset = o + 1,
                                         !.data = IF Buf[o + 1] = 0 THEN @
                                                  ELSE Append(@, Buf[o + 1])]
    BY <1>2, <1>5, <1>8 DEF ReceiveLine, Incoming, IInv, LinkOK
  <2>2. UNCHANGED <<open, up>> /\ down'[c] = Tail(down[c])
    BY <1>2 DEF ReceiveLine, Receive, IInv, LinkOK
  <2>3. replica[r] \in ReplicaType
    BY ConnTypes
  <2> QED
    BY <1>1, <1>2, <1>6, <2>1, <2>2, <2>3 DEF ReplicaType
<1>10. KnownOf(r)'
  <2>1. o \in Nat /\ o + 1 \in 0 .. Len(Buf)
    BY <1>6, <1>7
  <2>2. replica'[r].data = Content(Buf, rdb[master.rdbFile], o + 1)
    BY <1>6, <1>9, <2>1, ContentNext
  <2> QED
    BY <1>3, <1>6, <1>9, <2>1, <2>2 DEF KnownOf
<1>11. Underway(r, c, n)'
  BY <1>3, <1>7, <1>9 DEF Underway
<1> QED
  BY <1>1, <1>2, <1>4, <1>9, <1>10, <1>11, ReadConn

LEMMA AckConn ==
    ASSUME IInv, IInv', LogInv, ConnInv, Longer, Settled, NEW r \in Replicas, Ack(r)
    PROVE  ConnInv'
<1>1. CASE replica[r].conn = Nil
  <2>1. up' = up
    BY <1>1, ConnTypes DEF Ack, IInv, LinkOK
  <2>2. UNCHANGED <<replica, down, task, open, slave, master, sender, job>>
    BY DEF Ack
  <2>3. Apart'
    BY <2>1, <2>2, ApartSame
  <2> QED
    BY <2>1, <2>2, <2>3, ConnStays
<1>2. CASE replica[r].conn # Nil
  <2>1. PICK c \in Conns : c = replica[r].conn
    BY <1>2, ConnTypes
  <2>2. /\ UNCHANGED <<backlog, task, master, rdb, sender, slave, down, open, replica>>
        /\ Only(c) /\ Buf' = Buf /\ ~New(c)
        /\ Linked(r, c) /\ KnownOf(r) /\ ApartOf(c) /\ (Sent(c)' <=> Sent(c))
        /\ (Online(c)' <=> Online(c)) /\ (Waits(c)' <=> Waits(c))
        /\ (Taken(c)' <=> Taken(c)) /\ (Tasked(c)' <=> Tasked(c))
        /\ \A q \in Replicas \ {r} : replica[q].conn # c
    BY <2>1, ReplicaOnly DEF Ack
  <2>3. \A n : At(c, n)' <=> At(c, n)
    BY <2>1, ReplicaOnly DEF Ack
  <2>4. PICK m \in UpMessage : m = Message("ack", replica[r].offset) /\ m.type = "ack"
    <3>1. replica[r].offset \in Int
      BY ConnTypes DEF ReplicaType
    <3>2. \A n \in Int : Message("ack", n) \in UpMessage /\ Message("ack", n).type = "ack"
      BY DEF Message, UpMessage
    <3> QED
      BY <3>1, <3>2
  <2>5. up \in [Conns -> Seq(UpMessage)] /\ up[c] \in Seq(UpMessage)
    BY DEF IInv, LinkOK
  <2>6. up'[c] = Append(up[c], m)
    BY <2>1, <2>4, <2>5 DEF Ack
  <2>7. /\ task'[c] = task[c] /\ open'[c] = open[c] /\ down'[c] = down[c]
         /\ replica'[r] = replica[r] /\ (Sent(c) => master.saveState = "finish")
    BY <2>2 DEF ApartOf, Sent, Tasked
  <2>8. Asks(c)' => Asks(c) /\ Head(up'[c]) = Head(up[c])
    BY <2>4, <2>5, <2>6 DEF Asks
  <2>9. Linked(r, c)'
    BY ONLY IInv, Longer, Settled, r \in Replicas, c \in Conns, <2>2, <2>3, <2>8, <2>7, LinkedStays
  <2>10. ApartOf(c)'
    <3>1. \A i \in 2 .. Len(up'[c]) : up'[c][i].type = "ack"
      BY <2>2, <2>4, <2>5, <2>6 DEF ApartOf
    <3>2. ~New(c)' /\ master'.saveState = master.saveState
      BY <2>2 DEF New
    <3> QED
      BY <2>2, <2>8, <3>1, <3>2 DEF ApartOf
  <2>11. KnownOf(r)'
    BY <2>2, KnownStays
  <2> QED
    BY ONLY IInv, IInv', ConnInv, Longer, Settled, c \in Conns, r \in Replicas,
            <2>1, <2>2, <2>9, <2>10, <2>11, OnlyReplica
<1> QED
  BY <1>1, <1>2

LEMMA DisconnectConn ==
    ASSUME IInv, IInv', LogInv, ConnInv, Longer, Settled, NEW r \in Replicas, Disconnect(r)
    PROVE  ConnInv'
<1>1. PICK c \in Conns : c = replica[r].conn
  BY ConnTypes DEF Disconnect
<1>2. /\ UNCHANGED <<backlog, task, master, rdb, sender, slave, up>>
      /\ Only(c) /\ Buf' = Buf /\ ~New(c) /\ KnownOf(r) /\ ApartOf(c)
      /\ (Online(c)' <=> Online(c)) /\ (Waits(c)' <=> Waits(c))
      /\ (Taken(c)' <=> Taken(c)) /\ (Tasked(c)' <=> Tasked(c))
      /\ \A q \in Replicas \ {r} : replica'[q] = replica[q] /\ replica[q].conn # c
  BY <1>1, ReplicaOnly DEF Disconnect
<1>3. open'[c] = "closed" /\ down'[c] = <<>>
  BY <1>1 DEF Disconnect, IInv, LinkOK
<1>4. /\ replica'[r].conn = Nil
      /\ \/ ~replica'[r].known /\ replica'[r].pc = "off"
         \/ /\ replica'[r].pc = "lost" /\ replica[r].pc = "stream"
            /\ replica'[r].known = replica[r].known /\ replica'[r].offset = replica[r].offset
            /\ replica'[r].data = replica[r].data
  <2>1. replica \in [Replicas -> ReplicaType] /\ replica[r] \in ReplicaType
    BY DEF IInv, LinkOK
  <2>2. CASE replica[r].pc = "stream"
    <3>1. replica'[r] = [replica[r] EXCEPT !.pc = "lost", !.conn = Nil]
      BY <2>1, <2>2 DEF Disconnect
    <3> QED
      BY <2>1, <2>2, <3>1 DEF ReplicaType
  <2>3. CASE replica[r].pc # "stream"
    <3>1. replica'[r] = [replica[r] EXCEPT !.pc = "off", !.conn = Nil, !.known = FALSE,
                                           !.offset = -1]
      BY <2>1, <2>3 DEF Disconnect, Off
    <3> QED
      BY <2>1, <3>1 DEF ReplicaType
  <2> QED
    BY <2>2, <2>3
<1>5. KnownOf(r)'
  BY <1>2, <1>4 DEF KnownOf
<1>6. ApartOf(c)'
  <2>1. ~New(c)' /\ up'[c] = up[c] /\ (Asks(c)' <=> Asks(c)) /\ master'.saveState = master.saveState
    BY <1>2, <1>3 DEF New, Asks
  <2> QED
    BY <1>2, <2>1 DEF ApartOf
<1>7. replica'[r].conn \in {Nil, c} /\ (replica'[r].conn = c => Linked(r, c)')
  BY <1>4, ConnTypes
<1> QED
  BY ONLY IInv, IInv', ConnInv, Longer, Settled, c \in Conns, r \in Replicas,
          <1>2, <1>5, <1>6, <1>7, OnlyReplica

LEMMA ReplicaConn ==
    ASSUME IInv, IInv', LogInv, ConnInv, Longer, Settled, Replica
    PROVE  ConnInv'
BY ConnectConn, HeaderConn, LineConn, AckConn, DisconnectConn DEF Replica

-------------------------------------------------------------------------------
(* The replicas follow *)

LEMMA NextFInv == IInv /\ IInv' /\ FInv /\ [Next]_vars => FInv'
<1> SUFFICES ASSUME IInv, IInv', FInv, [Next]_vars
             PROVE  FInv'
  OBVIOUS
<1>1. CASE UNCHANGED vars
  <2>1. UNCHANGED <<spoiled, crashed>> /\ (LogInv' <=> LogInv) /\ (ConnInv' <=> ConnInv)
    BY <1>1
    DEF vars, net, LogInv, ConnInv, OneDump, DumpOf, Started, Saved, Listening, Registered, Logged,
        LoggedOf, Delivered, Buf, Apart, ApartOf, New, Asks, Waits, Taken, Tasked, Online, Sending,
        SendingOf, Busy, Offsets, OffsetOf, Linking, Linked, Sent, At, Advancing, Underway, Wish,
        Knowing, KnownOf, Alone
  <2> QED
    BY <2>1 DEF FInv
<1>2. CASE Next
  <2> SUFFICES ASSUME spoiled' = {}
               PROVE  LogInv' /\ ConnInv' /\ ~crashed'
    BY DEF FInv
  <2>1. spoiled = {}
    BY ZenonT(60), <1>2
    DEF Next, Write, WriteLine, CallListeners, Callback, Send, Snapshot, SendTo, Advance, SendFails,
        SendPanics, Cron, CronKeepsMutex, CronPings, Dump, SaveBegins, SaveFinishes, TakeSize,
        Register, RewriteRDB, RewriteFails, NextWaiting, Hook, SwapBacklog, RemoveListener, Sync,
        TryPartialSync, CannotPartialSync, SendRDB, SendBacklog, SetSlaveOnline, SyncFails, Requests,
        PSyncWaits, PSyncPanics, PSyncAfterDump, ReplConfAck, Replica, Connect, ReceiveHeader,
        ReceiveLine, Ack, Disconnect, Event, Spoil
  <2>2. LogInv /\ ConnInv /\ ~crashed
    BY <2>1 DEF FInv
  <2>3. LogInv' /\ Longer /\ Settled
    BY <1>2, <2>2, NextLog, NextLonger, NextSettled
  <2>4. ConnInv'
    BY <1>2, <2>2, <2>3, WriteConn, SendConn, CronConn, DumpConn, SyncConn, RequestsConn,
       ReplicaConn DEF Next
  <2>5. ~crashed'
    <3>1. \A p \in Senders, c \in Conns : ~SendPanics(p, c)
      BY <2>2, NoPanic
    <3>2. UNCHANGED crashed \/ \E p \in Senders, c \in Conns : SendPanics(p, c)
      BY ZenonT(60), <1>2
      DEF Next, Write, WriteLine, CallListeners, Callback, Send, Snapshot, SendTo, Advance,
          SendFails, Cron, CronKeepsMutex, CronPings, Dump, SaveBegins, SaveFinishes, TakeSize,
          Register, RewriteRDB, RewriteFails, NextWaiting, Hook, SwapBacklog, RemoveListener, Sync,
          TryPartialSync, CannotPartialSync, SendRDB, SendBacklog, SetSlaveOnline, SyncFails,
          Requests, PSyncWaits, PSyncPanics, PSyncAfterDump, ReplConfAck, Replica, Connect,
          ReceiveHeader, ReceiveLine, Ack, Disconnect, Alive
    <3> QED
      BY <2>2, <3>1, <3>2
  <2> QED
    BY <2>3, <2>4, <2>5
<1> QED
  BY <1>1, <1>2

\* The dump and the backlog up to n.
LEMMA HeldIs ==
    ASSUME IInv, LogInv, NEW n \in Nat
    PROVE  Held(n) = Content(Buf, rdb[master.rdbFile], n)
<1>1. Log.buf = Buf /\ Log.begin = 0 /\ n - 0 = n
  BY LogIs
<1> QED
  BY <1>1 DEF Held, Content, Played, Next1

LEMMA FInvFollows == ASSUME IInv, FInv PROVE ReplicaFollows
<1> SUFFICES ASSUME spoiled = {}, NEW r \in Replicas, replica[r].pc \in {"stream", "lost"}
             PROVE  /\ replica[r].data = Held(replica[r].offset)
                    /\ replica[r].data = Upto(Len(replica[r].data))
                    /\ Len(replica[r].data) <= file
  BY DEF ReplicaFollows, FInv
<1>1. LogInv /\ KnownOf(r)
  BY DEF FInv, ConnInv, Knowing
<1>2. PICK n \in 0 .. Len(Buf) :
          /\ replica[r].offset = n /\ master.saveState = "finish"
          /\ replica[r].data = Content(Buf, rdb[master.rdbFile], n)
  BY <1>1 DEF KnownOf
<1>3. PICK j \in Savers : /\ master.rdbFile = j /\ Registered(j) /\ rdb[j] = job[j].size
  BY <1>1, <1>2, Finished
<1>4. PICK l \in 0 .. file : replica[r].data = Upto(l)
  <2>1. Follows(Buf, job[j].size, file)
    BY <1>1, <1>3 DEF LogInv, Logged, LoggedOf
  <2> QED
    BY <1>2, <1>3, <2>1 DEF Follows
<1>5. n \in Nat /\ l \in Nat /\ l <= file
  BY <1>4, ConnTypes DEF IInv, MasterOK
<1>6. replica[r].data = Held(replica[r].offset)
  BY <1>1, <1>2, <1>5, HeldIs
<1>7. Len(replica[r].data) = l
  BY <1>4, <1>5, UptoLen
<1> QED
  BY <1>4, <1>5, <1>6, <1>7

LEMMA FollowInvariance == Spec => [](IInv /\ FInv)
<1>1. Init => IInv /\ FInv
  BY InitIInv, InitFInv
<1>2. IInv /\ FInv /\ [Next]_vars => (IInv /\ FInv)'
  BY NextIInv, NextFInv
<1> QED
  BY <1>1, <1>2, PTL DEF Spec

\* As long as nothing of what "spoiled" notes has happened, a replica that streams, or has
\* lost its connection and will ask for the rest, holds the dump and the backlog up to its
\* offset, which are the first lines of the file, once and in order; and no slice of the
\* backlog is out of range.  (saveForReplication, masterFullReSyncWithSlave,
\* masterTryPartialSyncWithSlave and masterSendUpdatesToSlave, replication_master.go)
THEOREM AllFollow == Spec => []ReplicaFollows
<1>1. IInv /\ FInv => ReplicaFollows
  BY FInvFollows
<1> QED
  BY <1>1, FollowInvariance, PTL

-------------------------------------------------------------------------------
(* The slave's side: SlaveRole, for any number of masters and of goroutines. What a slave
   executes comes from the master that is configured now.  A goroutine may trust what it
   has read without the mutex as long as SameConfig holds of it: RoleInv says what that is
   at each of its steps. *)

Dialled(g) == pc[g] \notin {"unused", "start", "dial"}

\* Between the connection that is put into place and the end.
Connected(g) ==
    pc[g] \in {"psync", "load", "await", "loaded", "enter", "loop", "select", "payload"}

\* A channel has been read from the server.
HasChannel(g) == pc[g] \in {"await", "loaded", "select", "payload"}

\* Only the holder of the mutex waits in stopSlaveWithMutex or for the answer to PSYNC.
Holders == \A p \in Procs : pc[p] \in {"wait", "psync"} => mutex = p

\* No goroutine is ahead of the configuration, and none is up to date with one that is
\* being stopped.
Versions ==
    \A g \in Setups :
        /\ setup[g].version <= config.version
        /\ \A p \in Procs : pc[p] = "wait" => setup[g].version < config.version

Matches ==
    /\ role = "slave" <=> config.host # None
    /\ conn # Nobody => role = "slave"

\* Role and master fit, unless slaveOfNone is at work.
Consistent == (\A p \in Procs \ {SlaveCron} : pc[p] # "wait") => Matches

\* While it is, the server has no master any more.
Aborting == \A p \in Procs \ {SlaveCron} : pc[p] = "wait" => config.host = None

\* A goroutine whose configuration still holds has dialled the master of it,
Dialling ==
    \A g \in Setups :
        pc[g] \in {"greet", "update"} /\ SameConfig(g) =>
            config.host # None /\ to[g] = config.host

\* the connection in place goes there,
RoleLinked ==
    \A g \in Setups :
        Connected(g) /\ SameConfig(g) =>
            config.host # None /\ conn # Nobody /\ to[conn] = config.host

\* and so does the one it reads from.
Reading ==
    \A g \in Setups :
        HasChannel(g) /\ SameConfig(g) =>
            setup[g].ch # Nobody /\ to[setup[g].ch] = config.host

\* A connection in use is never dialled again.
RolePlaced ==
    /\ conn # Nobody => Dialled(conn)
    /\ \A g \in Setups : setup[g].ch # Nobody => Dialled(setup[g].ch)

RoleInv == /\ RoleTypeOK /\ Holders /\ Versions /\ Consistent /\ Aborting
           /\ Dialling /\ RoleLinked /\ Reading /\ RolePlaced

LEMMA ProcFacts ==
    /\ Setups \subseteq Procs /\ {Client, SlaveCron} \subseteq Procs
    /\ Nobody \notin Procs /\ Client \notin Setups /\ SlaveCron \notin Setups
  BY ProcAssumption DEF Procs

LEMMA InitRoleInv == RoleInit => RoleInv
  BY ProcFacts
  DEF RoleInit, RoleInv, RoleTypeOK, Holders, Versions, Consistent, Aborting, Matches,
      Dialling, RoleLinked, Reading, RolePlaced, Dialled, Connected, HasChannel, SameConfig

LEMMA TypeStep ==
    ASSUME RoleTypeOK, [RoleNext]_roleVars
    PROVE  RoleTypeOK'
<1> USE ProcFacts
<1>1. ASSUME NEW h \in Hosts, NEW g \in Setups, SlaveOf(h, g) PROVE RoleTypeOK'
  BY <1>1 DEF RoleTypeOK, SlaveOf, Fresh, Goto
<1>2. CASE SlaveOfNoOne
  BY <1>2 DEF RoleTypeOK, SlaveOfNoOne, Goto
<1>3. ASSUME NEW p \in Procs, AbortBegins(p) PROVE RoleTypeOK'
  BY <1>3 DEF RoleTypeOK, AbortBegins, BeginStop, Goto, Lock
<1>4. ASSUME NEW p \in Procs, AbortEnds(p) PROVE RoleTypeOK'
  <2>1. pc' \in [Procs -> {"unused", "idle", "start", "dial", "greet", "update", "psync", "load",
                         "await", "loaded", "enter", "loop", "select", "payload", "late",
                         "none", "wait", "end"}]
    BY <1>4 DEF RoleTypeOK, AbortEnds, Procs
  <2>2. setup' \in [Setups -> [version : Nat, own : Setups \cup {Nobody}, ch : Setups \cup {Nobody},
                             after : {"none", "enter", "end"}]]
    BY <1>4 DEF RoleTypeOK, AbortEnds
  <2> QED
    BY <1>4, <2>1, <2>2 DEF RoleTypeOK, AbortEnds, CloseConn, Unlock
<1>5. CASE ReconnectBegins
  BY <1>5 DEF RoleTypeOK, ReconnectBegins, BeginStop, Goto, Lock
<1>6. ASSUME NEW g \in Setups, ReconnectEnds(g) PROVE RoleTypeOK'
  BY <1>6 DEF RoleTypeOK, ReconnectEnds, CloseConn, Unlock
<1>7. ASSUME NEW g \in Setups, Connecting(g) PROVE RoleTypeOK'
  <2>1. CASE Start(g) BY <2>1 DEF RoleTypeOK, Start, Goto
  <2>2. CASE Dial(g) BY <2>2 DEF RoleTypeOK, Dial, Goto
  <2>3. CASE DialFails(g)
    BY <2>3 DEF RoleTypeOK, DialFails, Fail, Goto
  <2>4. CASE Greet(g) BY <2>4 DEF RoleTypeOK, Greet, Goto
  <2>5. CASE GreetFails(g)
    BY <2>5 DEF RoleTypeOK, GreetFails, Fail, Goto
  <2>6. CASE Update(g) BY <2>6 DEF RoleTypeOK, Update, Goto, Lock
  <2>7. CASE ConfigChanged(g)
    BY <2>7 DEF RoleTypeOK, ConfigChanged, Fail, Goto
  <2>8. CASE PSyncAnswered(g)
    BY <2>8 DEF RoleTypeOK, PSyncAnswered, Goto, Unlock
  <2>9. CASE PSyncFails(g)
    BY <2>9 DEF RoleTypeOK, PSyncFails, Fail, Goto, Unlock
  <2>10. CASE AwaitRDB(g) BY <2>10 DEF RoleTypeOK, AwaitRDB, Goto
  <2>11. CASE ReceiveRDB(g) BY <2>11 DEF RoleTypeOK, ReceiveRDB, Goto
  <2>12. CASE RDBFails(g)
    BY <2>12 DEF RoleTypeOK, RDBFails, Fail, Goto
  <2>13. CASE LoadRDB(g)
    BY <2>13 DEF RoleTypeOK, LoadRDB, Execute, Fail, Goto
  <2>14. CASE LoadTooLate(g)
    BY <2>14 DEF RoleTypeOK, LoadTooLate, Fail, Goto
  <2> QED
    BY <1>7, <2>1, <2>2, <2>3, <2>4, <2>5, <2>6, <2>7, <2>8, <2>9, <2>10, <2>11, <2>12,
       <2>13, <2>14 DEF Connecting
<1>8. ASSUME NEW g \in Setups, Streaming(g) PROVE RoleTypeOK'
  <2>1. CASE Select(g) BY <2>1 DEF RoleTypeOK, Select, Goto
  <2>2. CASE ReceivePayload(g)
    BY <2>2 DEF RoleTypeOK, ReceivePayload, Goto
  <2>3. CASE ReceiveFails(g)
    BY <2>3 DEF RoleTypeOK, ReceiveFails, Goto
  <2>4. CASE ContextDone(g) BY <2>4 DEF RoleTypeOK, ContextDone, Goto
  <2>5. CASE ExecPayload(g)
    BY <2>5 DEF RoleTypeOK, ExecPayload, Execute, Goto
  <2>6. CASE PayloadTooLate(g)
    BY <2>6 DEF RoleTypeOK, PayloadTooLate, Lock, Goto
  <2>7. CASE Enter(g) BY <2>7 DEF RoleTypeOK, Enter, Goto
  <2> QED BY <1>8, <2>1, <2>2, <2>3, <2>4, <2>5, <2>6, <2>7 DEF Streaming
<1>9. ASSUME NEW g \in Setups, Break(g) PROVE RoleTypeOK'
  BY <1>9 DEF RoleTypeOK, Break
<1>10. CASE UNCHANGED roleVars
  BY <1>10 DEF RoleTypeOK, roleVars
<1>11. CASE MasterTimeOut
  BY <1>11 DEF RoleTypeOK, MasterTimeOut, Goto
<1> QED
  BY <1>1, <1>2, <1>3, <1>4, <1>5, <1>6, <1>7, <1>8, <1>9, <1>10, <1>11 DEF RoleNext,
     Commands

\* What a step has to keep besides the types.
Safe == /\ Holders /\ Versions /\ Consistent /\ Aborting
        /\ Dialling /\ RoleLinked /\ Reading /\ RolePlaced

LEMMA SafeStep ==
    ASSUME RoleInv, [RoleNext]_roleVars
    PROVE  Safe'
<1> USE ProcFacts DEF RoleInv
<1>0. RoleTypeOK'
  BY TypeStep
<1>1. ASSUME NEW h \in Hosts, NEW g \in Setups, SlaveOf(h, g) PROVE Safe'
  <2>1. \A q \in Procs : pc[q] \notin {"wait", "psync"} /\ pc'[q] \notin {"wait", "psync"}
    BY <1>1 DEF SlaveOf, Goto, Holders, RoleTypeOK
  <2>2. /\ role' = "slave" /\ config'.host # None /\ config'.version = config.version + 1
        /\ UNCHANGED <<mutex, conn, setup, to>>
    BY <1>1, HostAssumption DEF SlaveOf
  <2>3. pc'[g] = "start" /\ pc[g] = "unused" /\ \A q \in Procs \ {g} : pc'[q] = pc[q]
    BY <1>1 DEF SlaveOf, Goto, Fresh, RoleTypeOK
  <2>4. \A f \in Setups : setup'[f].version < config'.version
    BY <2>2 DEF Versions, RoleTypeOK
  <2>5. \A f \in Setups : ~SameConfig(f)'
    BY <2>4, <1>0 DEF SameConfig, RoleTypeOK
  <2>6. Holders' /\ Aborting'
    BY <2>1 DEF Holders, Aborting
  <2>7. Versions'
    BY <2>1, <2>4, <1>0 DEF Versions, RoleTypeOK
  <2>8. Consistent'
    BY <2>2 DEF Consistent, Matches
  <2>9. Dialling' /\ RoleLinked' /\ Reading'
    BY <2>5 DEF Dialling, RoleLinked, Reading
  <2>10. RolePlaced'
    BY <2>2, <2>3 DEF RolePlaced, Dialled, RoleTypeOK
  <2> QED
    BY <2>6, <2>7, <2>8, <2>9, <2>10 DEF Safe
<1>2. ASSUME SlaveOfNoOne PROVE Safe'
  BY <1>0, <1>2 DEF Safe, RoleTypeOK, SlaveOfNoOne, Goto, Holders, Versions,
     Consistent, Aborting, Matches, Dialling, RoleLinked, Reading, RolePlaced, Dialled,
     Connected, HasChannel, SameConfig
<1>3. ASSUME NEW p \in Procs, AbortBegins(p) PROVE Safe'
  BY <1>0, <1>3 DEF Safe, RoleTypeOK, AbortBegins, BeginStop, Goto,
     Lock, Holders, Versions, Consistent, Aborting, Matches, Dialling, RoleLinked,
     Reading, RolePlaced, Dialled, Connected, HasChannel, SameConfig
<1>4. ASSUME NEW p \in Procs, AbortEnds(p) PROVE Safe'
  <2>1. pc[p] = "wait" /\ mutex = p /\ \A q \in Procs : pc[q] \in {"wait", "psync"} => q = p
    BY <1>4 DEF AbortEnds, Stopped, Holders
  <2>2. /\ conn' = Nobody /\ role' = "master" /\ config' = config /\ to' = to
        /\ \A g \in Setups : setup'[g].version = setup[g].version /\ setup'[g].ch = setup[g].ch
    BY <1>4 DEF AbortEnds, CloseConn, RoleTypeOK
  <2>3. /\ \A q \in Procs \ {p} : pc'[q] = pc[q]
        /\ pc'[p] \in {"idle", "none", "enter", "end"}
    BY <1>4 DEF AbortEnds, RoleTypeOK, Procs
  <2>4. \A g \in Setups : setup'[g].version < config'.version
    BY <2>1, <2>2 DEF Versions
  <2>5. \A g \in Setups : ~SameConfig(g)'
    BY <2>4, <1>0 DEF SameConfig, RoleTypeOK
  <2>6. config.host = None
    BY <1>4, <2>1 DEF Holders, Aborting, AbortEnds
  <2>7. Holders'
    BY <2>1, <2>3 DEF Holders
  <2>8. Versions'
    BY <2>3, <2>4, <1>0, <2>1 DEF Versions, RoleTypeOK
  <2>9. Consistent' /\ Aborting'
    BY <2>1, <2>2, <2>3, <2>6, ProcFacts DEF Consistent, Matches, Aborting
  <2>10. Dialling' /\ RoleLinked' /\ Reading'
    BY <2>5 DEF Dialling, RoleLinked, Reading
  <2>11. RolePlaced'
    BY <2>1, <2>2, <2>3 DEF RolePlaced, Dialled, RoleTypeOK
  <2> QED
    BY <2>7, <2>8, <2>9, <2>10, <2>11 DEF Safe
<1>5. ASSUME ReconnectBegins PROVE Safe'
  BY <1>0, <1>5 DEF Safe, RoleTypeOK, ReconnectBegins, BeginStop, Goto,
     Lock, Holders, Versions, Consistent, Aborting, Matches, Dialling, RoleLinked,
     Reading, RolePlaced, Dialled, Connected, HasChannel, SameConfig
<1>6. ASSUME NEW g \in Setups, ReconnectEnds(g) PROVE Safe'
  BY <1>0, <1>6 DEF Safe, RoleTypeOK, ReconnectEnds, Stopped, Fresh,
     CloseConn, Unlock, Holders, Versions, Consistent, Aborting, Matches,
     Dialling, RoleLinked, Reading, RolePlaced, Dialled, Connected, HasChannel,
     SameConfig
<1>7. ASSUME NEW g \in Setups, Connecting(g) PROVE Safe'
  <2>1. CASE Start(g)
    BY <1>0, <2>1 DEF Safe, RoleTypeOK, Start, Goto, Holders, Versions,
       Consistent, Aborting, Matches, Dialling, RoleLinked, Reading, RolePlaced,
       Dialled, Connected, HasChannel, SameConfig
  <2>2. CASE Dial(g)
    BY <1>0, <2>2 DEF Safe, RoleTypeOK, Dial, Goto, Holders, Versions,
       Consistent, Aborting, Matches, Dialling, RoleLinked, Reading, RolePlaced,
       Dialled, Connected, HasChannel, SameConfig
  <2>3. CASE DialFails(g)
    BY <1>0, <2>3 DEF Safe, RoleTypeOK, DialFails, Fail, Goto, Holders,
       Versions, Consistent, Aborting, Matches, Dialling, RoleLinked, Reading,
       RolePlaced, Dialled, Connected, HasChannel, SameConfig
  <2>4. CASE Greet(g)
    BY <1>0, <2>4 DEF Safe, RoleTypeOK, Greet, Goto, Holders, Versions,
       Consistent, Aborting, Matches, Dialling, RoleLinked, Reading, RolePlaced,
       Dialled, Connected, HasChannel, SameConfig
  <2>5. CASE GreetFails(g)
    BY <1>0, <2>5 DEF Safe, RoleTypeOK, GreetFails, Fail, Goto, Holders,
       Versions, Consistent, Aborting, Matches, Dialling, RoleLinked, Reading,
       RolePlaced, Dialled, Connected, HasChannel, SameConfig
  <2>6. CASE Update(g)
    BY <1>0, <2>6 DEF Safe, RoleTypeOK, Update, Lock, Goto, Holders,
       Versions, Consistent, Aborting, Matches, Dialling, RoleLinked, Reading,
       RolePlaced, Dialled, Connected, HasChannel, SameConfig
  <2>7. CASE ConfigChanged(g)
    BY <1>0, <2>7 DEF Safe, RoleTypeOK, ConfigChanged, Fail, Goto,
       Holders, Versions, Consistent, Aborting, Matches, Dialling, RoleLinked, Reading,
       RolePlaced, Dialled, Connected, HasChannel, SameConfig
  <2>8. CASE PSyncAnswered(g)
    BY <1>0, <2>8 DEF Safe, RoleTypeOK, PSyncAnswered, Unlock, Goto,
       Holders, Versions, Consistent, Aborting, Matches, Dialling, RoleLinked, Reading,
       RolePlaced, Dialled, Connected, HasChannel, SameConfig
  <2>9. CASE PSyncFails(g)
    BY <1>0, <2>9 DEF Safe, RoleTypeOK, PSyncFails, Unlock, Fail,
       Goto, Holders, Versions, Consistent, Aborting, Matches, Dialling,
       RoleLinked, Reading, RolePlaced, Dialled, Connected, HasChannel, SameConfig
  <2>10. CASE AwaitRDB(g)
    BY <1>0, <2>10 DEF Safe, RoleTypeOK, AwaitRDB, Goto, Holders, Versions,
       Consistent, Aborting, Matches, Dialling, RoleLinked, Reading, RolePlaced,
       Dialled, Connected, HasChannel, SameConfig
  <2>11. CASE ReceiveRDB(g)
    BY <1>0, <2>11 DEF Safe, RoleTypeOK, ReceiveRDB, Goto, Holders, Versions,
       Consistent, Aborting, Matches, Dialling, RoleLinked, Reading, RolePlaced,
       Dialled, Connected, HasChannel, SameConfig
  <2>12. CASE RDBFails(g)
    BY <1>0, <2>12 DEF Safe, RoleTypeOK, RDBFails, Fail, Goto, Holders,
       Versions, Consistent, Aborting, Matches, Dialling, RoleLinked, Reading,
       RolePlaced, Dialled, Connected, HasChannel, SameConfig
  <2>13. CASE LoadRDB(g)
    BY <1>0, <2>13 DEF Safe, RoleTypeOK, LoadRDB, Execute, Fail, Goto,
       Holders, Versions, Consistent, Aborting, Matches, Dialling, RoleLinked, Reading,
       RolePlaced, Dialled, Connected, HasChannel, SameConfig
  <2>14. CASE LoadTooLate(g)
    BY <1>0, <2>14 DEF Safe, RoleTypeOK, LoadTooLate, Fail, Goto,
       Holders, Versions, Consistent, Aborting, Matches, Dialling, RoleLinked, Reading,
       RolePlaced, Dialled, Connected, HasChannel, SameConfig
  <2> QED
    BY <1>7, <2>1, <2>2, <2>3, <2>4, <2>5, <2>6, <2>7, <2>8, <2>9, <2>10, <2>11, <2>12,
       <2>13, <2>14 DEF Connecting
<1>8. ASSUME NEW g \in Setups, Streaming(g) PROVE Safe'
  <2>1. CASE Select(g)
    BY <1>0, <2>1 DEF Safe, RoleTypeOK, Select, Goto, Holders, Versions,
       Consistent, Aborting, Matches, Dialling, RoleLinked, Reading, RolePlaced,
       Dialled, Connected, HasChannel, SameConfig
  <2>2. CASE ReceivePayload(g)
    BY <1>0, <2>2 DEF Safe, RoleTypeOK, ReceivePayload, Goto, Holders,
       Versions, Consistent, Aborting, Matches, Dialling, RoleLinked, Reading,
       RolePlaced, Dialled, Connected, HasChannel, SameConfig
  <2>3. CASE ReceiveFails(g)
    BY <1>0, <2>3 DEF Safe, RoleTypeOK, ReceiveFails, Goto, Holders,
       Versions, Consistent, Aborting, Matches, Dialling, RoleLinked, Reading,
       RolePlaced, Dialled, Connected, HasChannel, SameConfig
  <2>4. CASE ContextDone(g)
    BY <1>0, <2>4 DEF Safe, RoleTypeOK, ContextDone, Goto, Holders, Versions,
       Consistent, Aborting, Matches, Dialling, RoleLinked, Reading, RolePlaced,
       Dialled, Connected, HasChannel, SameConfig
  <2>5. CASE ExecPayload(g)
    BY <1>0, <2>5 DEF Safe, RoleTypeOK, ExecPayload, Execute, Goto,
       Holders, Versions, Consistent, Aborting, Matches, Dialling, RoleLinked, Reading,
       RolePlaced, Dialled, Connected, HasChannel, SameConfig
  <2>6. CASE PayloadTooLate(g)
    BY <1>0, <2>6 DEF Safe, RoleTypeOK, PayloadTooLate, Lock, Goto,
       Holders, Versions, Consistent, Aborting, Matches, Dialling, RoleLinked, Reading,
       RolePlaced, Dialled, Connected, HasChannel, SameConfig
  <2>7. CASE Enter(g)
    BY <1>0, <2>7 DEF Safe, RoleTypeOK, Enter, Goto, Holders, Versions,
       Consistent, Aborting, Matches, Dialling, RoleLinked, Reading, RolePlaced,
       Dialled, Connected, HasChannel, SameConfig
  <2> QED
    BY <1>8, <2>1, <2>2, <2>3, <2>4, <2>5, <2>6, <2>7 DEF Streaming
<1>9. ASSUME NEW g \in Setups, Break(g) PROVE Safe'
  BY <1>0, <1>9 DEF Safe, RoleTypeOK, Break, Holders, Versions, Consistent,
     Aborting, Matches, Dialling, RoleLinked, Reading, RolePlaced, Dialled, Connected,
     HasChannel, SameConfig
<1>10. CASE UNCHANGED roleVars
  BY <1>10 DEF Safe, roleVars, Holders, Versions, Consistent, Aborting, Matches,
     Dialling, RoleLinked, Reading, RolePlaced, Dialled, Connected, HasChannel,
     SameConfig
<1>11. ASSUME MasterTimeOut PROVE Safe'
  BY <1>0, <1>11 DEF Safe, RoleTypeOK, MasterTimeOut, Goto, Holders,
     Versions, Consistent, Aborting, Matches, Dialling, RoleLinked, Reading, RolePlaced,
     Dialled, Connected, HasChannel, SameConfig
<1> QED
  BY <1>1, <1>2, <1>3, <1>4, <1>5, <1>6, <1>7, <1>8, <1>9, <1>10, <1>11 DEF RoleNext,
     Commands

\* RoleInv is inductive.
THEOREM RoleInvariance == RoleSpec => []RoleInv
<1>1. RoleInv /\ [RoleNext]_roleVars => RoleInv'
  BY TypeStep, SafeStep DEF RoleInv, Safe
<1> QED
  BY InitRoleInv, <1>1, PTL DEF RoleSpec

\* Every variable of SlaveRole keeps its type, whatever SLAVEOF, the cron and the
\* goroutines of setupMaster do.
THEOREM RoleTypeCorrect == RoleSpec => []RoleTypeOK
<1>1. RoleInv => RoleTypeOK
  BY DEF RoleInv
<1> QED
  BY RoleInvariance, <1>1, PTL

\* Whoever gets slaveStatus.mutex finds a server that is a slave exactly if it has a
\* master, and no connection left over from one (slaveOfNone, stopSlaveWithMutex).
THEOREM RoleMatching == RoleSpec => []RoleMatches
<1>1. RoleInv => RoleMatches
  BY ProcFacts DEF RoleInv, Holders, Consistent, Matches, RoleMatches
<1> QED
  BY RoleInvariance, <1>1, PTL

\* What loadMasterRDB and receiveAOF execute came over a connection to the master that is
\* configured at that moment.
THEOREM RoleApplied == RoleSpec => AppliedFromMaster
<1> DEFINE Good == /\ role = "slave"
                   /\ from' # Nobody
                   /\ to[from'] = config.host
<1>1. ASSUME RoleInv, [RoleNext]_roleVars, executed' # executed PROVE Good
  <2>1. PICK g \in Setups : LoadRDB(g) \/ ExecPayload(g)
    BY <1>1 DEF RoleNext, Commands, SlaveOf, SlaveOfNoOne,
       AbortBegins, AbortEnds, BeginStop, MasterTimeOut,
       ReconnectBegins, ReconnectEnds, Connecting, Start, Dial,
       DialFails, Greet, GreetFails, Update, ConfigChanged,
       PSyncAnswered, PSyncFails, AwaitRDB, ReceiveRDB,
       RDBFails, LoadTooLate, Streaming, Enter, Select,
       ReceivePayload, ReceiveFails, ContextDone, PayloadTooLate,
       Break, roleVars
  <2>2. mutex = Nobody /\ SameConfig(g) /\ from' = setup[g].ch /\ pc[g] \in {"loaded", "payload"}
    BY <2>1 DEF LoadRDB, ExecPayload, Execute
  <2>3. config.host # None
    BY <1>1, <2>2 DEF RoleInv, RoleLinked, Connected
  <2>4. role = "slave"
    BY <1>1, <2>2, <2>3, ProcFacts DEF RoleInv, Holders, Consistent, Matches
  <2>5. from' # Nobody /\ to[from'] = config.host
    BY <1>1, <2>2 DEF RoleInv, Reading, HasChannel
  <2> QED
    BY <2>4, <2>5
<1>2. RoleInv /\ [RoleNext]_roleVars => [executed' # executed => Good]_roleVars
  BY <1>1
<1> QED
  BY RoleInvariance, <1>2, PTL DEF RoleSpec, AppliedFromMaster

===============================================================================
