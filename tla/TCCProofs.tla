-------------------------------- MODULE TCCProofs --------------------------------
(* Theorems about the cluster transactions of TCC, for any number of nodes,   *)
(* commands, keys and time-outs.                                              *)
EXTENDS TCC, TLAPS

\* Every node of a command has answered its prepare with success.
AllPrepared(t) == \A m \in Parts(t) : call[t][m]["prepare"] = "ok"

\* The locks of a node: those of a prepared transaction are held, and no two
\* transactions that hold theirs have a key in common.
LockInv ==
    \A t \in Txs, n \in Nodes :
        /\ part[t][n].status = "prepared" => part[t][n].locked
        /\ \A u \in Txs \ {t} : part[t][n].locked /\ part[u][n].locked =>
               Group(t, n) \cap Group(u, n) = {}

\* The undo log of a node: it removes keys of the transaction, none before the
\* prepare, and while the locks are respected they are still missing.
UndoInv ==
    \A t \in Txs, n \in Nodes :
        /\ part[t][n].undo \subseteq Group(t, n)
        /\ part[t][n].writing \subseteq Group(t, n)
        /\ part[t][n].status = "created" => part[t][n].undo = {}
        /\ part[t][n].status = "committed" => part[t][n].executed
        /\ ~late /\ part[t][n].status = "prepared" /\ part[t][n].writing = {} =>
               \A k \in part[t][n].undo : data[k] = Nil

\* A commit is only sent, and served, when all nodes are prepared.
CommitInv ==
    \A t \in Txs :
        /\ coord[t].phase = "commit" => AllPrepared(t)
        /\ coord[t].phase = "prepare" => \A m \in Parts(t) :
               m \in coord[t].todo \/ m = coord[t].wait \/ call[t][m]["prepare"] = "ok"
        /\ \A n \in Nodes :
               /\ coord[t].phase \in {"idle", "prepare"} =>
                      /\ call[t][n]["commit"] = "none"
                      /\ ~part[t][n].executed /\ part[t][n].writing = {}
               /\ \/ call[t][n]["commit"] # "none" \/ part[t][n].executed
                  \/ part[t][n].writing # {}
                  => AllPrepared(t)

\* The answer of the coordinator follows the commits that came back.
AnswerInv ==
    \A t \in Txs :
        /\ coord[t].phase \in {"idle", "prepare", "commit"} => coord[t].answer = "none"
        /\ coord[t].phase = "rollback" => coord[t].answer = "error"
        /\ coord[t].answer = "ok" => coord[t].phase = "done"
        /\ \A n \in Nodes : call[t][n]["commit"] = "ok" => part[t][n].executed
        /\ coord[t].phase = "commit" => \A m \in Parts(t) :
               m \in coord[t].todo \/ m = coord[t].wait \/ part[t][m].executed

IInv == TypeOK /\ LockInv /\ UndoInv /\ CommitInv /\ AnswerInv /\ AckedExecuted

-------------------------------------------------------------------------------
\* The keys a node has of a command are keys, its nodes are nodes.
LEMMA GroupsAndParts ==
    \A t \in Txs : Parts(t) \subseteq Nodes /\ \A n \in Nodes : Group(t, n) \subseteq Keys
BY KeysOfAssumption, NodeOfAssumption DEF Parts, Group

\* The invariant holds before any command starts.
LEMMA InitIInv == Init => IInv
<1> SUFFICES ASSUME Init PROVE IInv
    OBVIOUS
<1> USE DEF Init, NoPart
<1>1. TypeOK
  BY DataAssumption DEF TypeOK, Part, Values, Requests
<1>2. LockInv /\ UndoInv
  BY DEF LockInv, UndoInv
<1>3. CommitInv /\ AnswerInv
  BY DEF CommitInv, AnswerInv, Requests
<1>4. AckedExecuted
  BY DEF AckedExecuted
<1> QED
  BY <1>1, <1>2, <1>3, <1>4 DEF IInv

-------------------------------------------------------------------------------
(* Steps of the nodes *)

\* A step of node n for command t: what the node keeps becomes p.
PartStep(t, n, p) == p \in Part /\ part' = [part EXCEPT ![t][n] = p]

\* It touches what that node keeps of that command only.
LEMMA PartFrame ==
    ASSUME TypeOK, NEW t \in Txs, NEW n \in Nodes, NEW p, PartStep(t, n, p)
    PROVE  /\ part' \in [Txs -> [Nodes -> Part]]
           /\ part'[t][n] = p
           /\ \A u \in Txs, m \in Nodes : u # t \/ m # n => part'[u][m] = part[u][m]
BY DEF TypeOK, PartStep

\* An answer touches one request of the coordinator only.
LEMMA CallFrame ==
    ASSUME TypeOK, NEW t \in Txs, NEW n \in Nodes, NEW r \in Requests,
           NEW answer \in {"none", "sent", "started", "ok", "error"}, Reply(t, n, r, answer)
    PROVE  /\ call' \in [Txs -> [Nodes -> [Requests -> {"none", "sent", "started", "ok", "error"}]]]
           /\ call'[t][n][r] = answer
           /\ \A u \in Txs, m \in Nodes, q \in Requests :
                  u # t \/ m # n \/ q # r => call'[u][m][q] = call[u][m][q]
BY DEF TypeOK, Reply

\* Locks stay exclusive when a transaction that becomes locked found its keys free.
LEMMA LockStep ==
    ASSUME TypeOK, LockInv, NEW t \in Txs, NEW n \in Nodes, NEW p, PartStep(t, n, p),
           p.status = "prepared" => p.locked,
           p.locked => part[t][n].locked \/ Free(t, n)
    PROVE  LockInv'
<1>1. /\ part'[t][n] = p
      /\ \A u \in Txs, m \in Nodes : u # t \/ m # n => part'[u][m] = part[u][m]
  BY PartFrame
<1> SUFFICES ASSUME NEW u \in Txs, NEW m \in Nodes
             PROVE  /\ part'[u][m].status = "prepared" => part'[u][m].locked
                    /\ \A v \in Txs \ {u} : part'[u][m].locked /\ part'[v][m].locked =>
                           Group(u, m) \cap Group(v, m) = {}
    BY DEF LockInv, Group
<1> QED
  BY <1>1 DEF LockInv, Free

\* The undo logs stay true when the step writes no key somebody else has locked
\* and treats its own undo log well.
LEMMA UndoStep ==
    ASSUME IInv, NEW t \in Txs, NEW n \in Nodes, NEW p, PartStep(t, n, p),
           late => late',
           p.undo \subseteq Group(t, n), p.writing \subseteq Group(t, n),
           p.status = "created" => p.undo = {},
           p.status = "committed" => p.executed,
           ~late' /\ p.status = "prepared" /\ p.writing = {} => \A k \in p.undo : data'[k] = Nil,
           ~late' => \A u \in Txs, m \in Nodes : part[u][m].locked /\ (u # t \/ m # n) =>
               \A k \in Group(u, m) : data'[k] = data[k] \/ data'[k] = Nil
    PROVE  UndoInv'
<1>1. /\ part'[t][n] = p
      /\ \A u \in Txs, m \in Nodes : u # t \/ m # n => part'[u][m] = part[u][m]
  BY PartFrame DEF IInv
<1>2. late \in BOOLEAN
  BY DEF IInv, TypeOK
<1> SUFFICES ASSUME NEW u \in Txs, NEW m \in Nodes
             PROVE  /\ part'[u][m].undo \subseteq Group(u, m)
                    /\ part'[u][m].writing \subseteq Group(u, m)
                    /\ part'[u][m].status = "created" => part'[u][m].undo = {}
                    /\ part'[u][m].status = "committed" => part'[u][m].executed
                    /\ ~late' /\ part'[u][m].status = "prepared" /\ part'[u][m].writing = {} =>
                           \A k \in part'[u][m].undo : data'[k] = Nil
    BY DEF UndoInv, Group
<1>3. CASE u = t /\ m = n
  BY <1>1, <1>3
<1>4. CASE u # t \/ m # n
  <2>1. part'[u][m] = part[u][m]
    BY <1>1, <1>4
  <2>2. ASSUME ~late', part[u][m].status = "prepared", part[u][m].writing = {},
               NEW k \in part[u][m].undo
        PROVE  data'[k] = Nil
    BY <2>2, <1>2, <1>4 DEF IInv, UndoInv, LockInv
  <2> QED
    BY <2>1, <2>2 DEF IInv, UndoInv
<1> QED
  BY <1>3, <1>4

\* The protocol is respected by a node that answers requests it has got,
\* executes on a commit only, and does not forget it.
LEMMA ProtocolStep ==
    ASSUME IInv, UNCHANGED coord,
           \A u \in Txs, m \in Nodes :
               /\ call[u][m]["prepare"] = "ok" => call'[u][m]["prepare"] = "ok"
               /\ call[u][m]["commit"] = "none" => call'[u][m]["commit"] = "none"
               /\ call'[u][m]["commit"] = "ok" => call[u][m]["commit"] = "ok" \/ part'[u][m].executed
               /\ part[u][m].executed => part'[u][m].executed
               /\ part'[u][m].executed \/ part'[u][m].writing # {} =>
                      \/ part[u][m].executed \/ part[u][m].writing # {}
                      \/ call[u][m]["commit"] # "none"
    PROVE  CommitInv' /\ AnswerInv' /\ AckedExecuted'
<1> USE GroupsAndParts DEF IInv
<1>1. ASSUME NEW u \in Txs, AllPrepared(u) PROVE AllPrepared(u)'
  BY <1>1 DEF AllPrepared, Parts
<1>2. CommitInv'
  <2>1. \A u \in Txs : coord[u].phase = "commit" => AllPrepared(u)'
    BY <1>1 DEF CommitInv
  <2>2. \A u \in Txs : coord[u].phase = "prepare" => \A m \in Parts(u) :
            m \in coord[u].todo \/ m = coord[u].wait \/ call'[u][m]["prepare"] = "ok"
    BY DEF CommitInv
  <2>3. \A u \in Txs, m \in Nodes : coord[u].phase \in {"idle", "prepare"} =>
            /\ call'[u][m]["commit"] = "none"
            /\ ~part'[u][m].executed /\ part'[u][m].writing = {}
    BY DEF CommitInv
  <2>4. \A u \in Txs, m \in Nodes :
            call'[u][m]["commit"] # "none" \/ part'[u][m].executed \/ part'[u][m].writing # {}
            => AllPrepared(u)'
    BY <1>1 DEF CommitInv
  <2> QED
    BY <2>1, <2>2, <2>3, <2>4 DEF CommitInv, Parts
<1>3. AnswerInv'
  BY DEF AnswerInv, Parts
<1>4. AckedExecuted'
  BY DEF AckedExecuted, Parts
<1> QED
  BY <1>2, <1>3, <1>4

\* A step that answers a request the node has got: a commit only when executed.
Answers(t, n, p) ==
    \E r \in Requests, answer \in {"started", "ok", "error"} :
        /\ Reply(t, n, r, answer)
        /\ call[t][n][r] \notin {"none", "ok"}
        /\ r = "commit" /\ answer = "ok" => p.executed

\* All of it: what a step of a node has to respect to keep the invariant.
LEMMA NodeStep ==
    ASSUME IInv, NEW t \in Txs, NEW n \in Nodes, NEW p, PartStep(t, n, p),
           UNCHANGED call \/ Answers(t, n, p),
           UNCHANGED <<coord, timeouts>>, data' \in [Keys -> Values],
           late' \in BOOLEAN, late => late',
           p.status = "prepared" => p.locked,
           p.locked => part[t][n].locked \/ Free(t, n),
           p.undo \subseteq Group(t, n), p.writing \subseteq Group(t, n),
           p.status = "created" => p.undo = {},
           p.status = "committed" => p.executed,
           ~late' /\ p.status = "prepared" /\ p.writing = {} => \A k \in p.undo : data'[k] = Nil,
           ~late' => \A u \in Txs, m \in Nodes : part[u][m].locked /\ (u # t \/ m # n) =>
               \A k \in Group(u, m) : data'[k] = data[k] \/ data'[k] = Nil,
           part[t][n].executed => p.executed,
           p.executed \/ p.writing # {} => \/ part[t][n].executed \/ part[t][n].writing # {}
                                           \/ call[t][n]["commit"] # "none"
    PROVE  IInv'
<1>0. TypeOK
  BY DEF IInv
<1>1. /\ part' \in [Txs -> [Nodes -> Part]]
      /\ part'[t][n] = p
      /\ \A u \in Txs, m \in Nodes : u # t \/ m # n => part'[u][m] = part[u][m]
  BY <1>0, PartFrame
<1>2. /\ call' \in [Txs -> [Nodes -> [Requests -> {"none", "sent", "started", "ok", "error"}]]]
      /\ \A u \in Txs, m \in Nodes :
             /\ call[u][m]["prepare"] = "ok" => call'[u][m]["prepare"] = "ok"
             /\ call[u][m]["commit"] = "none" => call'[u][m]["commit"] = "none"
             /\ call'[u][m]["commit"] = "ok" => call[u][m]["commit"] = "ok" \/ part'[u][m].executed
  <2>1. CASE UNCHANGED call
    <3>1. call' = call /\ call \in [Txs -> [Nodes -> [Requests ->
                                          {"none", "sent", "started", "ok", "error"}]]]
      BY <1>0, <2>1 DEF TypeOK
    <3> QED
      BY <3>1
  <2>2. CASE Answers(t, n, p)
    <3>1. PICK r \in Requests, answer \in {"started", "ok", "error"} :
              /\ Reply(t, n, r, answer)
              /\ call[t][n][r] \notin {"none", "ok"}
              /\ r = "commit" /\ answer = "ok" => p.executed
      BY <2>2 DEF Answers
    <3>2. /\ call' \in [Txs -> [Nodes -> [Requests -> {"none", "sent", "started", "ok", "error"}]]]
          /\ call'[t][n][r] = answer
          /\ \A u \in Txs, m \in Nodes, q \in Requests :
                 u # t \/ m # n \/ q # r => call'[u][m][q] = call[u][m][q]
      BY <1>0, <3>1, CallFrame
    <3>3. {"prepare", "commit"} \subseteq Requests
      BY DEF Requests
    <3> SUFFICES ASSUME NEW u \in Txs, NEW m \in Nodes
                 PROVE  /\ call[u][m]["prepare"] = "ok" => call'[u][m]["prepare"] = "ok"
                        /\ call[u][m]["commit"] = "none" => call'[u][m]["commit"] = "none"
                        /\ call'[u][m]["commit"] = "ok" =>
                               call[u][m]["commit"] = "ok" \/ part'[u][m].executed
      BY <3>2
    <3> QED
      BY <1>1, <3>1, <3>2, <3>3
  <2> QED
    BY <2>1, <2>2
<1>3. TypeOK'
  BY <1>0, <1>1, <1>2 DEF TypeOK
<1>4. LockInv'
  BY <1>0, LockStep DEF IInv
<1>5. UndoInv'
  BY UndoStep
<1>6. CommitInv' /\ AnswerInv' /\ AckedExecuted'
  <2>1. \A u \in Txs, m \in Nodes :
               /\ part[u][m].executed => part'[u][m].executed
               /\ part'[u][m].executed \/ part'[u][m].writing # {} =>
                      \/ part[u][m].executed \/ part[u][m].writing # {}
                      \/ call[u][m]["commit"] # "none"
    BY <1>1
  <2> QED
    BY ZenonT(60), <1>2, <2>1, ProtocolStep
<1> QED
  BY <1>3, <1>4, <1>5, <1>6 DEF IInv

\* What the node keeps of a command has the fields of Transaction.
LEMMA PartTyped == \A t \in Txs, n \in Nodes : TypeOK => part[t][n] \in Part
BY DEF TypeOK

\* A node that makes a transaction known keeps the invariant.
LEMMA PutStep ==
    ASSUME IInv, NEW t \in Txs, NEW n \in Nodes, Put(t, n)
    PROVE  IInv'
<1> DEFINE p == [part[t][n] EXCEPT !.known = TRUE]
<1>0. TypeOK /\ UndoInv /\ LockInv /\ part[t][n] \in Part
  BY PartTyped DEF IInv
<1>1. /\ p \in Part /\ p.status = part[t][n].status /\ p.locked = part[t][n].locked
      /\ p.undo = part[t][n].undo /\ p.writing = part[t][n].writing
      /\ p.executed = part[t][n].executed
  BY <1>0 DEF Part
<1>2. PartStep(t, n, p)
  BY <1>0, <1>1 DEF Put, PartStep, TypeOK
<1>3. Reply(t, n, "prepare", "started") /\ call[t][n]["prepare"] = "sent"
  BY DEF Put
<1>4. UNCHANGED <<data, coord, timeouts, late>>
  BY DEF Put
<1>5. data' \in [Keys -> Values] /\ late' \in BOOLEAN /\ Answers(t, n, p)
  BY <1>0, <1>3, <1>4 DEF TypeOK, Requests, Answers
<1>6. /\ p.status = "prepared" => p.locked
      /\ p.undo \subseteq Group(t, n) /\ p.writing \subseteq Group(t, n)
      /\ p.status = "created" => p.undo = {}
      /\ p.status = "committed" => p.executed
      /\ ~late' /\ p.status = "prepared" /\ p.writing = {} => \A k \in p.undo : data'[k] = Nil
  BY <1>0, <1>1, <1>4 DEF UndoInv, LockInv
<1> HIDE DEF p
<1> QED
  BY <1>1, <1>2, <1>3, <1>4, <1>5, <1>6, NodeStep

\* So does one that prepares, since it waits for its locks.
LEMMA PrepareStep ==
    ASSUME IInv, NEW t \in Txs, NEW n \in Nodes, Prepare(t, n)
    PROVE  IInv'
<1> DEFINE p == [part[t][n] EXCEPT !.locked = TRUE, !.undo = UndoLog(t, n),
                                   !.status = "prepared", !.timer = "armed"]
<1>0. TypeOK /\ UndoInv /\ part[t][n] \in Part
  BY PartTyped DEF IInv
<1>1. UndoLog(t, n) \subseteq Group(t, n) /\ \A k \in UndoLog(t, n) : data[k] = Nil
  BY DEF UndoLog
<1>2. /\ p \in Part /\ p.status = "prepared" /\ p.locked /\ p.undo = UndoLog(t, n)
      /\ p.writing = part[t][n].writing /\ p.executed = part[t][n].executed
  BY <1>0, <1>1, GroupsAndParts DEF Part
<1>3. PartStep(t, n, p)
  BY ZenonT(60), <1>0, <1>2 DEF Prepare, PartStep, TypeOK
<1>4. /\ \E answer \in {"ok", "error"} : Reply(t, n, "prepare", answer)
      /\ call[t][n]["prepare"] = "started" /\ Free(t, n)
  BY DEF Prepare
<1>5. UNCHANGED <<data, coord, timeouts, late>>
  BY DEF Prepare
<1>6. data' \in [Keys -> Values] /\ late' \in BOOLEAN /\ Answers(t, n, p)
  BY <1>0, <1>4, <1>5 DEF TypeOK, Requests, Answers
<1>7. /\ p.undo \subseteq Group(t, n) /\ p.writing \subseteq Group(t, n)
      /\ \A k \in p.undo : data'[k] = Nil
  BY <1>0, <1>1, <1>2, <1>5 DEF UndoInv
<1> HIDE DEF p
<1> QED
  BY <1>2, <1>3, <1>4, <1>5, <1>6, <1>7, NodeStep

\* A commit writes keys of its node only; while the locks are respected nobody
\* else has them locked.
LEMMA CommitWrites ==
    ASSUME IInv, NEW t \in Txs, NEW n \in Nodes, NEW k \in Group(t, n),
           data' = [data EXCEPT ![k] = t], late' = (late \/ ~part[t][n].locked)
    PROVE  /\ data' \in [Keys -> Values] /\ late' \in BOOLEAN /\ (late => late')
           /\ ~late' => \A u \in Txs, m \in Nodes : part[u][m].locked /\ (u # t \/ m # n) =>
                  \A j \in Group(u, m) : data'[j] = data[j] \/ data'[j] = Nil
<1>1. TypeOK /\ LockInv /\ k \in Keys
  BY GroupsAndParts DEF IInv
<1>2. data' \in [Keys -> Values] /\ late' \in BOOLEAN /\ (late => late')
  BY <1>1 DEF TypeOK, Values
<1>3. ASSUME ~late', NEW u \in Txs, NEW m \in Nodes, part[u][m].locked, u # t \/ m # n
      PROVE  k \notin Group(u, m)
  <2>1. CASE m # n
    BY <2>1 DEF Group
  <2>2. CASE m = n
    BY <1>1, <1>3, <2>2 DEF LockInv
  <2> QED
    BY <2>1, <2>2
<1>4. \A u \in Txs, m \in Nodes : \A j \in Group(u, m) : j # k => data'[j] = data[j]
  BY <1>1, GroupsAndParts DEF TypeOK
<1> QED
  BY <1>2, <1>3, <1>4

\* A commit keeps the invariant: also when it comes too late, which "late" records.
LEMMA CommitStep ==
    ASSUME IInv, NEW t \in Txs, NEW n \in Nodes, Commit(t, n)
    PROVE  IInv'
<1> DEFINE old == part[t][n]
           left == IF old.writing = {} THEN Group(t, n) ELSE old.writing
<1>0. TypeOK /\ UndoInv /\ LockInv /\ old \in Part
  BY PartTyped DEF IInv
<1>1. PICK k \in left :
          /\ data' = [data EXCEPT ![k] = t]
          /\ \/ /\ left # {k}
                /\ part' = [part EXCEPT ![t][n].writing = left \ {k}]
                /\ UNCHANGED call
             \/ /\ left = {k}
                /\ part' = [part EXCEPT ![t][n] = AfterCommit(@)]
                /\ Reply(t, n, "commit", "ok")
  BY DEF Commit
<1>2. left \subseteq Group(t, n)
  BY <1>0 DEF UndoInv
<1>3. /\ late' = (late \/ ~part[t][n].locked) /\ UNCHANGED <<coord, timeouts>>
      /\ call[t][n]["commit"] = "sent"
  BY DEF Commit
<1>4. /\ data' \in [Keys -> Values] /\ late' \in BOOLEAN /\ (late => late')
      /\ ~late' => \A u \in Txs, m \in Nodes : part[u][m].locked /\ (u # t \/ m # n) =>
             \A j \in Group(u, m) : data'[j] = data[j] \/ data'[j] = Nil
  BY ZenonT(60), <1>1, <1>2, <1>3, CommitWrites
<1>5. CASE left # {k}
  <2> DEFINE p == [old EXCEPT !.writing = left \ {k}]
  <2>1. /\ p \in Part /\ p.status = old.status /\ p.locked = old.locked /\ p.undo = old.undo
        /\ p.writing = left \ {k} /\ p.executed = old.executed
    BY <1>0, <1>2, GroupsAndParts DEF Part
  <2>2. PartStep(t, n, p) /\ UNCHANGED call
    BY <1>0, <1>1, <1>5, <2>1 DEF PartStep, TypeOK
  <2>3. p.writing # {} /\ p.writing \subseteq Group(t, n)
    BY <1>2, <1>5, <2>1
  <2>4. /\ p.status = "prepared" => p.locked
        /\ p.undo \subseteq Group(t, n)
        /\ p.status = "created" => p.undo = {}
        /\ p.status = "committed" => p.executed
    BY <1>0, <2>1 DEF UndoInv, LockInv
  <2> HIDE DEF p, left
  <2> QED
    BY <1>3, <1>4, <2>1, <2>2, <2>3, <2>4, NodeStep
<1>6. CASE left = {k}
  <2> DEFINE p == AfterCommit(old)
  <2>1. /\ p \in Part /\ p.status = "committed" /\ ~p.locked /\ p.undo = old.undo
        /\ p.writing = {} /\ p.executed
    BY <1>0 DEF Part, AfterCommit
  <2>2. PartStep(t, n, p) /\ Answers(t, n, p)
    BY <1>0, <1>1, <1>3, <1>6, <2>1 DEF PartStep, TypeOK, Requests, Answers
  <2>3. p.undo \subseteq Group(t, n) /\ p.writing \subseteq Group(t, n)
    BY <1>0, <2>1 DEF UndoInv
  <2> HIDE DEF p, left
  <2> QED
    BY <1>3, <1>4, <2>1, <2>2, <2>3, NodeStep
<1> QED
  BY <1>5, <1>6

\* The undo log only removes keys.
LEMMA RollbackWrites ==
    ASSUME IInv, NEW t \in Txs, NEW n \in Nodes, Rollback(t, n)
    PROVE  /\ data' \in [Keys -> Values]
           /\ \A j \in Keys : data'[j] = data[j] \/ data'[j] = Nil
<1> TypeOK
  BY DEF IInv
<1> QED
  BY DEF TypeOK, Rollback, Values

\* execRollback keeps the invariant ...
LEMMA ServeRollbackStep ==
    ASSUME IInv, NEW t \in Txs, NEW n \in Nodes, ServeRollback(t, n)
    PROVE  IInv'
<1> DEFINE p == [part[t][n] EXCEPT !.status = "rolledBack", !.locked = FALSE, !.clean = TRUE]
<1>0. TypeOK /\ UndoInv /\ part[t][n] \in Part
  BY PartTyped DEF IInv
<1>1. /\ p \in Part /\ p.status = "rolledBack" /\ ~p.locked /\ p.undo = part[t][n].undo
      /\ p.writing = part[t][n].writing /\ p.executed = part[t][n].executed
  BY <1>0 DEF Part
<1>2. PartStep(t, n, p)
  BY <1>0, <1>1 DEF ServeRollback, PartStep, TypeOK
<1>3. /\ Reply(t, n, "rollback", "ok") /\ call[t][n]["rollback"] = "sent"
      /\ UNCHANGED <<coord, timeouts, late>>
  BY DEF ServeRollback
<1>4. data' \in [Keys -> Values] /\ \A j \in Keys : data'[j] = data[j] \/ data'[j] = Nil
  BY RollbackWrites DEF ServeRollback
<1>5. late' \in BOOLEAN /\ Answers(t, n, p)
  BY <1>0, <1>3 DEF TypeOK, Requests, Answers
<1>6. p.undo \subseteq Group(t, n) /\ p.writing \subseteq Group(t, n)
  BY <1>0, <1>1 DEF UndoInv
<1> HIDE DEF p
<1> QED
  BY <1>1, <1>2, <1>3, <1>4, <1>5, <1>6, NodeStep, GroupsAndParts

\* ... as does its answer for a transaction the node does not have ...
LEMMA IgnoreRollbackStep ==
    ASSUME IInv, NEW t \in Txs, NEW n \in Nodes, IgnoreRollback(t, n)
    PROVE  IInv'
<1> DEFINE p == part[t][n]
<1>0. TypeOK /\ UndoInv /\ LockInv /\ p \in Part
  BY PartTyped DEF IInv
<1>1. PartStep(t, n, p)
  BY <1>0 DEF IgnoreRollback, PartStep, TypeOK
<1>2. /\ Reply(t, n, "rollback", "ok") /\ call[t][n]["rollback"] = "sent"
      /\ UNCHANGED <<data, coord, timeouts, late>>
  BY DEF IgnoreRollback
<1>3. data' \in [Keys -> Values] /\ late' \in BOOLEAN /\ Answers(t, n, p)
  BY <1>0, <1>2 DEF TypeOK, Requests, Answers
<1>4. /\ p.status = "prepared" => p.locked
      /\ p.undo \subseteq Group(t, n) /\ p.writing \subseteq Group(t, n)
      /\ p.status = "created" => p.undo = {}
      /\ p.status = "committed" => p.executed
      /\ ~late' /\ p.status = "prepared" /\ p.writing = {} => \A k \in p.undo : data'[k] = Nil
  BY <1>0, <1>2 DEF UndoInv, LockInv
<1> QED
  BY <1>1, <1>2, <1>3, <1>4, NodeStep

\* ... and the two halves of the timer's job.
LEMMA TimerFiresStep ==
    ASSUME IInv, NEW t \in Txs, NEW n \in Nodes, TimerFires(t, n)
    PROVE  IInv'
<1> DEFINE p == [part[t][n] EXCEPT !.timer = "fired"]
<1>0. TypeOK /\ UndoInv /\ LockInv /\ part[t][n] \in Part
  BY PartTyped DEF IInv
<1>1. /\ p \in Part /\ p.status = part[t][n].status /\ p.locked = part[t][n].locked
      /\ p.undo = part[t][n].undo /\ p.writing = part[t][n].writing
      /\ p.executed = part[t][n].executed
  BY <1>0 DEF Part
<1>2. PartStep(t, n, p)
  BY <1>0, <1>1 DEF TimerFires, PartStep, TypeOK
<1>3. UNCHANGED <<data, call, coord, timeouts, late>>
  BY DEF TimerFires
<1>4. data' \in [Keys -> Values] /\ late' \in BOOLEAN
  BY <1>0, <1>3 DEF TypeOK
<1>5. /\ p.status = "prepared" => p.locked
      /\ p.undo \subseteq Group(t, n) /\ p.writing \subseteq Group(t, n)
      /\ p.status = "created" => p.undo = {}
      /\ p.status = "committed" => p.executed
      /\ ~late' /\ p.status = "prepared" /\ p.writing = {} => \A k \in p.undo : data'[k] = Nil
  BY <1>0, <1>1, <1>3 DEF UndoInv, LockInv
<1> HIDE DEF p
<1> QED
  BY <1>1, <1>2, <1>3, <1>4, <1>5, NodeStep

\* The second half, under tx.mu.
LEMMA TimerRollbackStep ==
    ASSUME IInv, NEW t \in Txs, NEW n \in Nodes, TimerRollback(t, n)
    PROVE  IInv'
<1> DEFINE p == [part[t][n] EXCEPT !.status = "rolledBack", !.locked = FALSE, !.timer = "none"]
<1>0. TypeOK /\ UndoInv /\ part[t][n] \in Part
  BY PartTyped DEF IInv
<1>1. /\ p \in Part /\ p.status = "rolledBack" /\ ~p.locked /\ p.undo = part[t][n].undo
      /\ p.writing = part[t][n].writing /\ p.executed = part[t][n].executed
  BY <1>0 DEF Part
<1>2. PartStep(t, n, p)
  BY <1>0, <1>1 DEF TimerRollback, PartStep, TypeOK
<1>3. UNCHANGED <<call, coord, timeouts, late>>
  BY DEF TimerRollback
<1>4. data' \in [Keys -> Values] /\ \A j \in Keys : data'[j] = data[j] \/ data'[j] = Nil
  BY RollbackWrites DEF TimerRollback
<1>5. late' \in BOOLEAN
  BY <1>0, <1>3 DEF TypeOK
<1>6. p.undo \subseteq Group(t, n) /\ p.writing \subseteq Group(t, n)
  BY <1>0, <1>1 DEF UndoInv
<1> HIDE DEF p
<1> QED
  BY <1>1, <1>2, <1>3, <1>4, <1>5, <1>6, NodeStep, GroupsAndParts

-------------------------------------------------------------------------------
(* Steps of the coordinators *)

Coordinator == [phase : {"idle", "done"} \cup Requests, todo : SUBSET Nodes,
                wait : Nodes \cup {NoNode}, answer : {"none", "ok", "error"}]

\* What a coordinator has to respect when it goes to cs and turns to a node of
\* cs.todo: it commits only what is prepared everywhere and skips no node.
Respects(t, cs) ==
    /\ cs \in Coordinator
    /\ cs.todo # {} => cs.phase \in Requests
    /\ cs.phase \in {"idle", "prepare"} => coord[t].phase \in {"idle", "prepare"}
    /\ cs.phase = "prepare" => \A m \in Parts(t) : m \in cs.todo \/ call[t][m]["prepare"] = "ok"
    /\ cs.phase = "commit" => /\ AllPrepared(t)
                              /\ \A m \in Parts(t) : m \in cs.todo \/ part[t][m].executed
    /\ cs.phase \in {"idle", "prepare", "commit"} => cs.answer = "none"
    /\ cs.phase = "rollback" => cs.answer = "error"
    /\ cs.answer = "ok" => cs.phase = "done" /\ \A m \in Parts(t) : part[t][m].executed

\* A coordinator that is done for now.
LEMMA RestStep ==
    ASSUME IInv, NEW t \in Txs, NEW cs, Respects(t, cs), cs.todo = {},
           coord' = [coord EXCEPT ![t] = cs], UNCHANGED <<data, part, call, late>>,
           timeouts' \in Nat
    PROVE  IInv'
<1>0. /\ TypeOK /\ coord'[t] = cs
      /\ \A u \in Txs : u # t => coord'[u] = coord[u]
  BY DEF IInv, TypeOK
<1>1. TypeOK'
  BY <1>0 DEF TypeOK, Respects, Coordinator
<1>2. LockInv' /\ UndoInv'
  BY DEF IInv, LockInv, UndoInv, Group
<1>3. \A u \in Txs : AllPrepared(u)' = AllPrepared(u)
  BY DEF AllPrepared, Parts
<1>4. CommitInv'
  BY <1>0, <1>3 DEF IInv, CommitInv, Respects, Parts
<1>5. AnswerInv' /\ AckedExecuted'
  BY <1>0 DEF IInv, AnswerInv, AckedExecuted, Respects, Parts
<1> QED
  BY <1>1, <1>2, <1>4, <1>5 DEF IInv

\* A coordinator that sends its next request.
LEMMA SendStep ==
    ASSUME IInv, NEW t \in Txs, NEW cs, Respects(t, cs), NEW n \in cs.todo,
           coord' = [coord EXCEPT ![t] = [cs EXCEPT !.wait = n, !.todo = @ \ {n}]],
           Reply(t, n, cs.phase, "sent"), UNCHANGED <<data, part, late>>,
           timeouts' \in Nat
    PROVE  IInv'
<1> DEFINE next == [cs EXCEPT !.wait = n, !.todo = @ \ {n}]
<1>0. TypeOK /\ cs \in Coordinator /\ n \in Nodes /\ cs.phase \in Requests
  BY DEF IInv, Respects, Coordinator
<1>1. /\ next \in Coordinator /\ next.phase = cs.phase /\ next.answer = cs.answer
      /\ next.wait = n /\ next.todo = cs.todo \ {n}
  BY <1>0 DEF Coordinator
<1>2. /\ coord'[t] = next
      /\ \A u \in Txs : u # t => coord'[u] = coord[u]
      /\ coord' \in [Txs -> Coordinator]
  BY <1>0, <1>1 DEF TypeOK, Coordinator
<1> HIDE DEF next
<1>3. /\ call' \in [Txs -> [Nodes -> [Requests -> {"none", "sent", "started", "ok", "error"}]]]
      /\ call'[t][n][cs.phase] = "sent"
      /\ \A u \in Txs, m \in Nodes, q \in Requests :
             u # t \/ m # n \/ q # cs.phase => call'[u][m][q] = call[u][m][q]
  BY <1>0, CallFrame
<1>4. TypeOK'
  BY <1>0, <1>2, <1>3 DEF TypeOK, Coordinator
<1>5. LockInv' /\ UndoInv'
  BY DEF IInv, LockInv, UndoInv, Group
<1>6. \A u \in Txs, m \in Nodes :
          /\ u # t \/ m # n \/ cs.phase # "prepare" =>
                 call'[u][m]["prepare"] = call[u][m]["prepare"]
          /\ u # t \/ m # n \/ cs.phase # "commit" =>
                 call'[u][m]["commit"] = call[u][m]["commit"]
  BY <1>3 DEF Requests
<1>7. ASSUME NEW u \in Txs, u # t \/ cs.phase # "prepare", AllPrepared(u)
      PROVE  AllPrepared(u)'
  <2>1. Parts(u) \subseteq Nodes /\ Parts(u)' = Parts(u)
    BY GroupsAndParts DEF Parts
  <2> QED
    BY <1>6, <1>7, <2>1 DEF AllPrepared
<1>8. CommitInv'
  <2> SUFFICES ASSUME NEW u \in Txs
               PROVE  /\ coord'[u].phase = "commit" => AllPrepared(u)'
                      /\ coord'[u].phase = "prepare" => \A m \in Parts(u) :
                             \/ m \in coord'[u].todo \/ m = coord'[u].wait
                             \/ call'[u][m]["prepare"] = "ok"
                      /\ \A m \in Nodes :
                             /\ coord'[u].phase \in {"idle", "prepare"} =>
                                    /\ call'[u][m]["commit"] = "none"
                                    /\ ~part'[u][m].executed /\ part'[u][m].writing = {}
                             /\ \/ call'[u][m]["commit"] # "none" \/ part'[u][m].executed
                                \/ part'[u][m].writing # {}
                                => AllPrepared(u)'
      BY DEF CommitInv, Parts
  <2>1. CASE u # t
    <3>1. coord'[u] = coord[u] /\ part' = part /\ (AllPrepared(u) => AllPrepared(u)')
      BY <1>2, <1>7, <2>1
    <3>2. Parts(u) \subseteq Nodes /\ \A m \in Nodes :
              /\ call'[u][m]["prepare"] = call[u][m]["prepare"]
              /\ call'[u][m]["commit"] = call[u][m]["commit"]
      BY <1>6, <2>1, GroupsAndParts
    <3>3. CommitInv
      BY DEF IInv
    <3>4. coord'[u].phase = "commit" => AllPrepared(u)'
      BY <3>1, <3>3 DEF CommitInv
    <3>5. ASSUME coord'[u].phase = "prepare", NEW m \in Parts(u)
          PROVE  \/ m \in coord'[u].todo \/ m = coord'[u].wait
                 \/ call'[u][m]["prepare"] = "ok"
      <4>1. \/ m \in coord[u].todo \/ m = coord[u].wait \/ call[u][m]["prepare"] = "ok"
        BY <3>1, <3>3, <3>5 DEF CommitInv
      <4> QED
        BY <3>1, <3>2, <4>1
    <3>6. ASSUME NEW m \in Nodes, coord'[u].phase \in {"idle", "prepare"}
          PROVE  /\ call'[u][m]["commit"] = "none"
                 /\ ~part'[u][m].executed /\ part'[u][m].writing = {}
      BY <3>1, <3>2, <3>3, <3>6 DEF CommitInv
    <3>7. ASSUME NEW m \in Nodes, \/ call'[u][m]["commit"] # "none" \/ part'[u][m].executed
                                  \/ part'[u][m].writing # {}
          PROVE  AllPrepared(u)'
      BY <3>1, <3>2, <3>3, <3>7 DEF CommitInv
    <3> QED
      BY <3>4, <3>5, <3>6, <3>7
  <2>2. CASE u = t
    <3>1. coord'[t].phase = "commit" => AllPrepared(t)'
      BY <1>1, <1>2, <1>7 DEF Respects
    <3>2. coord'[t].phase = "prepare" => \A m \in Parts(t) :
              \/ m \in coord'[t].todo \/ m = coord'[t].wait \/ call'[t][m]["prepare"] = "ok"
      <4>1. ASSUME cs.phase = "prepare", NEW m \in Parts(t), m # n, m \notin cs.todo
            PROVE  call'[t][m]["prepare"] = "ok"
        BY <1>6, <4>1, GroupsAndParts DEF Respects
      <4> QED
        BY <1>1, <1>2, <4>1
    <3>3. coord'[t].phase \in {"idle", "prepare"} => \A m \in Nodes :
              /\ call'[t][m]["commit"] = "none"
              /\ ~part'[t][m].executed /\ part'[t][m].writing = {}
      <4>1. ASSUME cs.phase \in {"idle", "prepare"}, NEW m \in Nodes
            PROVE  /\ call'[t][m]["commit"] = "none"
                   /\ ~part'[t][m].executed /\ part'[t][m].writing = {}
        <5>1. coord[t].phase \in {"idle", "prepare"}
          BY <4>1 DEF Respects
        <5>2. call'[t][m]["commit"] = call[t][m]["commit"] /\ part' = part
          BY <1>6, <4>1
        <5> QED
          BY <5>1, <5>2 DEF IInv, CommitInv
      <4> QED
        BY <1>1, <1>2, <4>1
    <3>4. \A m \in Nodes : \/ call'[t][m]["commit"] # "none" \/ part'[t][m].executed
                           \/ part'[t][m].writing # {}
              => AllPrepared(t)'
      <4>1. CASE cs.phase = "prepare"
        BY <1>1, <1>2, <3>3, <4>1
      <4>2. CASE cs.phase # "prepare"
        <5>1. ASSUME NEW m \in Nodes, call'[t][m]["commit"] # "none" \/ part'[t][m].executed
                                       \/ part'[t][m].writing # {}
              PROVE  AllPrepared(t)
          <6>1. CASE cs.phase = "commit"
            BY <6>1 DEF Respects
          <6>2. CASE cs.phase # "commit"
            <7>1. call'[t][m]["commit"] = call[t][m]["commit"] /\ part' = part
              BY <1>6, <6>2
            <7> QED
              BY <5>1, <7>1 DEF IInv, CommitInv
          <6> QED
            BY <6>1, <6>2
        <5> QED
          BY <1>7, <4>2, <5>1
      <4> QED
        BY <4>1, <4>2
    <3> QED
      BY <2>2, <3>1, <3>2, <3>3, <3>4
  <2> QED
    BY <2>1, <2>2
<1>9. AnswerInv' /\ AckedExecuted'
  <2>1. \A u \in Txs, m \in Nodes : call'[u][m]["commit"] = "ok" => call[u][m]["commit"] = "ok"
    <3> SUFFICES ASSUME NEW u \in Txs, NEW m \in Nodes
                 PROVE  call'[u][m]["commit"] = "ok" => call[u][m]["commit"] = "ok"
      OBVIOUS
    <3>1. CASE u = t /\ m = n /\ cs.phase = "commit"
      BY <1>3, <3>1
    <3>2. CASE ~(u = t /\ m = n /\ cs.phase = "commit")
      BY <1>6, <3>2
    <3> QED
      BY <3>1, <3>2
  <2>2. ASSUME NEW u \in Txs
        PROVE  /\ coord'[u].phase \in {"idle", "prepare", "commit"} => coord'[u].answer = "none"
               /\ coord'[u].phase = "rollback" => coord'[u].answer = "error"
               /\ coord'[u].answer = "ok" => coord'[u].phase = "done"
               /\ coord'[u].phase = "commit" => \A m \in Parts(u) :
                      m \in coord'[u].todo \/ m = coord'[u].wait \/ part[u][m].executed
               /\ coord'[u].answer = "ok" => \A m \in Parts(u) : part[u][m].executed
    <3>1. CASE u = t
      BY <1>1, <1>2, <3>1 DEF Respects
    <3>2. CASE u # t
      BY <1>2, <3>2 DEF IInv, AnswerInv, AckedExecuted
    <3> QED
      BY <3>1, <3>2
  <2> QED
    BY <2>1, <2>2 DEF IInv, AnswerInv, AckedExecuted, Parts
<1> QED
  BY <1>4, <1>5, <1>8, <1>9 DEF IInv

\* Advance is one or the other.
LEMMA AdvanceStep ==
    ASSUME IInv, NEW t \in Txs, NEW cs, Respects(t, cs), Advance(t, cs),
           UNCHANGED <<data, part, late>>, timeouts' \in Nat
    PROVE  IInv'
<1>1. CASE cs.todo = {} /\ coord' = [coord EXCEPT ![t] = cs] /\ UNCHANGED call
  BY <1>1, RestStep
<1>2. ASSUME NEW n \in cs.todo,
             coord' = [coord EXCEPT ![t] = [cs EXCEPT !.wait = n, !.todo = @ \ {n}]],
             Reply(t, n, cs.phase, "sent")
      PROVE  IInv'
  BY <1>2, SendStep
<1> QED
  BY <1>1, <1>2 DEF Advance

\* Where a coordinator goes after a request that went well respects the protocol ...
LEMMA OnOkRespects ==
    ASSUME IInv, NEW t \in Txs, NEW n \in Nodes,
           Waiting(t, n, {"ok"}) \/ coord[t].phase = "rollback"
    PROVE  Respects(t, OnOk(t))
<1> DEFINE cs == coord[t]
<1>0. /\ cs \in Coordinator /\ TypeOK
      /\ "prepare" \in Requests /\ "commit" \in Requests /\ "rollback" \in Requests
  BY DEF IInv, TypeOK, Coordinator, Requests
<1>1. /\ Parts(t) \subseteq Nodes
      /\ cs.todo # {} => OnOk(t) = cs
      /\ cs.todo = {} /\ cs.phase = "prepare" =>
             OnOk(t) = [cs EXCEPT !.phase = "commit", !.todo = Parts(t)]
      /\ cs.todo = {} /\ cs.phase = "commit" => OnOk(t) = [Done(cs) EXCEPT !.answer = "ok"]
      /\ cs.todo = {} /\ cs.phase = "rollback" => OnOk(t) = Done(cs)
  BY GroupsAndParts DEF OnOk
<1>2. CASE cs.phase = "prepare"
  <2>1. cs.wait = n /\ call[t][n]["prepare"] = "ok"
    BY <1>2 DEF Waiting
  <2>2. cs.answer = "none" /\ \A m \in Parts(t) : m \in cs.todo \/ call[t][m]["prepare"] = "ok"
    BY <1>2, <2>1 DEF IInv, CommitInv, AnswerInv
  <2>3. CASE cs.todo # {}
    <3>1. OnOk(t) = cs
      BY <1>1, <2>3
    <3>2. Respects(t, cs)
      BY <1>0, <1>2, <2>2 DEF Respects
    <3> QED
      BY <3>1, <3>2
  <2>4. CASE cs.todo = {}
    <3>1. AllPrepared(t)
      BY <2>2, <2>4 DEF AllPrepared
    <3> DEFINE new == [cs EXCEPT !.phase = "commit", !.todo = Parts(t)]
    <3>2. /\ OnOk(t) = new /\ new \in Coordinator /\ new.phase = "commit"
          /\ new.todo = Parts(t) /\ new.answer = "none"
      BY <1>0, <1>1, <1>2, <2>2, <2>4 DEF Coordinator
    <3> QED
      BY <1>0, <3>1, <3>2 DEF Respects
  <2> QED
    BY <2>3, <2>4
<1>3. CASE cs.phase = "commit"
  <2>1. cs.wait = n /\ call[t][n]["commit"] = "ok"
    BY <1>3 DEF Waiting
  <2>2. /\ cs.answer = "none" /\ AllPrepared(t)
        /\ \A m \in Parts(t) : m \in cs.todo \/ part[t][m].executed
    BY <1>3, <2>1 DEF IInv, CommitInv, AnswerInv
  <2>3. CASE cs.todo # {}
    <3>1. OnOk(t) = cs
      BY <1>1, <2>3
    <3>2. Respects(t, cs)
      BY <1>0, <1>3, <2>2 DEF Respects
    <3> QED
      BY <3>1, <3>2
  <2>4. CASE cs.todo = {}
    <3> DEFINE new == [Done(cs) EXCEPT !.answer = "ok"]
    <3>1. /\ OnOk(t) = new /\ new \in Coordinator /\ new.phase = "done"
          /\ new.todo = {} /\ new.answer = "ok"
      BY <1>0, <1>1, <1>3, <2>4 DEF Coordinator, Done
    <3> QED
      BY <2>2, <2>4, <3>1 DEF Respects
  <2> QED
    BY <2>3, <2>4
<1>4. CASE cs.phase = "rollback"
  <2>1. cs.answer = "error"
    BY <1>4 DEF IInv, AnswerInv
  <2>2. CASE cs.todo # {}
    BY <1>0, <1>1, <1>4, <2>1, <2>2 DEF Respects
  <2>3. CASE cs.todo = {}
    <3>1. /\ OnOk(t) = Done(cs) /\ Done(cs) \in Coordinator /\ Done(cs).phase = "done"
          /\ Done(cs).todo = {} /\ Done(cs).answer = "error"
      BY <1>0, <1>1, <1>4, <2>1, <2>3 DEF Coordinator, Done
    <3> QED
      BY <3>1 DEF Respects
  <2> QED
    BY <2>2, <2>3
<1> QED
  BY <1>2, <1>3, <1>4 DEF Waiting, Requests

\* ... and so does rolling back.
LEMMA OnErrorRespects ==
    ASSUME IInv, NEW t \in Txs, NEW n \in Nodes
    PROVE  Respects(t, OnError(t))
<1>1. CASE coord[t].phase = "rollback"
  BY <1>1, OnOkRespects DEF OnError
<1>2. CASE coord[t].phase # "rollback"
  <2>1. coord[t] \in Coordinator /\ Parts(t) \subseteq Nodes /\ "rollback" \in Requests
    BY GroupsAndParts DEF IInv, TypeOK, Coordinator, Requests
  <2>2. /\ OnError(t) = RollingBack(t) /\ RollingBack(t) \in Coordinator
        /\ RollingBack(t).phase = "rollback" /\ RollingBack(t).answer = "error"
    BY <1>2, <2>1 DEF OnError, RollingBack, Coordinator
  <2> QED
    BY <2>1, <2>2 DEF Respects
<1> QED
  BY <1>1, <1>2

\* MSet starts with nothing sent.
LEMMA StartStep ==
    ASSUME IInv, NEW t \in Txs, Start(t)
    PROVE  IInv'
<1> DEFINE cs == [coord[t] EXCEPT !.phase = "prepare", !.todo = Parts(t)]
<1>1. coord[t] \in Coordinator /\ Parts(t) \subseteq Nodes /\ "prepare" \in Requests
  BY GroupsAndParts DEF IInv, TypeOK, Coordinator, Requests
<1>2. coord[t].phase = "idle" /\ Advance(t, cs) /\ UNCHANGED <<data, part, timeouts, late>>
  BY DEF Start
<1>3. /\ cs \in Coordinator /\ cs.phase = "prepare" /\ cs.todo = Parts(t)
      /\ cs.answer = coord[t].answer
  BY <1>1 DEF Coordinator
<1>4. timeouts' \in Nat /\ coord[t].answer = "none"
  BY <1>2 DEF IInv, TypeOK, AnswerInv
<1> HIDE DEF cs
<1>5. Respects(t, cs)
  BY <1>1, <1>2, <1>3, <1>4 DEF Respects
<1> QED
  BY <1>2, <1>4, <1>5, AdvanceStep

\* An answer moves the coordinator on.
LEMMA ReceiveStep ==
    ASSUME IInv, NEW t \in Txs, NEW n \in Nodes, Receive(t, n)
    PROVE  IInv'
<1>1. UNCHANGED <<data, part, timeouts, late>> /\ timeouts' \in Nat
  BY DEF Receive, IInv, TypeOK
<1>2. CASE Waiting(t, n, {"ok"})
  BY <1>1, <1>2, OnOkRespects, AdvanceStep DEF Receive
<1>3. CASE ~Waiting(t, n, {"ok"})
  BY <1>1, <1>3, OnErrorRespects, AdvanceStep DEF Receive
<1> QED
  BY <1>2, <1>3

\* A time-out makes it roll back.
LEMMA TimeOutStep ==
    ASSUME IInv, NEW t \in Txs, NEW n \in Nodes, TimeOut(t, n)
    PROVE  IInv'
<1>1. UNCHANGED <<data, part, late>> /\ timeouts' \in Nat /\ Advance(t, OnError(t))
  BY DEF TimeOut, IInv, TypeOK
<1> QED
  BY <1>1, OnErrorRespects, AdvanceStep

-------------------------------------------------------------------------------
(* The theorems *)

\* Every step of the specification preserves the invariant.
LEMMA NextIInv == IInv /\ [Next]_vars => IInv'
<1> SUFFICES ASSUME IInv, [Next]_vars PROVE IInv'
    OBVIOUS
<1>1. ASSUME NEW t \in Txs, Start(t) PROVE IInv'
  BY <1>1, StartStep
<1>2. ASSUME NEW t \in Txs, NEW n \in Nodes, Serve(t, n) PROVE IInv'
  BY <1>2, PutStep, PrepareStep, CommitStep, ServeRollbackStep, IgnoreRollbackStep DEF Serve
<1>3. ASSUME NEW t \in Txs, NEW n \in Nodes, Timer(t, n) PROVE IInv'
  BY <1>3, TimerFiresStep, TimerRollbackStep DEF Timer
<1>4. ASSUME NEW t \in Txs, NEW n \in Nodes, Coordinate(t, n) PROVE IInv'
  BY <1>4, ReceiveStep, TimeOutStep DEF Coordinate
<1>5. CASE UNCHANGED vars
  <2> USE <1>5 DEF vars
  <2>1. TypeOK'
    BY DEF IInv, TypeOK
  <2>2. LockInv' /\ UndoInv'
    BY DEF IInv, LockInv, UndoInv, Group
  <2>3. CommitInv' /\ AnswerInv' /\ AckedExecuted'
    BY DEF IInv, CommitInv, AllPrepared, AnswerInv, AckedExecuted, Parts
  <2> QED
    BY <2>1, <2>2, <2>3 DEF IInv
<1> QED
  BY <1>1, <1>2, <1>3, <1>4, <1>5 DEF Next

\* The strengthened invariant holds in every reachable state.
THEOREM InvariantHolds == Spec => []IInv
BY InitIInv, NextIInv, PTL DEF Spec

\* The variables keep their types.
THEOREM TypeCorrect == Spec => []TypeOK
<1>1. IInv => TypeOK
  BY DEF IInv
<1> QED
  BY <1>1, InvariantHolds, PTL

\* Prepared transactions of a node hold their locks and share no key, however
\* prepares, commits, rollbacks, timers and time-outs interleave.
THEOREM PreparedAreExclusive == Spec => []PreparedExclusive
<1>1. IInv => PreparedExclusive
  BY DEF IInv, LockInv, PreparedExclusive
<1> QED
  BY <1>1, InvariantHolds, PTL

\* Nothing is executed anywhere before every node of the command is prepared.
THEOREM CommitsNeedAll == Spec => []CommitNeedsAll
<1>1. IInv => CommitNeedsAll
  BY DEF IInv, CommitInv, CommitNeedsAll, AllPrepared
<1> QED
  BY <1>1, InvariantHolds, PTL

\* A command the client is told to have succeeded is executed on all its nodes.
THEOREM AcknowledgedAreExecuted == Spec => []AckedExecuted
<1>1. IInv => AckedExecuted
  BY DEF IInv
<1> QED
  BY <1>1, InvariantHolds, PTL

\* A step of the coordinator leaves the data and the nodes alone.
LEMMA CoordinatorsWriteNothing ==
    \A t \in Txs, n \in Nodes : Start(t) \/ Coordinate(t, n) => UNCHANGED <<data, part>>
BY DEF Start, Coordinate, Receive, TimeOut

\* A node writes keys of the transaction it serves, and keys nobody else has
\* locked unless it commits late.
LEMMA NodeWrites ==
    ASSUME IInv, NEW t \in Txs, NEW n \in Nodes, Serve(t, n) \/ Timer(t, n), ~late',
           NEW u \in Txs, NEW m \in Nodes, part[u][m].locked, u # t \/ m # n,
           NEW k \in Group(u, m)
    PROVE  data'[k] = data[k]
<1>0. TypeOK /\ LockInv /\ UndoInv /\ k \in Keys
  BY GroupsAndParts DEF IInv
<1>1. ASSUME Commit(t, n)
      PROVE  data'[k] = data[k]
  <2>1. PICK j \in Group(t, n) : data' = [data EXCEPT ![j] = t] /\ part[t][n].locked
    BY <1>0, <1>1 DEF Commit, UndoInv, TypeOK
  <2>2. j # k
    BY <1>0, <2>1 DEF LockInv, Group
  <2> QED
    BY <1>0, <2>1, <2>2 DEF TypeOK
<1>2. ASSUME Rollback(t, n)
      PROVE  data'[k] = data[k]
  <2>1. CASE k \in part[t][n].undo
    <3>1. m = n /\ u # t /\ k \in Group(t, n)
      BY <1>0, <2>1 DEF UndoInv, Group
    <3>2. part[t][n].status \notin {"created", "prepared", "committed"}
      BY <1>0, <1>2, <2>1, <3>1 DEF LockInv, UndoInv, Rollback, Free
    <3>3. part[t][n].status = "rolledBack"
      BY <1>0, <3>2 DEF TypeOK, Part
    <3> QED
      BY <1>2, <3>3 DEF Rollback
  <2>2. CASE k \notin part[t][n].undo
    BY <1>0, <1>2, <2>2 DEF Rollback
  <2> QED
    BY <2>1, <2>2
<1> QED
  BY <1>1, <1>2 DEF Serve, Timer, Put, Prepare, ServeRollback, IgnoreRollback,
                    TimerFires, TimerRollback

\* Between the undo log of a node and its commit or rollback nobody else
\* changes the keys of the transaction.
THEOREM TransactionsAreIsolated == Spec => Isolation
<1>1. IInv /\ [Next]_vars =>
          [~late' => \A t \in Txs, n \in Nodes :
              part[t][n].locked /\ part'[t][n] = part[t][n] =>
                  \A k \in Group(t, n) : data'[k] = data[k]]_vars
  <2> SUFFICES ASSUME IInv, Next, ~late', NEW u \in Txs, NEW m \in Nodes,
                      part[u][m].locked, part'[u][m] = part[u][m], NEW k \in Group(u, m)
               PROVE  data'[k] = data[k]
    BY DEF vars
  <2>1. ASSUME NEW t \in Txs, NEW n \in Nodes, Serve(t, n) \/ Timer(t, n), t # u \/ n # m
        PROVE  data'[k] = data[k]
    BY <2>1, NodeWrites
  <2>2. ASSUME Serve(u, m) \/ Timer(u, m)
        PROVE  data'[k] = data[k]
    <3>0. TypeOK /\ UndoInv /\ part[u][m] \in Part
      BY PartTyped DEF IInv
    <3>1. ASSUME Commit(u, m) PROVE FALSE
      <4> DEFINE old == part[u][m]
                 left == IF old.writing = {} THEN Group(u, m) ELSE old.writing
      <4>1. PICK j \in left :
                \/ left # {j} /\ part' = [part EXCEPT ![u][m].writing = left \ {j}]
                \/ part' = [part EXCEPT ![u][m] = AfterCommit(@)]
        BY <3>1 DEF Commit
      <4>2. CASE left # {j} /\ part' = [part EXCEPT ![u][m].writing = left \ {j}]
        <5>1. part'[u][m].writing = left \ {j}
          BY <3>0, <4>2 DEF TypeOK, Part
        <5> QED
          BY <4>1, <4>2, <5>1
      <4>3. CASE part' = [part EXCEPT ![u][m] = AfterCommit(@)]
        <5>1. ~part'[u][m].locked
          BY <3>0, <4>3 DEF TypeOK, Part, AfterCommit
        <5> QED
          BY <5>1
      <4> QED
        BY <4>1, <4>2, <4>3
    <3>2. ASSUME ServeRollback(u, m) \/ TimerRollback(u, m) PROVE FALSE
      <4>1. ~part'[u][m].locked
        BY <3>0, <3>2 DEF ServeRollback, TimerRollback, TypeOK, Part
      <4> QED
        BY <4>1
    <3> QED
      BY <2>2, <3>1, <3>2 DEF Serve, Timer, Put, Prepare, IgnoreRollback, TimerFires
  <2> QED
    BY <2>1, <2>2, CoordinatorsWriteNothing DEF Next
<1> QED
  BY <1>1, InvariantHolds, PTL DEF Spec, Isolation

\* Rolling back what was never executed changes no data: its undo log names keys
\* that are missing still.
THEOREM AbortsAreClean == Spec => CleanAbort
<1>1. IInv /\ [Next]_vars =>
          [~late' => \A t \in Txs, n \in Nodes :
              /\ ~part[t][n].executed
              /\ part[t][n].status # "rolledBack" /\ part'[t][n].status = "rolledBack"
              => data' = data]_vars
  <2> SUFFICES ASSUME IInv, Next, ~late', NEW u \in Txs, NEW m \in Nodes,
                      ~part[u][m].executed, part[u][m].status # "rolledBack",
                      part'[u][m].status = "rolledBack"
               PROVE  data' = data
    BY DEF vars
  <2>0. TypeOK /\ UndoInv /\ part[u][m] \in Part
    BY PartTyped DEF IInv
  <2>1. ASSUME NEW t \in Txs, NEW n \in Nodes, Serve(t, n) \/ Timer(t, n)
        PROVE  \/ ServeRollback(t, n) \/ TimerRollback(t, n)
               \/ part'[u][m].status # "rolledBack" \/ UNCHANGED data
    <3>1. ASSUME Commit(t, n) PROVE part'[u][m].status # "rolledBack"
      <4>1. PICK w : \/ part' = [part EXCEPT ![t][n].writing = w]
                     \/ part' = [part EXCEPT ![t][n] = AfterCommit(@)]
        BY <3>1 DEF Commit
      <4>2. CASE part' = [part EXCEPT ![t][n].writing = w]
        BY <2>0, <4>2 DEF TypeOK, Part
      <4>3. CASE part' = [part EXCEPT ![t][n] = AfterCommit(@)]
        BY <2>0, <4>3 DEF TypeOK, Part, AfterCommit
      <4> QED
        BY <4>1, <4>2, <4>3
    <3> QED
      BY <2>1, <3>1 DEF Serve, Timer, Put, Prepare, IgnoreRollback, TimerFires
  <2>2. ASSUME NEW t \in Txs, NEW n \in Nodes, ServeRollback(t, n) \/ TimerRollback(t, n)
        PROVE  data' = data
    <3>1. t = u /\ n = m
      BY <2>0, <2>2 DEF ServeRollback, TimerRollback, TypeOK, Part
    <3>2. /\ part[u][m].writing = {}
          /\ data' = [k \in Keys |-> IF k \in part[u][m].undo THEN Nil ELSE data[k]]
          /\ late' = late
      BY ZenonT(60), <2>2, <3>1 DEF ServeRollback, TimerRollback, Rollback
    <3>3. part[u][m].status \in {"created", "prepared"}
      BY <2>0 DEF UndoInv, Part
    <3>4. \A k \in part[u][m].undo : data[k] = Nil
      BY <2>0, <3>2, <3>3 DEF UndoInv
    <3> QED
      BY <2>0, <3>2, <3>4 DEF TypeOK
  <2> QED
    BY <2>1, <2>2, CoordinatorsWriteNothing DEF Next
<1> QED
  BY <1>1, InvariantHolds, PTL DEF Spec, CleanAbort

===============================================================================
