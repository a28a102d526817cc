----------------------------------- MODULE TCC -----------------------------------
(***************************************************************************)
(* internal/cluster: try-commit-catch transactions over the nodes of a     *)
(* cluster (tcc.go, mset.go, del.go).  A command whose keys live on several *)
(* nodes asks each of them to prepare, which locks the keys and keeps an   *)
(* undo log, then to commit; when one answers with an error it asks all of *)
(* them to roll back.  A prepared node rolls back by itself when its timer *)
(* fires.                                                                  *)
(*                                                                         *)
(* Time is abstract: the timer of a prepared transaction (3 s), the removal *)
(* of a finished one (6 s) and the time-out of a relayed request (3 s) may *)
(* come at any moment.  A request that times out stays with the node, which *)
(* may serve it later or never, as when the connection breaks.             *)
(*                                                                         *)
(* Transactions stand for MSET; DEL differs in the value it writes.  The   *)
(* commands with a prepare function (MSETNX, RENAME, RENAMENX, COPY) all   *)
(* fail in it, since it calls a command no database registers: they are    *)
(* PrepareFails.  Hence no command fails when it is committed, and without *)
(* restarts no commit finds its transaction removed; those two error paths *)
(* of execCommit are left out.                                             *)
(***************************************************************************)
EXTENDS Naturals, FiniteSets

CONSTANTS
    Nodes,          \* the nodes of the cluster
    Txs,            \* the commands, each run once at most, with an id of its own
    Keys,
    KeysOf,         \* the keys each command writes
    NodeOf,         \* peerPicker.PickNode
    Self,           \* the node whose client sent the command
    PrepareFails,   \* the commands whose prepare function returns an error
    InitData,       \* what the keys hold at first
    Nil,            \* the value of a missing key
    Old,            \* the value of a key set before
    NoNode,         \* no node
    MaxStarts,      \* bound on the commands that are run
    MaxTimeOuts     \* bound on the requests that coordinators give up

ASSUME KeysOfAssumption == KeysOf \in [Txs -> SUBSET Keys]
ASSUME NodeOfAssumption == NodeOf \in [Keys -> Nodes]
ASSUME SelfAssumption == Self \in [Txs -> Nodes]
ASSUME DataAssumption == InitData \in [Keys -> {Nil, Old}] /\ {Nil, Old} \cap Txs = {}
ASSUME NodeAssumption == NoNode \notin Nodes

VARIABLES
    data,           \* the value of each key, at its node
    part,           \* per command and node: the Transaction the node keeps
    call,           \* per command and node: the requests of the coordinator
    coord,          \* per command: where its coordinator is
    timeouts,       \* the requests given up so far
    late            \* history: a node committed after it had given up its locks

vars == <<data, part, call, coord, timeouts, late>>

Values == Txs \cup {Nil, Old}
Requests == {"prepare", "commit", "rollback"}

\* groupBy: the keys of a command at a node ...
Group(t, n) == {k \in KeysOf[t] : NodeOf[k] = n}

\* ... and the nodes it needs.
Parts(t) == {NodeOf[k] : k \in KeysOf[t]}

\* NewTransaction.  "writing" are the keys execCommit has still to write while
\* it holds tx.mu, "clean" is set when the removal of the transaction is
\* planned, "executed" is history.
NoPart == [known |-> FALSE, status |-> "created", locked |-> FALSE, undo |-> {},
           timer |-> "none", writing |-> {}, clean |-> FALSE, executed |-> FALSE]

Init ==
    /\ data = InitData
    /\ part = [t \in Txs |-> [n \in Nodes |-> NoPart]]
    /\ call = [t \in Txs |-> [n \in Nodes |-> [r \in Requests |-> "none"]]]
    /\ coord = [t \in Txs |-> [phase |-> "idle", todo |-> {}, wait |-> NoNode,
                               answer |-> "none"]]
    /\ timeouts = 0
    /\ late = FALSE

-------------------------------------------------------------------------------
(* Nodes *)

\* RWLocks returns: no transaction at the node holds one of the keys.
Free(t, n) == \A u \in Txs \ {t} : part[u][n].locked => Group(u, n) \cap Group(t, n) = {}

Reply(t, n, r, answer) == call' = [call EXCEPT ![t][n][r] = answer]

\* execPrepare: the transaction becomes known to the node ...
Put(t, n) ==
    /\ call[t][n]["prepare"] = "sent"
    /\ part' = [part EXCEPT ![t][n].known = TRUE]
    /\ Reply(t, n, "prepare", "started")
    /\ UNCHANGED <<data, coord, timeouts, late>>

\* Mutant: the undo log covers every key.
UndoLogMutant(t, n) == Group(t, n)

\* GetUndoLogs: a DEL of the keys that do not exist.
UndoLog(t, n) == {k \in Group(t, n) : data[k] = Nil}

\* Mutant: the keys are not locked.
PrepareMutant(t, n) ==
    /\ call[t][n]["prepare"] = "started"
    /\ part' = [part EXCEPT ![t][n].locked = TRUE, ![t][n].undo = UndoLog(t, n),
                            ![t][n].status = "prepared", ![t][n].timer = "armed"]
    /\ Reply(t, n, "prepare", IF t \in PrepareFails THEN "error" ELSE "ok")
    /\ UNCHANGED <<data, coord, timeouts, late>>

\* ... and, once it has its locks, prepared, with its timer set; then the
\* prepare function runs.  A prepare that waits for its locks keeps tx.mu: a
\* rollback served first has reached tx.mu before it, one served later waits.
Prepare(t, n) ==
    /\ call[t][n]["prepare"] = "started"
    /\ Free(t, n)
    /\ part' = [part EXCEPT ![t][n].locked = TRUE, ![t][n].undo = UndoLog(t, n),
                            ![t][n].status = "prepared", ![t][n].timer = "armed"]
    /\ Reply(t, n, "prepare", IF t \in PrepareFails THEN "error" ELSE "ok")
    /\ UNCHANGED <<data, coord, timeouts, late>>

\* The part of a node after ExecWithLock: unlocked, committed, to be removed.
AfterCommit(p) == [p EXCEPT !.writing = {}, !.executed = TRUE, !.locked = FALSE,
                            !.status = "committed", !.clean = TRUE]

\* Mutant: the locks are kept for a rollback of the committed transaction.
CommitMutant(t, n) ==
    /\ call[t][n]["commit"] = "sent"
    /\ data' = [k \in Keys |-> IF k \in Group(t, n) THEN t ELSE data[k]]
    /\ part' = [part EXCEPT ![t][n] = [AfterCommit(@) EXCEPT !.locked = part[t][n].locked]]
    /\ Reply(t, n, "commit", "ok")
    /\ late' = (late \/ ~part[t][n].locked)
    /\ UNCHANGED <<coord, timeouts>>

\* execCommit calls ExecWithLock under tx.mu, whatever the status is; execMSet
\* writes key by key, and nobody but others that write the keys can tell when
\* tx.mu was taken and given back.
Commit(t, n) ==
    /\ call[t][n]["commit"] = "sent"
    /\ LET left == IF part[t][n].writing = {} THEN Group(t, n) ELSE part[t][n].writing
       IN  \E k \in left :
               /\ data' = [data EXCEPT ![k] = t]
               /\ \/ /\ left # {k}
                     /\ part' = [part EXCEPT ![t][n].writing = left \ {k}]
                     /\ UNCHANGED call
                  \/ /\ left = {k}
                     /\ part' = [part EXCEPT ![t][n] = AfterCommit(@)]
                     /\ Reply(t, n, "commit", "ok")
    /\ late' = (late \/ ~part[t][n].locked)
    /\ UNCHANGED <<coord, timeouts>>

\* Mutant: a transaction that was committed is undone without its locks.
RollbackMutant(t, n) ==
    /\ part[t][n].writing = {}
    /\ data' = IF part[t][n].status = "rolledBack" THEN data
               ELSE [k \in Keys |-> IF k \in part[t][n].undo THEN Nil ELSE data[k]]

\* rollbackWithLock, under tx.mu: lock the keys again unless they are still
\* locked, run the undo log, unlock.
Rollback(t, n) ==
    /\ part[t][n].writing = {}
    /\ part[t][n].status \in {"prepared", "committed"} => part[t][n].locked \/ Free(t, n)
    /\ data' = IF part[t][n].status = "rolledBack" THEN data
               ELSE [k \in Keys |-> IF k \in part[t][n].undo THEN Nil ELSE data[k]]

\* execRollback.
ServeRollback(t, n) ==
    /\ call[t][n]["rollback"] = "sent" /\ part[t][n].known
    /\ Rollback(t, n)
    /\ part' = [part EXCEPT ![t][n].status = "rolledBack", ![t][n].locked = FALSE,
                            ![t][n].clean = TRUE]
    /\ Reply(t, n, "rollback", "ok")
    /\ UNCHANGED <<coord, timeouts, late>>

\* execRollback of a transaction the node does not know yet, or that the time
\* wheel has removed by now.
IgnoreRollback(t, n) ==
    /\ call[t][n]["rollback"] = "sent" /\ (part[t][n].known => part[t][n].clean)
    /\ Reply(t, n, "rollback", "ok")
    /\ UNCHANGED <<data, part, coord, timeouts, late>>

\* Mutant: the timer's job ends without a rollback.
TimerFiresMutant(t, n) ==
    /\ part[t][n].timer = "armed"
    /\ part' = [part EXCEPT ![t][n].timer = "none"]
    /\ UNCHANGED <<data, call, coord, timeouts, late>>

\* The timer's job tests the status, without tx.mu (and ends when it is another) ...
TimerFires(t, n) ==
    /\ part[t][n].timer = "armed" /\ part[t][n].status = "prepared"
    /\ part' = [part EXCEPT ![t][n].timer = "fired"]
    /\ UNCHANGED <<data, call, coord, timeouts, late>>

\* ... then takes tx.mu and rolls back.
TimerRollback(t, n) ==
    /\ part[t][n].timer = "fired"
    /\ Rollback(t, n)
    /\ part' = [part EXCEPT ![t][n].status = "rolledBack", ![t][n].locked = FALSE,
                            ![t][n].timer = "none"]
    /\ UNCHANGED <<call, coord, timeouts, late>>

-------------------------------------------------------------------------------
(* The coordinator *)

\* A coordinator that is done with one request turns to the next.  The loops of
\* MSet, requestCommit and requestRollback go through the nodes in the order of
\* a Go map, which is any order.
Advance(t, cs) ==
    \/ /\ cs.todo = {}
       /\ coord' = [coord EXCEPT ![t] = cs]
       /\ UNCHANGED call
    \/ \E n \in cs.todo :
           /\ coord' = [coord EXCEPT ![t] = [cs EXCEPT !.wait = n, !.todo = @ \ {n}]]
           /\ Reply(t, n, cs.phase, "sent")

\* MSet.
Start(t) ==
    /\ coord[t].phase = "idle"
    /\ Cardinality({u \in Txs : coord[u].phase # "idle"}) < MaxStarts
    /\ Advance(t, [coord[t] EXCEPT !.phase = "prepare", !.todo = Parts(t)])
    /\ UNCHANGED <<data, part, timeouts, late>>

Done(cs) == [cs EXCEPT !.phase = "done", !.wait = NoNode]

\* Mutant: the first node that is prepared is enough.
OnOkMutant(t) ==
    LET cs == coord[t]
    IN  IF cs.todo # {} /\ cs.phase # "prepare" THEN cs
        ELSE CASE cs.phase = "prepare" -> [cs EXCEPT !.phase = "commit", !.todo = Parts(t)]
               [] cs.phase = "commit" -> [Done(cs) EXCEPT !.answer = "ok"]
               [] OTHER -> Done(cs)

\* Where a coordinator goes after a request that went well ...
OnOk(t) ==
    LET cs == coord[t]
    IN  IF cs.todo # {} THEN cs
        ELSE CASE cs.phase = "prepare" -> [cs EXCEPT !.phase = "commit", !.todo = Parts(t)]
               [] cs.phase = "commit" -> [Done(cs) EXCEPT !.answer = "ok"]
               [] OTHER -> Done(cs)

RollingBack(t) == [coord[t] EXCEPT !.phase = "rollback", !.todo = Parts(t), !.answer = "error"]

\* Mutant: an error of a commit is taken for success.
OnErrorMutant(t) == IF coord[t].phase = "prepare" THEN RollingBack(t) ELSE OnOk(t)

\* ... and after an error: requestRollback does not look at errors.
OnError(t) == IF coord[t].phase = "rollback" THEN OnOk(t) ELSE RollingBack(t)

Waiting(t, n, answers) ==
    /\ coord[t].phase \in Requests /\ coord[t].wait = n
    /\ call[t][n][coord[t].phase] \in answers

Receive(t, n) ==
    /\ Waiting(t, n, {"ok", "error"})
    /\ Advance(t, IF Waiting(t, n, {"ok"}) THEN OnOk(t) ELSE OnError(t))
    /\ UNCHANGED <<data, part, timeouts, late>>

\* relay gives up on another node; a call to the own node does not time out.
TimeOut(t, n) ==
    /\ Waiting(t, n, {"sent", "started"}) /\ n # Self[t]
    /\ timeouts < MaxTimeOuts
    /\ timeouts' = timeouts + 1
    /\ Advance(t, OnError(t))
    /\ UNCHANGED <<data, part, late>>

-------------------------------------------------------------------------------
Serve(t, n) == \/ Put(t, n) \/ Prepare(t, n) \/ Commit(t, n)
               \/ ServeRollback(t, n) \/ IgnoreRollback(t, n)
Timer(t, n) == TimerFires(t, n) \/ TimerRollback(t, n)
Coordinate(t, n) == Receive(t, n) \/ TimeOut(t, n)

Next == \E t \in Txs : \/ Start(t)
                       \/ \E n \in Nodes : Serve(t, n) \/ Timer(t, n) \/ Coordinate(t, n)

Spec == Init /\ [][Next]_vars

\* The time wheel runs its jobs, a commit under way ends, and RWLocks and tx.mu
\* are starvation free.  Nothing is assumed of requests and coordinators: they
\* may be lost or stop at any point.
Fairness ==
    \A t \in Txs, n \in Nodes :
        /\ WF_vars(part[t][n].writing # {} /\ Commit(t, n))
        /\ WF_vars(TimerFires(t, n)) /\ SF_vars(TimerRollback(t, n))
FairSpec == Spec /\ Fairness

\* A coordinator that keeps running, and nodes that serve its requests in the
\* end: as time-outs are bounded here, a request that is lost would block it.
CoordinatorFairness(t) ==
    \A n \in Nodes : WF_vars(Coordinate(t, n)) /\ SF_vars(Serve(t, n))

-------------------------------------------------------------------------------
(* Properties *)

Part == [known : BOOLEAN, status : {"created", "prepared", "committed", "rolledBack"},
         locked : BOOLEAN, undo : SUBSET Keys, timer : {"none", "armed", "fired"},
         writing : SUBSET Keys, clean : BOOLEAN, executed : BOOLEAN]

TypeOK ==
    /\ data \in [Keys -> Values]
    /\ part \in [Txs -> [Nodes -> Part]]
    /\ call \in [Txs -> [Nodes -> [Requests -> {"none", "sent", "started", "ok", "error"}]]]
    /\ coord \in [Txs -> [phase : {"idle", "done"} \cup Requests, todo : SUBSET Nodes,
                          wait : Nodes \cup {NoNode}, answer : {"none", "ok", "error"}]]
    /\ timeouts \in Nat
    /\ late \in BOOLEAN

\* Transactions that are prepared on a node have their keys locked there, and
\* none of them in common, through every order of time-outs, rollbacks that
\* overtake the prepare, and commits that come too late.
PreparedExclusive ==
    \A t \in Txs, n \in Nodes : part[t][n].status = "prepared" =>
        /\ part[t][n].locked
        /\ \A u \in Txs \ {t} : part[u][n].locked => Group(u, n) \cap Group(t, n) = {}

\* No node executes a command before all its nodes are prepared: not even a
\* commit that a node serves long after its coordinator has given up.
CommitNeedsAll ==
    \A t \in Txs : (\E n \in Nodes : part[t][n].executed \/ part[t][n].writing # {}) =>
        \A m \in Parts(t) : call[t][m]["prepare"] = "ok"

\* A client that is told its command has succeeded had it executed on every node.
AckedExecuted ==
    \A t \in Txs : coord[t].answer = "ok" => \A n \in Parts(t) : part[t][n].executed

\* Unless a node commits after its timer has given the locks away, nobody else
\* changes the keys of a transaction that is prepared: between its undo log and
\* its commit or rollback the node is isolated.
Isolation ==
    [][~late' => \A t \in Txs, n \in Nodes :
           part[t][n].locked /\ part'[t][n] = part[t][n] =>
               \A k \in Group(t, n) : data'[k] = data[k]]_vars

\* Nor does rolling back a transaction that was never executed then change any
\* data: the keys its undo log removes are still missing.
CleanAbort ==
    [][~late' => \A t \in Txs, n \in Nodes :
           /\ ~part[t][n].executed
           /\ part[t][n].status # "rolledBack" /\ part'[t][n].status = "rolledBack"
           => data' = data]_vars

\* A node gives its locks back, even when the coordinator stops or every
\* further request is lost.
LocksReleased ==
    \A t \in Txs, n \in Nodes : part[t][n].locked ~> ~part[t][n].locked

\* A client gets an answer, also when two commands prepare the same keys in
\* opposite orders and each waits at one node for the locks the other has at
\* the next: the timers roll one of them back at the node where it is prepared,
\* and its commit there comes late.
Answered ==
    \A t \in Txs : CoordinatorFairness(t) => (coord[t].phase = "prepare" ~> coord[t].phase = "done")

===============================================================================
