--------------------------- MODULE DatastructProofs ---------------------------
(* Proofs about pkg/datastruct, for every value of the constants: the striped *)
(* locks of LockMap, whatever the goroutines, keys and requests, and the      *)
(* sorted set on its skip list, whatever the members, scores and levels.      *)
EXTENDS LockMap, SortedSet, WellFoundedInduction, FiniteSetTheorems, SequenceTheorems, TLAPS

(***************************************************************************)
(* The locks                                                                *)
(***************************************************************************)

\* The goroutine has slot s: locked by RWLocks, or not yet unlocked.
Owns(p, s) ==
    \/ pc[p] = "locking" /\ s \in Footprint(req[p]) \ todo[p]
    \/ pc[p] = "unlocking" /\ s \in todo[p]

TodoInv == \A p \in Procs : /\ todo[p] \subseteq Footprint(req[p])
                            /\ pc[p] = "idle" => todo[p] = {}

WriterInv == \A s \in Slots, p \in Procs :
    writer[s] = p => s \in WriteSlots(req[p]) /\ (Owns(p, s) \/ Locking(p, s))

ReaderInv == \A s \in Slots : \A p \in readers[s] :
    s \notin WriteSlots(req[p]) /\ (Owns(p, s) \/ Locking(p, s))

BlockedInv == \A s \in Slots : \A p \in blocked[s] :
    LockingRead(p, s) /\ p \notin readers[s] /\ writer[s] # NoProc

OwnInv == \A p \in Procs, s \in Slots : Owns(p, s) =>
    IF s \in WriteSlots(req[p]) THEN writer[s] = p /\ readers[s] = {}
                                ELSE p \in readers[s]

\* The inductive invariant: who is registered at a mutex is who the goroutines'
\* own bookkeeping says, and the slots are taken in ascending order.
IInv == /\ TypeOK /\ TodoInv /\ WriterInv /\ ReaderInv /\ BlockedInv /\ OwnInv
        /\ OrderedAcquisition
-------------------------------------------------------------------------------
Footprints == [write : SUBSET Keys, read : SUBSET Keys]

\* Every key hashes into the table.
LEMMA SlotInTable == \A k \in Keys : Slot(k) \in Slots
<1> SUFFICES ASSUME NEW k \in Keys PROVE Slot(k) \in Slots
    OBVIOUS
<1>1. Hash[k] \in Nat
  BY HashAssumption
<1> QED
  BY <1>1, TableAssumption DEF Slot, Slots

\* The slots of a request lie in the table, those it writes among them.
LEMMA FootprintInTable ==
    ASSUME NEW r \in Footprints
    PROVE  Footprint(r) \subseteq Slots /\ WriteSlots(r) \subseteq Footprint(r)
  BY SlotInTable DEF Footprint, WriteSlots, Indices, Footprints

\* The strengthened invariant holds before any goroutine locks.
LEMMA InitIInv == Init => IInv
  BY ProcAssumption DEF Init, IInv, TypeOK, TodoInv, WriterInv, ReaderInv, BlockedInv, OwnInv,
         OrderedAcquisition, Owns, Locking, LockingRead, IsFirst, Footprint, WriteSlots, Indices

USE DEF IInv, TodoInv, WriterInv, ReaderInv, BlockedInv, OwnInv, OrderedAcquisition, Owns,
    Footprints

\* Entering RWLocks with a new footprint keeps the invariant.
LEMMA RWLocksStep ==
    ASSUME IInv, NEW p \in Procs, NEW r \in Requests, RWLocks(p, r)
    PROVE  IInv'
<1> USE RequestAssumption, FootprintInTable DEF TypeOK, RWLocks, Locking, LockingRead
<1>1. TypeOK'
  OBVIOUS
<1>2. TodoInv'
  OBVIOUS
<1>3. WriterInv'
  OBVIOUS
<1>4. ReaderInv'
  OBVIOUS
<1>5. BlockedInv'
  OBVIOUS
<1>6. OwnInv'
  OBVIOUS
<1>7. OrderedAcquisition'
  OBVIOUS
<1> QED
  BY <1>1, <1>2, <1>3, <1>4, <1>5, <1>6, <1>7

\* A writer that closes a free slot keeps the invariant.
LEMMA AnnounceWriteStep ==
    ASSUME IInv, NEW p \in Procs, NEW s \in Slots, AnnounceWrite(p, s)
    PROVE  IInv'
<1> USE ProcAssumption DEF TypeOK, AnnounceWrite, LockingWrite, Locking, LockingRead, IsFirst
<1>1. TypeOK'
  OBVIOUS
<1>2. TodoInv'
  OBVIOUS
<1>3. WriterInv'
  OBVIOUS
<1>4. ReaderInv'
  OBVIOUS
<1>5. BlockedInv'
  OBVIOUS
<1>6. OwnInv'
  OBVIOUS
<1>7. OrderedAcquisition'
  OBVIOUS
<1> QED
  BY <1>1, <1>2, <1>3, <1>4, <1>5, <1>6, <1>7

\* A writer that finds no reader left keeps the invariant.
LEMMA FinishWriteStep ==
    ASSUME IInv, NEW p \in Procs, NEW s \in Slots, FinishWrite(p, s)
    PROVE  IInv'
<1> USE ProcAssumption DEF TypeOK, FinishWrite, LockingWrite, Locking, LockingRead, IsFirst
<1>1. TypeOK'
  OBVIOUS
<1>2. TodoInv'
  OBVIOUS
<1>3. WriterInv'
  OBVIOUS
<1>4. ReaderInv'
  OBVIOUS
<1>5. BlockedInv'
  OBVIOUS
<1>6. OwnInv'
  OBVIOUS
<1>7. OrderedAcquisition'
  BY DEF Slots
<1> QED
  BY <1>1, <1>2, <1>3, <1>4, <1>5, <1>6, <1>7

\* RLock on a slot without a writer keeps the invariant.
LEMMA LockReadStep ==
    ASSUME IInv, NEW p \in Procs, NEW s \in Slots, LockRead(p, s)
    PROVE  IInv'
<1> USE ProcAssumption DEF TypeOK, LockRead, Locking, LockingRead, IsFirst
<1>1. TypeOK'
  OBVIOUS
<1>2. TodoInv'
  OBVIOUS
<1>3. WriterInv'
  OBVIOUS
<1>4. ReaderInv'
  OBVIOUS
<1>5. BlockedInv'
  OBVIOUS
<1>6. OwnInv'
  OBVIOUS
<1>7. OrderedAcquisition'
  BY DEF Slots
<1> QED
  BY <1>1, <1>2, <1>3, <1>4, <1>5, <1>6, <1>7

\* RLock that queues behind a writer keeps the invariant.
LEMMA QueueReadStep ==
    ASSUME IInv, NEW p \in Procs, NEW s \in Slots, QueueRead(p, s)
    PROVE  IInv'
<1> USE ProcAssumption DEF TypeOK, QueueRead, Locking, LockingRead, IsFirst
<1>1. TypeOK'
  OBVIOUS
<1>2. TodoInv'
  OBVIOUS
<1>3. WriterInv'
  OBVIOUS
<1>4. ReaderInv'
  OBVIOUS
<1>5. BlockedInv'
  OBVIOUS
<1>6. OwnInv'
  OBVIOUS
<1>7. OrderedAcquisition'
  OBVIOUS
<1> QED
  BY <1>1, <1>2, <1>3, <1>4, <1>5, <1>6, <1>7

\* A reader that resumes after the writer has left keeps the invariant.
LEMMA WakeReadStep ==
    ASSUME IInv, NEW p \in Procs, NEW s \in Slots, WakeRead(p, s)
    PROVE  IInv'
<1> USE ProcAssumption DEF TypeOK, WakeRead, Locking, LockingRead, IsFirst
<1>1. TypeOK'
  OBVIOUS
<1>2. TodoInv'
  OBVIOUS
<1>3. WriterInv'
  OBVIOUS
<1>4. ReaderInv'
  OBVIOUS
<1>5. BlockedInv'
  OBVIOUS
<1>6. OwnInv'
  OBVIOUS
<1>7. OrderedAcquisition'
  BY DEF Slots
<1> QED
  BY <1>1, <1>2, <1>3, <1>4, <1>5, <1>6, <1>7

\* Entering RWUnLocks keeps the invariant.
LEMMA RWUnLocksStep ==
    ASSUME IInv, NEW p \in Procs, RWUnLocks(p)
    PROVE  IInv'
<1> USE ProcAssumption DEF TypeOK, RWUnLocks, Granted, Locking, LockingRead, IsFirst
<1>1. TypeOK'
  BY FootprintInTable
<1>2. TodoInv'
  OBVIOUS
<1>3. WriterInv'
  OBVIOUS
<1>4. ReaderInv'
  OBVIOUS
<1>5. BlockedInv'
  OBVIOUS
<1>6. OwnInv'
  OBVIOUS
<1>7. OrderedAcquisition'
  OBVIOUS
<1> QED
  BY <1>1, <1>2, <1>3, <1>4, <1>5, <1>6, <1>7

\* Unlock, which lets the queued readers in, keeps the invariant.
LEMMA UnlockWriteStep ==
    ASSUME IInv, NEW p \in Procs, NEW s \in Slots, UnlockWrite(p, s)
    PROVE  IInv'
<1> USE ProcAssumption DEF TypeOK, UnlockWrite, Unlocking, IsLast, Locking, LockingRead, IsFirst
<1>1. TypeOK'
  OBVIOUS
<1>2. TodoInv'
  OBVIOUS
<1>3. WriterInv'
  OBVIOUS
<1>4. ReaderInv'
  OBVIOUS
<1>5. BlockedInv'
  OBVIOUS
<1>6. OwnInv'
  OBVIOUS
<1>7. OrderedAcquisition'
  OBVIOUS
<1> QED
  BY <1>1, <1>2, <1>3, <1>4, <1>5, <1>6, <1>7

\* RUnlock keeps the invariant.
LEMMA UnlockReadStep ==
    ASSUME IInv, NEW p \in Procs, NEW s \in Slots, UnlockRead(p, s)
    PROVE  IInv'
<1> USE ProcAssumption DEF TypeOK, UnlockRead, Unlocking, IsLast, Locking, LockingRead, IsFirst
<1>1. TypeOK'
  OBVIOUS
<1>2. TodoInv'
  OBVIOUS
<1>3. WriterInv'
  OBVIOUS
<1>4. ReaderInv'
  OBVIOUS
<1>5. BlockedInv'
  OBVIOUS
<1>6. OwnInv'
  OBVIOUS
<1>7. OrderedAcquisition'
  OBVIOUS
<1> QED
  BY <1>1, <1>2, <1>3, <1>4, <1>5, <1>6, <1>7

\* Returning from RWUnLocks keeps the invariant.
LEMMA UnlockDoneStep ==
    ASSUME IInv, NEW p \in Procs, UnlockDone(p)
    PROVE  IInv'
<1> USE ProcAssumption DEF TypeOK, UnlockDone, Locking, LockingRead, IsFirst
<1>1. TypeOK'
  OBVIOUS
<1>2. TodoInv'
  OBVIOUS
<1>3. WriterInv'
  OBVIOUS
<1>4. ReaderInv'
  OBVIOUS
<1>5. BlockedInv'
  OBVIOUS
<1>6. OwnInv'
  OBVIOUS
<1>7. OrderedAcquisition'
  OBVIOUS
<1> QED
  BY <1>1, <1>2, <1>3, <1>4, <1>5, <1>6, <1>7

-------------------------------------------------------------------------------
\* Every step of the specification preserves the invariant.
LEMMA NextIInv == IInv /\ [Next]_vars => IInv'
<1> SUFFICES ASSUME IInv, [Next]_vars PROVE IInv'
    OBVIOUS
<1>1. ASSUME NEW p \in Procs, NEW r \in Requests, RWLocks(p, r) PROVE IInv'
  BY <1>1, RWLocksStep
<1>2. ASSUME NEW p \in Procs, Announce(p) PROVE IInv'
  BY <1>2, AnnounceWriteStep DEF Announce
<1>3. ASSUME NEW p \in Procs, Proceed(p) PROVE IInv'
  BY <1>3, FinishWriteStep, LockReadStep, QueueReadStep, WakeReadStep DEF Proceed
<1>4. ASSUME NEW p \in Procs, Unlock(p) PROVE IInv'
  BY <1>4, RWUnLocksStep, UnlockWriteStep, UnlockReadStep, UnlockDoneStep DEF Unlock
<1>5. CASE UNCHANGED vars
  BY <1>5 DEF vars, TypeOK, Locking, LockingRead
<1> QED
  BY <1>1, <1>2, <1>3, <1>4, <1>5 DEF Next

\* The strengthened invariant holds in every reachable state.
THEOREM InvariantHolds == Spec => []IInv
  BY InitIInv, NextIInv, PTL DEF Spec

\* The variables keep their types.
THEOREM TypeCorrect == Spec => []TypeOK
<1>1. IInv => TypeOK
  OBVIOUS
<1> QED
  BY <1>1, InvariantHolds, PTL

\* A goroutine between RWLocks and RWUnLocks has every slot of its keys.
LEMMA GrantedOwns ==
    ASSUME IInv, NEW p \in Procs, Granted(p), NEW k \in req[p].write \cup req[p].read
    PROVE  /\ Slot(k) \in Slots
           /\ k \in req[p].write => writer[Slot(k)] = p /\ readers[Slot(k)] = {}
           /\ writer[Slot(k)] = p \/ p \in readers[Slot(k)]
<1>1. k \in Keys /\ req[p] \in Footprints
  BY DEF TypeOK
<1>2. Slot(k) \in Footprint(req[p]) /\ (k \in req[p].write => Slot(k) \in WriteSlots(req[p]))
  BY DEF Footprint, WriteSlots, Indices
<1>3. Owns(p, Slot(k))
  BY <1>2 DEF Granted
<1> QED
  BY <1>1, <1>2, <1>3, SlotInTable

\* The slot modes of the invariant exclude conflicting keys.
LEMMA IInvKeyExclusion == IInv => KeyExclusion
<1> SUFFICES ASSUME IInv, NEW p \in Procs, NEW q \in Procs, p # q, Granted(p), Granted(q),
                    NEW k \in req[p].write, k \in req[q].write \cup req[q].read
             PROVE  FALSE
    BY DEF KeyExclusion
<1> QED
  BY GrantedOwns

\* Conflicting requests are never granted together.
THEOREM MutualExclusion == Spec => []KeyExclusion
  BY InvariantHolds, IInvKeyExclusion, PTL

\* Unlocking leaves nothing behind at a mutex.
THEOREM NothingLeaked == Spec => []NoLeak
<1>1. IInv => NoLeak
  BY ZenonT(60) DEF NoLeak, TypeOK, Locking, LockingRead, Footprint, WriteSlots
<1> QED
  BY <1>1, InvariantHolds, PTL

-------------------------------------------------------------------------------
\* Every nonempty set of naturals has a least element ...
LEMMA LeastNatural ==
    ASSUME NEW U, U \subseteq Nat, U # {}
    PROVE  \E x \in U : \A y \in U : x <= y
<1> DEFINE R == OpToRel(<, Nat)
<1>1. IsWellFoundedOn(R, Nat)
  BY NatLessThanWellFounded
<1>2. \A x, y \in Nat : y < x => <<y, x>> \in R
  BY DEF OpToRel
<1> HIDE DEF R
<1>3. PICK x \in U : \A y \in U : ~(<<y, x>> \in R)
  BY <1>1, WFMin
<1>4. \A y \in U : ~(y < x)
  BY <1>2, <1>3
<1> QED
  BY <1>4

\* ... and every nonempty set of slots a last one.
LEMMA LastSlot ==
    ASSUME NEW T, T \subseteq Slots, T # {}
    PROVE  \E x \in T : \A y \in T : y <= x
<1> DEFINE N == TableSize
           U == {n \in 0 .. N : N - n \in T}
<1>0. N \in Nat /\ T \subseteq 0 .. N
  BY TableAssumption DEF Slots
<1> HIDE DEF N
<1>1. U \subseteq Nat /\ U # {}
  <2>1. PICK t \in T : TRUE
    OBVIOUS
  <2>2. N - t \in 0 .. N /\ N - (N - t) = t
    BY <1>0, <2>1
  <2> QED
    BY <2>2
<1>2. PICK u \in U : \A y \in U : u <= y
  BY <1>1, LeastNatural
<1>3. ASSUME NEW y \in T PROVE y <= N - u
  <2>1. y \in 0 .. N /\ N - (N - y) = y
    BY <1>0
  <2>2. N - y \in 0 .. N /\ N - y \in U
    BY <1>0, <2>1
  <2>3. u \in 0 .. N /\ u <= N - y
    BY <1>2, <2>2
  <2> QED
    BY <1>0, <2>1, <2>3
<1> QED
  BY <1>2, <1>3

\* Whoever waits does so at a slot it is locking, for goroutines that have the
\* slot, for a writer that waits there for its readers, or (a woken reader)
\* for one that waits for nobody.
LEMMA WaitsForHolders ==
    ASSUME IInv, NEW p \in Procs, NEW q \in WaitsFor(p)
    PROVE  /\ q \in Procs
           /\ \E s \in Slots :
                 /\ Locking(p, s)
                 /\ \/ Owns(q, s)
                    \/ Locking(q, s) /\ p # q /\ writer[s] = q
                    \/ WaitsFor(q) = {}
<1>1. PICK s \in todo[p] :
        \/ LockingWrite(p, s) /\ writer[s] = p /\ q \in readers[s]
        \/ LockingWrite(p, s) /\ writer[s] \notin {p, NoProc} /\ q = writer[s]
        \/ LockingRead(p, s) /\ p \in blocked[s] /\ q = writer[s]
  BY DEF WaitsFor
<1>2. s \in Slots /\ q \in Procs
  BY <1>1 DEF TypeOK
<1>3. CASE LockingWrite(p, s) /\ writer[s] = p /\ q \in readers[s]
  <2>1. CASE Owns(q, s)
    BY <1>2, <1>3, <2>1 DEF LockingWrite
  <2>2. CASE ~Owns(q, s)
    <3>1. Locking(q, s) /\ s \notin WriteSlots(req[q]) /\ q \notin blocked[s]
      BY <1>2, <1>3, <2>2
    <3>2. ASSUME NEW t \in todo[q]
          PROVE ~LockingWrite(q, t) /\ ~(LockingRead(q, t) /\ q \in blocked[t])
      <4>1. CASE t = s
        BY <3>1, <4>1 DEF LockingWrite
      <4>2. CASE t # s
        BY <1>2, <3>1, <4>2 DEF LockingWrite, LockingRead, Locking, IsFirst, TypeOK, Slots
      <4> QED
        BY <4>1, <4>2
    <3>3. WaitsFor(q) = {}
      BY <3>2 DEF WaitsFor
    <3> QED
      BY <1>2, <1>3, <3>3 DEF LockingWrite
  <2> QED
    BY <2>1, <2>2
<1>4. CASE LockingWrite(p, s) /\ writer[s] \notin {p, NoProc} /\ q = writer[s]
  BY <1>2, <1>4 DEF LockingWrite
<1>5. CASE LockingRead(p, s) /\ p \in blocked[s] /\ q = writer[s]
  BY <1>2, <1>5 DEF LockingRead
<1> QED
  BY <1>1, <1>3, <1>4, <1>5

\* The loop of RWLocks is at one slot at a time.
LEMMA LockingUnique ==
    ASSUME IInv, NEW p \in Procs, NEW s \in Slots, NEW t \in Slots, Locking(p, s), Locking(p, t)
    PROVE  s = t
  BY DEF Locking, IsFirst, Slots

\* In every group, the goroutine that waits at the last slot waits for nobody.
LEMMA IInvNoCircularWait == IInv => NoCircularWait
<1> SUFFICES ASSUME IInv, NEW S \in SUBSET Procs, S # {},
                    ~ \E p \in S : WaitsFor(p) \cap S = {}
             PROVE  FALSE
    BY DEF NoCircularWait
<1> DEFINE T == {s \in Slots : \E p \in S : Locking(p, s)}
<1>1. ASSUME NEW p \in S PROVE \E s \in T : Locking(p, s)
  <2>1. PICK q \in S : q \in WaitsFor(p)
    OBVIOUS
  <2>2. PICK s \in Slots : Locking(p, s)
    BY <2>1, WaitsForHolders
  <2> QED
    BY <2>2
<1>2. PICK s \in T : \A t \in T : t <= s
  <2>1. T # {}
    BY <1>1
  <2> QED
    BY <2>1, LastSlot
\* Nobody in S has a slot that lies at or above all those S is waiting at.
<1>3. ASSUME NEW q \in S PROVE ~Owns(q, s)
  <2>1. PICK t \in T : Locking(q, t)
    BY <1>1
  <2>2. t <= s /\ t \in Int /\ s \in Int
    BY <1>2 DEF Slots
  <2>3. Owns(q, s) => s < t
    BY <2>1 DEF Locking, IsFirst
  <2> QED
    BY <2>2, <2>3
<1>4. ASSUME NEW p \in S, Locking(p, s), NEW q \in WaitsFor(p) \cap S
      PROVE  Locking(q, s) /\ p # q /\ writer[s] = q
  BY SMTT(60), <1>3, <1>4, WaitsForHolders, LockingUnique
<1>5. PICK p \in S : Locking(p, s)
  OBVIOUS
<1>6. PICK q \in WaitsFor(p) \cap S : Locking(q, s) /\ writer[s] = q
  BY <1>4, <1>5
<1>7. WaitsFor(q) \cap S = {}
  BY <1>4, <1>6
<1> QED
  BY <1>7

\* Taking the slots in ascending order rules out circular waiting, for any
\* number of goroutines, keys and slots.
THEOREM DeadlockFreedom == Spec => []NoCircularWait
  BY InvariantHolds, IInvNoCircularWait, PTL

-------------------------------------------------------------------------------
(* LockMap implements KeyLocks *)

HIDE DEF IInv, TodoInv, WriterInv, ReaderInv, BlockedInv, OwnInv, OrderedAcquisition, Owns,
    Footprints

\* Before any goroutine locks, nobody has a key.
LEMMA GrantedInit == Init => Locks!Init
  BY DEF Init, Locks!Init, GrantedKeys, Granted, Locks!Nothing

\* A step after which the same goroutines have the same keys does not show.
LEMMA SameGrants ==
    ASSUME \A q \in Procs : /\ Granted(q)' <=> Granted(q)
                            /\ Granted(q) => req'[q] = req[q]
    PROVE  UNCHANGED GrantedKeys
  BY DEF GrantedKeys

\* A step that gives or takes the keys of one goroutine changes its entry only.
LEMMA OneGrant ==
    ASSUME NEW p \in Procs, NEW v, GrantedKeys'[p] = v,
           \A q \in Procs \ {p} : /\ Granted(q)' <=> Granted(q)
                                  /\ Granted(q) => req'[q] = req[q]
    PROVE  GrantedKeys' = [GrantedKeys EXCEPT ![p] = v]
<1>1. \A q \in Procs \ {p} : GrantedKeys'[q] = GrantedKeys[q]
  BY DEF GrantedKeys
<1>2. GrantedKeys = [q \in Procs |-> GrantedKeys[q]]
  BY DEF GrantedKeys
<1>3. GrantedKeys' = [q \in Procs |-> GrantedKeys'[q]]
  BY DEF GrantedKeys
<1> QED
  BY <1>1, <1>2, <1>3

\* A goroutine that finishes with one more slot either still waits for others
\* (nothing shows) or now has all of its keys, next to nobody that conflicts.
LEMMA LockedOneMore ==
    ASSUME IInv, KeyExclusion', NEW p \in Procs, NEW s \in Slots, Locking(p, s),
           todo' = [todo EXCEPT ![p] = @ \ {s}], UNCHANGED <<pc, req>>
    PROVE  Locks!Next \/ UNCHANGED GrantedKeys
<1>1. pc[p] = "locking" /\ todo[p] # {} /\ p \in DOMAIN todo
  BY DEF Locking, IsFirst, IInv, TypeOK
<1>2. ~Granted(p) /\ (Granted(p)' <=> todo'[p] = {})
  BY <1>1 DEF Granted
<1>3. \A q \in Procs \ {p} : Granted(q)' <=> Granted(q)
  BY DEF Granted
<1>4. CASE todo'[p] # {}
  BY <1>2, <1>3, <1>4, SameGrants
<1>5. CASE todo'[p] = {}
  <2>1. ASSUME NEW q \in Procs \ {p} PROVE Locks!Compatible(req[p], GrantedKeys[q])
    <3>1. CASE Granted(q)
      <4>1. /\ req[p].write \cap (req[q].write \cup req[q].read) = {}
            /\ req[q].write \cap (req[p].write \cup req[p].read) = {}
        BY <1>2, <1>3, <1>5, <3>1 DEF KeyExclusion
      <4>2. GrantedKeys[q] = req[q]
        BY <3>1 DEF GrantedKeys
      <4> QED
        BY <4>1, <4>2 DEF Locks!Compatible
    <3>2. CASE ~Granted(q)
      BY <3>2 DEF GrantedKeys, Locks!Compatible
    <3> QED
      BY <3>1, <3>2
  <2>2. GrantedKeys[p] = Locks!Nothing
    BY <1>2 DEF GrantedKeys, Locks!Nothing
  <2>3. GrantedKeys' = [GrantedKeys EXCEPT ![p] = req[p]]
    <3>1. GrantedKeys'[p] = req[p]
      BY <1>2, <1>5 DEF GrantedKeys
    <3> QED
      BY <1>3, <3>1, OneGrant
  <2>4. Locks!Grant(p, req[p]) /\ req[p] \in Locks!Request
    BY <2>1, <2>2, <2>3 DEF Locks!Grant, Locks!Request, IInv, TypeOK
  <2> QED
    BY <2>4 DEF Locks!Next
<1> QED
  BY <1>4, <1>5

\* A step of the table is a grant, a release or invisible to the callers.
LEMMA StepRefines == IInv /\ KeyExclusion' /\ [Next]_vars => [Locks!Next]_GrantedKeys
<1> SUFFICES ASSUME IInv, KeyExclusion', [Next]_vars
             PROVE  Locks!Next \/ UNCHANGED GrantedKeys
    OBVIOUS
<1>1. ASSUME NEW p \in Procs, NEW r \in Requests, RWLocks(p, r)
      PROVE  UNCHANGED GrantedKeys
  <2>1. ~Granted(p) /\ r \in Footprints /\ req'[p] = r
    BY <1>1, RequestAssumption DEF RWLocks, Granted, Footprints, IInv, TypeOK
  <2>2. Granted(p)' => r = [write |-> {}, read |-> {}]
    BY <1>1, <2>1 DEF RWLocks, Granted, Footprint, Footprints, Indices, IInv, TypeOK
  <2>3. \A q \in Procs \ {p} : (Granted(q)' <=> Granted(q)) /\ req'[q] = req[q]
    BY <1>1 DEF RWLocks, Granted, IInv, TypeOK
  <2>4. GrantedKeys[p] = Locks!Nothing /\ GrantedKeys'[p] = Locks!Nothing
    BY <2>1, <2>2 DEF GrantedKeys, Locks!Nothing
  <2>5. GrantedKeys' = [GrantedKeys EXCEPT ![p] = GrantedKeys[p]]
    BY <2>3, <2>4, OneGrant
  <2> QED
    BY <2>5 DEF GrantedKeys
<1>2. ASSUME NEW p \in Procs, Announce(p) PROVE UNCHANGED GrantedKeys
  BY <1>2, SameGrants DEF Announce, AnnounceWrite, Granted
<1>3. ASSUME NEW p \in Procs, Proceed(p) PROVE Locks!Next \/ UNCHANGED GrantedKeys
  <2>1. ASSUME NEW s \in Slots, FinishWrite(p, s) PROVE Locks!Next \/ UNCHANGED GrantedKeys
    BY <2>1, LockedOneMore DEF FinishWrite, LockingWrite
  <2>2. ASSUME NEW s \in Slots, LockRead(p, s) PROVE Locks!Next \/ UNCHANGED GrantedKeys
    BY <2>2, LockedOneMore DEF LockRead, LockingRead
  <2>3. ASSUME NEW s \in Slots, QueueRead(p, s) PROVE UNCHANGED GrantedKeys
    BY <2>3, SameGrants DEF QueueRead, Granted
  <2>4. ASSUME NEW s \in Slots, WakeRead(p, s) PROVE Locks!Next \/ UNCHANGED GrantedKeys
    BY <2>4, LockedOneMore DEF WakeRead, LockingRead
  <2> QED
    BY <1>3, <2>1, <2>2, <2>3, <2>4 DEF Proceed
<1>4. ASSUME NEW p \in Procs, Unlock(p) PROVE Locks!Next \/ UNCHANGED GrantedKeys
  <2>1. CASE RWUnLocks(p)
    <3>1. p \in DOMAIN pc /\ Granted(p) /\ ~Granted(p)'
      BY <2>1 DEF RWUnLocks, Granted, IInv, TypeOK
    <3>2. \A q \in Procs \ {p} : (Granted(q)' <=> Granted(q)) /\ req'[q] = req[q]
      BY <2>1 DEF RWUnLocks, Granted
    <3>3. GrantedKeys' = [GrantedKeys EXCEPT ![p] = Locks!Nothing]
      BY <3>1, <3>2, OneGrant DEF GrantedKeys, Locks!Nothing
    <3> QED
      BY <3>3 DEF Locks!Next, Locks!Release
  <2>2. CASE UnlockDone(p)
    BY <2>2, SameGrants DEF UnlockDone, Granted, IInv, TypeOK
  <2>3. ASSUME NEW s \in Slots, UnlockWrite(p, s) \/ UnlockRead(p, s)
        PROVE  UNCHANGED GrantedKeys
    <3>1. pc[p] = "unlocking" /\ UNCHANGED <<pc, req>> /\ \A q \in Procs \ {p} : todo'[q] = todo[q]
      BY <2>3 DEF UnlockWrite, UnlockRead, Unlocking, IInv, TypeOK
    <3> QED
      BY <3>1, SameGrants DEF Granted
  <2> QED
    BY <1>4, <2>1, <2>2, <2>3 DEF Unlock
<1>5. CASE UNCHANGED vars
  BY <1>5, SameGrants DEF vars, Granted
<1> QED
  BY <1>1, <1>2, <1>3, <1>4, <1>5 DEF Next

\* The striped table implements atomic multi-key locks: collisions and the
\* step-by-step acquisition never show to the commands that run under it.
THEOREM Refinement == Spec => ImplementsKeyLocks
<1> QED
  BY GrantedInit, StepRefines, InvariantHolds, MutualExclusion, PTL
  DEF Spec, ImplementsKeyLocks, Locks!Spec

HIDE DEF IInv, TodoInv, WriterInv, ReaderInv, BlockedInv, OwnInv, OrderedAcquisition, Owns,
    Footprints

(***************************************************************************)
(* The sorted set.  The invariant describes the list by a row: the nodes by *)
(* their positions, and a height for each.  Links, spans and the ends of    *)
(* the list follow from the row.  A search stops, on every level, at the    *)
(* last node of the row before a position; insert puts a position into the  *)
(* row, and removeNode drops one.                                           *)
(***************************************************************************)

-------------------------------------------------------------------------------
(* A list by positions *)

ListType == [forward : [Nodes -> [Levels -> Members \cup {Nil}]],
             span : [Nodes -> [Levels -> Int]],
             backward : [Members -> Members \cup {Nil}], score : [Members -> Int],
             tail : Members \cup {Nil}, length : Int, level : Levels]

\* The nodes from the header, at position 0, to the last, at n; the end, at n + 1, is Nil.
Row(n, q) ==
    /\ n \in Nat /\ q \in [0 .. n + 1 -> Nodes \cup {Nil}]
    /\ q[0] = Header /\ q[n + 1] = Nil
    /\ \A k \in 1 .. n : q[k] \in Members
    /\ \A j, k \in 1 .. n : q[j] = q[k] => j = k

\* The levels of the nodes; the header and the end are on all.
Tall(n, h) == h \in [0 .. n + 1 -> Levels] /\ h[0] = MaxLevel /\ h[n + 1] = MaxLevel

\* From position k, the next on level i is at j.
Hop(n, h, k, i, j) ==
    /\ j \in k + 1 .. n + 1 /\ i <= h[j]
    /\ \A x \in k + 1 .. j - 1 : h[x] < i

\* The last position before p that is on level i is k.
Stop(h, p, i, k) ==
    /\ k \in 0 .. p - 1 /\ i <= h[k]
    /\ \A x \in k + 1 .. p - 1 : h[x] < i

\* The links follow the positions, and a span is the distance, or what is left of the list.
Links(l, n, q, h) ==
    /\ \A k \in 0 .. n, j \in 1 .. n + 1 : \A i \in Levels :
          i <= h[k] /\ Hop(n, h, k, i, j) =>
             /\ l.forward[q[k]][i] = q[j]
             /\ i <= l.level => l.span[q[k]][i] = (IF j = n + 1 THEN n - k ELSE j - k)
    /\ \A k \in 0 .. n : \A i \in Levels : h[k] < i => l.forward[q[k]][i] = Nil
    /\ \A m \in Members : (\A k \in 1 .. n : q[k] # m) => \A i \in Levels : l.forward[m][i] = Nil

\* The rest of the record: level is the greatest height, backward and tail follow the row.
Ends(l, n, q, h) ==
    /\ \A k \in 1 .. n : h[k] <= l.level
    /\ l.level = 1 \/ \E k \in 1 .. n : h[k] = l.level
    /\ \A k \in 1 .. n : l.backward[q[k]] = IF k = 1 THEN Nil ELSE q[k - 1]
    /\ l.tail = IF n = 0 THEN Nil ELSE q[n]
    /\ l.length = n

\* The list l is the row q with the heights h.
Shape(l, n, q, h) ==
    l \in ListType /\ Row(n, q) /\ Tall(n, h) /\ Links(l, n, q, h) /\ Ends(l, n, q, h)

-------------------------------------------------------------------------------
(* Numbers *)

\* A set of naturals that has a member has a least one.
LEMMA LeastNumber ==
    ASSUME NEW T \in SUBSET Nat, T # {}
    PROVE  \E x \in T : \A y \in T : ~(y < x)
<1> DEFINE R == OpToRel(<, Nat)
<1>1. IsWellFoundedOn(R, Nat)
  BY NatLessThanWellFounded
<1>2. \E x \in T : \A y \in T : <<y, x>> \notin R
  BY <1>1, WFMin
<1>3. \A x, y \in Nat : y < x => <<y, x>> \in R
  BY DEF OpToRel
<1> QED
  BY <1>2, <1>3

\* A set with 0, and with the successor of each number in it, has every number.
LEMMA SetInduction ==
    ASSUME NEW S, 0 \in S, \A n \in Nat : n \in S => n + 1 \in S
    PROVE  \A n \in Nat : n \in S
<1> DEFINE T == Nat \ S
<1>1. SUFFICES ASSUME T # {} PROVE FALSE
  OBVIOUS
<1>2. PICK x \in T : \A y \in T : ~(y < x)
  BY <1>1, LeastNumber
<1>3. x - 1 \in Nat /\ x - 1 \notin T
  BY <1>2
<1> QED
  BY <1>2, <1>3

\* The levels are the numbers from 1 to MaxLevel, whatever it is.
LEMMA LevelsAre ==
    /\ Levels \subseteq Nat /\ MaxLevel \in Levels /\ 1 \in Levels /\ MaxLevel \in Nat /\ 1 <= MaxLevel
    /\ \A i \in Levels : 1 <= i /\ i <= MaxLevel
BY LevelAssumption DEF Levels

\* Every position has a height, the header and the end too.
LEMMA TallIs ==
    ASSUME NEW n \in Nat, NEW h, Tall(n, h)
    PROVE  \A k \in 0 .. n + 1 : h[k] \in Nat /\ h[k] \in Levels
BY LevelsAre DEF Tall

\* There is a next position and a last one.
LEMMA HopIs ==
    ASSUME NEW n \in Nat, NEW h, Tall(n, h), NEW k \in 0 .. n, NEW i \in Levels
    PROVE  /\ \E j \in k + 1 .. n + 1 : Hop(n, h, k, i, j)
           /\ \A j, x : Hop(n, h, k, i, j) /\ Hop(n, h, k, i, x) => j = x
<1> DEFINE T == {j \in k + 1 .. n + 1 : i <= h[j]}
<1>1. T \in SUBSET Nat /\ n + 1 \in T
  BY LevelsAre DEF Tall
<1>2. PICK j \in T : \A y \in T : ~(y < j)
  BY <1>1, LeastNumber
<1>3. \A y \in 0 .. n + 1 : h[y] \in Nat
  BY LevelsAre DEF Tall
<1>4. i \in Nat
  BY LevelsAre
<1>5. Hop(n, h, k, i, j)
  BY <1>2, <1>3, <1>4 DEF Hop
<1>6. ASSUME NEW a, NEW b, Hop(n, h, k, i, a), Hop(n, h, k, i, b)
      PROVE  a = b
  BY <1>6, <1>3, <1>4 DEF Hop
<1> QED
  BY <1>5, <1>6

\* On every level there is exactly one last position before p: the node whose
\* link insert and removeNode change there.
LEMMA StopIs ==
    ASSUME NEW n \in Nat, NEW h, Tall(n, h), NEW p \in 1 .. n + 1, NEW i \in Levels
    PROVE  /\ \E k \in 0 .. p - 1 : Stop(h, p, i, k)
           /\ \A k, x : Stop(h, p, i, k) /\ Stop(h, p, i, x) => k = x
<1> DEFINE T == {y \in Nat : y <= p - 1 /\ i <= h[p - 1 - y]}
<1>1. \A y \in 0 .. n + 1 : h[y] \in Nat
  BY LevelsAre DEF Tall
<1>2. i \in Nat
  BY LevelsAre
<1>3. p - 1 \in T
  BY LevelsAre DEF Tall
<1>4. PICK y \in T : \A z \in T : ~(z < y)
  BY <1>3, LeastNumber
<1>5. Stop(h, p, i, p - 1 - y)
  <2>1. ASSUME NEW x \in p - y .. p - 1
        PROVE  h[x] < i
    <3>1. p - 1 - x \in Nat /\ p - 1 - x < y /\ p - 1 - (p - 1 - x) = x /\ x \in 0 .. n + 1
      BY <1>4
    <3>2. p - 1 - x \notin T
      BY <1>4, <3>1
    <3> QED
      BY <1>1, <1>2, <1>4, <3>1, <3>2
  <2> QED
    BY <1>4, <2>1 DEF Stop
<1>6. ASSUME NEW a, NEW b, Stop(h, p, i, a), Stop(h, p, i, b)
      PROVE  a = b
  BY <1>6, <1>1, <1>2 DEF Stop
<1> QED
  BY <1>4, <1>5, <1>6

\* Hops and stops: the hop from the last position before p leads to p or beyond it, all others do not.
LEMMA HopStop ==
    ASSUME NEW n \in Nat, NEW h, Tall(n, h), NEW p \in 1 .. n + 1, NEW i \in Levels,
           NEW k \in 0 .. p - 1, i <= h[k], NEW j, Hop(n, h, k, i, j)
    PROVE  p <= j <=> Stop(h, p, i, k)
<1>1. \A y \in 0 .. n + 1 : h[y] \in Nat
  BY LevelsAre DEF Tall
<1>2. i \in Nat
  BY LevelsAre
<1> QED
  BY <1>1, <1>2 DEF Hop, Stop

-------------------------------------------------------------------------------
(* Walks *)

\* The next place on level i, and where the loop of a search goes from a place.
NextPlace(l, i, at) == [node |-> l.forward[at.node][i], rank |-> at.rank + l.span[at.node][i]]

Onto(l, ok, i, w, at) ==
    IF NextPlace(l, i, at).node # Nil /\ NextPlace(l, i, at) \in ok THEN w[NextPlace(l, i, at)] ELSE at

WalkBy(l, ok, i, w) == w = [at \in Places |-> Onto(l, ok, i, w, at)]

\* Walk, with the function that its recursion chooses.
LEMMA WalkDef ==
    ASSUME NEW l, NEW ok, NEW i
    PROVE  Walk(l, ok, i) = CHOOSE w : WalkBy(l, ok, i, w)
BY DEF Walk, WalkBy, Onto, NextPlace

\* Positions go up along a level.
LEMMA HopsOn ==
    ASSUME NEW l, NEW n, NEW q, NEW h, Shape(l, n, q, h), NEW i \in Levels, NEW k \in 0 .. n
    PROVE  \E j \in k + 1 .. n + 1 : l.forward[q[k]][i] = q[j] \/ l.forward[q[k]][i] = Nil
<1>1. n \in Nat /\ Tall(n, h)
  BY DEF Shape, Row
<1>2. CASE i <= h[k]
  <2>1. PICK j \in k + 1 .. n + 1 : Hop(n, h, k, i, j)
    BY <1>1, HopIs
  <2>2. j \in 1 .. n + 1
    BY <1>1
  <2> QED
    BY <1>2, <2>1, <2>2 DEF Shape, Links
<1>3. CASE h[k] < i
  <2>1. l.forward[q[k]][i] = Nil
    BY <1>3 DEF Shape, Links
  <2>2. k + 1 \in k + 1 .. n + 1
    BY <1>1
  <2> QED
    BY <2>1, <2>2
<1>4. k \in 0 .. n + 1 /\ i \in Nat
  BY <1>1, LevelsAre
<1>5. h[k] \in Nat
  BY <1>1, <1>4, TallIs
<1> QED
  BY <1>2, <1>3, <1>4, <1>5

\* The recursion of Walk defines a function, as no list goes in circles.
LEMMA WalkExists ==
    ASSUME NEW l, NEW n, NEW q, NEW h, Shape(l, n, q, h), NEW ok, NEW i \in Levels
    PROVE  \E w : WalkBy(l, ok, i, w)
<1> DEFINE Known(d) == {at \in Places : \A k \in 0 .. n : q[k] = at.node => n + 1 <= k + d}
           T == {d \in Nat : \E w : /\ DOMAIN w = Places
                                    /\ \A at \in Known(d) : w[at] = Onto(l, ok, i, w, at)}
<1>0. n \in Nat /\ q \in [0 .. n + 1 -> Nodes \cup {Nil}] /\ l \in ListType /\ Nil \notin Nodes
      /\ \A j, k \in 0 .. n + 1 : q[j] = q[k] => j = k
  BY MembersAssumption DEF Shape, Row, Nodes
<1>1. \A at \in Places : NextPlace(l, i, at).node # Nil => NextPlace(l, i, at) \in Places
  BY <1>0 DEF NextPlace, Places, ListType, Nodes
<1>2. ASSUME NEW d \in Nat, NEW at \in Known(d), NextPlace(l, i, at).node # Nil
      PROVE  d # 0 /\ NextPlace(l, i, at) \in Known(d - 1)
  <2>1. NextPlace(l, i, at).node = l.forward[at.node][i] /\ NextPlace(l, i, at) \in Places
        /\ at.node \in Nodes
    BY <1>1, <1>2 DEF NextPlace, Places
  <2>2. PICK k \in 0 .. n : q[k] = at.node
    <3> SUFFICES ASSUME \A k \in 0 .. n : q[k] # at.node
                 PROVE  FALSE
      OBVIOUS
    <3>1. at.node \in Members
      BY <1>0, <2>1 DEF Nodes, Shape, Row
    <3> QED
      BY <1>0, <1>2, <2>1, <3>1 DEF Shape, Links
  <2>3. n + 1 <= k + d
    BY <2>2
  <2>4. PICK j \in k + 1 .. n + 1 : l.forward[q[k]][i] = q[j]
    BY <1>2, <2>1, <2>2, HopsOn
  <2>5. \A x \in 0 .. n : q[x] = NextPlace(l, i, at).node => x = j
    BY <1>0, <2>1, <2>2, <2>4
  <2>6. \A x \in 0 .. n : q[x] = NextPlace(l, i, at).node => n + 1 <= x + (d - 1)
    BY <1>0, <2>3, <2>5
  <2>7. d # 0
    BY <1>0, <2>3
  <2> QED
    BY <2>1, <2>6, <2>7
<1>3. 0 \in T
  <2> DEFINE w == [at \in Places |-> at]
  <2>1. \A at \in Known(0) : w[at] = Onto(l, ok, i, w, at)
    BY <1>2 DEF Onto
  <2>2. DOMAIN w = Places
    OBVIOUS
  <2> HIDE DEF w
  <2> QED
    BY <2>1, <2>2
<1>4. ASSUME NEW d \in Nat, d \in T
      PROVE  d + 1 \in T
  <2>1. PICK w : /\ DOMAIN w = Places
                 /\ \A at \in Known(d) : w[at] = Onto(l, ok, i, w, at)
    BY <1>4
  <2> DEFINE v == [at \in Places |-> IF at \in Known(d) THEN w[at] ELSE Onto(l, ok, i, w, at)]
  <2>2. DOMAIN v = Places /\ \A at \in Known(d + 1) : v[at] = Onto(l, ok, i, w, at)
    BY <2>1
  <2>3. ASSUME NEW at \in Known(d + 1), NextPlace(l, i, at).node # Nil
        PROVE  v[NextPlace(l, i, at)] = w[NextPlace(l, i, at)]
    <3> DEFINE e == d + 1
    <3>1. e \in Nat /\ e - 1 = d /\ at \in Known(e)
      BY <2>3
    <3> HIDE DEF e
    <3>2. NextPlace(l, i, at) \in Known(e - 1)
      BY <1>2, <2>3, <3>1
    <3>3. NextPlace(l, i, at) \in Known(d)
      BY <3>1, <3>2
    <3> QED
      BY <3>3
  <2> HIDE DEF v
  <2>4. \A at \in Known(d + 1) : v[at] = Onto(l, ok, i, v, at)
    BY <2>2, <2>3 DEF Onto
  <2> QED
    BY <2>2, <2>4
<1>5. n + 1 \in T
  BY <1>0, <1>3, <1>4, SetInduction
<1>6. PICK w : DOMAIN w = Places /\ \A at \in Known(n + 1) : w[at] = Onto(l, ok, i, w, at)
  BY <1>5
<1>7. Places \subseteq Known(n + 1)
  BY <1>0
<1> DEFINE v == [at \in Places |-> w[at]]
<1>8. \A at \in Places : v[at] = Onto(l, ok, i, w, at)
  BY <1>6, <1>7
<1>9. \A at \in Places : Onto(l, ok, i, v, at) = Onto(l, ok, i, w, at)
  BY <1>1 DEF Onto
<1>10. v = [at \in Places |-> Onto(l, ok, i, v, at)]
  <2> DEFINE u == [at \in Places |-> Onto(l, ok, i, v, at)]
  <2>1. DOMAIN v = Places /\ DOMAIN u = Places /\ \A at \in Places : u[at] = Onto(l, ok, i, v, at)
    OBVIOUS
  <2>2. \A at \in Places : u[at] = v[at]
    BY <1>8, <1>9, <2>1
  <2>3. v = [at \in Places |-> v[at]] /\ u = [at \in Places |-> u[at]]
    OBVIOUS
  <2> HIDE DEF u, v
  <2>4. u = v
    BY <2>2, <2>3
  <2> QED
    BY <2>4 DEF u
<1> QED
  BY <1>10 DEF WalkBy

\* One round of the loop that insert, remove, the ranges and getRank search with.
LEMMA WalkIs ==
    ASSUME NEW l, NEW n, NEW q, NEW h, Shape(l, n, q, h), NEW ok, NEW i \in Levels,
           NEW at \in Places
    PROVE  Walk(l, ok, i)[at] =
              IF NextPlace(l, i, at).node # Nil /\ NextPlace(l, i, at) \in ok
              THEN Walk(l, ok, i)[NextPlace(l, i, at)] ELSE at
<1> DEFINE w == Walk(l, ok, i)
<1>1. WalkBy(l, ok, i, w)
  BY WalkExists, WalkDef
<1> HIDE DEF w
<1> QED
  BY <1>1 DEF WalkBy, Onto, w

\* What is ok are the positions before p.
Splits(n, q, ok, p) ==
    /\ p \in 1 .. n + 1
    /\ \A k \in 1 .. n : [node |-> q[k], rank |-> k] \in ok <=> k < p

\* The place of position k: its node and its rank.
PlaceOf(q, k) == [node |-> q[k], rank |-> k]

\* A walk goes on to the last position before p, and knows its rank.
LEMMA WalkTo ==
    ASSUME NEW l, NEW n, NEW q, NEW h, Shape(l, n, q, h), NEW ok, NEW p, Splits(n, q, ok, p),
           NEW i \in Levels, i <= l.level, NEW s, Stop(h, p, i, s),
           NEW k \in 0 .. s, i <= h[k]
    PROVE  Walk(l, ok, i)[PlaceOf(q, k)] = PlaceOf(q, s)
<1> DEFINE w == Walk(l, ok, i)
           T == {d \in Nat : \A x \in 0 .. s : x + d = s /\ i <= h[x] => w[PlaceOf(q, x)] = PlaceOf(q, s)}
           Below(d) == {e \in Nat : e <= d => e \in T}
<1>0. /\ n \in Nat /\ q \in [0 .. n + 1 -> Nodes \cup {Nil}] /\ Tall(n, h) /\ p \in 1 .. n + 1
      /\ s \in 0 .. p - 1 /\ s \in 0 .. n /\ \A x \in 0 .. n : q[x] \in Nodes
      /\ \A j \in 0 .. n + 1 : q[j] = Nil => j = n + 1
  BY MembersAssumption DEF Shape, Row, Splits, Stop, Nodes
<1>1. \A x \in 0 .. n : PlaceOf(q, x) \in Places
  BY <1>0 DEF PlaceOf, Places
<1>2. ASSUME NEW x \in 0 .. s, i <= h[x], NEW j, Hop(n, h, x, i, j)
      PROVE  /\ j \in x + 1 .. n + 1
             /\ NextPlace(l, i, PlaceOf(q, x)).node = q[j]
             /\ j <= n => NextPlace(l, i, PlaceOf(q, x)) = PlaceOf(q, j)
  <2>1. x \in 0 .. n /\ j \in 1 .. n + 1 /\ j \in x + 1 .. n + 1
    BY <1>0, <1>2 DEF Hop
  <2>2. l.forward[q[x]][i] = q[j] /\ l.span[q[x]][i] = (IF j = n + 1 THEN n - x ELSE j - x)
    BY <1>2, <2>1 DEF Shape, Links
  <2> QED
    BY <1>0, <2>1, <2>2 DEF NextPlace, PlaceOf
<1>3. 0 \in T
  <2>1. PICK j \in s + 1 .. n + 1 : Hop(n, h, s, i, j)
    BY <1>0, HopIs
  <2>2. i <= h[s]
    BY DEF Stop
  <2>3. p <= j
    BY <1>0, <2>1, <2>2, HopStop
  <2>4. CASE j = n + 1
    <3>1. NextPlace(l, i, PlaceOf(q, s)).node = Nil
      BY <1>0, <1>2, <2>1, <2>2, <2>4 DEF Shape, Row
    <3> QED
      BY <1>0, <1>1, <3>1, WalkIs
  <2>5. CASE j <= n
    <3>1. NextPlace(l, i, PlaceOf(q, s)) = PlaceOf(q, j) /\ j \in 1 .. n
      BY <1>0, <1>2, <2>1, <2>2, <2>5
    <3>2. PlaceOf(q, j) \notin ok
      BY <1>0, <2>3, <3>1 DEF Splits, PlaceOf
    <3> QED
      BY <1>0, <1>1, <3>1, <3>2, WalkIs
  <2> QED
    BY <1>0, <2>1, <2>4, <2>5
<1>4. ASSUME NEW d \in Nat, \A e \in Nat : e <= d => e \in T
      PROVE  d + 1 \in T
  <2> SUFFICES ASSUME NEW x \in 0 .. s, x + (d + 1) = s, i <= h[x]
               PROVE  w[PlaceOf(q, x)] = PlaceOf(q, s)
    OBVIOUS
  <2>1. PICK j \in x + 1 .. n + 1 : Hop(n, h, x, i, j)
    BY <1>0, HopIs
  <2>2. i <= h[s] /\ h[s] \in Nat /\ i \in Nat
    BY <1>0, LevelsAre, TallIs DEF Stop
  <2>3. j <= s
    BY <1>0, <2>1, <2>2 DEF Hop
  <2>4. NextPlace(l, i, PlaceOf(q, x)) = PlaceOf(q, j) /\ j \in 1 .. n
    BY <1>0, <1>2, <2>1, <2>3
  <2>5. PlaceOf(q, j) \in ok
    BY <1>0, <2>3, <2>4 DEF Splits, PlaceOf
  <2>6. PlaceOf(q, j).node # Nil
    BY <1>0, <2>4 DEF PlaceOf
  <2>7. w[PlaceOf(q, x)] = w[PlaceOf(q, j)]
    BY <1>0, <1>1, <2>4, <2>5, <2>6, WalkIs
  <2>8. s - j \in Nat /\ s - j <= d /\ j \in 0 .. s /\ j + (s - j) = s
    BY <1>0, <2>1, <2>3
  <2>9. s - j \in T /\ i <= h[j]
    BY <1>4, <2>1, <2>8 DEF Hop
  <2> HIDE DEF w
  <2> QED
    BY <2>7, <2>8, <2>9
<1> HIDE DEF T
<1>5. \A d \in Nat : d \in {z \in Nat : \A e \in Nat : e <= z => e \in T}
  <2> DEFINE U == {z \in Nat : \A e \in Nat : e <= z => e \in T}
  <2>1. 0 \in U
    BY <1>3
  <2>2. ASSUME NEW d \in Nat, d \in U
        PROVE  d + 1 \in U
    BY <1>4, <2>2
  <2> QED
    BY <2>1, <2>2, SetInduction
<1>6. s - k \in T
  BY <1>0, <1>5
<1> QED
  BY <1>0, <1>6 DEF T

-------------------------------------------------------------------------------
(* Paths *)

PathBy(l, ok, path) ==
    path = [i \in 1 .. MaxLevel + 1 |-> IF i > l.level THEN [node |-> Header, rank |-> 0]
                                        ELSE Walk(l, ok, i)[path[i + 1]]]

\* Path, with the function that its recursion chooses.
LEMMA PathDef ==
    ASSUME NEW l, NEW ok
    PROVE  Path(l, ok) = CHOOSE path : PathBy(l, ok, path)
BY DEF Path, PathBy

\* The recursion of Path defines a function: it goes down the levels.
LEMMA PathExists ==
    ASSUME NEW l, l.level \in Levels, NEW ok
    PROVE  \E path : PathBy(l, ok, path)
<1> DEFINE top == MaxLevel + 1
           Step(path, i) == IF i > l.level THEN [node |-> Header, rank |-> 0]
                            ELSE Walk(l, ok, i)[path[i + 1]]
           T == {d \in Nat : \E path : \A i \in 1 .. top : top <= i + d => path[i] = Step(path, i)}
<1>0. MaxLevel \in Nat /\ top \in Nat /\ l.level \in Nat /\ l.level <= MaxLevel
  BY LevelAssumption DEF Levels
<1>1. 0 \in T
  <2> DEFINE path == [i \in 1 .. top |-> [node |-> Header, rank |-> 0]]
  <2>1. \A i \in 1 .. top : top <= i + 0 => path[i] = Step(path, i)
    BY <1>0
  <2> QED
    BY <2>1
<1>2. ASSUME NEW d \in Nat, d \in T
      PROVE  d + 1 \in T
  <2>1. PICK path : \A i \in 1 .. top : top <= i + d => path[i] = Step(path, i)
    BY <1>2
  <2> DEFINE new == [i \in 1 .. top |-> IF top <= i + d THEN path[i] ELSE Step(path, i)]
  <2>2. \A i \in 1 .. top : top <= i + (d + 1) => new[i] = Step(path, i)
    BY <2>1
  <2>3. ASSUME NEW i \in 1 .. top, top <= i + (d + 1), ~(i > l.level)
        PROVE  new[i + 1] = path[i + 1]
    BY <1>0, <2>3
  <2> HIDE DEF new
  <2>4. \A i \in 1 .. top : top <= i + (d + 1) => new[i] = Step(new, i)
    BY <2>2, <2>3
  <2> QED
    BY <2>4
<1>3. top \in T
  BY <1>0, <1>1, <1>2, SetInduction
<1>4. PICK path : \A i \in 1 .. top : top <= i + top => path[i] = Step(path, i)
  BY <1>3
<1> DEFINE new == [i \in 1 .. top |-> path[i]]
<1>5. \A i \in 1 .. top : path[i] = Step(new, i)
  <2> SUFFICES ASSUME NEW i \in 1 .. top
               PROVE  path[i] = Step(new, i)
    OBVIOUS
  <2>1. path[i] = Step(path, i)
    BY <1>0, <1>4
  <2>2. ~(i > l.level) => new[i + 1] = path[i + 1]
    BY <1>0
  <2> QED
    BY <2>1, <2>2
<1>6. new = [i \in 1 .. top |-> Step(new, i)]
  <2> DEFINE u == [i \in 1 .. top |-> Step(new, i)]
  <2>1. \A i \in 1 .. top : u[i] = Step(new, i) /\ new[i] = path[i]
    OBVIOUS
  <2>2. \A i \in 1 .. top : u[i] = new[i]
    BY <1>5, <2>1
  <2>3. new = [i \in 1 .. top |-> new[i]] /\ u = [i \in 1 .. top |-> u[i]]
    OBVIOUS
  <2> HIDE DEF u, new
  <2>4. u = new
    BY <2>2, <2>3
  <2> QED
    BY <2>4 DEF u
<1> QED
  BY <1>6 DEF PathBy

\* On every level, the path has the last node before p.
PathAt(n, q, h, p, path) ==
    \A i \in Levels : \A k \in 0 .. n : Stop(h, p, i, k) => path[i] = PlaceOf(q, k)

\* A search from the header down finds the last node before p on every level, with
\* its rank: the arrays update and rank of insert and removeNode.
LEMMA PathIs ==
    ASSUME NEW l, NEW n, NEW q, NEW h, Shape(l, n, q, h), NEW ok, NEW p, Splits(n, q, ok, p)
    PROVE  PathAt(n, q, h, p, Path(l, ok))
<1> DEFINE path == Path(l, ok)
           T == {d \in Nat : \A i \in Levels : \A k \in 0 .. n :
                                i + d = MaxLevel /\ Stop(h, p, i, k) => path[i] = PlaceOf(q, k)}
<1>0. /\ n \in Nat /\ Tall(n, h) /\ p \in 1 .. n + 1 /\ q[0] = Header /\ l.level \in Levels
      /\ \A k \in 1 .. n : h[k] <= l.level
      /\ MaxLevel \in Nat /\ l.level \in Nat /\ l.level <= MaxLevel /\ Levels = 1 .. MaxLevel
  BY LevelsAre DEF Shape, Row, Splits, ListType, Ends, Levels
<1>1. /\ \A i \in 1 .. MaxLevel + 1 : i > l.level => path[i] = PlaceOf(q, 0)
      /\ \A i \in Levels : i <= l.level => path[i] = Walk(l, ok, i)[path[i + 1]]
  <2>1. PathBy(l, ok, path)
    BY <1>0, PathDef, PathExists
  <2> HIDE DEF path
  <2>2. \A i \in 1 .. MaxLevel + 1 : path[i] = IF i > l.level THEN [node |-> Header, rank |-> 0]
                                        ELSE Walk(l, ok, i)[path[i + 1]]
    BY <2>1 DEF PathBy
  <2>3. PlaceOf(q, 0) = [node |-> Header, rank |-> 0]
    BY <1>0 DEF PlaceOf
  <2> QED
    BY <1>0, <2>2, <2>3
<1> HIDE DEF path
<1>2. ASSUME NEW i \in Levels, NEW k \in 0 .. n, Stop(h, p, i, k), i > l.level
      PROVE  path[i] = PlaceOf(q, k)
  <2>1. \A x \in 1 .. n : h[x] \in Nat
    BY <1>0, TallIs
  <2>2. k = 0
    BY <1>0, <1>2, <2>1 DEF Stop
  <2> QED
    BY <1>0, <1>1, <1>2, <2>2
<1>3. ASSUME NEW i \in Levels, NEW k \in 0 .. n, Stop(h, p, i, k), i <= l.level,
             NEW s \in 0 .. k, i <= h[s], path[i + 1] = PlaceOf(q, s)
      PROVE  path[i] = PlaceOf(q, k)
  BY <1>1, <1>3, WalkTo
<1>4. 0 \in T
  <2> SUFFICES ASSUME NEW k \in 0 .. n, Stop(h, p, MaxLevel, k), MaxLevel <= l.level
               PROVE  path[MaxLevel] = PlaceOf(q, k)
    BY <1>0, <1>2
  <2>1. path[MaxLevel + 1] = PlaceOf(q, 0) /\ 0 \in 0 .. k /\ MaxLevel <= h[0]
    BY <1>0, <1>1 DEF Tall
  <2> QED
    BY <1>3, <2>1, LevelsAre
<1>5. ASSUME NEW d \in Nat, d \in T
      PROVE  d + 1 \in T
  <2> SUFFICES ASSUME NEW i \in Levels, NEW k \in 0 .. n, i + (d + 1) = MaxLevel,
                      Stop(h, p, i, k), i <= l.level
               PROVE  path[i] = PlaceOf(q, k)
    BY <1>0, <1>2
  <2>1. i + 1 \in Levels /\ (i + 1) + d = MaxLevel /\ i \in Nat
    BY <1>0
  <2>2. PICK s \in 0 .. p - 1 : Stop(h, p, i + 1, s)
    BY <1>0, <2>1, StopIs
  <2>3. s \in 0 .. n /\ path[i + 1] = PlaceOf(q, s)
    BY <1>0, <1>5, <2>1, <2>2
  <2>4. h[s] \in Nat /\ h[k] \in Nat
    BY <1>0, <2>3, TallIs
  <2>5. s \in 0 .. k /\ i <= h[s]
    BY <1>0, <2>1, <2>2, <2>3, <2>4 DEF Stop
  <2> QED
    BY <1>3, <2>3, <2>5
<1> HIDE DEF T
<1>6. \A d \in Nat : d \in T
  BY <1>4, <1>5, SetInduction
<1>7. ASSUME NEW i \in Levels, NEW k \in 0 .. n, Stop(h, p, i, k)
      PROVE  path[i] = PlaceOf(q, k)
  <2>1. MaxLevel - i \in Nat /\ i + (MaxLevel - i) = MaxLevel
    BY <1>0
  <2> QED
    BY <1>6, <1>7, <2>1 DEF T
<1> QED
  BY <1>7 DEF PathAt, path

-------------------------------------------------------------------------------
(* One position more, and one less *)

\* x comes in at p, or what is at p goes.
Put(n, f, p, x) == [k \in 0 .. n + 2 |-> IF k < p THEN f[k] ELSE IF k = p THEN x ELSE f[k - 1]]
Drop(n, f, p) == [k \in 0 .. n |-> IF k < p THEN f[k] ELSE f[k + 1]]

\* The positions when one comes in at p.
LEMMA PutIs ==
    ASSUME NEW n \in Nat, NEW f, NEW p \in 1 .. n + 1, NEW x
    PROVE  /\ DOMAIN Put(n, f, p, x) = 0 .. n + 2
           /\ \A k \in 0 .. p - 1 : Put(n, f, p, x)[k] = f[k]
           /\ Put(n, f, p, x)[p] = x
           /\ \A k \in p + 1 .. n + 2 : Put(n, f, p, x)[k] = f[k - 1]
           /\ \A k \in p .. n + 1 : Put(n, f, p, x)[k + 1] = f[k]
<1> DEFINE g == Put(n, f, p, x)
<1>1. /\ DOMAIN g = 0 .. n + 2
      /\ \A k \in 0 .. n + 2 : g[k] = IF k < p THEN f[k] ELSE IF k = p THEN x ELSE f[k - 1]
  BY DEF Put
<1> HIDE DEF g
<1>2. \A k \in p + 1 .. n + 2 : g[k] = f[k - 1]
  BY <1>1
<1>3. \A k \in p .. n + 1 : (k + 1) - 1 = k /\ k + 1 \in p + 1 .. n + 2
  OBVIOUS
<1>4. \A k \in p .. n + 1 : g[k + 1] = f[k]
  BY <1>2, <1>3
<1>5. (\A k \in 0 .. p - 1 : g[k] = f[k]) /\ g[p] = x
  BY <1>1
<1> QED
  BY <1>1, <1>2, <1>4, <1>5 DEF g

\* The positions when the one at p is dropped.
LEMMA DropIs ==
    ASSUME NEW n \in Nat \ {0}, NEW f, NEW p \in 1 .. n
    PROVE  /\ DOMAIN Drop(n, f, p) = 0 .. n
           /\ \A k \in 0 .. p - 1 : Drop(n, f, p)[k] = f[k]
           /\ \A k \in p .. n : Drop(n, f, p)[k] = f[k + 1]
           /\ \A k \in p + 1 .. n + 1 : Drop(n, f, p)[k - 1] = f[k]
<1> DEFINE g == Drop(n, f, p)
<1>1. /\ DOMAIN g = 0 .. n
      /\ \A k \in 0 .. n : g[k] = IF k < p THEN f[k] ELSE f[k + 1]
  BY DEF Drop
<1> HIDE DEF g
<1>2. (\A k \in p .. n : g[k] = f[k + 1]) /\ (\A k \in 0 .. p - 1 : g[k] = f[k])
  BY <1>1
<1>3. \A k \in p + 1 .. n + 1 : (k - 1) + 1 = k /\ k - 1 \in p .. n
  OBVIOUS
<1>4. \A k \in p + 1 .. n + 1 : g[k - 1] = f[k]
  BY <1>2, <1>3
<1> QED
  BY <1>1, <1>2, <1>4 DEF g

\* Every position still has a height when a node of height t comes in.
LEMMA PutTall ==
    ASSUME NEW n \in Nat, NEW h, Tall(n, h), NEW p \in 1 .. n + 1, NEW t \in Levels
    PROVE  Tall(n + 1, Put(n, h, p, t))
<1> DEFINE g == Put(n, h, p, t)
<1>1. h \in [0 .. n + 1 -> Levels] /\ h[0] = MaxLevel /\ h[n + 1] = MaxLevel
  BY DEF Tall
<1>2. \A k \in 0 .. n + 2 : g[k] \in Levels
  <2> SUFFICES ASSUME NEW k \in 0 .. n + 2
               PROVE  g[k] \in Levels
    OBVIOUS
  <2>1. CASE k \in 0 .. p - 1
    BY <1>1, <2>1, PutIs
  <2>2. CASE k = p
    BY <2>2, PutIs
  <2>3. CASE k \in p + 1 .. n + 2
    BY <1>1, <2>3, PutIs
  <2> QED
    BY <2>1, <2>2, <2>3
<1>3. g[0] = MaxLevel /\ g[(n + 1) + 1] = MaxLevel
  BY <1>1, PutIs
<1>4. g = [k \in 0 .. n + 2 |-> g[k]]
  BY DEF Put
<1> HIDE DEF g
<1>5. g \in [0 .. n + 2 -> Levels] /\ (n + 1) + 1 = n + 2
  BY <1>2, <1>4
<1>6. g \in [0 .. (n + 1) + 1 -> Levels]
  BY <1>5
<1> QED
  BY <1>3, <1>6 DEF Tall, g

\* Every position still has a height when one is dropped.
LEMMA DropTall ==
    ASSUME NEW n \in Nat \ {0}, NEW h, Tall(n, h), NEW p \in 1 .. n
    PROVE  Tall(n - 1, Drop(n, h, p))
<1> DEFINE g == Drop(n, h, p)
<1>1. h \in [0 .. n + 1 -> Levels] /\ h[0] = MaxLevel /\ h[n + 1] = MaxLevel
  BY DEF Tall
<1>2. \A k \in 0 .. n : g[k] \in Levels
  <2> SUFFICES ASSUME NEW k \in 0 .. n
               PROVE  g[k] \in Levels
    OBVIOUS
  <2>1. CASE k \in 0 .. p - 1
    <3>1. g[k] = h[k] /\ k \in 0 .. n + 1
      BY <2>1, DropIs
    <3> QED
      BY <3>1, TallIs
  <2>2. CASE k \in p .. n
    <3>1. g[k] = h[k + 1]
      BY <2>2, DropIs
    <3>2. k + 1 \in 0 .. n + 1
      BY <2>2
    <3>3. h[k + 1] \in Levels
      BY <3>2, TallIs
    <3> QED
      BY <3>1, <3>3
  <2> QED
    BY <2>1, <2>2
<1>3. g[0] = MaxLevel /\ g[n] = MaxLevel
  BY <1>1, DropIs
<1>4. g = [k \in 0 .. n |-> g[k]]
  BY DEF Drop
<1> HIDE DEF g
<1>5. g \in [0 .. n -> Levels] /\ (n - 1) + 1 = n
  BY <1>2, <1>4
<1> QED
  BY <1>3, <1>5 DEF Tall, g

\* Hops with one position more.
LEMMA PutHop ==
    ASSUME NEW n \in Nat, NEW h, Tall(n, h), NEW p \in 1 .. n + 1, NEW t \in Levels,
           NEW i \in Levels, NEW k \in 0 .. n, NEW j, Hop(n, h, k, i, j)
    PROVE  LET H == Put(n, h, p, t) IN
           /\ k < p /\ j < p => Hop(n + 1, H, k, i, j)
           /\ k < p /\ p <= j /\ i <= t => Hop(n + 1, H, k, i, p)
           /\ k < p /\ p <= j /\ t < i => Hop(n + 1, H, k, i, j + 1)
           /\ k < p /\ p <= j => Hop(n + 1, H, p, i, j + 1)
           /\ p <= k => Hop(n + 1, H, k + 1, i, j + 1)
<1> DEFINE H == Put(n, h, p, t)
<1>1. /\ \A x \in 0 .. p - 1 : H[x] = h[x]
      /\ H[p] = t
      /\ \A x \in p + 1 .. n + 2 : H[x] = h[x - 1]
      /\ \A x \in p .. n + 1 : H[x + 1] = h[x]
  <2>1. \A x \in 0 .. p - 1 : H[x] = h[x]
    BY PutIs
  <2>2. H[p] = t
    BY DEF Put
  <2>3. \A x \in p + 1 .. n + 2 : H[x] = h[x - 1]
    BY PutIs
  <2>4. \A x \in p .. n + 1 : H[x + 1] = h[x]
    BY PutIs
  <2> QED
    BY <2>1, <2>2, <2>3, <2>4
<1>2. /\ j \in k + 1 .. n + 1 /\ i <= h[j]
      /\ \A x \in k + 1 .. j - 1 : h[x] < i
  BY DEF Hop
<1>3. i \in Nat /\ t \in Nat
  BY LevelsAre
<1> HIDE DEF H
<1>4. k < p /\ j < p => Hop(n + 1, H, k, i, j)
  BY <1>1, <1>2, <1>3 DEF Hop
<1>5. k < p /\ p <= j /\ i <= t => Hop(n + 1, H, k, i, p)
  BY <1>1, <1>2, <1>3 DEF Hop
<1>6. p <= j => i <= H[j + 1] /\ j + 1 \in p + 1 .. (n + 1) + 1
  BY <1>1, <1>2
<1>7. ASSUME k < p, p <= j, t < i
      PROVE  Hop(n + 1, H, k, i, j + 1)
  <2>1. ASSUME NEW x \in k + 1 .. (j + 1) - 1
        PROVE  H[x] < i
    <3>1. CASE x \in k + 1 .. p - 1
      BY <1>1, <1>2, <1>7, <3>1
    <3>2. CASE x = p
      BY <1>1, <1>7, <3>2
    <3>3. CASE x \in p + 1 .. j
      <4>1. x - 1 \in k + 1 .. j - 1 /\ x \in p + 1 .. n + 2
        BY <1>2, <1>7, <3>3
      <4> QED
        BY <1>1, <1>2, <4>1
    <3> QED
      BY <1>2, <1>7, <3>1, <3>2, <3>3
  <2>2. j + 1 \in k + 1 .. (n + 1) + 1
    BY <1>2
  <2> QED
    BY <1>6, <1>7, <2>1, <2>2 DEF Hop
<1>8. ASSUME k < p, p <= j
      PROVE  Hop(n + 1, H, p, i, j + 1)
  <2>1. ASSUME NEW x \in p + 1 .. (j + 1) - 1
        PROVE  H[x] < i
    <3>1. x - 1 \in k + 1 .. j - 1 /\ x \in p + 1 .. n + 2
      BY <1>2, <1>8
    <3> QED
      BY <1>1, <1>2, <3>1
  <2> QED
    BY <1>6, <1>8, <2>1 DEF Hop
<1>9. ASSUME p <= k
      PROVE  Hop(n + 1, H, k + 1, i, j + 1)
  <2>1. ASSUME NEW x \in (k + 1) + 1 .. (j + 1) - 1
        PROVE  H[x] < i
    <3>1. x - 1 \in k + 1 .. j - 1 /\ x \in p + 1 .. n + 2
      BY <1>2, <1>9
    <3> QED
      BY <1>1, <1>2, <3>1
  <2>2. j + 1 \in (k + 1) + 1 .. (n + 1) + 1 /\ p <= j
    BY <1>2, <1>9
  <2> QED
    BY <1>6, <2>1, <2>2 DEF Hop
<1> QED
  BY <1>4, <1>5, <1>7, <1>8, <1>9 DEF H

\* Hops with one position less.
LEMMA DropHop ==
    ASSUME NEW n \in Nat \ {0}, NEW h, Tall(n, h), NEW p \in 1 .. n,
           NEW i \in Levels, NEW k \in 0 .. n, k # p, NEW j, Hop(n, h, k, i, j)
    PROVE  LET H == Drop(n, h, p) IN
           /\ k < p /\ j < p => Hop(n - 1, H, k, i, j)
           /\ k < p /\ j = p => \A y : Hop(n, h, p, i, y) => Hop(n - 1, H, k, i, y - 1)
           /\ k < p /\ p < j => Hop(n - 1, H, k, i, j - 1)
           /\ p < k => Hop(n - 1, H, k - 1, i, j - 1)
<1> DEFINE H == Drop(n, h, p)
<1>1. /\ \A x \in 0 .. p - 1 : H[x] = h[x]
      /\ \A x \in p .. n : H[x] = h[x + 1]
      /\ \A x \in p + 1 .. n + 1 : H[x - 1] = h[x]
  <2>1. \A x \in 0 .. p - 1 : H[x] = h[x]
    BY DEF Drop
  <2>2. \A x \in p .. n : H[x] = h[x + 1]
    BY DropIs
  <2>3. \A x \in p + 1 .. n + 1 : H[x - 1] = h[x]
    BY DropIs
  <2> QED
    BY <2>1, <2>2, <2>3
<1>2. /\ j \in k + 1 .. n + 1 /\ i <= h[j]
      /\ \A x \in k + 1 .. j - 1 : h[x] < i
  BY DEF Hop
<1>3. i \in Nat
  BY LevelsAre
<1> HIDE DEF H
<1>4. k < p /\ j < p => Hop(n - 1, H, k, i, j)
  BY <1>1, <1>2, <1>3 DEF Hop
<1>5. ASSUME k < p, j = p, NEW y, Hop(n, h, p, i, y)
      PROVE  Hop(n - 1, H, k, i, y - 1)
  <2>1. /\ y \in p + 1 .. n + 1 /\ i <= h[y]
        /\ \A x \in p + 1 .. y - 1 : h[x] < i
    BY <1>5 DEF Hop
  <2>2. ASSUME NEW x \in k + 1 .. (y - 1) - 1
        PROVE  H[x] < i
    <3>1. CASE x \in k + 1 .. p - 1
      BY <1>1, <1>2, <1>5, <3>1
    <3>2. CASE x \in p .. (y - 1) - 1
      <4>1. x + 1 \in p + 1 .. y - 1 /\ x \in p .. n
        BY <2>1, <3>2
      <4> QED
        BY <1>1, <2>1, <4>1
    <3> QED
      BY <2>1, <3>1, <3>2
  <2>3. i <= H[y - 1] /\ y - 1 \in k + 1 .. (n - 1) + 1
    BY <1>1, <1>5, <2>1
  <2> QED
    BY <2>2, <2>3 DEF Hop
<1>6. p < j => i <= H[j - 1] /\ j - 1 \in p .. (n - 1) + 1
  BY <1>1, <1>2
<1>7. ASSUME k < p, p < j
      PROVE  Hop(n - 1, H, k, i, j - 1)
  <2>1. ASSUME NEW x \in k + 1 .. (j - 1) - 1
        PROVE  H[x] < i
    <3>1. CASE x \in k + 1 .. p - 1
      BY <1>1, <1>2, <1>7, <3>1
    <3>2. CASE x \in p .. (j - 1) - 1
      <4>1. x + 1 \in k + 1 .. j - 1 /\ x \in p .. n
        BY <1>2, <1>7, <3>2
      <4> QED
        BY <1>1, <1>2, <4>1
    <3> QED
      BY <1>2, <3>1, <3>2
  <2>2. j - 1 \in k + 1 .. (n - 1) + 1
    BY <1>2, <1>7
  <2> QED
    BY <1>6, <1>7, <2>1, <2>2 DEF Hop
<1>8. ASSUME p < k
      PROVE  Hop(n - 1, H, k - 1, i, j - 1)
  <2>1. ASSUME NEW x \in (k - 1) + 1 .. (j - 1) - 1
        PROVE  H[x] < i
    <3>1. x + 1 \in k + 1 .. j - 1 /\ x \in p .. n
      BY <1>2, <1>8
    <3> QED
      BY <1>1, <1>2, <3>1
  <2>2. j - 1 \in (k - 1) + 1 .. (n - 1) + 1 /\ p < j
    BY <1>2, <1>8
  <2> QED
    BY <1>6, <2>1, <2>2 DEF Hop
<1> QED
  BY <1>4, <1>5, <1>7, <1>8 DEF H

\* A row with one node more, and with one less.
LEMMA PutRow ==
    ASSUME NEW n, NEW q, Row(n, q), NEW p \in 1 .. n + 1, NEW m \in Members,
           \A k \in 1 .. n : q[k] # m
    PROVE  Row(n + 1, Put(n, q, p, m))
<1> DEFINE g == Put(n, q, p, m)
<1>0. /\ n \in Nat /\ q \in [0 .. n + 1 -> Nodes \cup {Nil}]
      /\ q[0] = Header /\ q[n + 1] = Nil
      /\ \A k \in 1 .. n : q[k] \in Members
      /\ \A j, k \in 1 .. n : q[j] = q[k] => j = k
  BY DEF Row
<1>1. /\ \A k \in 0 .. p - 1 : g[k] = q[k]
      /\ \A k \in p + 1 .. n + 2 : g[k] = q[k - 1]
  <2>1. \A k \in 0 .. p - 1 : g[k] = q[k]
    BY <1>0, PutIs
  <2>2. \A k \in p + 1 .. n + 2 : g[k] = q[k - 1]
    BY <1>0, PutIs
  <2> QED
    BY <2>1, <2>2
<1>2. g[p] = m /\ g = [k \in 0 .. n + 2 |-> g[k]]
  BY <1>0 DEF Put
<1> HIDE DEF g
<1>3. g[0] = Header /\ g[n + 2] = Nil
  BY <1>0, <1>1
<1>4. \A k \in 1 .. n + 1 : g[k] \in Members
  <2> SUFFICES ASSUME NEW k \in 1 .. n + 1
               PROVE  g[k] \in Members
    OBVIOUS
  <2>1. CASE k \in 1 .. p - 1
    BY <1>0, <1>1, <2>1
  <2>2. CASE k \in p + 1 .. n + 1
    <3>1. k - 1 \in 1 .. n /\ k \in p + 1 .. n + 2
      BY <1>0, <2>2
    <3> QED
      BY <1>0, <1>1, <3>1
  <2> QED
    BY <1>0, <1>2, <2>1, <2>2
<1>5. ASSUME NEW j \in 1 .. n + 1, NEW k \in 1 .. n + 1, g[j] = g[k]
      PROVE  j = k
  <2> DEFINE Old(x) == IF x < p THEN x ELSE x - 1
  <2>1. \A x \in 1 .. n + 1 : x # p => Old(x) \in 1 .. n /\ g[x] = q[Old(x)]
    <3> SUFFICES ASSUME NEW x \in 1 .. n + 1, x # p
                 PROVE  Old(x) \in 1 .. n /\ g[x] = q[Old(x)]
      OBVIOUS
    <3>1. CASE x < p
      BY <1>0, <1>1, <3>1
    <3>2. CASE p < x
      <4>1. x \in p + 1 .. n + 2 /\ Old(x) = x - 1 /\ x - 1 \in 1 .. n
        BY <1>0, <3>2
      <4> QED
        BY <1>1, <4>1
    <3> QED
      BY <1>0, <3>1, <3>2
  <2>2. \A x \in 1 .. n + 1 : x # p => g[x] # m
    BY <2>1
  <2>3. j = p <=> k = p
    BY <1>2, <1>5, <2>2
  <2>4. CASE j # p
    <3>1. Old(j) = Old(k)
      BY <1>0, <1>5, <2>1, <2>3, <2>4
    <3> QED
      BY <1>0, <2>3, <2>4, <3>1
  <2> QED
    BY <2>3, <2>4
<1>6. \A k \in 0 .. n + 2 : g[k] \in Nodes \cup {Nil}
  <2> SUFFICES ASSUME NEW k \in 0 .. n + 2
               PROVE  g[k] \in Nodes \cup {Nil}
    OBVIOUS
  <2>1. CASE k \in 1 .. n + 1
    BY <1>4, <2>1 DEF Nodes
  <2> QED
    BY <1>0, <1>3, <2>1 DEF Nodes
<1>7. g \in [0 .. (n + 1) + 1 -> Nodes \cup {Nil}]
  <2>1. (n + 1) + 1 = n + 2
    BY <1>0
  <2> QED
    BY <1>2, <1>6, <2>1
<1>8. n + 1 \in Nat /\ g[(n + 1) + 1] = Nil
  BY <1>0, <1>3
<1> QED
  BY <1>3, <1>4, <1>5, <1>7, <1>8 DEF Row, g

\* Without the node at p, a row is a row, and the node is not in it.
LEMMA DropRow ==
    ASSUME NEW n, NEW q, Row(n, q), NEW p \in 1 .. n
    PROVE  Row(n - 1, Drop(n, q, p)) /\ \A k \in 1 .. n - 1 : Drop(n, q, p)[k] # q[p]
<1> DEFINE g == Drop(n, q, p)
           Old(x) == IF x < p THEN x ELSE x + 1
<1>0. /\ n \in Nat \ {0} /\ q \in [0 .. n + 1 -> Nodes \cup {Nil}]
      /\ q[0] = Header /\ q[n + 1] = Nil
      /\ \A k \in 1 .. n : q[k] \in Members
      /\ \A j, k \in 1 .. n : q[j] = q[k] => j = k
  BY DEF Row
<1>1. \A k \in 0 .. n : g[k] = q[Old(k)] /\ Old(k) \in 0 .. n + 1
  BY <1>0 DEF Drop
<1>2. g = [k \in 0 .. n |-> g[k]]
  BY DEF Drop
<1> HIDE DEF g
<1>3. \A k \in 1 .. n - 1 : g[k] = q[Old(k)] /\ Old(k) \in 1 .. n /\ Old(k) # p
  BY <1>0, <1>1
<1>4. g[0] = Header /\ g[n] = Nil
  BY <1>0, <1>1
<1>5. ASSUME NEW j \in 1 .. n - 1, NEW k \in 1 .. n - 1, g[j] = g[k]
      PROVE  j = k
  <2>1. Old(j) = Old(k)
    BY <1>0, <1>3, <1>5
  <2> QED
    BY <1>0, <2>1
<1>6. g \in [0 .. (n - 1) + 1 -> Nodes \cup {Nil}]
  <2>1. (n - 1) + 1 = n
    BY <1>0
  <2>2. \A k \in 0 .. n : g[k] \in Nodes \cup {Nil}
    <3> HIDE DEF Old
    <3> QED
      BY <1>0, <1>1
  <2> QED
    BY <1>2, <2>1, <2>2
<1>7. \A k \in 1 .. n - 1 : g[k] \in Members /\ g[k] # q[p]
  <2> HIDE DEF Old
  <2> QED
    BY <1>0, <1>3
<1>8. n - 1 \in Nat /\ g[(n - 1) + 1] = Nil
  BY <1>0, <1>4
<1> QED
  BY <1>4, <1>5, <1>6, <1>7, <1>8 DEF Row, g

-------------------------------------------------------------------------------
(* Insert *)

\* What a path that has the last node before p says of ranks.
LEMMA PathHas ==
    ASSUME NEW n, NEW q, Row(n, q), NEW h, Tall(n, h), NEW p \in 1 .. n + 1,
           NEW path, PathAt(n, q, h, p, path), NEW i \in Levels
    PROVE  /\ \E s \in 0 .. p - 1 : /\ Stop(h, p, i, s) /\ i <= h[s]
                                    /\ path[i].node = q[s] /\ path[i].rank = s
           /\ \A k \in 0 .. n : k < p /\ path[i].node = q[k] =>
                                  Stop(h, p, i, k) /\ path[i].rank = k
           /\ \A k \in 0 .. n : path[i].node = q[k] => k < p
           /\ path[1].rank = p - 1 /\ path[1].node = q[p - 1]
<1>0. n \in Nat /\ \A j, k \in 0 .. n : q[j] = q[k] => j = k
  BY MembersAssumption DEF Row
<1>1. PICK s \in 0 .. p - 1 : Stop(h, p, i, s)
  BY <1>0, StopIs
<1>2. s \in 0 .. n /\ path[i].node = q[s] /\ path[i].rank = s /\ i <= h[s]
  <2>1. s \in 0 .. n /\ i <= h[s]
    BY <1>0, <1>1 DEF Stop
  <2>2. path[i] = PlaceOf(q, s)
    BY <1>1, <2>1 DEF PathAt
  <2> QED
    BY <2>1, <2>2 DEF PlaceOf
<1>3. \A k \in 0 .. n : path[i].node = q[k] => k = s
  BY <1>0, <1>2
<1>4. Stop(h, p, 1, p - 1) /\ p - 1 \in 0 .. n /\ 1 \in Levels
  <2>1. p - 1 \in 0 .. n + 1 /\ p - 1 \in 0 .. p - 1
    BY <1>0
  <2>2. 1 <= h[p - 1]
    BY <1>0, <2>1, TallIs, LevelsAre
  <2> QED
    BY <1>0, <2>1, <2>2, LevelsAre DEF Stop
<1>5. path[1].rank = p - 1 /\ path[1].node = q[p - 1]
  <2>1. path[1] = PlaceOf(q, p - 1)
    BY <1>4 DEF PathAt
  <2> QED
    BY <2>1 DEF PlaceOf
<1> QED
  BY <1>1, <1>2, <1>3, <1>5

Befores(l, m, score) == {at \in Places : Before(l, at.node, score, m)}
Top(l, t) == IF t > l.level THEN t ELSE l.level

\* What the fields of the new list are.
LEMMA InsertIs ==
    ASSUME NEW l \in ListType, NEW m \in Members, NEW score \in Int, NEW t \in Levels,
           NEW path, path = Path(l, Befores(l, m, score)),
           \A i \in Levels : path[i].node \in Nodes /\ path[i].rank \in Int,
           NEW e, e = Insert(l, m, score, t)
    PROVE  /\ e \in ListType
           /\ \A x \in Nodes : \A i \in Levels :
                 /\ t < i => e.forward[x][i] = IF x = m THEN Nil ELSE l.forward[x][i]
                 /\ i <= t => e.forward[x][i] = IF x = m THEN l.forward[path[i].node][i]
                                                ELSE IF x = path[i].node THEN m
                                                ELSE l.forward[x][i]
           /\ \A x \in Nodes : \A i \in Levels :
                 /\ x # m /\ (x # path[i].node \/ i > Top(l, t)) => e.span[x][i] = Raised(l, t)[x][i]
                 /\ x # m /\ x = path[i].node /\ i <= t =>
                       e.span[x][i] = path[1].rank - path[i].rank + 1
                 /\ x # m /\ x = path[i].node /\ t < i /\ i <= Top(l, t) =>
                       e.span[x][i] = Raised(l, t)[x][i] + 1
                 /\ x = m /\ i <= t =>
                       e.span[x][i] = Raised(l, t)[path[i].node][i] - (path[1].rank - path[i].rank)
           /\ \A x \in Members :
                 e.backward[x] = IF x = m THEN IF path[1].node = Header THEN Nil ELSE path[1].node
                                 ELSE IF x = l.forward[path[1].node][1] THEN m
                                 ELSE l.backward[x]
           /\ \A x \in Members : e.score[x] = IF x = m THEN score ELSE l.score[x]
           /\ e.tail = IF l.forward[path[1].node][1] = Nil THEN m ELSE l.tail
           /\ e.length = l.length + 1
           /\ e.level = Top(l, t)
<1> DEFINE rank(i) == path[1].rank - path[i].rank
           span == Raised(l, t)
           last == path[1].node
           next == l.forward[last][1]
           F == [n \in Nodes |-> [i \in Levels |->
                        IF i > t THEN IF n = m THEN Nil ELSE l.forward[n][i]
                        ELSE IF n = m THEN l.forward[path[i].node][i]
                        ELSE IF n = path[i].node THEN m
                        ELSE l.forward[n][i]]]
           S == [n \in Nodes |-> [i \in Levels |->
                        IF n = m THEN IF i > t THEN 0 ELSE span[path[i].node][i] - rank(i)
                        ELSE IF n # path[i].node \/ i > Top(l, t) THEN span[n][i]
                        ELSE IF i <= t THEN rank(i) + 1
                        ELSE span[n][i] + 1]]
           B == [n \in Members |->
                        IF n = m THEN IF last = Header THEN Nil ELSE last
                        ELSE IF n = next THEN m
                        ELSE l.backward[n]]
           C == [l.score EXCEPT ![m] = score]
<1>1. e = [forward |-> F, span |-> S, backward |-> B, score |-> C,
           tail |-> IF next = Nil THEN m ELSE l.tail, length |-> l.length + 1, level |-> Top(l, t)]
  BY DEF Insert, Befores, Top
<1>2. /\ l.forward \in [Nodes -> [Levels -> Members \cup {Nil}]]
      /\ l.span \in [Nodes -> [Levels -> Int]]
      /\ l.backward \in [Members -> Members \cup {Nil}] /\ l.score \in [Members -> Int]
      /\ l.tail \in Members \cup {Nil} /\ l.length \in Int /\ l.level \in Levels
  BY DEF ListType
<1>3. /\ \A i \in Levels : i \in Nat
      /\ 1 \in Levels /\ t \in Nat /\ l.level \in Nat /\ Top(l, t) \in Levels /\ Top(l, t) \in Nat
  BY <1>2, LevelsAre DEF Top
<1>4. /\ \A x \in Nodes : \A i \in Levels : l.forward[x][i] \in Members \cup {Nil}
      /\ \A i \in Levels : path[i].node \in Nodes
      /\ next \in Members \cup {Nil} /\ last \in Members \cup {Header}
  <2>1. \A x \in Nodes : \A i \in Levels : l.forward[x][i] \in Members \cup {Nil}
    BY <1>2
  <2> QED
    BY <1>3, <2>1 DEF Nodes
<1>5. span \in [Nodes -> [Levels -> Int]]
  <2>1. \A x \in Nodes : l.span[x] \in [Levels -> Int]
    BY <1>2
  <2>2. Header \in Nodes
    BY DEF Nodes
  <2>3. [i \in Levels |-> IF i \in (l.level + 1) .. t THEN l.length ELSE l.span[Header][i]]
           \in [Levels -> Int]
    BY <1>2, <2>1, <2>2
  <2> QED
    BY <1>2, <2>2, <2>3 DEF Raised
<1>6. \A x \in Nodes : \A i \in Levels : span[x][i] \in Int /\ rank(i) \in Int
  <2>1. \A x \in Nodes : span[x] \in [Levels -> Int]
    BY <1>5
  <2>2. \A x \in Nodes : \A i \in Levels : span[x][i] \in Int
    BY <2>1
  <2>3. path[1].rank \in Int
    BY <1>3
  <2>4. \A i \in Levels : rank(i) \in Int
    BY <2>3
  <2> QED
    BY <2>2, <2>4
<1>7. F \in [Nodes -> [Levels -> Members \cup {Nil}]]
  <2>1. \A n \in Nodes : \A i \in Levels :
            (IF i > t THEN IF n = m THEN Nil ELSE l.forward[n][i]
                        ELSE IF n = m THEN l.forward[path[i].node][i]
                        ELSE IF n = path[i].node THEN m
                        ELSE l.forward[n][i]) \in Members \cup {Nil}
    BY <1>4
  <2> QED
    BY <2>1
<1> HIDE DEF span, rank
<1>8. S \in [Nodes -> [Levels -> Int]]
  <2>1. \A n \in Nodes : \A i \in Levels :
          (IF n = m THEN IF i > t THEN 0 ELSE span[path[i].node][i] - rank(i)
                        ELSE IF n # path[i].node \/ i > Top(l, t) THEN span[n][i]
                        ELSE IF i <= t THEN rank(i) + 1
                        ELSE span[n][i] + 1) \in Int
    BY <1>3, <1>4, <1>6
  <2> QED
    BY <2>1
<1>9. B \in [Members -> Members \cup {Nil}] /\ C \in [Members -> Int]
  BY <1>2, <1>4
<1>10. \A x \in Nodes : \A i \in Levels :
          F[x][i] = IF i > t THEN IF x = m THEN Nil ELSE l.forward[x][i]
                        ELSE IF x = m THEN l.forward[path[i].node][i]
                        ELSE IF x = path[i].node THEN m
                        ELSE l.forward[x][i]
  OBVIOUS
<1>11. \A x \in Nodes : \A i \in Levels :
          S[x][i] = IF x = m THEN IF i > t THEN 0 ELSE span[path[i].node][i] - rank(i)
                        ELSE IF x # path[i].node \/ i > Top(l, t) THEN span[x][i]
                        ELSE IF i <= t THEN rank(i) + 1
                        ELSE span[x][i] + 1
  OBVIOUS
<1>12. \A x \in Members :
          /\ B[x] = IF x = m THEN IF last = Header THEN Nil ELSE last
                        ELSE IF x = next THEN m
                        ELSE l.backward[x]
          /\ C[x] = IF x = m THEN score ELSE l.score[x]
  BY <1>2
<1> HIDE DEF F, S, B, C
<1>13. /\ e.forward = F /\ e.span = S /\ e.backward = B /\ e.score = C
       /\ e.tail = (IF next = Nil THEN m ELSE l.tail) /\ e.length = l.length + 1
       /\ e.level = Top(l, t)
  BY <1>1
<1>14. e \in ListType
  BY <1>1, <1>2, <1>3, <1>4, <1>7, <1>8, <1>9 DEF ListType
<1>15. \A x \in Nodes : \A i \in Levels :
                 /\ t < i => e.forward[x][i] = IF x = m THEN Nil ELSE l.forward[x][i]
                 /\ i <= t => e.forward[x][i] = IF x = m THEN l.forward[path[i].node][i]
                                                ELSE IF x = path[i].node THEN m
                                                ELSE l.forward[x][i]
  <2> SUFFICES ASSUME NEW x \in Nodes, NEW i \in Levels
               PROVE  /\ t < i => e.forward[x][i] = IF x = m THEN Nil ELSE l.forward[x][i]
                      /\ i <= t => e.forward[x][i] = IF x = m THEN l.forward[path[i].node][i]
                                                ELSE IF x = path[i].node THEN m
                                                ELSE l.forward[x][i]
    OBVIOUS
  <2>1. i \in Nat /\ t \in Nat
    BY <1>3
  <2>2. (i > t <=> t < i) /\ (i <= t <=> ~(i > t))
    BY <2>1
  <2>3. e.forward[x][i] = IF i > t THEN IF x = m THEN Nil ELSE l.forward[x][i]
                        ELSE IF x = m THEN l.forward[path[i].node][i]
                        ELSE IF x = path[i].node THEN m
                        ELSE l.forward[x][i]
    BY <1>10, <1>13
  <2> QED
    BY <2>2, <2>3
<1>16. \A x \in Nodes : \A i \in Levels :
                 /\ x # m /\ (x # path[i].node \/ i > Top(l, t)) => e.span[x][i] = Raised(l, t)[x][i]
                 /\ x # m /\ x = path[i].node /\ i <= t =>
                       e.span[x][i] = path[1].rank - path[i].rank + 1
                 /\ x # m /\ x = path[i].node /\ t < i /\ i <= Top(l, t) =>
                       e.span[x][i] = Raised(l, t)[x][i] + 1
                 /\ x = m /\ i <= t =>
                       e.span[x][i] = Raised(l, t)[path[i].node][i] - (path[1].rank - path[i].rank)
  <2> SUFFICES ASSUME NEW x \in Nodes, NEW i \in Levels
               PROVE  /\ x # m /\ (x # path[i].node \/ i > Top(l, t)) => e.span[x][i] = span[x][i]
                      /\ x # m /\ x = path[i].node /\ i <= t => e.span[x][i] = rank(i) + 1
                      /\ x # m /\ x = path[i].node /\ t < i /\ i <= Top(l, t) =>
                            e.span[x][i] = span[x][i] + 1
                      /\ x = m /\ i <= t => e.span[x][i] = span[path[i].node][i] - rank(i)
    BY DEF rank, span
  <2>1. t <= Top(l, t)
    BY <1>3 DEF Top
  <2>2. i \in Nat
    BY <1>3
  <2> QED
    BY <1>3, <1>11, <1>13, <2>1, <2>2
<1> QED
  BY <1>12, <1>13, <1>14, <1>15, <1>16

\* The header, when it is raised, spans the whole list.
LEMMA RaisedIs ==
    ASSUME NEW l, NEW n, NEW q, NEW h, Shape(l, n, q, h), NEW t \in Levels,
           NEW k \in 0 .. n, NEW i \in Levels, i <= h[k], NEW j, Hop(n, h, k, i, j), i <= Top(l, t)
    PROVE  Raised(l, t)[q[k]][i] = IF j = n + 1 THEN n - k ELSE j - k
<1>0. /\ n \in Nat /\ Tall(n, h) /\ l.level \in Nat /\ t \in Nat /\ i \in Nat
      /\ \A x \in 1 .. n : h[x] \in Nat /\ h[x] <= l.level
      /\ l.span \in [Nodes -> [Levels -> Int]] /\ l.length = n
      /\ q[0] = Header /\ \A x \in 1 .. n : q[x] # Header /\ q[x] \in Nodes
  <2>1. Tall(n, h) /\ n \in Nat /\ l.level \in Levels /\ l.span \in [Nodes -> [Levels -> Int]]
    BY DEF Shape, Row, ListType
  <2>2. l.level \in Nat /\ t \in Nat /\ i \in Nat
    BY <2>1, LevelsAre
  <2>3. \A x \in 1 .. n : h[x] \in Nat
    BY <2>1, TallIs
  <2> QED
    BY <2>1, <2>2, <2>3, MembersAssumption DEF Shape, Row, Ends, Nodes
<1>1. j \in 1 .. n + 1 /\ j \in k + 1 .. n + 1
  BY <1>0 DEF Hop
<1>2. CASE i <= l.level
  <2>1. l.span[q[k]][i] = IF j = n + 1 THEN n - k ELSE j - k
    BY <1>1, <1>2 DEF Shape, Links
  <2>2. CASE k = 0
    <3>1. Raised(l, t)[Header] = [x \in Levels |-> IF x \in (l.level + 1) .. t THEN l.length
                                                   ELSE l.span[Header][x]]
      BY <1>0 DEF Raised, Nodes
    <3>2. i \notin (l.level + 1) .. t
      BY <1>0, <1>2
    <3> QED
      BY <1>0, <2>1, <2>2, <3>1, <3>2
  <2>3. CASE k # 0
    <3>1. Raised(l, t)[q[k]] = l.span[q[k]]
      BY <1>0, <2>3 DEF Raised
    <3> QED
      BY <2>1, <3>1
  <2> QED
    BY <2>2, <2>3
<1>3. CASE l.level < i
  <2>1. k = 0
    BY <1>0, <1>3
  <2>2. j = n + 1
    BY <1>0, <1>1, <1>3, <2>1 DEF Hop
  <2>3. Raised(l, t)[Header] = [x \in Levels |-> IF x \in (l.level + 1) .. t THEN l.length
                                                 ELSE l.span[Header][x]]
    BY <1>0 DEF Raised, Nodes
  <2>4. i \in (l.level + 1) .. t
    BY <1>0, <1>3 DEF Top
  <2> QED
    BY <1>0, <2>1, <2>2, <2>3, <2>4
<1> QED
  BY <1>0, <1>2, <1>3

\* A list with one node more.
LEMMA InsertShape ==
    ASSUME NEW l, NEW n, NEW q, NEW h, Shape(l, n, q, h), NEW m \in Members,
           \A k \in 1 .. n : q[k] # m, NEW score \in Int, NEW t \in Levels,
           NEW p, Splits(n, q, Befores(l, m, score), p)
    PROVE  /\ Shape(Insert(l, m, score, t), n + 1, Put(n, q, p, m), Put(n, h, p, t))
           /\ \A x \in Members : Insert(l, m, score, t).score[x] = IF x = m THEN score ELSE l.score[x]
<1> DEFINE path == Path(l, Befores(l, m, score))
           e == Insert(l, m, score, t)
           Q == Put(n, q, p, m)
           H == Put(n, h, p, t)
           R == Raised(l, t)
<1>0. /\ l \in ListType /\ Row(n, q) /\ Tall(n, h) /\ n \in Nat /\ p \in 1 .. n + 1
      /\ PathAt(n, q, h, p, path)
  BY PathIs DEF Shape, Row, Splits
<1> HIDE DEF path
<1>1. /\ \A k \in 0 .. n : q[k] \in Nodes /\ q[k] # m
      /\ q[0] = Header /\ q[n + 1] = Nil /\ Nil \notin Nodes /\ m # Header
      /\ \A k \in 1 .. n : q[k] \in Members
      /\ \A j, k \in 0 .. n + 1 : q[j] = q[k] => j = k
  BY <1>0, MembersAssumption DEF Row, Nodes
<1>2. \A i \in Levels : path[i].node \in Nodes /\ path[i].rank \in Int
  <2> SUFFICES ASSUME NEW i \in Levels
               PROVE  path[i].node \in Nodes /\ path[i].rank \in Int
    OBVIOUS
  <2>1. PICK s \in 0 .. p - 1 : path[i].node = q[s] /\ path[i].rank = s
    BY <1>0, PathHas
  <2>2. s \in 0 .. n
    BY <1>0
  <2> QED
    BY <1>1, <2>1, <2>2
<1>3. /\ e \in ListType
      /\ \A x \in Nodes : \A i \in Levels :
                 /\ t < i => e.forward[x][i] = IF x = m THEN Nil ELSE l.forward[x][i]
                 /\ i <= t => e.forward[x][i] = IF x = m THEN l.forward[path[i].node][i]
                                                ELSE IF x = path[i].node THEN m
                                                ELSE l.forward[x][i]
      /\ \A x \in Nodes : \A i \in Levels :
                 /\ x # m /\ (x # path[i].node \/ i > Top(l, t)) => e.span[x][i] = R[x][i]
                 /\ x # m /\ x = path[i].node /\ i <= t =>
                       e.span[x][i] = path[1].rank - path[i].rank + 1
                 /\ x # m /\ x = path[i].node /\ t < i /\ i <= Top(l, t) =>
                       e.span[x][i] = R[x][i] + 1
                 /\ x = m /\ i <= t =>
                       e.span[x][i] = R[path[i].node][i] - (path[1].rank - path[i].rank)
      /\ \A x \in Members :
                 e.backward[x] = IF x = m THEN IF path[1].node = Header THEN Nil ELSE path[1].node
                                 ELSE IF x = l.forward[path[1].node][1] THEN m
                                 ELSE l.backward[x]
      /\ \A x \in Members : e.score[x] = IF x = m THEN score ELSE l.score[x]
      /\ e.tail = IF l.forward[path[1].node][1] = Nil THEN m ELSE l.tail
      /\ e.length = l.length + 1
      /\ e.level = Top(l, t)
  BY <1>0, <1>2, InsertIs DEF path
<1> HIDE DEF e
<1>4. Row(n + 1, Q) /\ Tall(n + 1, H)
  BY <1>0, PutRow, PutTall
<1>5. /\ \A k \in 0 .. p - 1 : Q[k] = q[k]
      /\ Q[p] = m
      /\ \A k \in p .. n + 1 : Q[k + 1] = q[k]
  <2>1. \A k \in 0 .. p - 1 : Q[k] = q[k]
    BY <1>0, PutIs
  <2>2. Q[p] = m
    BY <1>0 DEF Put
  <2>3. \A k \in p .. n + 1 : Q[k + 1] = q[k]
    BY <1>0, PutIs
  <2> QED
    BY <2>1, <2>2, <2>3
<1>6. /\ \A k \in 0 .. p - 1 : H[k] = h[k]
      /\ H[p] = t
      /\ \A k \in p .. n + 1 : H[k + 1] = h[k]
  <2>1. \A k \in 0 .. p - 1 : H[k] = h[k]
    BY <1>0, PutIs
  <2>2. H[p] = t
    BY <1>0 DEF Put
  <2>3. \A k \in p .. n + 1 : H[k + 1] = h[k]
    <3> SUFFICES ASSUME NEW k \in p .. n + 1
                 PROVE  H[k + 1] = h[k]
      OBVIOUS
    <3>1. k + 1 \in 0 .. n + 2 /\ ~(k + 1 < p) /\ k + 1 # p /\ (k + 1) - 1 = k
      BY <1>0
    <3> QED
      BY <3>1 DEF Put
  <2> QED
    BY <2>1, <2>2, <2>3
<1>7. /\ \A k \in 0 .. n + 1 : h[k] \in Nat
      /\ t \in Nat /\ l.level \in Nat /\ 1 \in Levels /\ \A i \in Levels : i \in Nat /\ 1 <= i
      /\ l.level <= Top(l, t) /\ t <= Top(l, t) /\ Top(l, t) \in Nat
      /\ Top(l, t) = l.level \/ Top(l, t) = t
  <2>1. l.level \in Levels
    BY <1>0 DEF ListType
  <2>2. l.level \in Nat /\ t \in Nat
    BY <2>1, LevelsAre
  <2>3. /\ l.level <= Top(l, t) /\ t <= Top(l, t) /\ Top(l, t) \in Nat
        /\ Top(l, t) = l.level \/ Top(l, t) = t
    BY <2>2 DEF Top
  <2> QED
    BY <1>0, <2>2, <2>3, TallIs, LevelsAre
<1>8. \A a, b, i, k : k \in 0 .. n + 1 /\ i \in Levels /\ Hop(n + 1, H, k, i, a) /\ Hop(n + 1, H, k, i, b) => a = b
  BY <1>0, <1>4, HopIs
\* Before the new node: what the new hop is like.
<1>9. ASSUME NEW i \in Levels, NEW k \in 0 .. p - 1, i <= h[k], NEW J, Hop(n + 1, H, k, i, J)
      PROVE  /\ e.forward[q[k]][i] = Q[J]
             /\ i <= Top(l, t) => e.span[q[k]][i] = IF J = n + 2 THEN n + 1 - k ELSE J - k
  <2>0. k \in 0 .. n /\ k \in 0 .. n + 1
    BY <1>0
  <2>1. PICK j \in k + 1 .. n + 1 : Hop(n, h, k, i, j)
    BY <1>0, <2>0, HopIs
  <2>2. /\ l.forward[q[k]][i] = q[j]
        /\ i <= Top(l, t) => R[q[k]][i] = IF j = n + 1 THEN n - k ELSE j - k
    <3>1. j \in 1 .. n + 1
      BY <2>0, <2>1
    <3> QED
      BY <1>9, <2>0, <2>1, <3>1, RaisedIs DEF Shape, Links
  <2>3. p <= j <=> Stop(h, p, i, k)
    BY <1>0, <1>9, <2>1, HopStop
  <2>4. CASE j < p
    <3>1. q[k] # path[i].node
      BY <1>0, <2>0, <2>3, <2>4, PathHas
    <3>2. J = j
      <4>1. Hop(n + 1, H, k, i, j)
        BY <1>0, <2>0, <2>1, <2>4, PutHop
      <4> QED
        BY <1>8, <1>9, <2>0, <4>1
    <3>3. Q[J] = q[j]
      <4>1. j \in 0 .. p - 1
        BY <1>0, <2>1, <2>4
      <4> QED
        BY <1>5, <3>2, <4>1
    <3>4. e.forward[q[k]][i] = q[j]
      <4>1. q[k] \in Nodes /\ q[k] # m /\ (t < i \/ i <= t)
        BY <1>1, <1>7, <2>0
      <4>2. e.forward[q[k]][i] = l.forward[q[k]][i]
        BY <1>3, <3>1, <4>1
      <4> QED
        BY <2>2, <4>2
    <3>5. e.span[q[k]][i] = R[q[k]][i]
      BY <1>1, <1>3, <2>0, <3>1
    <3> QED
      BY <1>0, <2>1, <2>2, <2>4, <3>2, <3>3, <3>4, <3>5
  <2>5. CASE p <= j
    <3>1. q[k] = path[i].node /\ path[i].rank = k /\ path[1].rank = p - 1
      <4>1. Stop(h, p, i, k)
        BY <2>3, <2>5
      <4>2. path[i] = PlaceOf(q, k)
        BY <1>0, <2>0, <4>1 DEF PathAt
      <4>3. path[1].rank = p - 1
        BY <1>0, PathHas
      <4> QED
        BY <4>2, <4>3 DEF PlaceOf
    <3>2. CASE i <= t
      <4>1. J = p
        <5>1. Hop(n + 1, H, k, i, p)
          BY <1>0, <2>0, <2>1, <2>5, <3>2, PutHop
        <5> QED
          BY <1>8, <1>9, <2>0, <5>1
      <4>2. e.forward[q[k]][i] = m /\ e.span[q[k]][i] = p - 1 - k + 1
        BY <1>1, <1>3, <2>0, <3>1, <3>2
      <4> QED
        BY <1>0, <1>5, <4>1, <4>2
    <3>3. CASE t < i
      <4>1. J = j + 1
        <5>1. Hop(n + 1, H, k, i, j + 1)
          BY <1>0, <2>0, <2>1, <2>5, <3>3, PutHop
        <5> QED
          BY <1>8, <1>9, <2>0, <5>1
      <4>2. e.forward[q[k]][i] = q[j]
        BY <1>1, <1>3, <2>0, <2>2, <3>3
      <4>3. i <= Top(l, t) => e.span[q[k]][i] = R[q[k]][i] + 1
        BY <1>1, <1>3, <2>0, <3>1, <3>3
      <4>4. Q[J] = q[j]
        BY <1>5, <2>1, <2>5, <4>1
      <4> QED
        BY <1>0, <2>1, <2>2, <4>1, <4>2, <4>3, <4>4
    <3>4. i <= t \/ t < i
      <4>1. i \in Nat /\ t \in Nat
        BY <1>7
      <4> QED
        BY <4>1
    <3> QED
      BY <3>2, <3>3, <3>4, Zenon
  <2>6. j < p \/ p <= j
    BY <1>0, <2>1
  <2> QED
    BY <2>4, <2>5, <2>6, Zenon
<1>10. ASSUME NEW i \in Levels, i <= t, NEW J, Hop(n + 1, H, p, i, J)
       PROVE  /\ e.forward[m][i] = Q[J]
              /\ e.span[m][i] = IF J = n + 2 THEN n + 1 - p ELSE J - p
  <2>1. PICK s \in 0 .. p - 1 : /\ Stop(h, p, i, s) /\ i <= h[s]
                                /\ path[i].node = q[s] /\ path[i].rank = s
    <3>1. Row(n, q) /\ Tall(n, h) /\ p \in 1 .. n + 1 /\ PathAt(n, q, h, p, path)
      BY <1>0
    <3> QED
      BY <3>1, PathHas
  <2>2. s \in 0 .. n /\ path[1].rank = p - 1 /\ p \in 0 .. n + 1
    BY <1>0, PathHas
  <2>3. PICK j \in s + 1 .. n + 1 : Hop(n, h, s, i, j)
    BY <1>0, <2>2, HopIs
  <2>4. p <= j
    BY <1>0, <2>1, <2>3, HopStop
  <2>5. J = j + 1
    <3>1. Hop(n + 1, H, p, i, j + 1)
      BY <1>0, <2>1, <2>2, <2>3, <2>4, PutHop
    <3> QED
      BY <1>8, <1>10, <2>2, <3>1
  <2>6. /\ l.forward[q[s]][i] = q[j]
        /\ R[q[s]][i] = IF j = n + 1 THEN n - s ELSE j - s
    <3>1. j \in 1 .. n + 1 /\ i <= Top(l, t)
      BY <1>7, <1>10, <2>2, <2>3
    <3> QED
      BY <2>1, <2>2, <2>3, <3>1, RaisedIs DEF Shape, Links
  <2>7. m \in Nodes
    BY DEF Nodes
  <2>8. e.forward[m][i] = q[j]
    BY <1>3, <1>10, <2>1, <2>6, <2>7
  <2>9. e.span[m][i] = R[q[s]][i] - (p - 1 - s)
    BY <1>3, <1>10, <2>1, <2>2, <2>7
  <2>10. Q[J] = q[j]
    BY <1>5, <2>3, <2>4, <2>5
  <2> QED
    BY <1>0, <2>1, <2>3, <2>5, <2>6, <2>8, <2>9, <2>10
<1>11. ASSUME NEW i \in Levels, NEW k \in p .. n, i <= h[k], NEW J, Hop(n + 1, H, k + 1, i, J)
       PROVE  /\ e.forward[q[k]][i] = Q[J]
              /\ i <= Top(l, t) => e.span[q[k]][i] = IF J = n + 2 THEN n + 1 - (k + 1) ELSE J - (k + 1)
  <2>0. k \in 0 .. n /\ k + 1 \in 0 .. n + 1
    BY <1>0
  <2>1. PICK j \in k + 1 .. n + 1 : Hop(n, h, k, i, j)
    BY <1>0, <2>0, HopIs
  <2>2. /\ l.forward[q[k]][i] = q[j]
        /\ i <= Top(l, t) => R[q[k]][i] = IF j = n + 1 THEN n - k ELSE j - k
    <3>1. j \in 1 .. n + 1
      BY <2>0, <2>1
    <3> QED
      BY <1>11, <2>0, <2>1, <3>1, RaisedIs DEF Shape, Links
  <2>3. q[k] # path[i].node
    <3>1. ~(k < p)
      BY <1>0
    <3> QED
      BY <1>0, <2>0, <3>1, PathHas
  <2>4. J = j + 1
    <3>1. Hop(n + 1, H, k + 1, i, j + 1)
      BY <1>0, <2>0, <2>1, PutHop
    <3> QED
      BY <1>8, <1>11, <2>0, <3>1
  <2>5. e.forward[q[k]][i] = q[j]
    BY <1>1, <1>3, <1>7, <2>0, <2>2, <2>3
  <2>6. e.span[q[k]][i] = R[q[k]][i]
    BY <1>1, <1>3, <2>0, <2>3
  <2>7. Q[J] = q[j]
    <3>1. j \in p .. n + 1
      BY <1>0, <2>1
    <3> QED
      BY <1>5, <2>4, <3>1
  <2> QED
    BY <1>0, <2>1, <2>2, <2>4, <2>5, <2>6, <2>7
\* Every position of the new row.
<1>12. ASSUME NEW K \in 0 .. n + 1
       PROVE  \/ K \in 0 .. p - 1 /\ K \in 0 .. n /\ Q[K] = q[K] /\ H[K] = h[K]
              \/ K = p /\ Q[K] = m /\ H[K] = t
              \/ \E k \in p .. n : K = k + 1 /\ Q[K] = q[k] /\ H[K] = h[k]
  <2>1. CASE K < p
    BY <1>0, <1>5, <1>6, <2>1
  <2>2. CASE K = p
    BY <1>5, <1>6, <2>2
  <2>3. CASE p < K
    <3>1. K - 1 \in p .. n /\ K - 1 \in p .. n + 1 /\ K = (K - 1) + 1
      BY <1>0, <2>3
    <3>2. Q[(K - 1) + 1] = q[K - 1] /\ H[(K - 1) + 1] = h[K - 1]
      BY <1>5, <1>6, <3>1
    <3> QED
      BY <3>1, <3>2
  <2> QED
    BY <1>0, <2>1, <2>2, <2>3
<1>13. Links(e, n + 1, Q, H)
  <2>1. ASSUME NEW K \in 0 .. n + 1, NEW J \in 1 .. (n + 1) + 1, NEW i \in Levels,
               i <= H[K], Hop(n + 1, H, K, i, J)
        PROVE  /\ e.forward[Q[K]][i] = Q[J]
               /\ i <= e.level => e.span[Q[K]][i] = (IF J = (n + 1) + 1 THEN (n + 1) - K ELSE J - K)
    <3> DEFINE G(x, y) ==
                  /\ e.forward[x][i] = Q[J]
                  /\ i <= Top(l, t) => e.span[x][i] = IF J = n + 2 THEN n + 1 - y ELSE J - y
    <3>0. e.level = Top(l, t) /\ (n + 1) + 1 = n + 2
      BY <1>0, <1>3
    <3>1. ASSUME K \in 0 .. p - 1, i <= h[K]
          PROVE  G(q[K], K)
      BY <1>9, <2>1, <3>1
    <3>2. ASSUME K = p, i <= t
          PROVE  G(m, K)
      <4>1. Hop(n + 1, H, p, i, J)
        BY <2>1, <3>2
      <4>2. G(m, p)
        BY <1>10, <3>2, <4>1
      <4> QED
        BY <3>2, <4>2
    <3>3. ASSUME NEW k \in p .. n, K = k + 1, i <= h[k]
          PROVE  G(q[k], K)
      <4>1. Hop(n + 1, H, k + 1, i, J)
        BY <2>1, <3>3
      <4>2. G(q[k], k + 1)
        BY <1>11, <3>3, <4>1
      <4> QED
        BY <3>3, <4>2
    <3> HIDE DEF G
    <3>4. G(Q[K], K)
      BY <1>12, <2>1, <3>1, <3>2, <3>3
    <3>5. (IF J = (n + 1) + 1 THEN (n + 1) - K ELSE J - K) = (IF J = n + 2 THEN n + 1 - K ELSE J - K)
      BY <1>0
    <3> QED
      BY <3>0, <3>4, <3>5 DEF G
  <2>2. ASSUME NEW k \in 0 .. n, NEW i \in Levels, h[k] < i
        PROVE  e.forward[q[k]][i] = Nil
    <3>1. l.forward[q[k]][i] = Nil
      BY <2>2 DEF Shape, Links
    <3>2. q[k] # path[i].node
      <4>1. SUFFICES ASSUME q[k] = path[i].node
                     PROVE  FALSE
        OBVIOUS
      <4>2. PICK s \in 0 .. p - 1 : i <= h[s] /\ path[i].node = q[s]
        BY <1>0, PathHas
      <4>3. s = k /\ h[k] \in Nat /\ i \in Nat
        BY <1>0, <1>1, <1>7, <4>1, <4>2
      <4> QED
        BY <2>2, <4>2, <4>3
    <3> QED
      BY <1>1, <1>3, <1>7, <3>1, <3>2
  <2>3. ASSUME NEW K \in 0 .. n + 1, NEW i \in Levels, H[K] < i
        PROVE  e.forward[Q[K]][i] = Nil
    <3>1. CASE K \in 0 .. p - 1 /\ K \in 0 .. n /\ Q[K] = q[K] /\ H[K] = h[K]
      BY <2>2, <2>3, <3>1
    <3>2. CASE K = p /\ Q[K] = m /\ H[K] = t
      <4>1. m \in Nodes
        BY DEF Nodes
      <4> QED
        BY <1>3, <2>3, <3>2, <4>1
    <3>3. ASSUME NEW k \in p .. n, K = k + 1, Q[K] = q[k], H[K] = h[k]
          PROVE  e.forward[Q[K]][i] = Nil
      <4>1. k \in 0 .. n
        BY <1>0
      <4> QED
        BY <2>2, <2>3, <3>3, <4>1
    <3> QED
      BY <1>12, <3>1, <3>2, <3>3
  <2>4. ASSUME NEW x \in Members, \A K \in 1 .. n + 1 : Q[K] # x, NEW i \in Levels
        PROVE  e.forward[x][i] = Nil
    <3>1. x # m
      BY <1>0, <1>5, <2>4
    <3>2. \A k \in 1 .. n : q[k] # x
      <4> SUFFICES ASSUME NEW k \in 1 .. n
                   PROVE  q[k] # x
        OBVIOUS
      <4>1. CASE k < p
        <5>1. Q[k] = q[k] /\ k \in 1 .. n + 1
          BY <1>0, <1>5, <4>1
        <5> QED
          BY <2>4, <5>1
      <4>2. CASE p <= k
        <5>1. Q[k + 1] = q[k] /\ k + 1 \in 1 .. n + 1
          BY <1>0, <1>5, <4>2
        <5> QED
          BY <2>4, <5>1
      <4> QED
        BY <1>0, <4>1, <4>2
    <3>3. l.forward[x][i] = Nil
      BY <3>2 DEF Shape, Links
    <3>4. x # path[i].node
      <4>1. PICK s \in 0 .. p - 1 : path[i].node = q[s]
        BY <1>0, PathHas
      <4>2. CASE s = 0
        BY <1>1, <4>1, <4>2, MembersAssumption
      <4>3. CASE s # 0
        <5>1. s \in 1 .. n
          BY <1>0, <4>3
        <5> QED
          BY <3>2, <4>1, <5>1
      <4> QED
        BY <4>2, <4>3
    <3>5. x \in Nodes
      BY DEF Nodes
    <3> QED
      BY <1>3, <1>7, <3>1, <3>3, <3>4, <3>5
  <2> QED
    BY <2>1, <2>3, <2>4 DEF Links
<1>14. /\ path[1].node = q[p - 1] /\ l.forward[q[p - 1]][1] = q[p]
       /\ p - 1 \in 0 .. n
  <2>1. p - 1 \in 0 .. n /\ p \in 0 .. n + 1 /\ p \in 1 .. n + 1 /\ p - 1 \in 0 .. n + 1
    BY <1>0
  <2>2. 1 <= h[p - 1] /\ 1 <= h[p]
    BY <1>0, <2>1, TallIs, LevelsAre
  <2>3. Hop(n, h, p - 1, 1, p)
    BY <1>0, <2>1, <2>2 DEF Hop
  <2>4. path[1].node = q[p - 1]
    BY <1>0, <1>7, PathHas
  <2> QED
    BY <1>7, <2>1, <2>2, <2>3, <2>4 DEF Shape, Links
<1>15. ASSUME NEW k \in 1 .. n + 1
       PROVE  e.backward[Q[k]] = IF k = 1 THEN Nil ELSE Q[k - 1]
  <2>0. \A x \in 1 .. n : l.backward[q[x]] = IF x = 1 THEN Nil ELSE q[x - 1]
    BY DEF Shape, Ends
  <2>1. CASE k < p
    <3>1. k \in 1 .. n /\ q[k] # q[p] /\ Q[k] = q[k] /\ (k # 1 => Q[k - 1] = q[k - 1])
      BY <1>0, <1>1, <1>5, <2>1
    <3>2. e.backward[q[k]] = l.backward[q[k]]
      BY <1>1, <1>3, <1>14, <3>1
    <3> QED
      BY <2>0, <3>1, <3>2
  <2>2. CASE k = p
    <3>1. e.backward[m] = IF q[p - 1] = Header THEN Nil ELSE q[p - 1]
      BY <1>3, <1>14
    <3>2. q[p - 1] = Header <=> p = 1
      BY <1>0, <1>1, <1>14
    <3>3. p # 1 => Q[p - 1] = q[p - 1]
      BY <1>0, <1>5
    <3> QED
      BY <1>5, <2>2, <3>1, <3>2, <3>3
  <2>3. CASE k = p + 1
    <3>1. Q[k] = q[p] /\ p \in 1 .. n /\ Q[k - 1] = m /\ k # 1
      BY <1>0, <1>5, <2>3
    <3> QED
      BY <1>1, <1>3, <1>14, <3>1
  <2>4. CASE p + 1 < k
    <3>1. /\ k - 1 \in p .. n /\ k - 1 \in 1 .. n /\ k - 1 # 1 /\ (k - 1) + 1 = k
          /\ k - 2 \in p .. n + 1 /\ (k - 2) + 1 = k - 1 /\ (k - 1) - 1 = k - 2 /\ k - 1 \in p .. n + 1
          /\ p \in 0 .. n + 1 /\ k - 1 \in 0 .. n + 1 /\ k - 1 # p /\ k # 1
      BY <1>0, <2>4
    <3>2. Q[(k - 1) + 1] = q[k - 1] /\ Q[(k - 2) + 1] = q[k - 2]
      BY <1>5, <3>1
    <3>3. q[k - 1] # q[p]
      BY <1>1, <3>1
    <3>4. e.backward[q[k - 1]] = l.backward[q[k - 1]]
      <4>1. q[k - 1] \in Members /\ q[k - 1] # m
        BY <1>1, <3>1
      <4> QED
        BY <1>3, <1>14, <3>3, <4>1
    <3>5. l.backward[q[k - 1]] = q[(k - 1) - 1]
      BY <2>0, <3>1
    <3> QED
      BY <3>1, <3>2, <3>4, <3>5
  <2> QED
    BY <1>0, <2>1, <2>2, <2>3, <2>4
<1>16. Ends(e, n + 1, Q, H)
  <2>0. /\ \A k \in 1 .. n : h[k] <= l.level
        /\ l.level = 1 \/ \E k \in 1 .. n : h[k] = l.level
        /\ l.tail = (IF n = 0 THEN Nil ELSE q[n]) /\ l.length = n
    BY DEF Shape, Ends
  <2>1. ASSUME NEW K \in 1 .. n + 1
        PROVE  H[K] <= e.level
    <3>0. e.level = Top(l, t) /\ K \in 0 .. n + 1
      BY <1>3
    <3>1. CASE K \in 0 .. p - 1 /\ K \in 0 .. n /\ H[K] = h[K]
      <4>1. K \in 1 .. n /\ h[K] \in Nat
        BY <1>7, <3>0, <3>1
      <4> QED
        BY <1>7, <2>0, <3>0, <3>1, <4>1
    <3>2. CASE K = p /\ H[K] = t
      BY <1>7, <3>0, <3>2
    <3>3. ASSUME NEW k \in p .. n, K = k + 1, H[K] = h[k]
          PROVE  H[K] <= e.level
      <4>1. k \in 1 .. n /\ h[k] \in Nat
        BY <1>0, <1>7
      <4> QED
        BY <1>7, <2>0, <3>0, <3>3, <4>1
    <3> QED
      BY <1>12, <3>0, <3>1, <3>2, <3>3
  <2>2. e.level = 1 \/ \E K \in 1 .. n + 1 : H[K] = e.level
    <3>0. e.level = Top(l, t) /\ p \in 1 .. n + 1
      BY <1>0, <1>3
    <3>1. CASE Top(l, t) = t
      BY <1>6, <3>0, <3>1
    <3>2. CASE Top(l, t) = l.level /\ l.level # 1
      <4>1. PICK k \in 1 .. n : h[k] = l.level
        BY <2>0, <3>2
      <4>2. CASE k < p
        <5>1. k \in 1 .. n + 1 /\ H[k] = h[k]
          BY <1>0, <1>6, <4>2
        <5> QED
          BY <3>0, <3>2, <4>1, <5>1
      <4>3. CASE p <= k
        <5>1. k + 1 \in 1 .. n + 1 /\ H[k + 1] = h[k]
          BY <1>0, <1>6, <4>3
        <5> QED
          BY <3>0, <3>2, <4>1, <5>1
      <4> QED
        BY <1>0, <4>2, <4>3
    <3> QED
      BY <1>7, <3>0, <3>1, <3>2
  <2>3. e.tail = (IF n + 1 = 0 THEN Nil ELSE Q[n + 1])
    <3>1. e.tail = IF q[p] = Nil THEN m ELSE l.tail
      BY <1>3, <1>14
    <3>2. q[p] = Nil <=> p = n + 1
      BY <1>0, <1>1
    <3>3. p # n + 1 => n # 0 /\ Q[n + 1] = q[n]
      BY <1>0, <1>5
    <3> QED
      BY <1>0, <1>5, <2>0, <3>1, <3>2, <3>3
  <2>4. e.length = n + 1
    BY <1>3, <2>0
  <2> QED
    BY <1>15, <2>1, <2>2, <2>3, <2>4 DEF Ends
<1> QED
  BY <1>3, <1>4, <1>13, <1>16 DEF Shape, e

-------------------------------------------------------------------------------
(* RemoveNode *)

\* The greatest of some levels.
LEMMA GreatestLevel ==
    ASSUME NEW U \in SUBSET Levels, U # {}
    PROVE  \E i \in U : \A j \in U : j <= i
<1> DEFINE T == {d \in Nat : \E i \in U : i + d = MaxLevel}
<1>1. \A i \in U : i \in Nat /\ MaxLevel - i \in Nat /\ i + (MaxLevel - i) = MaxLevel
  BY LevelsAre
<1>2. MaxLevel \in Nat
  BY LevelsAre
<1>3. T # {}
  BY <1>1
<1>4. PICK d \in T : \A y \in T : ~(y < d)
  BY <1>3, LeastNumber
<1>5. PICK i \in U : i + d = MaxLevel
  BY <1>4
<1>6. ASSUME NEW j \in U
      PROVE  j <= i
  <2>1. MaxLevel - j \in T
    BY <1>1
  <2>2. ~(MaxLevel - j < d) /\ j \in Nat /\ i \in Nat /\ d \in Nat
    BY <1>1, <1>4, <2>1
  <2> QED
    BY <1>2, <1>5, <2>2
<1> QED
  BY <1>5, <1>6

\* What the fields are without the node.
LEMMA RemoveIs ==
    ASSUME NEW l \in ListType, NEW m \in Members, NEW path, NEW e, e = RemoveNode(l, m, path)
    PROVE  LET used == {i \in 2 .. l.level : e.forward[Header][i] # Nil} IN
           /\ e \in ListType
           /\ \A x \in Nodes : \A i \in Levels :
                 /\ e.forward[x][i] =
                       IF x = m THEN Nil
                       ELSE IF i <= l.level /\ x = path[i].node /\ l.forward[x][i] = m
                            THEN l.forward[m][i]
                       ELSE l.forward[x][i]
                 /\ x # m => e.span[x][i] =
                       IF ~(i <= l.level /\ x = path[i].node) THEN l.span[x][i]
                       ELSE IF l.forward[x][i] = m THEN l.span[x][i] + l.span[m][i] - 1
                       ELSE l.span[x][i] - 1
           /\ \A x \in Members :
                 /\ e.backward[x] = IF x = m THEN Nil ELSE IF x = l.forward[m][1] THEN l.backward[m]
                                    ELSE l.backward[x]
                 /\ e.score[x] = IF x = m THEN 0 ELSE l.score[x]
           /\ e.tail = IF l.forward[m][1] = Nil THEN l.backward[m] ELSE l.tail
           /\ e.length = l.length - 1
           /\ used \in SUBSET Levels
           /\ used = {} => e.level = 1
           /\ used # {} => e.level \in used /\ \A j \in used : j <= e.level
<1> DEFINE at(n, i) == i <= l.level /\ n = path[i].node
           F == [n \in Nodes |-> [i \in Levels |->
                        IF n = m THEN Nil
                        ELSE IF at(n, i) /\ l.forward[n][i] = m THEN l.forward[m][i]
                        ELSE l.forward[n][i]]]
           next == l.forward[m][1]
           U == {i \in 2 .. l.level : F[Header][i] # Nil}
           S == [n \in Nodes |-> [i \in Levels |->
                        IF n = m THEN 0
                        ELSE IF ~at(n, i) THEN l.span[n][i]
                        ELSE IF l.forward[n][i] = m THEN l.span[n][i] + l.span[m][i] - 1
                        ELSE l.span[n][i] - 1]]
           B == [n \in Members |-> IF n = m THEN Nil
                                         ELSE IF n = next THEN l.backward[m]
                                         ELSE l.backward[n]]
           C == [l.score EXCEPT ![m] = 0]
           level == IF U = {} THEN 1 ELSE CHOOSE i \in U : \A j \in U : j <= i
<1>1. e = [forward |-> F, span |-> S, backward |-> B, score |-> C,
           tail |-> IF next = Nil THEN l.backward[m] ELSE l.tail, length |-> l.length - 1,
           level |-> level]
  BY DEF RemoveNode
<1>2. /\ l.forward \in [Nodes -> [Levels -> Members \cup {Nil}]]
      /\ l.span \in [Nodes -> [Levels -> Int]]
      /\ l.backward \in [Members -> Members \cup {Nil}] /\ l.score \in [Members -> Int]
      /\ l.tail \in Members \cup {Nil} /\ l.length \in Int /\ l.level \in Levels
  BY DEF ListType
<1>3. /\ \A i \in Levels : i \in Nat
      /\ 1 \in Levels /\ l.level \in Nat /\ m \in Nodes
  BY <1>2, LevelsAre DEF Nodes
<1>4. \A x \in Nodes : \A i \in Levels : l.forward[x][i] \in Members \cup {Nil} /\ l.span[x][i] \in Int
  BY <1>2
<1>5. next \in Members \cup {Nil} /\ l.backward[m] \in Members \cup {Nil}
  BY <1>2, <1>3, <1>4
<1>6. F \in [Nodes -> [Levels -> Members \cup {Nil}]]
  <2>1. \A n \in Nodes : \A i \in Levels :
            (IF n = m THEN Nil
                        ELSE IF at(n, i) /\ l.forward[n][i] = m THEN l.forward[m][i]
                        ELSE l.forward[n][i]) \in Members \cup {Nil}
    BY <1>3, <1>4
  <2> HIDE DEF at
  <2> QED
    BY <2>1
<1>7. S \in [Nodes -> [Levels -> Int]]
  <2>1. \A n \in Nodes : \A i \in Levels :
          (IF n = m THEN 0
                        ELSE IF ~at(n, i) THEN l.span[n][i]
                        ELSE IF l.forward[n][i] = m THEN l.span[n][i] + l.span[m][i] - 1
                        ELSE l.span[n][i] - 1) \in Int
    BY <1>3, <1>4
  <2> HIDE DEF at
  <2> QED
    BY <2>1
<1>8. B \in [Members -> Members \cup {Nil}] /\ C \in [Members -> Int]
  BY <1>2, <1>5
<1>9. \A x \in Nodes : \A i \in Levels :
         /\ F[x][i] = IF x = m THEN Nil
                        ELSE IF at(x, i) /\ l.forward[x][i] = m THEN l.forward[m][i]
                        ELSE l.forward[x][i]
         /\ S[x][i] = IF x = m THEN 0
                        ELSE IF ~at(x, i) THEN l.span[x][i]
                        ELSE IF l.forward[x][i] = m THEN l.span[x][i] + l.span[m][i] - 1
                        ELSE l.span[x][i] - 1
  OBVIOUS
<1>10. \A x \in Members :
          /\ B[x] = IF x = m THEN Nil ELSE IF x = next THEN l.backward[m] ELSE l.backward[x]
          /\ C[x] = IF x = m THEN 0 ELSE l.score[x]
  BY <1>2
<1> HIDE DEF F, S, B, C
<1>11. U \in SUBSET Levels
  <2>1. l.level <= MaxLevel /\ Levels = 1 .. MaxLevel
    BY <1>2, LevelsAre DEF Levels
  <2> QED
    BY <1>3, <2>1, LevelsAre
<1>12. /\ U = {} => level = 1
       /\ U # {} => level \in U /\ \A j \in U : j <= level
  <2> HIDE DEF U
  <2>1. U # {} => \E i \in U : \A j \in U : j <= i
    BY <1>11, GreatestLevel
  <2> QED
    BY <2>1
<1>13. level \in Levels
  BY <1>3, <1>11, <1>12
<1> HIDE DEF level
<1>14. /\ e.forward = F /\ e.span = S /\ e.backward = B /\ e.score = C
       /\ e.tail = (IF next = Nil THEN l.backward[m] ELSE l.tail) /\ e.length = l.length - 1
       /\ e.level = level
  BY <1>1
<1>15. e \in ListType
  BY <1>1, <1>2, <1>5, <1>6, <1>7, <1>8, <1>13 DEF ListType
<1>16. U = {i \in 2 .. l.level : e.forward[Header][i] # Nil}
  BY <1>14
<1> HIDE DEF U
<1>17. \A x \in Nodes : \A i \in Levels :
         /\ e.forward[x][i] =
                       IF x = m THEN Nil
                       ELSE IF i <= l.level /\ x = path[i].node /\ l.forward[x][i] = m
                            THEN l.forward[m][i]
                       ELSE l.forward[x][i]
         /\ x # m => e.span[x][i] =
                       IF ~(i <= l.level /\ x = path[i].node) THEN l.span[x][i]
                       ELSE IF l.forward[x][i] = m THEN l.span[x][i] + l.span[m][i] - 1
                       ELSE l.span[x][i] - 1
  BY <1>9, <1>14
<1> QED
  BY <1>10, <1>11, <1>12, <1>14, <1>15, <1>16, <1>17

\* A list with one node less, when the path has the last nodes before it on every level.
LEMMA RemoveShape ==
    ASSUME NEW l, NEW n, NEW q, NEW h, Shape(l, n, q, h), NEW p \in 1 .. n, NEW m, m = q[p],
           NEW path, PathAt(n, q, h, p, path), NEW e, e = RemoveNode(l, m, path)
    PROVE  /\ Shape(e, n - 1, Drop(n, q, p), Drop(n, h, p))
           /\ PathAt(n - 1, Drop(n, q, p), Drop(n, h, p), p, path)
           /\ \A x \in Members : e.score[x] = IF x = m THEN 0 ELSE l.score[x]
<1> DEFINE Q == Drop(n, q, p)
           H == Drop(n, h, p)
           used == {i \in 2 .. l.level : e.forward[Header][i] # Nil}
<1>0. /\ l \in ListType /\ Row(n, q) /\ Tall(n, h) /\ n \in Nat \ {0} /\ n \in Nat /\ n - 1 \in Nat
      /\ p \in 1 .. n + 1 /\ p \in 0 .. n + 1 /\ p \in 0 .. n
  BY DEF Shape, Row
<1>1. /\ \A k \in 0 .. n : q[k] \in Nodes
      /\ q[0] = Header /\ q[n + 1] = Nil /\ Nil \notin Nodes /\ m \in Members /\ m # Header /\ m # Nil
      /\ \A k \in 1 .. n : q[k] \in Members
      /\ \A j, k \in 0 .. n + 1 : q[j] = q[k] => j = k
  BY <1>0, MembersAssumption DEF Row, Nodes
<1>2. /\ e \in ListType
      /\ \A x \in Nodes : \A i \in Levels :
            /\ e.forward[x][i] =
                  IF x = m THEN Nil
                  ELSE IF i <= l.level /\ x = path[i].node /\ l.forward[x][i] = m
                       THEN l.forward[m][i]
                  ELSE l.forward[x][i]
            /\ x # m => e.span[x][i] =
                  IF ~(i <= l.level /\ x = path[i].node) THEN l.span[x][i]
                  ELSE IF l.forward[x][i] = m THEN l.span[x][i] + l.span[m][i] - 1
                  ELSE l.span[x][i] - 1
      /\ \A x \in Members :
            /\ e.backward[x] = IF x = m THEN Nil ELSE IF x = l.forward[m][1] THEN l.backward[m]
                               ELSE l.backward[x]
            /\ e.score[x] = IF x = m THEN 0 ELSE l.score[x]
      /\ e.tail = IF l.forward[m][1] = Nil THEN l.backward[m] ELSE l.tail
      /\ e.length = l.length - 1
      /\ used \in SUBSET Levels
      /\ used = {} => e.level = 1
      /\ used # {} => e.level \in used /\ \A j \in used : j <= e.level
  <2>1. l \in ListType /\ m \in Members
    BY <1>0, <1>1
  <2> QED
    BY <2>1, RemoveIs
<1> HIDE DEF used
<1>3. /\ Row(n - 1, Q) /\ Tall(n - 1, H)
      /\ \A k \in 1 .. n - 1 : Q[k] # m
  BY <1>0, DropRow, DropTall
<1>4. /\ \A k \in 0 .. p - 1 : Q[k] = q[k] /\ H[k] = h[k]
      /\ \A k \in p .. n : Q[k] = q[k + 1] /\ H[k] = h[k + 1]
      /\ \A k \in p + 1 .. n + 1 : Q[k - 1] = q[k] /\ H[k - 1] = h[k]
  <2>1. /\ \A k \in 0 .. p - 1 : Q[k] = q[k]
        /\ \A k \in p .. n : Q[k] = q[k + 1]
        /\ \A k \in p + 1 .. n + 1 : Q[k - 1] = q[k]
    BY <1>0, DropIs
  <2>2. /\ \A k \in 0 .. p - 1 : H[k] = h[k]
        /\ \A k \in p .. n : H[k] = h[k + 1]
        /\ \A k \in p + 1 .. n + 1 : H[k - 1] = h[k]
    BY <1>0, DropIs
  <2> QED
    BY <2>1, <2>2
<1> HIDE DEF Q, H
<1>5. /\ \A k \in 0 .. n + 1 : h[k] \in Nat
      /\ l.level \in Nat /\ e.level \in Nat /\ 1 <= e.level
      /\ 1 \in Levels /\ \A i \in Levels : i \in Nat /\ 1 <= i
  <2>1. l.level \in Levels /\ e.level \in Levels
    BY <1>0, <1>2 DEF ListType
  <2> QED
    BY <1>0, <2>1, TallIs, LevelsAre
<1>6. \A k \in 0 .. n - 1 : \A i \in Levels : \A a, b :
                      Hop(n - 1, H, k, i, a) /\ Hop(n - 1, H, k, i, b) => a = b
  <2>1. SUFFICES ASSUME NEW k \in 0 .. n - 1, NEW i \in Levels, NEW a, NEW b,
                        Hop(n - 1, H, k, i, a), Hop(n - 1, H, k, i, b)
                 PROVE  a = b
    OBVIOUS
  <2> QED
    <3>1. n - 1 \in Nat /\ Tall(n - 1, H)
      BY <1>0, <1>3
    <3> QED
      BY <2>1, <3>1, HopIs
<1>7. e.level <= l.level
  <2>1. 1 <= l.level
    BY <1>0, LevelsAre DEF ListType
  <2>2. \A i \in used : i <= l.level
    BY <1>5 DEF used
  <2> QED
    BY <1>2, <2>1, <2>2
<1>8. \A k \in 1 .. n : h[k] <= l.level
  BY DEF Shape, Ends
<1>9. ASSUME NEW i \in Levels, NEW k \in 0 .. n, i <= h[k], NEW j \in 1 .. n + 1, Hop(n, h, k, i, j)
      PROVE  /\ l.forward[q[k]][i] = q[j]
             /\ i <= l.level => l.span[q[k]][i] = IF j = n + 1 THEN n - k ELSE j - k
  BY <1>9 DEF Shape, Links
\* Before the node.
<1>10. ASSUME NEW i \in Levels, NEW k \in 0 .. p - 1, i <= h[k], NEW J, Hop(n - 1, H, k, i, J)
       PROVE  /\ e.forward[q[k]][i] = Q[J]
              /\ i <= e.level => e.span[q[k]][i] = IF J = n THEN n - 1 - k ELSE J - k
  <2>0. k \in 0 .. n /\ k \in 0 .. n - 1 /\ k # p /\ k \in 0 .. n + 1
    BY <1>0
  <2>1. PICK j \in k + 1 .. n + 1 : Hop(n, h, k, i, j)
    BY <1>0, <2>0, HopIs
  <2>2. j \in 1 .. n + 1 /\ j \in 0 .. n + 1
    BY <2>0, <2>1
  <2>3. /\ l.forward[q[k]][i] = q[j]
        /\ i <= l.level => l.span[q[k]][i] = IF j = n + 1 THEN n - k ELSE j - k
    BY <1>9, <1>10, <2>0, <2>1, <2>2
  <2>4. p <= j <=> Stop(h, p, i, k)
    BY <1>0, <1>10, <2>1, HopStop
  <2>5. q[k] # m /\ q[k] \in Nodes
    BY <1>0, <1>1, <2>0
  <2>6. p <= j => q[k] = path[i].node
    <3>1. Stop(h, p, i, k) => path[i] = PlaceOf(q, k)
      BY <2>0 DEF PathAt
    <3> QED
      BY <2>4, <3>1 DEF PlaceOf
  <2>7. i <= e.level => i <= l.level
    BY <1>5, <1>7
  <2>8. CASE j < p
    <3>1. q[k] # path[i].node
      <4>1. ~(p <= j)
        BY <2>2, <2>8
      <4> QED
        BY <1>0, <2>0, <2>4, <4>1, PathHas
    <3>2. J = j
      <4>1. Hop(n - 1, H, k, i, j)
        BY <1>0, <2>0, <2>1, <2>8, DropHop DEF H
      <4> QED
        BY <1>6, <1>10, <2>0, <4>1
    <3>3. Q[J] = q[j] /\ j # n + 1 /\ J # n
      <4>1. j \in 0 .. p - 1
        BY <2>2, <2>8
      <4> QED
        BY <1>0, <1>4, <3>2, <4>1
    <3>4. e.forward[q[k]][i] = q[j] /\ e.span[q[k]][i] = l.span[q[k]][i]
      BY <1>2, <2>3, <2>5, <3>1
    <3> QED
      BY <2>3, <2>7, <3>2, <3>3, <3>4
  <2>9. CASE j = p
    <3>1. i <= h[p] /\ i <= l.level
      <4>1. i <= h[p]
        BY <2>1, <2>9 DEF Hop
      <4> QED
        BY <1>0, <1>5, <1>8, <4>1
    <3>2. PICK y \in p + 1 .. n + 1 : Hop(n, h, p, i, y)
      BY <1>0, HopIs
    <3>3. y \in 1 .. n + 1
      BY <1>0, <3>2
    <3>4. /\ l.forward[m][i] = q[y]
          /\ l.span[m][i] = IF y = n + 1 THEN n - p ELSE y - p
      BY <1>0, <1>9, <3>1, <3>2, <3>3
    <3>5. J = y - 1
      <4>1. Hop(n - 1, H, k, i, y - 1)
        BY <1>0, <2>0, <2>1, <2>9, <3>2, DropHop DEF H
      <4> QED
        BY <1>6, <1>10, <2>0, <4>1
    <3>6. Q[J] = q[y]
      BY <1>4, <3>2, <3>5
    <3>7. p <= j /\ l.forward[q[k]][i] = m
      BY <1>0, <2>3, <2>9
    <3>8. e.forward[q[k]][i] = q[y] /\ e.span[q[k]][i] = l.span[q[k]][i] + l.span[m][i] - 1
      BY <1>2, <2>5, <2>6, <3>1, <3>4, <3>7
    <3>9. l.span[q[k]][i] = p - k
      BY <1>0, <2>3, <2>9, <3>1
    <3>10. e.span[q[k]][i] = IF J = n THEN n - 1 - k ELSE J - k
      BY <1>0, <2>0, <3>2, <3>4, <3>5, <3>8, <3>9
    <3> QED
      BY <3>6, <3>8, <3>10
  <2>10. CASE p < j
    <3>1. p <= j /\ q[j] # m
      BY <1>0, <1>1, <2>2, <2>10
    <3>2. J = j - 1
      <4>1. Hop(n - 1, H, k, i, j - 1)
        BY <1>0, <2>0, <2>1, <2>10, DropHop DEF H
      <4> QED
        BY <1>6, <1>10, <2>0, <4>1
    <3>3. Q[J] = q[j]
      <4>1. j \in p + 1 .. n + 1
        BY <1>0, <2>2, <2>10
      <4> QED
        BY <1>4, <3>2, <4>1
    <3>4. e.forward[q[k]][i] = q[j]
      BY <1>2, <2>3, <2>5, <3>1
    <3>5. i <= l.level => e.span[q[k]][i] = l.span[q[k]][i] - 1
      BY <1>2, <2>3, <2>5, <2>6, <3>1
    <3> QED
      BY <1>0, <2>0, <2>2, <2>3, <2>7, <3>2, <3>3, <3>4, <3>5
  <2>11. j < p \/ j = p \/ p < j
    BY <1>0, <2>2
  <2> QED
    BY <2>8, <2>9, <2>10, <2>11, Zenon
\* Behind it.
<1>11. ASSUME NEW i \in Levels, NEW k \in p + 1 .. n, i <= h[k], NEW J, Hop(n - 1, H, k - 1, i, J)
       PROVE  /\ e.forward[q[k]][i] = Q[J]
              /\ i <= e.level => e.span[q[k]][i] = IF J = n THEN n - 1 - (k - 1) ELSE J - (k - 1)
  <2>0. k \in 0 .. n /\ k - 1 \in 0 .. n - 1 /\ k # p /\ k \in 0 .. n + 1 /\ ~(k < p) /\ p < k
    BY <1>0
  <2>1. PICK j \in k + 1 .. n + 1 : Hop(n, h, k, i, j)
    BY <1>0, <2>0, HopIs
  <2>2. j \in 1 .. n + 1 /\ j \in 0 .. n + 1 /\ j \in p + 1 .. n + 1
    BY <1>0, <2>0, <2>1
  <2>3. /\ l.forward[q[k]][i] = q[j]
        /\ i <= l.level => l.span[q[k]][i] = IF j = n + 1 THEN n - k ELSE j - k
    BY <1>9, <1>11, <2>0, <2>1, <2>2
  <2>4. q[k] # m /\ q[k] \in Nodes
    BY <1>0, <1>1, <2>0
  <2>5. q[k] # path[i].node
    BY <1>0, <2>0, PathHas
  <2>6. J = j - 1
    <3>1. Hop(n - 1, H, k - 1, i, j - 1)
      BY <1>0, <2>0, <2>1, DropHop DEF H
    <3> QED
      BY <1>6, <1>11, <2>0, <3>1
  <2>7. Q[J] = q[j]
    BY <1>4, <2>2, <2>6
  <2>8. e.forward[q[k]][i] = q[j] /\ e.span[q[k]][i] = l.span[q[k]][i]
    BY <1>2, <2>3, <2>4, <2>5
  <2>9. i <= e.level => i <= l.level
    BY <1>5, <1>7
  <2> QED
    BY <1>0, <2>0, <2>2, <2>3, <2>6, <2>7, <2>8, <2>9
\* Every position of the new row.
<1>12. ASSUME NEW K \in 0 .. n - 1
       PROVE  \/ K \in 0 .. p - 1 /\ K \in 0 .. n /\ Q[K] = q[K] /\ H[K] = h[K]
              \/ \E k \in p + 1 .. n : k \in 1 .. n /\ K = k - 1 /\ Q[K] = q[k] /\ H[K] = h[k]
  <2>1. CASE K < p
    BY <1>0, <1>4, <2>1
  <2>2. CASE p <= K
    <3>1. K + 1 \in p + 1 .. n /\ K = (K + 1) - 1 /\ K \in p .. n /\ K + 1 \in 1 .. n
      BY <1>0, <2>2
    <3>2. Q[K] = q[K + 1] /\ H[K] = h[K + 1]
      BY <1>4, <3>1
    <3> QED
      BY <3>1, <3>2
  <2> QED
    BY <1>0, <2>1, <2>2
<1>13. Links(e, n - 1, Q, H)
  <2>1. ASSUME NEW K \in 0 .. n - 1, NEW J \in 1 .. (n - 1) + 1, NEW i \in Levels,
               i <= H[K], Hop(n - 1, H, K, i, J)
        PROVE  /\ e.forward[Q[K]][i] = Q[J]
               /\ i <= e.level => e.span[Q[K]][i] = (IF J = (n - 1) + 1 THEN (n - 1) - K ELSE J - K)
    <3> DEFINE G(x, y) ==
                  /\ e.forward[x][i] = Q[J]
                  /\ i <= e.level => e.span[x][i] = IF J = n THEN n - 1 - y ELSE J - y
    <3>1. ASSUME K \in 0 .. p - 1, i <= h[K]
          PROVE  G(q[K], K)
      BY <1>10, <2>1, <3>1
    <3>2. ASSUME NEW k \in p + 1 .. n, K = k - 1, i <= h[k]
          PROVE  G(q[k], K)
      <4>1. Hop(n - 1, H, k - 1, i, J)
        BY <2>1, <3>2
      <4>2. G(q[k], k - 1)
        BY <1>11, <3>2, <4>1
      <4> QED
        BY <3>2, <4>2
    <3> HIDE DEF G
    <3>3. G(Q[K], K)
      BY <1>12, <2>1, <3>1, <3>2
    <3>4. (IF J = (n - 1) + 1 THEN (n - 1) - K ELSE J - K) = (IF J = n THEN n - 1 - K ELSE J - K)
      BY <1>0
    <3> QED
      BY <3>3, <3>4 DEF G
  <2>2. ASSUME NEW x \in Nodes, NEW i \in Levels, l.forward[x][i] = Nil
        PROVE  e.forward[x][i] = Nil
    BY <1>1, <1>2, <2>2
  <2>3. ASSUME NEW K \in 0 .. n - 1, NEW i \in Levels, H[K] < i
        PROVE  e.forward[Q[K]][i] = Nil
    <3>1. PICK k \in 0 .. n : Q[K] = q[k] /\ H[K] = h[k]
      <4>1. \A k \in p + 1 .. n : k \in 0 .. n
        BY <1>0
      <4> QED
        BY <1>12, <4>1
    <3>2. l.forward[q[k]][i] = Nil
      BY <2>3, <3>1 DEF Shape, Links
    <3> QED
      BY <1>1, <2>2, <3>1, <3>2
  <2>4. ASSUME NEW x \in Members, \A K \in 1 .. n - 1 : Q[K] # x, NEW i \in Levels
        PROVE  e.forward[x][i] = Nil
    <3>1. x \in Nodes
      BY DEF Nodes
    <3>2. CASE x = m
      BY <1>2, <3>1, <3>2
    <3>3. CASE x # m
      <4>1. ASSUME NEW k \in 1 .. n
            PROVE  q[k] # x
        <5>1. CASE k < p
          <6>1. Q[k] = q[k] /\ k \in 1 .. n - 1
            BY <1>0, <1>4, <5>1
          <6> QED
            BY <2>4, <6>1
        <5>2. CASE p < k
          <6>1. Q[k - 1] = q[k] /\ k - 1 \in 1 .. n - 1
            BY <1>0, <1>4, <5>2
          <6> QED
            BY <2>4, <6>1
        <5>3. CASE k = p
          BY <3>3, <5>3
        <5> QED
          BY <1>0, <5>1, <5>2, <5>3
      <4>2. l.forward[x][i] = Nil
        BY <4>1 DEF Shape, Links
      <4> QED
        BY <2>2, <3>1, <4>2
    <3> QED
      BY <3>2, <3>3
  <2> QED
    BY <2>1, <2>3, <2>4 DEF Links
<1>14. l.forward[m][1] = q[p + 1]
  <2>1. p + 1 \in 1 .. n + 1 /\ p + 1 \in 0 .. n + 1 /\ p + 1 \in p + 1 .. n + 1
    BY <1>0
  <2>2. 1 <= h[p] /\ 1 <= h[p + 1]
    BY <1>0, <2>1, TallIs, LevelsAre
  <2>3. Hop(n, h, p, 1, p + 1)
    BY <1>0, <2>1, <2>2 DEF Hop
  <2> QED
    BY <1>0, <1>5, <1>9, <2>1, <2>2, <2>3
<1>15. ASSUME NEW K \in 1 .. n - 1
       PROVE  e.backward[Q[K]] = IF K = 1 THEN Nil ELSE Q[K - 1]
  <2>0. \A x \in 1 .. n : l.backward[q[x]] = IF x = 1 THEN Nil ELSE q[x - 1]
    BY DEF Shape, Ends
  <2>1. CASE K < p
    <3>1. /\ K \in 1 .. n /\ q[K] # q[p + 1] /\ Q[K] = q[K] /\ q[K] # m
          /\ K # 1 => Q[K - 1] = q[K - 1]
      BY <1>0, <1>1, <1>4, <2>1
    <3>2. e.backward[q[K]] = l.backward[q[K]]
      BY <1>1, <1>2, <1>14, <3>1
    <3> QED
      BY <2>0, <3>1, <3>2
  <2>2. CASE K = p
    <3>1. Q[K] = q[p + 1] /\ p + 1 \in 1 .. n /\ q[p + 1] # m
      BY <1>0, <1>1, <1>4, <2>2
    <3>2. e.backward[q[p + 1]] = l.backward[m]
      BY <1>1, <1>2, <1>14, <3>1
    <3>3. l.backward[m] = IF p = 1 THEN Nil ELSE q[p - 1]
      BY <2>0
    <3>4. p # 1 => Q[p - 1] = q[p - 1]
      BY <1>0, <1>4
    <3> QED
      BY <2>2, <3>1, <3>2, <3>3, <3>4
  <2>3. CASE p < K
    <3>1. /\ Q[K] = q[K + 1] /\ K + 1 \in 1 .. n /\ q[K + 1] # m /\ q[K + 1] # q[p + 1]
          /\ K # 1 /\ K + 1 # 1 /\ (K + 1) - 1 = K /\ K - 1 \in p .. n /\ (K - 1) + 1 = K
      BY <1>0, <1>1, <1>4, <2>3
    <3>2. e.backward[q[K + 1]] = l.backward[q[K + 1]]
      BY <1>1, <1>2, <1>14, <3>1
    <3>3. l.backward[q[K + 1]] = q[K]
      BY <2>0, <3>1
    <3>4. Q[K - 1] = q[K]
      BY <1>4, <3>1
    <3> QED
      BY <3>1, <3>2, <3>3, <3>4
  <2> QED
    BY <1>0, <2>1, <2>2, <2>3
<1>16. Ends(e, n - 1, Q, H)
  <2>0. /\ l.tail = (IF n = 0 THEN Nil ELSE q[n]) /\ l.length = n
        /\ \A k \in 1 .. n : l.backward[q[k]] = IF k = 1 THEN Nil ELSE q[k - 1]
    BY DEF Shape, Ends
  <2>1. \A i \in Levels : \E J \in 1 .. n : Hop(n - 1, H, 0, i, J) /\ e.forward[Header][i] = Q[J]
    <3> SUFFICES ASSUME NEW i \in Levels
                 PROVE  \E J \in 1 .. n : Hop(n - 1, H, 0, i, J) /\ e.forward[Header][i] = Q[J]
      OBVIOUS
    <3>1. PICK J \in 0 + 1 .. (n - 1) + 1 : Hop(n - 1, H, 0, i, J)
      BY <1>0, <1>3, HopIs
    <3>2. H[0] = MaxLevel /\ Q[0] = Header /\ i <= MaxLevel
      BY <1>3, LevelsAre DEF Tall, Row
    <3>3. e.forward[Q[0]][i] = Q[J]
      <4>1. 0 \in 0 .. n - 1 /\ J \in 1 .. (n - 1) + 1
        BY <1>0, <3>1
      <4> QED
        BY <1>13, <3>1, <3>2, <4>1 DEF Links
    <3>4. J \in 1 .. n
      BY <1>0, <3>1
    <3> QED
      BY <3>1, <3>2, <3>3, <3>4
  <2>2. \A K \in 0 .. n : H[K] \in Levels /\ H[K] \in Nat
    <3>1. n - 1 \in Nat /\ (n - 1) + 1 = n
      BY <1>0
    <3>2. \A K \in 0 .. (n - 1) + 1 : H[K] \in Nat /\ H[K] \in Levels
      BY <1>3, <3>1, TallIs
    <3> QED
      BY <3>1, <3>2
  <2>3. ASSUME NEW K \in 1 .. n - 1
        PROVE  H[K] <= e.level
    <3>1. H[K] \in Levels /\ H[K] \in Nat
      <4>1. K \in 0 .. n
        BY <1>0
      <4> QED
        BY <2>2, <4>1
    <3>2. H[K] <= l.level
      <4>1. PICK k \in 0 .. n : Q[K] = q[k] /\ H[K] = h[k] /\ k # 0
        BY <1>0, <1>12
      <4> QED
        BY <1>0, <1>8, <4>1
    <3>3. CASE H[K] = 1
      BY <1>5, <3>3
    <3>4. CASE H[K] # 1
      <4>1. PICK J \in 1 .. n : Hop(n - 1, H, 0, H[K], J) /\ e.forward[Header][H[K]] = Q[J]
        BY <2>1, <3>1
      <4>2. J \in 1 .. n - 1
        BY <1>0, <3>1, <4>1 DEF Hop
      <4>3. Q[J] # Nil
        BY <1>3, <4>2, MembersAssumption DEF Row
      <4>4. H[K] \in 2 .. l.level
        BY <1>5, <3>1, <3>2, <3>4
      <4>5. H[K] \in used
        BY <4>1, <4>3, <4>4 DEF used
      <4> QED
        BY <1>2, <4>5
    <3> QED
      BY <3>3, <3>4
  <2>4. e.level = 1 \/ \E K \in 1 .. n - 1 : H[K] = e.level
    <3>1. SUFFICES ASSUME used # {}
                   PROVE  \E K \in 1 .. n - 1 : H[K] = e.level
      BY <1>2
    <3>2. e.level \in Levels /\ e.level \in used /\ e.forward[Header][e.level] # Nil
      BY <1>2, <3>1 DEF used
    <3>3. PICK J \in 1 .. n : Hop(n - 1, H, 0, e.level, J) /\ e.forward[Header][e.level] = Q[J]
      BY <2>1, <3>2
    <3>4. J # n
      <4>1. Q[n] = Nil
        BY <1>0, <1>3 DEF Row
      <4> QED
        BY <3>2, <3>3, <4>1
    <3>5. J \in 1 .. n - 1 /\ J \in 0 .. n
      BY <1>0, <3>3, <3>4
    <3>6. e.level <= H[J] /\ H[J] <= e.level
      BY <2>3, <3>3, <3>5 DEF Hop
    <3>7. H[J] = e.level
      BY <1>5, <2>2, <3>5, <3>6
    <3> QED
      BY <3>5, <3>7
  <2>5. e.tail = (IF n - 1 = 0 THEN Nil ELSE Q[n - 1])
    <3>1. e.tail = IF q[p + 1] = Nil THEN l.backward[m] ELSE l.tail
      BY <1>2, <1>14
    <3>2. q[p + 1] = Nil <=> p = n
      BY <1>0, <1>1
    <3>3. l.backward[m] = IF p = 1 THEN Nil ELSE q[p - 1]
      BY <2>0
    <3>4. CASE p = n
      <4>1. n - 1 # 0 => Q[n - 1] = q[n - 1]
        BY <1>0, <1>4, <3>4
      <4> QED
        BY <1>0, <3>1, <3>2, <3>3, <3>4, <4>1
    <3>5. CASE p # n
      <4>1. n - 1 # 0 /\ n - 1 \in p .. n /\ (n - 1) + 1 = n
        BY <1>0, <3>5
      <4>2. Q[n - 1] = q[n]
        BY <1>4, <4>1
      <4> QED
        BY <1>0, <2>0, <3>1, <3>2, <3>5, <4>1, <4>2
    <3> QED
      BY <3>4, <3>5
  <2>6. e.length = n - 1
    BY <1>2, <2>0
  <2> QED
    BY <1>15, <2>3, <2>4, <2>5, <2>6 DEF Ends
<1>17. PathAt(n - 1, Q, H, p, path)
  <2> SUFFICES ASSUME NEW i \in Levels, NEW k \in 0 .. n - 1, Stop(H, p, i, k)
               PROVE  path[i] = PlaceOf(Q, k)
    BY DEF PathAt
  <2>1. k \in 0 .. p - 1 /\ k \in 0 .. n
    BY <1>0 DEF Stop
  <2>2. \A x \in 0 .. p - 1 : H[x] = h[x]
    BY <1>4
  <2>3. Stop(h, p, i, k)
    BY <1>0, <2>1, <2>2 DEF Stop
  <2>4. path[i] = PlaceOf(q, k)
    BY <2>1, <2>3 DEF PathAt
  <2> QED
    BY <1>4, <2>1, <2>4 DEF PlaceOf
<1> QED
  BY <1>2, <1>3, <1>13, <1>16, <1>17 DEF Shape, Q, H

-------------------------------------------------------------------------------
(* Pieces of the row *)

\* c nodes from position a on.
Piece(q, a, c) == [x \in 1 .. c |-> q[a + x - 1]]

\* s lists them.
Lists(s, q, a, c) == s \in Seq(Members) /\ Len(s) = c /\ \A x \in 1 .. c : s[x] = q[a + x - 1]

\* A piece of the row lists its nodes.
LEMMA PieceIs ==
    ASSUME NEW n \in Nat, NEW q, Row(n, q), NEW a \in 1 .. n + 1, NEW c \in 0 .. n + 1 - a
    PROVE  Lists(Piece(q, a, c), q, a, c)
<1>1. c \in Nat /\ \A k \in 1 .. n : q[k] \in Members
  BY DEF Row
<1>2. \A x \in 1 .. c : q[a + x - 1] \in Members
  <2> SUFFICES ASSUME NEW x \in 1 .. c
               PROVE  q[a + x - 1] \in Members
    OBVIOUS
  <2>1. a + x - 1 \in 1 .. n
    BY <1>1
  <2> QED
    BY <1>1, <2>1
<1>3. Piece(q, a, c) \in [1 .. c -> Members]
  BY <1>2 DEF Piece
<1> QED
  BY <1>1, <1>3 DEF Piece, Lists

\* A piece is its first node and the piece behind it.
LEMMA PieceCons ==
    ASSUME NEW n \in Nat, NEW q, Row(n, q), NEW a \in 1 .. n, NEW s, s = Piece(q, a + 1, n - a)
    PROVE  <<q[a]>> \o s = Piece(q, a, n + 1 - a)
<1> DEFINE one == <<q[a]>>
           t == one \o s
           u == Piece(q, a, n + 1 - a)
<1>1. q[a] \in Members
  BY DEF Row
<1>2. one \in Seq(Members) /\ Len(one) = 1 /\ one[1] = q[a]
  BY <1>1
<1> HIDE DEF one, t, u
<1>3. /\ s \in Seq(Members) /\ Len(s) = n - a
      /\ \A x \in 1 .. n - a : s[x] = q[(a + 1) + x - 1]
  <2>1. a + 1 \in 1 .. n + 1 /\ n - a \in 0 .. n + 1 - (a + 1)
    OBVIOUS
  <2>2. Lists(s, q, a + 1, n - a)
    BY <2>1, PieceIs
  <2> QED
    BY <2>2 DEF Lists
<1>4. /\ t \in Seq(Members) /\ Len(t) = 1 + (n - a)
      /\ \A x \in 1 .. 1 + (n - a) : t[x] = IF x <= 1 THEN one[x] ELSE s[x - 1]
  <2>1. /\ t \in Seq(Members) /\ Len(t) = Len(one) + Len(s)
        /\ \A x \in 1 .. Len(one) + Len(s) :
              t[x] = IF x <= Len(one) THEN one[x] ELSE s[x - Len(one)]
    BY <1>2, <1>3, ConcatProperties DEF t
  <2> QED
    BY <1>2, <1>3, <2>1
<1>5. /\ u \in Seq(Members) /\ Len(u) = n + 1 - a
      /\ \A x \in 1 .. n + 1 - a : u[x] = q[a + x - 1]
  <2>1. a \in 1 .. n + 1 /\ n + 1 - a \in 0 .. n + 1 - a
    OBVIOUS
  <2>2. Lists(u, q, a, n + 1 - a)
    BY <2>1, PieceIs DEF u
  <2> QED
    BY <2>2 DEF Lists
<1>6. ASSUME NEW x \in 1 .. n + 1 - a
      PROVE  t[x] = q[a + x - 1]
  <2>1. CASE x = 1
    <3>1. t[1] = one[1] /\ a + x - 1 = a
      BY <1>4, <2>1
    <3> QED
      BY <1>2, <2>1, <3>1
  <2>2. CASE x # 1
    <3>1. x - 1 \in 1 .. n - a /\ (a + 1) + (x - 1) - 1 = a + x - 1
          /\ x \in 1 .. 1 + (n - a) /\ ~(x <= 1)
      BY <2>2
    <3> QED
      BY <1>3, <1>4, <3>1
  <2> QED
    BY <2>1, <2>2
<1>7. Len(t) = Len(u) /\ \A x \in 1 .. Len(t) : t[x] = u[x]
  <2>1. Len(t) = Len(u) /\ Len(t) = n + 1 - a
    BY <1>4, <1>5
  <2>2. \A x \in 1 .. n + 1 - a : t[x] = u[x]
    BY <1>5, <1>6
  <2> QED
    BY <2>1, <2>2
<1>8. t = u
  BY <1>4, <1>5, <1>7, SeqEqual
<1> QED
  BY <1>8 DEF t, one, u

\* c is the function that Chain recurses with.
ChainBy(l, c) ==
    c = [m \in Members \cup {Nil} |-> IF m = Nil THEN <<>> ELSE <<m>> \o c[l.forward[m][1]]]

\* Chain, with the function that its recursion chooses.
LEMMA ChainDef ==
    ASSUME NEW l, NEW x
    PROVE  Chain(l, x) = (CHOOSE c : ChainBy(l, c))[x]
BY DEF Chain, ChainBy

\* On level 1, position k + 1 follows position k.
LEMMA FirstLevel ==
    ASSUME NEW l, NEW n, NEW q, NEW h, Shape(l, n, q, h), NEW k \in 0 .. n
    PROVE  l.forward[q[k]][1] = q[k + 1]
<1>0. n \in Nat /\ Tall(n, h) /\ 1 \in Levels
  BY LevelsAre DEF Shape, Row
<1>1. k \in 0 .. n + 1 /\ k + 1 \in 0 .. n + 1 /\ k + 1 \in 1 .. n + 1
  BY <1>0
<1>2. 1 <= h[k] /\ 1 <= h[k + 1]
  BY <1>0, <1>1, TallIs, LevelsAre
<1>3. Hop(n, h, k, 1, k + 1)
  BY <1>0, <1>1, <1>2 DEF Hop
<1> QED
  BY <1>0, <1>1, <1>2, <1>3 DEF Shape, Links

\* The chain from a position is the rest of the row.
LEMMA ChainIs ==
    ASSUME NEW l, NEW n, NEW q, NEW h, Shape(l, n, q, h), NEW k \in 1 .. n + 1
    PROVE  Chain(l, q[k]) = Piece(q, k, n + 1 - k)
<1> DEFINE D == Members \cup {Nil}
           At(m) == CHOOSE x \in 1 .. n : q[x] = m
           c == [m \in D |-> IF m = Nil THEN <<>>
                             ELSE IF \E x \in 1 .. n : q[x] = m THEN Piece(q, At(m), n + 1 - At(m)) ELSE <<m>>]
<1>0. /\ n \in Nat /\ Row(n, q) /\ l \in ListType /\ q[n + 1] = Nil /\ Nil \notin Members
      /\ \A x \in 1 .. n : q[x] \in Members
      /\ \A x, y \in 1 .. n : q[x] = q[y] => x = y
  BY MembersAssumption DEF Shape, Row
<1>1. Piece(q, n + 1, 0) = <<>> /\ n + 1 - (n + 1) = 0
  BY <1>0 DEF Piece
<1>2. \A x \in 1 .. n : At(q[x]) = x
  BY <1>0
<1>3. c[Nil] = <<>> /\ \A x \in 1 .. n : c[q[x]] = Piece(q, x, n + 1 - x)
  BY <1>0, <1>2
<1>4. \A x \in 1 .. n + 1 : c[q[x]] = Piece(q, x, n + 1 - x)
  <2>1. c[q[n + 1]] = Piece(q, n + 1, n + 1 - (n + 1))
    BY <1>0, <1>1, <1>3
  <2>2. \A x \in 1 .. n + 1 : x = n + 1 \/ x \in 1 .. n
    BY <1>0
  <2> QED
    BY <1>3, <2>1, <2>2
<1>5. \A m \in Members : (\A x \in 1 .. n : q[x] # m) => c[m] = <<m>> /\ l.forward[m][1] = Nil
  BY <1>0, LevelsAre DEF Shape, Links
<1>6. DOMAIN c = D
  OBVIOUS
<1> HIDE DEF c, At
<1>7. ASSUME NEW m \in Members
      PROVE  c[m] = <<m>> \o c[l.forward[m][1]]
  <2>1. CASE \A x \in 1 .. n : q[x] # m
    <3>1. c[m] = <<m>> /\ c[l.forward[m][1]] = <<>> /\ <<m>> \in Seq(Members)
      BY <1>3, <1>5, <2>1
    <3> QED
      BY <3>1, ConcatEmptySeq
  <2>2. ASSUME NEW x \in 1 .. n, q[x] = m
        PROVE  c[m] = <<m>> \o c[l.forward[m][1]]
    <3>1. x + 1 \in 1 .. n + 1 /\ x \in 0 .. n /\ n + 1 - (x + 1) = n - x
      BY <1>0
    <3>2. l.forward[m][1] = q[x + 1]
      BY <2>2, <3>1, FirstLevel
    <3>3. c[q[x + 1]] = Piece(q, x + 1, n - x)
      BY <1>4, <3>1
    <3>4. <<q[x]>> \o c[q[x + 1]] = Piece(q, x, n + 1 - x)
      BY <1>0, <3>3, PieceCons
    <3> QED
      BY <1>3, <2>2, <3>2, <3>4
  <2> QED
    BY <2>1, <2>2
<1>8. ChainBy(l, c)
  <2> DEFINE u == [m \in D |-> IF m = Nil THEN <<>> ELSE <<m>> \o c[l.forward[m][1]]]
  <2>1. \A m \in D : u[m] = c[m]
    BY <1>3, <1>7
  <2>2. c = [m \in D |-> c[m]] /\ u = [m \in D |-> u[m]]
    <3>1. c = [m \in D |-> c[m]]
      BY DEF c
    <3> QED
      BY <3>1
  <2> HIDE DEF u
  <2>3. c = u
    BY <2>1, <2>2
  <2> QED
    BY <2>3 DEF u, ChainBy
<1> DEFINE d == CHOOSE w : ChainBy(l, w)
<1>9. ChainBy(l, d)
  BY <1>8
<1> HIDE DEF d
<1>10. d[Nil] = <<>> /\ \A m \in Members : d[m] = <<m>> \o d[l.forward[m][1]]
  BY <1>0, <1>9 DEF ChainBy
<1> DEFINE T == {y \in Nat : \A x \in 1 .. n + 1 : x + y = n + 1 => d[q[x]] = Piece(q, x, n + 1 - x)}
<1>11. 0 \in T
  BY <1>0, <1>1, <1>10
<1>12. ASSUME NEW y \in Nat, y \in T
       PROVE  y + 1 \in T
  <2> SUFFICES ASSUME NEW x \in 1 .. n + 1, x + (y + 1) = n + 1
               PROVE  d[q[x]] = Piece(q, x, n + 1 - x)
    OBVIOUS
  <2>1. x + 1 \in 1 .. n + 1 /\ (x + 1) + y = n + 1 /\ x \in 1 .. n /\ x \in 0 .. n
          /\ n + 1 - (x + 1) = n - x
    BY <1>0
  <2>2. d[q[x + 1]] = Piece(q, x + 1, n - x)
    BY <1>12, <2>1
  <2>3. l.forward[q[x]][1] = q[x + 1]
    BY <2>1, FirstLevel
  <2>4. <<q[x]>> \o d[q[x + 1]] = Piece(q, x, n + 1 - x)
    BY <1>0, <2>1, <2>2, PieceCons
  <2> QED
    BY <1>0, <1>10, <2>1, <2>3, <2>4
<1> HIDE DEF T
<1>13. n + 1 - k \in T
  <2>1. \A y \in Nat : y \in T
    BY <1>11, <1>12, SetInduction
  <2> QED
    BY <1>0, <2>1
<1>14. d[q[k]] = Piece(q, k, n + 1 - k)
  BY <1>0, <1>13 DEF T
<1> QED
  BY <1>14, ChainDef DEF d

\* s is a piece of the row from p on, of any length.
Part(n, q, p, s) == \E c \in 0 .. n + 1 - p : s = Piece(q, p, c)

\* The beginning of a piece is a piece.
LEMMA SubPiece ==
    ASSUME NEW n \in Nat, NEW q, Row(n, q), NEW p \in 1 .. n + 1, NEW c \in 0 .. n + 1 - p,
           NEW s, s = Piece(q, p, c), NEW d \in 0 .. c
    PROVE  Len(s) = c /\ SubSeq(s, 1, d) = Piece(q, p, d)
<1> DEFINE u == Piece(q, p, d)
           t == SubSeq(s, 1, d)
<1> HIDE DEF u, t
<1>2. s \in Seq(Members) /\ Len(s) = c /\ \A x \in 1 .. c : s[x] = q[p + x - 1]
  <2>1. Lists(s, q, p, c)
    BY PieceIs
  <2> QED
    BY <2>1 DEF Lists
<1>3. u \in Seq(Members) /\ Len(u) = d /\ \A x \in 1 .. d : u[x] = q[p + x - 1]
  <2>1. d \in 0 .. n + 1 - p
    OBVIOUS
  <2>2. Lists(u, q, p, d)
    BY <2>1, PieceIs DEF u
  <2> QED
    BY <2>2 DEF Lists
<1>4. t \in Seq(Members) /\ Len(t) = d /\ \A x \in 1 .. d : t[x] = s[x]
  <2>1. \A x \in 1 .. d : s[x] \in Members
    BY <1>2
  <2>2. /\ t \in Seq(Members) /\ Len(t) = (IF 1 <= d THEN d - 1 + 1 ELSE 0)
        /\ \A x \in 1 .. d - 1 + 1 : t[x] = s[1 + x - 1]
    BY <2>1, SubSeqProperties DEF t
  <2> QED
    BY <2>2
<1>5. \A x \in 1 .. d : t[x] = u[x]
  <2> SUFFICES ASSUME NEW x \in 1 .. d
               PROVE  t[x] = u[x]
    OBVIOUS
  <2>1. x \in 1 .. c
    OBVIOUS
  <2> QED
    BY <1>2, <1>3, <1>4, <2>1
<1>6. t = u
  BY <1>3, <1>4, <1>5, SeqEqual
<1> QED
  BY <1>2, <1>6 DEF t, u

\* A limit on a removed range keeps it a part of the row that starts at p.
LEMMA AtMostPart ==
    ASSUME NEW n \in Nat, NEW q, Row(n, q), NEW p \in 1 .. n + 1, NEW s, Part(n, q, p, s),
           NEW k \in Nat
    PROVE  Part(n, q, p, AtMost(s, k))
<1>1. PICK c \in 0 .. n + 1 - p : s = Piece(q, p, c)
  BY DEF Part
<1>2. c \in 0 .. c /\ Len(s) = c
  BY <1>1, SubPiece
<1>3. CASE k < c
  <2>1. k \in 0 .. c /\ k \in 0 .. n + 1 - p
    BY <1>3
  <2>2. SubSeq(s, 1, k) = Piece(q, p, k)
    BY <1>1, <2>1, SubPiece
  <2> QED
    BY <1>2, <1>3, <2>1, <2>2 DEF AtMost, Part
<1> QED
  BY <1>1, <1>2, <1>3 DEF AtMost, Part

\* The nodes up to the first behind a border are a part of the row that starts at p.
LEMMA UntilPart ==
    ASSUME NEW n \in Nat, NEW q, Row(n, q), NEW p \in 1 .. n + 1, NEW s, s = Piece(q, p, n + 1 - p),
           NEW ok
    PROVE  Part(n, q, p, Until(s, ok))
<1> DEFINE c == n + 1 - p
           good == {k \in 0 .. Len(s) : \A i \in 1 .. k : s[i] \in ok}
           T == {y \in Nat : y <= c /\ c - y \in good}
           g == CHOOSE k \in good : \A x \in good : x <= k
<1>1. c \in 0 .. n + 1 - p /\ c \in Nat /\ s = Piece(q, p, c)
  OBVIOUS
<1>2. Len(s) = c
  <2>1. c \in 0 .. c
    BY <1>1
  <2> HIDE DEF c
  <2> QED
    BY <1>1, <2>1, SubPiece
<1> HIDE DEF c
<1>3. 0 \in good /\ \A k \in good : k \in 0 .. c
  BY <1>1, <1>2
<1> HIDE DEF good
<1>4. c \in T
  BY <1>1, <1>3
<1>5. PICK y \in T : \A z \in T : ~(z < y)
  BY <1>4, LeastNumber
<1>6. \A x \in good : x <= c - y
  <2> SUFFICES ASSUME NEW x \in good
               PROVE  x <= c - y
    OBVIOUS
  <2>1. c - x \in T
    BY <1>1, <1>3
  <2> QED
    BY <1>1, <1>3, <1>5, <2>1
<1>7. g \in good
  BY <1>5, <1>6
<1>8. Until(s, ok) = SubSeq(s, 1, g)
  BY DEF Until, good
<1> HIDE DEF g
<1>9. g \in 0 .. c /\ g \in 0 .. n + 1 - p
  BY <1>1, <1>3, <1>7
<1>10. SubSeq(s, 1, g) = Piece(q, p, g)
  BY <1>1, <1>9, SubPiece
<1> QED
  BY <1>8, <1>9, <1>10 DEF Part

\* The search leads to p - 1, and what follows it is the rest of the row: where the
\* loops of RemoveRangeByScore and RemoveRangeByRank begin.
LEMMA AfterIs ==
    ASSUME NEW l, NEW n, NEW q, NEW h, Shape(l, n, q, h), NEW p \in 1 .. n + 1,
           NEW path, PathAt(n, q, h, p, path)
    PROVE  /\ path[1].node = q[p - 1] /\ path[1].rank = p - 1
           /\ l.forward[path[1].node][1] = q[p]
           /\ After(l, path) = Piece(q, p, n + 1 - p)
<1>1. Row(n, q) /\ Tall(n, h) /\ n \in Nat /\ 1 \in Levels
  BY LevelsAre DEF Shape, Row
<1>2. p - 1 \in 0 .. n /\ (p - 1) + 1 = p
  BY <1>1
<1>3. path[1].node = q[p - 1] /\ path[1].rank = p - 1
  BY <1>1, PathHas
<1>4. l.forward[q[p - 1]][1] = q[p]
  BY <1>2, FirstLevel
<1> QED
  BY <1>3, <1>4, ChainIs DEF After

\* The row without c nodes from p on.
Without(n, f, p, c) == [k \in 0 .. n + 1 - c |-> IF k < p THEN f[k] ELSE f[k + c]]

\* To drop no position changes nothing.
LEMMA WithoutNone ==
    ASSUME NEW n \in Nat, NEW f \in [0 .. n + 1 -> Nodes \cup {Nil}], NEW p \in 1 .. n + 1
    PROVE  Without(n, f, p, 0) = f
<1>1. f = [k \in 0 .. n + 1 |-> f[k]]
  OBVIOUS
<1>2. \A k \in 0 .. n + 1 - 0 : (IF k < p THEN f[k] ELSE f[k + 0]) = f[k]
  OBVIOUS
<1>3. Without(n, f, p, 0) = [k \in 0 .. n + 1 - 0 |-> f[k]]
  BY <1>2 DEF Without
<1>4. n + 1 - 0 = n + 1
  OBVIOUS
<1> QED
  BY <1>1, <1>3, <1>4

\* To drop position p again and again is to drop a stretch.
LEMMA WithoutOneMore ==
    ASSUME NEW n \in Nat, NEW f, NEW p \in 1 .. n + 1, NEW c \in 0 .. n - p
    PROVE  /\ Drop(n - c, Without(n, f, p, c), p) = Without(n, f, p, c + 1)
           /\ Without(n, f, p, c)[p] = f[p + c]
<1>1. Drop(n - c, Without(n, f, p, c), p) = Without(n, f, p, c + 1)
  <2> DEFINE g == Without(n, f, p, c)
  <2>1. \A k \in 0 .. n + 1 - c : g[k] = IF k < p THEN f[k] ELSE f[k + c]
    BY DEF Without
  <2> HIDE DEF g
  <2>2. \A k \in 0 .. n - c : (IF k < p THEN g[k] ELSE g[k + 1]) = IF k < p THEN f[k] ELSE f[k + (c + 1)]
    <3> SUFFICES ASSUME NEW k \in 0 .. n - c
                 PROVE  (IF k < p THEN g[k] ELSE g[k + 1]) = IF k < p THEN f[k] ELSE f[k + (c + 1)]
      OBVIOUS
    <3>1. k \in 0 .. n + 1 - c /\ k + 1 \in 0 .. n + 1 - c /\ (k + 1) + c = k + (c + 1)
      OBVIOUS
    <3> QED
      BY <2>1, <3>1
  <2>3. Drop(n - c, g, p) = [k \in 0 .. n - c |-> IF k < p THEN f[k] ELSE f[k + (c + 1)]]
    BY <2>2 DEF Drop
  <2>4. n - c = n + 1 - (c + 1)
    OBVIOUS
  <2> QED
    BY <2>3, <2>4 DEF g, Without
<1>2. Without(n, f, p, c)[p] = f[p + c]
  BY DEF Without
<1> QED
  BY <1>1, <1>2

-------------------------------------------------------------------------------
(* The removal of a range *)

\* left is the function that RemoveRange recurses with.
LeftBy(l, range, left) ==
    left = [k \in 0 .. Len(range.removed) |->
               IF k = 0 THEN l ELSE RemoveNode(left[k - 1], range.removed[k], range.path)]

\* RemoveRange, with the function that its recursion chooses.
LEMMA RangeDef ==
    ASSUME NEW l, NEW range
    PROVE  RemoveRange(l, range) = (CHOOSE left : LeftBy(l, range, left))[Len(range.removed)]
BY DEF RemoveRange, LeftBy

\* The recursion of RemoveRange defines a function.
LEMMA RangeExists ==
    ASSUME NEW l, NEW range, Len(range.removed) \in Nat
    PROVE  \E left : LeftBy(l, range, left)
<1> DEFINE top == Len(range.removed)
           Step(f, k) == IF k = 0 THEN l ELSE RemoveNode(f[k - 1], range.removed[k], range.path)
           T == {d \in Nat : \E f : \A k \in 0 .. d : f[k] = Step(f, k)}
<1>1. 0 \in T
  <2> DEFINE f == [k \in 0 .. 0 |-> l]
  <2>1. \A k \in 0 .. 0 : f[k] = Step(f, k)
    OBVIOUS
  <2> QED
    BY <2>1
<1>2. ASSUME NEW d \in Nat, d \in T
      PROVE  d + 1 \in T
  <2>1. PICK f : \A k \in 0 .. d : f[k] = Step(f, k)
    BY <1>2
  <2> DEFINE g == [k \in 0 .. d + 1 |-> IF k <= d THEN f[k] ELSE Step(f, k)]
  <2>2. \A k \in 0 .. d + 1 : g[k] = Step(f, k)
    BY <2>1
  <2>3. \A k \in 1 .. d + 1 : k - 1 \in 0 .. d + 1 /\ k - 1 <= d
    OBVIOUS
  <2>4. \A k \in 1 .. d + 1 : g[k - 1] = f[k - 1]
    BY <2>3
  <2> HIDE DEF g
  <2>5. \A k \in 0 .. d + 1 : g[k] = Step(g, k)
    BY <2>2, <2>4
  <2> QED
    BY <2>5
<1>3. top \in T
  BY <1>1, <1>2, SetInduction
<1>4. PICK f : \A k \in 0 .. top : f[k] = Step(f, k)
  BY <1>3
<1> DEFINE g == [k \in 0 .. top |-> f[k]]
<1>5. \A k \in 1 .. top : g[k - 1] = f[k - 1]
  <2>1. \A k \in 1 .. top : k - 1 \in 0 .. top
    OBVIOUS
  <2> QED
    BY <2>1
<1>6. \A k \in 0 .. top : f[k] = Step(g, k)
  <2> HIDE DEF g
  <2>1. \A k \in 0 .. top : k = 0 \/ k \in 1 .. top
    OBVIOUS
  <2> QED
    BY <1>4, <1>5, <2>1
<1>7. g = [k \in 0 .. top |-> Step(g, k)]
  <2> DEFINE u == [k \in 0 .. top |-> Step(g, k)]
  <2>1. \A k \in 0 .. top : u[k] = Step(g, k) /\ g[k] = f[k]
    OBVIOUS
  <2>2. \A k \in 0 .. top : u[k] = g[k]
    BY <1>6, <2>1
  <2>3. g = [k \in 0 .. top |-> g[k]] /\ u = [k \in 0 .. top |-> u[k]]
    OBVIOUS
  <2> HIDE DEF u, g
  <2>4. u = g
    BY <2>2, <2>3
  <2> QED
    BY <2>4 DEF u
<1> QED
  BY <1>7 DEF LeftBy

\* What is left when k nodes from position p on are removed.
Left(l, n, q, p, path, k, e) ==
    \E g : /\ Shape(e, n - k, Without(n, q, p, k), g)
           /\ PathAt(n - k, Without(n, q, p, k), g, p, path)
           /\ \A x \in 1 .. n : x < p \/ p + k <= x => e.score[q[x]] = l.score[q[x]]

\* One more round of the loop that removes a range: the path found before the first
\* removal still fits, as the last nodes before p stay.
LEMMA LeftStep ==
    ASSUME NEW l, NEW n \in Nat, NEW q, Row(n, q), NEW p \in 1 .. n + 1, NEW path,
           NEW k \in 0 .. n - p, NEW e, Left(l, n, q, p, path, k, e)
    PROVE  Left(l, n, q, p, path, k + 1, RemoveNode(e, q[p + k], path))
<1> DEFINE w == Without(n, q, p, k)
           m == q[p + k]
           f == RemoveNode(e, m, path)
<1>1. PICK g : /\ Shape(e, n - k, w, g)
               /\ PathAt(n - k, w, g, p, path)
               /\ \A x \in 1 .. n : x < p \/ p + k <= x => e.score[q[x]] = l.score[q[x]]
  BY DEF Left
<1>2. w[p] = m /\ Drop(n - k, w, p) = Without(n, q, p, k + 1)
  BY WithoutOneMore
<1>3. p \in 1 .. n - k /\ n - k - 1 = n - (k + 1)
  OBVIOUS
<1>4. /\ \A x \in 1 .. n : q[x] \in Members /\ (q[x] = m => x = p + k)
      /\ p + k \in 1 .. n
  BY DEF Row
<1> HIDE DEF w, m, f
<1>5. /\ Shape(f, n - k - 1, Drop(n - k, w, p), Drop(n - k, g, p))
      /\ PathAt(n - k - 1, Drop(n - k, w, p), Drop(n - k, g, p), p, path)
      /\ \A x \in Members : f.score[x] = IF x = m THEN 0 ELSE e.score[x]
  BY <1>1, <1>2, <1>3, RemoveShape DEF f
<1>6. \A x \in 1 .. n : x < p \/ p + (k + 1) <= x => f.score[q[x]] = l.score[q[x]]
  <2> SUFFICES ASSUME NEW x \in 1 .. n, x < p \/ p + (k + 1) <= x
               PROVE  f.score[q[x]] = l.score[q[x]]
    OBVIOUS
  <2>1. x # p + k /\ (x < p \/ p + k <= x)
    OBVIOUS
  <2>2. q[x] # m /\ q[x] \in Members
    BY <1>4, <2>1
  <2> QED
    BY <1>1, <1>5, <2>1, <2>2
<1> DEFINE G == Drop(n - k, g, p)
<1> HIDE DEF G
<1>7. /\ Shape(f, n - (k + 1), Without(n, q, p, k + 1), G)
      /\ PathAt(n - (k + 1), Without(n, q, p, k + 1), G, p, path)
  BY <1>2, <1>3, <1>5 DEF G
<1>8. Left(l, n, q, p, path, k + 1, f)
  BY <1>6, <1>7 DEF Left
<1> QED
  BY <1>8 DEF f, m

\* What is left after the removals of a range.
LEMMA RangeLeft ==
    ASSUME NEW l, NEW n \in Nat, NEW q, NEW h, Shape(l, n, q, h), NEW p \in 1 .. n + 1,
           NEW path, PathAt(n, q, h, p, path), NEW c \in 0 .. n + 1 - p,
           NEW range, range.path = path, range.removed = Piece(q, p, c)
    PROVE  Left(l, n, q, p, path, c, RemoveRange(l, range))
<1> DEFINE left == CHOOSE w : LeftBy(l, range, w)
           T == {k \in Nat : k <= c => Left(l, n, q, p, path, k, left[k])}
<1>0. Row(n, q) /\ c \in Nat /\ q \in [0 .. n + 1 -> Nodes \cup {Nil}]
  BY DEF Shape, Row
<1>1. /\ Len(range.removed) = c /\ Len(range.removed) \in Nat
      /\ \A x \in 1 .. c : range.removed[x] = q[p + x - 1]
  <2>1. Lists(range.removed, q, p, c)
    BY <1>0, PieceIs
  <2> QED
    BY <1>0, <2>1 DEF Lists
<1>2. LeftBy(l, range, left)
  BY <1>1, RangeExists
<1> HIDE DEF left
<1>3. /\ left[0] = l
      /\ \A k \in 1 .. c : left[k] = RemoveNode(left[k - 1], range.removed[k], path)
  BY <1>1, <1>2 DEF LeftBy
<1>4. 0 \in T
  <2>1. Without(n, q, p, 0) = q /\ n - 0 = n
    BY <1>0, WithoutNone
  <2>2. Left(l, n, q, p, path, 0, l)
    BY <2>1 DEF Left
  <2> QED
    BY <1>3, <2>2
<1>5. ASSUME NEW k \in Nat, k \in T
      PROVE  k + 1 \in T
  <2> SUFFICES ASSUME k + 1 <= c
               PROVE  Left(l, n, q, p, path, k + 1, left[k + 1])
    OBVIOUS
  <2>1. k + 1 \in 1 .. c /\ (k + 1) - 1 = k /\ k \in 0 .. n - p /\ p + (k + 1) - 1 = p + k
        /\ k <= c
    BY <1>0
  <2>2. left[k + 1] = RemoveNode(left[k], q[p + k], path)
    BY <1>1, <1>3, <2>1
  <2>3. Left(l, n, q, p, path, k, left[k])
    BY <1>5, <2>1
  <2> QED
    BY <1>0, <2>1, <2>2, <2>3, LeftStep
<1> HIDE DEF T
<1>6. c \in T
  BY <1>0, <1>4, <1>5, SetInduction
<1>7. Left(l, n, q, p, path, c, left[c])
  BY <1>0, <1>6 DEF T
<1> QED
  BY <1>1, <1>7, RangeDef DEF left

-------------------------------------------------------------------------------
(* The list and the dictionary *)

\* The nodes are in the order of scores and names.
Ranked(l, n, q) ==
    \A i, j \in 1 .. n : i < j => Before(l, q[i], l.score[q[j]], q[j])

\* The list has the members of d, with their scores.
Records(d, l, n, q) ==
    /\ d \in [Members -> Scores \cup {Nil}]
    /\ \A k \in 1 .. n : d[q[k]] = l.score[q[k]] /\ d[q[k]] # Nil
    /\ \A m \in Members : d[m] # Nil => \E k \in 1 .. n : q[k] = m

\* The list and the dictionary keep the same elements, the list in order.
Keeps(l, d) ==
    \E n, q, h : Shape(l, n, q, h) /\ Ranked(l, n, q) /\ Records(d, l, n, q)

\* A search splits a row when with a node all before it are passed, too.
LEMMA SplitsAt ==
    ASSUME NEW n \in Nat, NEW q, NEW ok,
           \A j, k \in 1 .. n : j < k /\ PlaceOf(q, k) \in ok => PlaceOf(q, j) \in ok
    PROVE  \E p \in 1 .. n + 1 : Splits(n, q, ok, p)
<1> DEFINE T == {k \in 1 .. n + 1 : k = n + 1 \/ PlaceOf(q, k) \notin ok}
<1>1. n + 1 \in T /\ T \in SUBSET Nat
  OBVIOUS
<1>2. PICK p \in T : \A y \in T : ~(y < p)
  BY <1>1, LeastNumber
<1>3. ASSUME NEW k \in 1 .. n
      PROVE  PlaceOf(q, k) \in ok <=> k < p
  <2>1. CASE k < p
    BY <1>2, <2>1
  <2>2. CASE k = p
    BY <1>2, <2>2
  <2>3. CASE p < k
    <3>1. p \in 1 .. n /\ PlaceOf(q, p) \notin ok
      BY <1>2, <2>3
    <3> QED
      BY <2>3, <3>1
  <2> QED
    BY <2>1, <2>2, <2>3
<1> QED
  BY <1>3 DEF Splits, PlaceOf

\* Where the nodes of a row with one more have been.
LEMMA PutOld ==
    ASSUME NEW n \in Nat, NEW q, NEW p \in 1 .. n + 1, NEW m, NEW x \in 1 .. n + 1, x # p
    PROVE  \E y \in 1 .. n : y = (IF x < p THEN x ELSE x - 1) /\ Put(n, q, p, m)[x] = q[y]
<1>1. x \in 0 .. n + 2
  OBVIOUS
<1>2. Put(n, q, p, m)[x] = IF x < p THEN q[x] ELSE q[x - 1]
  BY <1>1 DEF Put
<1>3. CASE x < p
  BY <1>2, <1>3
<1>4. CASE p < x
  <2>1. x - 1 \in 1 .. n /\ ~(x < p)
    BY <1>4
  <2> QED
    BY <1>2, <2>1
<1> QED
  BY <1>3, <1>4

\* insert of a member that the dictionary does not have, with its entry there.
LEMMA InsertKeeps ==
    ASSUME NEW l, NEW d, Keeps(l, d), NEW m \in Members, d[m] = Nil, NEW score \in Scores,
           NEW t \in Levels
    PROVE  Keeps(Insert(l, m, score, t), [d EXCEPT ![m] = score])
<1>1. PICK n, q, h : Shape(l, n, q, h) /\ Ranked(l, n, q) /\ Records(d, l, n, q)
  BY DEF Keeps
<1>2. /\ n \in Nat /\ \A k \in 1 .. n : q[k] \in Members /\ q[k] # m
      /\ \A x \in Members : x \in Nat /\ l.score[x] \in Int
      /\ score \in Int /\ score # Nil
  <2>1. n \in Nat /\ \A k \in 1 .. n : q[k] \in Members
    BY <1>1 DEF Shape, Row
  <2>2. \A x \in Members : l.score[x] \in Int
    BY <1>1 DEF Shape, ListType
  <2>3. \A k \in 1 .. n : q[k] # m
    BY <1>1 DEF Records
  <2> QED
    BY <2>1, <2>2, <2>3, MembersAssumption, ScoresAssumption
<1> DEFINE ok == Befores(l, m, score)
<1>3. \A k \in 1 .. n : PlaceOf(q, k) \in ok <=> Before(l, q[k], score, m)
  <2> SUFFICES ASSUME NEW k \in 1 .. n
               PROVE  PlaceOf(q, k) \in ok <=> Before(l, q[k], score, m)
    OBVIOUS
  <2>1. PlaceOf(q, k) \in Places /\ PlaceOf(q, k).node = q[k]
    BY <1>2 DEF PlaceOf, Places, Nodes
  <2> QED
    BY <2>1 DEF Befores
<1> HIDE DEF ok
<1>4. PICK p \in 1 .. n + 1 : Splits(n, q, ok, p)
  <2>1. ASSUME NEW j \in 1 .. n, NEW k \in 1 .. n, j < k, PlaceOf(q, k) \in ok
        PROVE  PlaceOf(q, j) \in ok
    <3>1. Before(l, q[k], score, m) /\ Before(l, q[j], l.score[q[k]], q[k])
      BY <1>1, <1>3, <2>1 DEF Ranked
    <3>2. q[j] \in Nat /\ q[k] \in Nat /\ m \in Nat /\ l.score[q[j]] \in Int /\ l.score[q[k]] \in Int
      BY <1>2
    <3>3. Before(l, q[j], score, m)
      BY <1>2, <3>1, <3>2 DEF Before
    <3> QED
      BY <1>3, <3>3
  <2> QED
    BY <1>2, <2>1, SplitsAt
<1>5. \A k \in 1 .. n : Before(l, q[k], score, m) <=> k < p
  BY <1>3, <1>4 DEF Splits, PlaceOf
<1> DEFINE e == Insert(l, m, score, t)
           Q == Put(n, q, p, m)
           H == Put(n, h, p, t)
           D == [d EXCEPT ![m] = score]
<1>6. /\ Shape(e, n + 1, Q, H)
      /\ \A x \in Members : e.score[x] = IF x = m THEN score ELSE l.score[x]
  BY <1>1, <1>2, <1>4, InsertShape DEF ok
<1>7. Q[p] = m
  BY <1>2 DEF Put
<1>8. \A x \in 1 .. n + 1 : x # p =>
         \E y \in 1 .. n : y = (IF x < p THEN x ELSE x - 1) /\ Q[x] = q[y]
  BY <1>2, PutOld
<1> HIDE DEF e, Q, H
<1>9. Ranked(e, n + 1, Q)
  <2> SUFFICES ASSUME NEW i \in 1 .. n + 1, NEW j \in 1 .. n + 1, i < j
               PROVE  Before(e, Q[i], e.score[Q[j]], Q[j])
    BY DEF Ranked
  <2>1. CASE i # p /\ j # p
    <3>1. PICK x \in 1 .. n : x = (IF i < p THEN i ELSE i - 1) /\ Q[i] = q[x]
      BY <1>8, <2>1
    <3>2. PICK y \in 1 .. n : y = (IF j < p THEN j ELSE j - 1) /\ Q[j] = q[y]
      BY <1>8, <2>1
    <3>3. x < y
      BY <1>2, <2>1, <3>1, <3>2
    <3>4. Before(l, q[x], l.score[q[y]], q[y])
      BY <1>1, <3>3 DEF Ranked
    <3>5. e.score[q[x]] = l.score[q[x]] /\ e.score[q[y]] = l.score[q[y]]
      BY <1>2, <1>6
    <3> QED
      BY <3>1, <3>2, <3>4, <3>5 DEF Before
  <2>2. CASE j = p
    <3>1. PICK x \in 1 .. n : x = (IF i < p THEN i ELSE i - 1) /\ Q[i] = q[x]
      BY <1>2, <1>8, <2>2
    <3>2. x < p
      BY <1>2, <2>2, <3>1
    <3>3. Before(l, q[x], score, m)
      BY <1>5, <3>2
    <3>4. e.score[q[x]] = l.score[q[x]] /\ e.score[m] = score
      BY <1>2, <1>6
    <3> QED
      BY <1>7, <2>2, <3>1, <3>3, <3>4 DEF Before
  <2>3. CASE i = p
    <3>1. PICK y \in 1 .. n : y = (IF j < p THEN j ELSE j - 1) /\ Q[j] = q[y]
      BY <1>2, <1>8, <2>3
    <3>2. ~(y < p)
      BY <1>2, <2>3, <3>1
    <3>3. ~Before(l, q[y], score, m)
      BY <1>5, <3>2
    <3>4. e.score[q[y]] = l.score[q[y]] /\ e.score[m] = score
      BY <1>2, <1>6
    <3>5. q[y] # m /\ q[y] \in Nat /\ m \in Nat /\ l.score[q[y]] \in Int
      BY <1>2
    <3>6. score < l.score[q[y]] \/ (score = l.score[q[y]] /\ m < q[y])
      BY <1>2, <3>3, <3>5 DEF Before
    <3> QED
      BY <1>7, <2>3, <3>1, <3>4, <3>6 DEF Before
  <2> QED
    BY <2>1, <2>2, <2>3
<1>10. Records(D, e, n + 1, Q)
  <2>0. d \in [Members -> Scores \cup {Nil}]
    BY <1>1 DEF Records
  <2>1. D \in [Members -> Scores \cup {Nil}] /\ D[m] = score /\ \A x \in Members : x # m => D[x] = d[x]
    BY <2>0
  <2> HIDE DEF D
  <2>2. ASSUME NEW k \in 1 .. n + 1
        PROVE  D[Q[k]] = e.score[Q[k]] /\ D[Q[k]] # Nil
    <3>1. CASE k = p
      BY <1>2, <1>6, <1>7, <2>1, <3>1
    <3>2. CASE k # p
      <4>1. PICK y \in 1 .. n : Q[k] = q[y]
        BY <1>8, <3>2
      <4>2. d[q[y]] = l.score[q[y]] /\ d[q[y]] # Nil
        BY <1>1 DEF Records
      <4> QED
        BY <1>2, <1>6, <2>1, <4>1, <4>2
    <3> QED
      BY <3>1, <3>2
  <2>3. ASSUME NEW x \in Members, D[x] # Nil
        PROVE  \E k \in 1 .. n + 1 : Q[k] = x
    <3>1. CASE x = m
      BY <1>7, <3>1
    <3>2. CASE x # m
      <4>1. PICK y \in 1 .. n : q[y] = x
        BY <1>1, <2>1, <2>3, <3>2 DEF Records
      <4>2. CASE y < p
        <5>1. y \in 0 .. p - 1 /\ y \in 1 .. n + 1
          BY <1>2, <4>2
        <5>2. Q[y] = q[y]
          BY <1>2, <5>1, PutIs DEF Q
        <5> QED
          BY <4>1, <5>1, <5>2
      <4>3. CASE p <= y
        <5>1. y \in p .. n + 1 /\ y + 1 \in 1 .. n + 1
          BY <1>2, <4>3
        <5>2. Q[y + 1] = q[y]
          BY <1>2, <5>1, PutIs DEF Q
        <5> QED
          BY <4>1, <5>1, <5>2
      <4> QED
        BY <1>2, <4>2, <4>3
    <3> QED
      BY <3>1, <3>2
  <2> QED
    BY <2>1, <2>2, <2>3 DEF Records
<1>11. Keeps(e, D)
  <2> HIDE DEF D
  <2> QED
    BY <1>6, <1>9, <1>10 DEF Keeps
<1> QED
  BY <1>11 DEF e

\* Every node left was in the row.
LEMMA DropOld ==
    ASSUME NEW n \in Nat, NEW q, NEW p \in 1 .. n, NEW x \in 1 .. n - 1
    PROVE  \E y \in 1 .. n : y = (IF x < p THEN x ELSE x + 1) /\ y # p /\ Drop(n, q, p)[x] = q[y]
<1>1. x \in 0 .. n /\ x \in 1 .. n /\ x + 1 \in 1 .. n
  OBVIOUS
<1>2. Drop(n, q, p)[x] = IF x < p THEN q[x] ELSE q[x + 1]
  BY <1>1 DEF Drop
<1> QED
  BY <1>1, <1>2

\* remove of a member, with the score of the dictionary, finds and removes its node.
LEMMA RemoveKeeps ==
    ASSUME NEW l, NEW d, Keeps(l, d), NEW m \in Members, d[m] # Nil
    PROVE  Keeps(RemoveMember(l, m, d[m]), [d EXCEPT ![m] = Nil])
<1>1. PICK n, q, h : Shape(l, n, q, h) /\ Ranked(l, n, q) /\ Records(d, l, n, q)
  BY DEF Keeps
<1>2. PICK p \in 1 .. n : q[p] = m
  BY <1>1 DEF Records
<1>3. /\ n \in Nat /\ p \in 1 .. n + 1 /\ \A k \in 1 .. n : q[k] \in Members /\ (q[k] = m => k = p)
      /\ \A x \in Members : x \in Nat /\ l.score[x] \in Int
      /\ d[m] = l.score[m]
  <2>1. n \in Nat /\ \A k \in 1 .. n : q[k] \in Members /\ (q[k] = m => k = p)
    BY <1>1, <1>2 DEF Shape, Row
  <2>2. \A x \in Members : l.score[x] \in Int
    BY <1>1 DEF Shape, ListType
  <2>3. d[m] = l.score[m]
    BY <1>1, <1>2 DEF Records
  <2> QED
    BY <2>1, <2>2, <2>3, MembersAssumption
<1> DEFINE ok == Befores(l, m, d[m])
<1>4. \A k \in 1 .. n : PlaceOf(q, k) \in ok <=> Before(l, q[k], d[m], m)
  <2> SUFFICES ASSUME NEW k \in 1 .. n
               PROVE  PlaceOf(q, k) \in ok <=> Before(l, q[k], d[m], m)
    OBVIOUS
  <2>1. PlaceOf(q, k) \in Places /\ PlaceOf(q, k).node = q[k]
    BY <1>3 DEF PlaceOf, Places, Nodes
  <2> QED
    BY <2>1 DEF Befores
<1>5. Splits(n, q, ok, p)
  <2> HIDE DEF ok
  <2>1. ASSUME NEW k \in 1 .. n
        PROVE  PlaceOf(q, k) \in ok <=> k < p
    <3>1. q[k] \in Nat /\ m \in Nat /\ l.score[q[k]] \in Int /\ l.score[m] \in Int
      BY <1>3
    <3>2. CASE k < p
      <4>1. Before(l, q[k], l.score[q[p]], q[p])
        BY <1>1, <3>2 DEF Ranked
      <4> QED
        BY <1>2, <1>3, <1>4, <3>2, <4>1
    <3>3. CASE k = p
      <4>1. ~Before(l, q[k], d[m], m)
        BY <1>2, <1>3, <3>1, <3>3 DEF Before
      <4> QED
        BY <1>4, <3>3, <4>1
    <3>4. CASE p < k
      <4>1. Before(l, q[p], l.score[q[k]], q[k])
        BY <1>1, <3>4 DEF Ranked
      <4>2. ~Before(l, q[k], d[m], m)
        BY <1>2, <1>3, <3>1, <4>1 DEF Before
      <4> QED
        BY <1>3, <1>4, <3>4, <4>2
    <3> QED
      BY <1>3, <3>2, <3>3, <3>4
  <2> QED
    BY <1>3, <2>1 DEF Splits, PlaceOf
<1> DEFINE path == Path(l, ok)
           e == RemoveNode(l, m, path)
           Q == Drop(n, q, p)
           H == Drop(n, h, p)
           D == [d EXCEPT ![m] = Nil]
<1>6. PathAt(n, q, h, p, path)
  BY <1>1, <1>5, PathIs
<1>7. RemoveMember(l, m, d[m]) = e
  <2>1. l.forward[path[1].node][1] = q[p]
    BY <1>1, <1>3, <1>6, AfterIs
  <2>2. RemoveMember(l, m, d[m]) =
           IF l.forward[path[1].node][1] = m /\ l.score[m] = d[m] THEN RemoveNode(l, m, path) ELSE l
    BY DEF RemoveMember, Befores
  <2> QED
    BY <1>2, <1>3, <2>1, <2>2
<1> HIDE DEF ok, path
<1>8. /\ Shape(e, n - 1, Q, H)
      /\ \A x \in Members : e.score[x] = IF x = m THEN 0 ELSE l.score[x]
  BY <1>1, <1>2, <1>6, RemoveShape
<1>9. \A x \in 1 .. n - 1 :
         \E y \in 1 .. n : y = (IF x < p THEN x ELSE x + 1) /\ y # p /\ Q[x] = q[y]
  BY <1>3, DropOld
<1>10. \A y \in 1 .. n : y # p => q[y] # m /\ q[y] \in Members /\ e.score[q[y]] = l.score[q[y]]
  <2> HIDE DEF e
  <2> QED
    BY <1>3, <1>8
<1> HIDE DEF e, Q, H
<1>11. Ranked(e, n - 1, Q)
  <2> SUFFICES ASSUME NEW i \in 1 .. n - 1, NEW j \in 1 .. n - 1, i < j
               PROVE  Before(e, Q[i], e.score[Q[j]], Q[j])
    BY DEF Ranked
  <2>1. PICK x \in 1 .. n : x = (IF i < p THEN i ELSE i + 1) /\ x # p /\ Q[i] = q[x]
    BY <1>9
  <2>2. PICK y \in 1 .. n : y = (IF j < p THEN j ELSE j + 1) /\ y # p /\ Q[j] = q[y]
    BY <1>9
  <2>3. x < y
    BY <1>3, <2>1, <2>2
  <2>4. Before(l, q[x], l.score[q[y]], q[y])
    BY <1>1, <2>3 DEF Ranked
  <2>5. e.score[q[x]] = l.score[q[x]] /\ e.score[q[y]] = l.score[q[y]]
    BY <1>10, <2>1, <2>2
  <2> QED
    BY <2>1, <2>2, <2>4, <2>5 DEF Before
<1>12. Records(D, e, n - 1, Q)
  <2>0. d \in [Members -> Scores \cup {Nil}]
    BY <1>1 DEF Records
  <2>1. D \in [Members -> Scores \cup {Nil}] /\ D[m] = Nil /\ \A x \in Members : x # m => D[x] = d[x]
    BY <2>0
  <2> HIDE DEF D
  <2>2. ASSUME NEW k \in 1 .. n - 1
        PROVE  D[Q[k]] = e.score[Q[k]] /\ D[Q[k]] # Nil
    <3>1. PICK y \in 1 .. n : y # p /\ Q[k] = q[y]
      BY <1>9
    <3>2. d[q[y]] = l.score[q[y]] /\ d[q[y]] # Nil
      BY <1>1 DEF Records
    <3> QED
      BY <1>10, <2>1, <3>1, <3>2
  <2>3. ASSUME NEW x \in Members, D[x] # Nil
        PROVE  \E k \in 1 .. n - 1 : Q[k] = x
    <3>1. x # m
      BY <2>1, <2>3
    <3>2. PICK y \in 1 .. n : q[y] = x
      BY <1>1, <2>1, <2>3, <3>1 DEF Records
    <3>3. y # p /\ n \in Nat \ {0}
      BY <1>2, <1>3, <3>1, <3>2
    <3>4. CASE y < p
      <4>1. y \in 0 .. p - 1 /\ y \in 1 .. n - 1
        BY <1>3, <3>4
      <4>2. Q[y] = q[y]
        BY <1>3, <3>3, <4>1, DropIs DEF Q
      <4> QED
        BY <3>2, <4>1, <4>2
    <3>5. CASE p < y
      <4>1. y - 1 \in 1 .. n - 1 /\ y - 1 \in 0 .. n /\ ~(y - 1 < p) /\ (y - 1) + 1 = y
        BY <1>3, <3>5
      <4>2. Q[y - 1] = q[y]
        BY <4>1 DEF Q, Drop
      <4> QED
        BY <3>2, <4>1, <4>2
    <3> QED
      BY <1>3, <3>3, <3>4, <3>5
  <2> QED
    BY <2>1, <2>2, <2>3 DEF Records
<1>13. Keeps(e, D)
  <2> HIDE DEF D
  <2> QED
    BY <1>8, <1>11, <1>12 DEF Keeps
<1> QED
  BY <1>7, <1>13

\* Every node left was in the row, outside of the stretch.
LEMMA WithoutOld ==
    ASSUME NEW n \in Nat, NEW q, NEW p \in 1 .. n + 1, NEW c \in 0 .. n + 1 - p, NEW x \in 1 .. n - c
    PROVE  \E y \in 1 .. n : /\ y = (IF x < p THEN x ELSE x + c) /\ (y < p \/ p + c <= y)
                             /\ Without(n, q, p, c)[x] = q[y]
<1>1. x \in 0 .. n + 1 - c /\ x \in 1 .. n /\ x + c \in 1 .. n
  OBVIOUS
<1>2. Without(n, q, p, c)[x] = IF x < p THEN q[x] ELSE q[x + c]
  BY <1>1 DEF Without
<1> QED
  BY <1>1, <1>2

Cleared(d, s) == [m \in Members |-> IF m \in ToSet(s) THEN Nil ELSE d[m]]

\* The removal of a range, with the entries of its members: one path for all.
LEMMA RangeKeeps ==
    ASSUME NEW l, NEW d, NEW n, NEW q, NEW h, Shape(l, n, q, h), Ranked(l, n, q), Records(d, l, n, q),
           NEW ok, NEW p, Splits(n, q, ok, p),
           NEW range, range.path = Path(l, ok), Part(n, q, p, range.removed)
    PROVE  Keeps(RemoveRange(l, range), Cleared(d, range.removed))
<1>0. /\ n \in Nat /\ p \in 1 .. n + 1 /\ Row(n, q)
      /\ \A k \in 1 .. n : q[k] \in Members
      /\ \A j, k \in 1 .. n : q[j] = q[k] => j = k
  BY DEF Shape, Row, Splits
<1>1. PICK c \in 0 .. n + 1 - p : range.removed = Piece(q, p, c)
  BY DEF Part
<1>2. Left(l, n, q, p, range.path, c, RemoveRange(l, range))
  BY <1>0, <1>1, PathIs, RangeLeft
<1> DEFINE Q == Without(n, q, p, c)
           e == RemoveRange(l, range)
           D == Cleared(d, range.removed)
<1>3. PICK g : Shape(e, n - c, Q, g)
  BY <1>2 DEF Left
<1>4. \A x \in 1 .. n : x < p \/ p + c <= x => e.score[q[x]] = l.score[q[x]]
  BY <1>2 DEF Left
<1>5. \A x \in 1 .. n - c :
         \E y \in 1 .. n : /\ y = (IF x < p THEN x ELSE x + c) /\ (y < p \/ p + c <= y)
                           /\ Q[x] = q[y]
  BY <1>0, WithoutOld
<1>6. \A y \in 1 .. n : q[y] \in ToSet(range.removed) <=> p <= y /\ y < p + c
  <2> DEFINE s == range.removed
  <2>1. Lists(s, q, p, c)
    BY <1>0, <1>1, PieceIs
  <2> HIDE DEF s
  <2>2. s \in Seq(Members) /\ Len(s) = c /\ \A x \in 1 .. c : s[x] = q[p + x - 1]
    BY <2>1 DEF Lists
  <2>3. ToSet(s) = {s[x] : x \in 1 .. c}
    <3>1. DOMAIN s = 1 .. c
      BY <2>2
    <3> QED
      BY <3>1 DEF ToSet
  <2> SUFFICES ASSUME NEW y \in 1 .. n
               PROVE  q[y] \in ToSet(s) <=> p <= y /\ y < p + c
    BY DEF s
  <2>4. ASSUME q[y] \in ToSet(s)
        PROVE  p <= y /\ y < p + c
    <3>1. PICK x \in 1 .. c : q[y] = s[x]
      BY <2>3, <2>4
    <3>2. p + x - 1 \in 1 .. n
      BY <1>0
    <3>3. y = p + x - 1
      BY <1>0, <2>2, <3>1, <3>2
    <3> QED
      BY <1>0, <3>3
  <2>5. ASSUME p <= y, y < p + c
        PROVE  q[y] \in ToSet(s)
    <3>1. y - p + 1 \in 1 .. c /\ p + (y - p + 1) - 1 = y
      BY <1>0, <2>5
    <3>2. s[y - p + 1] = q[y]
      BY <2>2, <3>1
    <3> QED
      BY <2>3, <3>1, <3>2
  <2> QED
    BY <2>4, <2>5
<1>7. D \in [Members -> Scores \cup {Nil}]
      /\ \A x \in Members : D[x] = IF x \in ToSet(range.removed) THEN Nil ELSE d[x]
  <2>1. d \in [Members -> Scores \cup {Nil}]
    BY DEF Records
  <2> QED
    BY <2>1 DEF Cleared
<1> HIDE DEF e, Q, D
<1>8. Ranked(e, n - c, Q)
  <2> SUFFICES ASSUME NEW i \in 1 .. n - c, NEW j \in 1 .. n - c, i < j
               PROVE  Before(e, Q[i], e.score[Q[j]], Q[j])
    BY DEF Ranked
  <2>1. PICK x \in 1 .. n : x = (IF i < p THEN i ELSE i + c) /\ (x < p \/ p + c <= x) /\ Q[i] = q[x]
    BY <1>5
  <2>2. PICK y \in 1 .. n : y = (IF j < p THEN j ELSE j + c) /\ (y < p \/ p + c <= y) /\ Q[j] = q[y]
    BY <1>5
  <2>3. x < y
    BY <1>0, <2>1, <2>2
  <2>4. Before(l, q[x], l.score[q[y]], q[y])
    BY <2>3 DEF Ranked
  <2>5. e.score[q[x]] = l.score[q[x]] /\ e.score[q[y]] = l.score[q[y]]
    BY <1>4, <2>1, <2>2
  <2> QED
    BY <2>1, <2>2, <2>4, <2>5 DEF Before
<1>9. Records(D, e, n - c, Q)
  <2>1. ASSUME NEW k \in 1 .. n - c
        PROVE  D[Q[k]] = e.score[Q[k]] /\ D[Q[k]] # Nil
    <3>1. PICK y \in 1 .. n : (y < p \/ p + c <= y) /\ Q[k] = q[y]
      BY <1>5
    <3>2. d[q[y]] = l.score[q[y]] /\ d[q[y]] # Nil
      BY DEF Records
    <3>3. ~(p <= y /\ y < p + c)
      BY <1>0, <3>1
    <3>4. q[y] \notin ToSet(range.removed) /\ q[y] \in Members
      BY <1>0, <1>6, <3>3
    <3> QED
      BY <1>4, <1>7, <3>1, <3>2, <3>4
  <2>2. ASSUME NEW x \in Members, D[x] # Nil
        PROVE  \E k \in 1 .. n - c : Q[k] = x
    <3>1. x \notin ToSet(range.removed) /\ d[x] # Nil
      BY <1>7, <2>2
    <3>2. PICK y \in 1 .. n : q[y] = x
      BY <3>1 DEF Records
    <3>3. y < p \/ p + c <= y
      BY <1>0, <1>6, <3>1, <3>2
    <3>4. CASE y < p
      <4>1. y \in 1 .. n - c /\ y \in 0 .. n + 1 - c
        BY <1>0, <3>4
      <4>2. Q[y] = q[y]
        BY <3>4, <4>1 DEF Q, Without
      <4> QED
        BY <3>2, <4>1, <4>2
    <3>5. CASE p + c <= y
      <4>1. y - c \in 1 .. n - c /\ y - c \in 0 .. n + 1 - c /\ ~(y - c < p) /\ (y - c) + c = y
        BY <1>0, <3>5
      <4>2. Q[y - c] = q[y]
        BY <4>1 DEF Q, Without
      <4> QED
        BY <3>2, <4>1, <4>2
    <3> QED
      BY <3>3, <3>4, <3>5
  <2> QED
    BY <1>7, <2>1, <2>2 DEF Records
<1>10. Keeps(e, D)
  BY <1>3, <1>8, <1>9 DEF Keeps
<1> QED
  BY <1>10 DEF e, D

-------------------------------------------------------------------------------
(* Ranges *)

\* Borders of any value.
BorderType == [inf : {-1, 0, 1}, value : Int, exclude : BOOLEAN]

\* The loop that looks for the lower border of a range of scores finds a position.
LEMMA LessSplits ==
    ASSUME NEW l, NEW n, NEW q, NEW h, Shape(l, n, q, h), Ranked(l, n, q), NEW min \in BorderType
    PROVE  \E p \in 1 .. n + 1 : Splits(n, q, {at \in Places : ~Less(min, l.score[at.node])}, p)
<1> DEFINE ok == {at \in Places : ~Less(min, l.score[at.node])}
<1>1. /\ n \in Nat /\ \A k \in 1 .. n : q[k] \in Members /\ l.score[q[k]] \in Int
  BY DEF Shape, Row, ListType
<1>2. \A k \in 1 .. n : PlaceOf(q, k) \in ok <=> ~Less(min, l.score[q[k]])
  <2> SUFFICES ASSUME NEW k \in 1 .. n
               PROVE  PlaceOf(q, k) \in ok <=> ~Less(min, l.score[q[k]])
    OBVIOUS
  <2>1. PlaceOf(q, k) \in Places /\ PlaceOf(q, k).node = q[k]
    BY <1>1 DEF PlaceOf, Places, Nodes
  <2> QED
    BY <2>1
<1> HIDE DEF ok
<1>3. ASSUME NEW j \in 1 .. n, NEW k \in 1 .. n, j < k, PlaceOf(q, k) \in ok
      PROVE  PlaceOf(q, j) \in ok
  <2>1. Before(l, q[j], l.score[q[k]], q[k]) /\ ~Less(min, l.score[q[k]])
    BY <1>2, <1>3 DEF Ranked
  <2>2. l.score[q[j]] \in Int /\ l.score[q[k]] \in Int /\ l.score[q[j]] <= l.score[q[k]]
    BY <1>1, <2>1 DEF Before
  <2>3. min.value \in Int /\ min.inf \in Int /\ min.exclude \in BOOLEAN
    BY DEF BorderType
  <2>4. ~Less(min, l.score[q[j]])
    BY <2>1, <2>2, <2>3 DEF Less, Finite
  <2> QED
    BY <1>2, <2>4
<1>4. \E p \in 1 .. n + 1 : Splits(n, q, ok, p)
  BY <1>1, <1>3, SplitsAt
<1> QED
  BY <1>4 DEF ok

\* The nodes of a range of scores are a piece of the row.
LEMMA ScoreRangeKeeps ==
    ASSUME NEW l, NEW d, Keeps(l, d), NEW min \in BorderType, NEW max, NEW limit \in Nat,
           NEW range, range = InScoreRange(l, min, max, limit)
    PROVE  Keeps(RemoveRange(l, range), Cleared(d, range.removed))
<1>1. PICK n, q, h : Shape(l, n, q, h) /\ Ranked(l, n, q) /\ Records(d, l, n, q)
  BY DEF Keeps
<1> DEFINE ok == {at \in Places : ~Less(min, l.score[at.node])}
           path == Path(l, ok)
           good == {m \in Members : Greater(max, l.score[m])}
           in == Until(After(l, path), good)
<1>2. PICK p \in 1 .. n + 1 : Splits(n, q, ok, p)
  BY <1>1, LessSplits
<1>3. range.path = path /\ range.removed = IF limit > 0 THEN AtMost(in, limit) ELSE in
  BY DEF InScoreRange
<1> HIDE DEF ok, good
<1>4. n \in Nat /\ Row(n, q)
  BY <1>1 DEF Shape, Row
<1>5. After(l, path) = Piece(q, p, n + 1 - p)
  BY <1>1, <1>2, PathIs, AfterIs
<1>6. Part(n, q, p, in)
  BY <1>4, <1>5, UntilPart
<1> HIDE DEF in
<1>7. Part(n, q, p, AtMost(in, limit))
  BY <1>4, <1>6, AtMostPart
<1>8. Part(n, q, p, range.removed)
  BY <1>3, <1>6, <1>7
<1> QED
  BY <1>1, <1>2, <1>3, <1>8, RangeKeeps

\* RemoveRangeByRank keeps the list and the dictionary together.
LEMMA RankRangeKeeps ==
    ASSUME NEW l, NEW d, Keeps(l, d), NEW start \in Nat \ {0}, NEW stop \in Nat, start < stop,
           NEW range, range = InRankRange(l, start, stop)
    PROVE  Keeps(RemoveRange(l, range), Cleared(d, range.removed))
<1>1. PICK n, q, h : Shape(l, n, q, h) /\ Ranked(l, n, q) /\ Records(d, l, n, q)
  BY DEF Keeps
<1> DEFINE ok == {at \in Places : at.rank < start}
           path == Path(l, ok)
           left == stop - path[1].rank - 1
<1>2. n \in Nat /\ Row(n, q) /\ \A k \in 1 .. n : q[k] \in Members
  BY <1>1 DEF Shape, Row
<1>3. \A k \in 1 .. n : PlaceOf(q, k) \in ok <=> k < start
  <2> SUFFICES ASSUME NEW k \in 1 .. n
               PROVE  PlaceOf(q, k) \in ok <=> k < start
    OBVIOUS
  <2>1. PlaceOf(q, k) \in Places /\ PlaceOf(q, k).rank = k
    BY <1>2 DEF PlaceOf, Places, Nodes
  <2> QED
    BY <2>1
<1>4. range.path = path /\ range.removed = AtMost(After(l, path), left)
  BY DEF InRankRange
<1> HIDE DEF ok
<1>5. PICK p \in 1 .. n + 1 : Splits(n, q, ok, p)
  <2>1. \A j, k \in 1 .. n : j < k /\ PlaceOf(q, k) \in ok => PlaceOf(q, j) \in ok
    BY <1>3
  <2> QED
    BY <1>2, <2>1, SplitsAt
<1>6. After(l, path) = Piece(q, p, n + 1 - p) /\ path[1].rank = p - 1
  <2>1. PathAt(n, q, h, p, path)
    BY <1>1, <1>5, PathIs
  <2> HIDE DEF path
  <2> QED
    BY <1>1, <2>1, AfterIs
<1>7. p - 1 < start
  <2>1. CASE p = 1
    BY <2>1
  <2>2. CASE p # 1
    <3>1. p - 1 \in 1 .. n /\ p - 1 < p
      BY <1>2, <2>2
    <3>2. PlaceOf(q, p - 1) \in ok
      BY <1>5, <3>1 DEF Splits, PlaceOf
    <3> QED
      BY <1>3, <3>1, <3>2
  <2> QED
    BY <2>1, <2>2
<1>8. left \in Nat
  <2> HIDE DEF path
  <2> QED
    BY <1>2, <1>6, <1>7
<1>9. Part(n, q, p, After(l, path))
  <2>1. n + 1 - p \in 0 .. n + 1 - p
    BY <1>2
  <2> QED
    BY <1>6, <2>1 DEF Part
<1> HIDE DEF left, path
<1>10. Part(n, q, p, range.removed)
  BY <1>2, <1>4, <1>8, <1>9, AtMostPart
<1> QED
  BY <1>1, <1>4, <1>5, <1>10, RangeKeeps DEF path

\* An empty list has the empty row.
LEMMA EmptyKeeps == Keeps(EmptyList, [m \in Members |-> Nil])
<1> DEFINE q == [k \in 0 .. 1 |-> IF k = 0 THEN Header ELSE Nil]
           h == [k \in 0 .. 1 |-> MaxLevel]
           l == EmptyList
           d == [m \in Members |-> Nil]
<1>0. 0 + 1 = 1 /\ 0 \in Nat /\ \A k \in 0 .. 0 : k = 0
  OBVIOUS
<1>1. /\ l \in ListType
      /\ \A x \in Nodes : \A i \in Levels : l.forward[x][i] = Nil /\ l.span[x][i] = 0
      /\ l.tail = Nil /\ l.length = 0 /\ l.level = 1
  BY LevelsAre DEF EmptyList, ListType
<1>2. q[0] = Header /\ q[1] = Nil /\ q \in [0 .. 1 -> Nodes \cup {Nil}] /\ Header \in Nodes
  BY DEF Nodes
<1>3. h[0] = MaxLevel /\ h[1] = MaxLevel /\ h \in [0 .. 1 -> Levels]
  BY LevelsAre
<1> HIDE DEF q, h, l
<1>4. Row(0, q) /\ Tall(0, h)
  BY <1>0, <1>2, <1>3 DEF Row, Tall
<1>5. Links(l, 0, q, h)
  <2>1. ASSUME NEW k \in 0 .. 0, NEW j \in 1 .. 0 + 1, NEW i \in Levels
        PROVE  /\ l.forward[q[k]][i] = q[j]
               /\ l.span[q[k]][i] = (IF j = 0 + 1 THEN 0 - k ELSE j - k)
    <3>1. k = 0 /\ j = 1
      OBVIOUS
    <3> QED
      BY <1>1, <1>2, <3>1
  <2>2. \A k \in 0 .. 0 : \A i \in Levels : l.forward[q[k]][i] = Nil
    BY <1>0, <1>1, <1>2
  <2>3. \A m \in Members : \A i \in Levels : l.forward[m][i] = Nil
    BY <1>1 DEF Nodes
  <2> QED
    BY <2>1, <2>2, <2>3 DEF Links
<1>6. Ends(l, 0, q, h)
  BY <1>1 DEF Ends
<1>7. Ranked(l, 0, q) /\ Records(d, l, 0, q)
  BY DEF Ranked, Records
<1>8. Keeps(l, d)
  <2> HIDE DEF d
  <2> QED
    BY <1>1, <1>4, <1>5, <1>6, <1>7 DEF Keeps, Shape
<1> QED
  BY <1>8 DEF l

-------------------------------------------------------------------------------
(* The invariant of the sorted set *)

\* The dictionary has as many members as the row.
LEMMA SizeIs ==
    ASSUME NEW n, NEW q, Row(n, q), Records(dict, list, n, q)
    PROVE  Size = n /\ n \in Nat
<1> DEFINE S == {m \in Members : In(m)}
           f == [k \in 1 .. n |-> q[k]]
<1>1. /\ n \in Nat /\ \A k \in 1 .. n : q[k] \in Members
      /\ \A j, k \in 1 .. n : q[j] = q[k] => j = k
  BY DEF Row
<1>2. f \in [1 .. n -> S] /\ \A m \in S : \E k \in 1 .. n : f[k] = m
  BY <1>1 DEF Records, In
<1>3. \A j, k \in 1 .. n : f[j] = f[k] => j = k
  BY <1>1
<1> HIDE DEF f, S
<1>4. f \in Bijection(1 .. n, S)
  BY <1>2, <1>3 DEF Bijection, Injection, Surjection, IsInjective
<1>5. Cardinality(1 .. n) = n /\ IsFiniteSet(1 .. n)
  BY <1>1, FS_Interval
<1>6. Cardinality(S) = n
  BY <1>4, <1>5, FS_Bijection DEF ExistsBijection
<1> QED
  BY <1>1, <1>6 DEF Size, S

\* The invariant: there is a row, in order, that the list follows and the dictionary has.
\* The inductive invariant.
SInv == Keeps(list, dict)

\* A new sorted set has the invariant.
LEMMA SInvInit == SetInit => SInv
BY EmptyKeeps DEF SetInit, SInv

\* Add keeps the invariant: a new member, the same score again, another score.
LEMMA SInvAdd ==
    ASSUME SInv, NEW m \in Members, NEW score \in Scores, NEW h \in Levels, Add(m, score, h)
    PROVE  SInv'
<1>1. dict' = [dict EXCEPT ![m] = score]
      /\ list' = IF ~In(m) THEN Insert(list, m, score, h)
                 ELSE IF dict[m] = score THEN list
                 ELSE Insert(RemoveMember(list, m, dict[m]), m, score, h)
  BY DEF Add
<1>2. dict \in [Members -> Scores \cup {Nil}]
  BY DEF SInv, Keeps, Records
<1>3. CASE ~In(m)
  <2>1. Keeps(Insert(list, m, score, h), [dict EXCEPT ![m] = score])
    BY <1>3, InsertKeeps DEF SInv, In
  <2> QED
    BY <1>1, <1>3, <2>1 DEF SInv
<1>4. CASE In(m) /\ dict[m] = score
  <2>1. dict' = dict /\ list' = list
    BY <1>1, <1>2, <1>4
  <2> QED
    BY <2>1 DEF SInv
<1>5. CASE In(m) /\ dict[m] # score
  <2> DEFINE l == RemoveMember(list, m, dict[m])
             d == [dict EXCEPT ![m] = Nil]
  <2>1. Keeps(l, d)
    BY <1>5, RemoveKeeps DEF SInv, In
  <2>2. d[m] = Nil
    BY <1>2
  <2>3. [d EXCEPT ![m] = score] = [dict EXCEPT ![m] = score]
    BY <1>2
  <2> HIDE DEF l, d
  <2>4. Keeps(Insert(l, m, score, h), [d EXCEPT ![m] = score])
    BY <2>1, <2>2, InsertKeeps
  <2>5. list' = Insert(l, m, score, h)
    BY <1>1, <1>5 DEF l
  <2> QED
    BY <1>1, <2>3, <2>4, <2>5 DEF SInv
<1> QED
  BY <1>3, <1>4, <1>5

\* A removed range leaves the invariant if it leaves the list and the dictionary
\* together.
LEMMA SInvRange ==
    ASSUME NEW range, RemoveAll(range), Keeps(RemoveRange(list, range), Cleared(dict, range.removed))
    PROVE  SInv'
BY DEF RemoveAll, Cleared, SInv

\* RemoveByScore keeps the invariant, with any limit.
LEMMA SInvScores ==
    ASSUME SInv, NEW min \in BorderType, NEW max, NEW limit \in Nat,
           RemoveAll(InScoreRange(list, min, max, limit))
    PROVE  SInv'
BY ScoreRangeKeeps, SInvRange DEF SInv

\* PopMin keeps the invariant.
LEMMA SInvPop ==
    ASSUME SInv, NEW count \in Nat, PopMin(count)
    PROVE  SInv'
<1> DEFINE first == FirstInScoreRange(list, NegativeInf, PositiveInf)
           border == [inf |-> 0, value |-> list.score[first], exclude |-> FALSE]
<1>1. first # Nil /\ RemoveAll(InScoreRange(list, border, PositiveInf, count))
  BY DEF PopMin
<1>2. PICK n, q, h : Shape(list, n, q, h) /\ Ranked(list, n, q) /\ Records(dict, list, n, q)
  BY DEF SInv, Keeps
<1>3. first \in Members \cup {Nil}
  <2> DEFINE ok == {at \in Places : ~Less(NegativeInf, list.score[at.node])}
             path == Path(list, ok)
             x == list.forward[path[1].node][1]
  <2>1. NegativeInf \in BorderType
    BY DEF NegativeInf, BorderType
  <2>2. PICK p \in 1 .. n + 1 : Splits(n, q, ok, p)
    BY <1>2, <2>1, LessSplits
  <2>3. x = q[p]
    <3> HIDE DEF ok
    <3> QED
      BY <1>2, <2>2, PathIs, AfterIs
  <2>4. first = IF HasInRange(list, NegativeInf, PositiveInf) /\ Greater(PositiveInf, list.score[x])
                THEN x ELSE Nil
    BY DEF FirstInScoreRange
  <2>5. q[p] \in Members \cup {Nil}
    BY <1>2, <2>2 DEF Shape, Row
  <2> HIDE DEF x, first
  <2> QED
    BY <2>3, <2>4, <2>5
<1> HIDE DEF first
<1>4. list.score[first] \in Int
  BY <1>1, <1>2, <1>3 DEF Shape, ListType
<1>5. border \in BorderType
  BY <1>4 DEF BorderType
<1> QED
  BY <1>1, <1>5, SInvScores

\* RemoveByRank keeps the invariant.
LEMMA SInvRanks ==
    ASSUME SInv, NEW start \in Nat, NEW stop \in Nat, start < stop, RemoveByRank(start, stop)
    PROVE  SInv'
<1>1. start + 1 \in Nat \ {0} /\ stop + 1 \in Nat /\ start + 1 < stop + 1
  OBVIOUS
<1>2. Keeps(list, dict) /\ RemoveAll(InRankRange(list, start + 1, stop + 1))
  BY DEF SInv, RemoveByRank
<1> QED
  BY <1>1, <1>2, RankRangeKeeps, SInvRange

\* Every command keeps the invariant.
LEMMA SInvNext == SInv /\ [SetNext]_setVars => SInv'
<1> SUFFICES ASSUME SInv, [SetNext]_setVars
             PROVE  SInv'
  OBVIOUS
<1>1. Size \in Nat
  BY SizeIs DEF SInv, Keeps, Shape
<1>2. ASSUME NEW m \in Members, NEW score \in Scores, NEW h \in Levels, Add(m, score, h)
      PROVE  SInv'
  BY <1>2, SInvAdd
<1>3. ASSUME NEW m \in Members, Delete(m)
      PROVE  SInv'
  <2>1. Keeps(RemoveMember(list, m, dict[m]), [dict EXCEPT ![m] = Nil])
    BY <1>3, RemoveKeeps DEF SInv, Delete, In
  <2> QED
    BY <1>3, <2>1 DEF SInv, Delete
<1>4. ASSUME NEW min \in Borders, NEW max \in Borders, RemoveByScore(min, max)
      PROVE  SInv'
  <2>1. min \in BorderType
    BY BordersAssumption DEF BorderType
  <2> QED
    BY <1>4, <2>1, SInvScores DEF RemoveByScore
<1>5. ASSUME NEW count \in 0 .. Size, PopMin(count)
      PROVE  SInv'
  <2>1. count \in Nat
    BY <1>1
  <2> QED
    BY <1>5, <2>1, SInvPop
<1>6. ASSUME NEW start \in 0 .. Size, NEW stop \in 0 .. Size, start < stop, RemoveByRank(start, stop)
      PROVE  SInv'
  <2>1. start \in Nat /\ stop \in Nat
    BY <1>1
  <2> QED
    BY <1>6, <2>1, SInvRanks
<1>7. CASE UNCHANGED setVars
  BY <1>7 DEF setVars, SInv
<1> QED
  BY <1>2, <1>3, <1>4, <1>5, <1>6, <1>7 DEF SetNext

-------------------------------------------------------------------------------
(* What a reader of the list sees *)

\* An increasing function on 1..n into itself is the identity.
LEMMA IncreasingIs ==
    ASSUME NEW n \in Nat, NEW f, \A i \in 1 .. n : f[i] \in 1 .. n,
           \A i, j \in 1 .. n : i < j => f[i] < f[j]
    PROVE  \A i \in 1 .. n : f[i] = i
<1> DEFINE T == {k \in Nat : k + 1 <= n => k + 1 <= f[k + 1]}
           U == {k \in Nat : k < n => f[n - k] <= n - k}
<1>1. 0 \in T
  <2> SUFFICES ASSUME 0 + 1 <= n
               PROVE  0 + 1 <= f[0 + 1]
    OBVIOUS
  <2>1. 0 + 1 = 1 /\ 1 \in 1 .. n
    OBVIOUS
  <2> QED
    BY <2>1
<1>2. ASSUME NEW k \in Nat, k \in T
      PROVE  k + 1 \in T
  <2> SUFFICES ASSUME (k + 1) + 1 <= n
               PROVE  (k + 1) + 1 <= f[(k + 1) + 1]
    OBVIOUS
  <2> DEFINE a == k + 1
             b == a + 1
  <2>1. a \in 1 .. n /\ b \in 1 .. n /\ a < b /\ a <= f[a]
    BY <1>2
  <2>2. b = a + 1 /\ a \in Nat
    OBVIOUS
  <2> HIDE DEF a, b
  <2>3. f[a] < f[b] /\ f[a] \in Nat /\ f[b] \in Nat
    BY <2>1
  <2>4. b <= f[b]
    BY <2>1, <2>2, <2>3
  <2> QED
    BY <2>4 DEF a, b
<1>3. 0 \in U
  <2> SUFFICES ASSUME 0 < n
               PROVE  f[n - 0] <= n - 0
    OBVIOUS
  <2>1. n - 0 = n /\ n \in 1 .. n
    OBVIOUS
  <2> QED
    BY <2>1
<1>4. ASSUME NEW k \in Nat, k \in U
      PROVE  k + 1 \in U
  <2> SUFFICES ASSUME k + 1 < n
               PROVE  f[n - (k + 1)] <= n - (k + 1)
    OBVIOUS
  <2> DEFINE a == n - (k + 1)
             b == n - k
  <2>1. a \in 1 .. n /\ b \in 1 .. n /\ a < b /\ f[b] <= b /\ b = a + 1
    BY <1>4
  <2> HIDE DEF a, b
  <2>2. f[a] < f[b] /\ f[a] \in Nat /\ f[b] \in Nat
    BY <2>1
  <2>3. f[a] <= a
    BY <2>1, <2>2
  <2> QED
    BY <2>3 DEF a
<1>5. (\A k \in Nat : k \in T) /\ (\A k \in Nat : k \in U)
  <2> HIDE DEF T, U
  <2>1. \A k \in Nat : k \in T
    BY <1>1, <1>2, SetInduction
  <2>2. \A k \in Nat : k \in U
    BY <1>3, <1>4, SetInduction
  <2> QED
    BY <2>1, <2>2
<1> SUFFICES ASSUME NEW i \in 1 .. n
             PROVE  f[i] = i
  OBVIOUS
<1>6. i - 1 \in Nat /\ n - i \in Nat /\ (i - 1) + 1 = i /\ n - (n - i) = i /\ n - i < n /\ i <= n
  OBVIOUS
<1> HIDE DEF T, U
<1>7. i - 1 \in T /\ n - i \in U
  BY <1>5, <1>6
<1>8. i <= f[i] /\ f[i] <= i /\ f[i] \in Nat
  BY <1>6, <1>7 DEF T, U
<1> QED
  BY <1>8

\* r lists the members of S one after the other.
Listed(c, S, r) ==
    /\ c \in Nat /\ \A x \in 1 .. c : r[x] \in S
    /\ \A m \in S : \E x \in 1 .. c : r[x] = m
    /\ \A m \in S : m \in Nat /\ dict[m] \in Int
    /\ \A i, j \in 1 .. c : i < j => Comes(r[i], r[j])

\* Members that are listed one after the other are listed in their order, and no other list is.
LEMMA InOrderIs ==
    ASSUME NEW c, NEW S, NEW r, Listed(c, S, r)
    PROVE  InOrder(S) = [x \in 1 .. c |-> r[x]] /\ Cardinality(S) = c
<1> USE DEF Listed
<1> DEFINE row == [x \in 1 .. c |-> r[x]]
           Sorted(o) == \A i, j \in 1 .. c : i < j => Comes(o[i], o[j])
<1>1. \A i, j \in 1 .. c : Comes(r[i], r[j]) => i < j
  <2> SUFFICES ASSUME NEW i \in 1 .. c, NEW j \in 1 .. c, Comes(r[i], r[j]), ~(i < j)
               PROVE  FALSE
    OBVIOUS
  <2>1. dict[r[i]] \in Int /\ dict[r[j]] \in Int /\ r[i] \in Nat /\ r[j] \in Nat
    OBVIOUS
  <2>2. CASE i = j
    BY <2>1, <2>2 DEF Comes
  <2>3. CASE j < i
    <3>1. Comes(r[j], r[i])
      BY <2>3
    <3> QED
      BY <2>1, <3>1 DEF Comes
  <2> QED
    BY <2>2, <2>3
<1>2. Cardinality(S) = c
  <2>1. row \in [1 .. c -> S] /\ \A m \in S : \E x \in 1 .. c : row[x] = m
    OBVIOUS
  <2>2. \A i, j \in 1 .. c : row[i] = row[j] => i = j
    <3> SUFFICES ASSUME NEW i \in 1 .. c, NEW j \in 1 .. c, r[i] = r[j], i < j
                 PROVE  FALSE
      OBVIOUS
    <3>1. Comes(r[j], r[i])
      OBVIOUS
    <3> QED
      BY <1>1, <3>1
  <2> HIDE DEF row
  <2>3. row \in Bijection(1 .. c, S)
    BY <2>1, <2>2 DEF Bijection, Injection, Surjection, IsInjective
  <2>4. Cardinality(1 .. c) = c /\ IsFiniteSet(1 .. c)
    BY FS_Interval
  <2> QED
    BY <2>3, <2>4, FS_Bijection DEF ExistsBijection
<1>3. row \in [1 .. c -> S] /\ Sorted(row)
  OBVIOUS
<1>4. InOrder(S) = CHOOSE o \in [1 .. c -> S] : Sorted(o)
  BY <1>2 DEF InOrder
<1> DEFINE o == InOrder(S)
<1>5. o \in [1 .. c -> S] /\ Sorted(o)
  <2> HIDE DEF Sorted, row
  <2> QED
    BY <1>3, <1>4
<1> HIDE DEF o
<1> DEFINE f == [i \in 1 .. c |-> CHOOSE k \in 1 .. c : r[k] = o[i]]
<1>6. \A i \in 1 .. c : f[i] \in 1 .. c /\ r[f[i]] = o[i]
  BY <1>5
<1> HIDE DEF f
<1>7. \A i, j \in 1 .. c : i < j => f[i] < f[j]
  <2> SUFFICES ASSUME NEW i \in 1 .. c, NEW j \in 1 .. c, i < j
               PROVE  f[i] < f[j]
    OBVIOUS
  <2>1. Comes(r[f[i]], r[f[j]])
    BY <1>5, <1>6
  <2> QED
    BY <1>1, <1>6, <2>1
<1>8. \A i \in 1 .. c : f[i] = i
  <2>1. \A i \in 1 .. c : f[i] \in 1 .. c
    BY <1>6
  <2> QED
    BY <1>7, <2>1, IncreasingIs
<1>9. \A i \in 1 .. c : o[i] = row[i]
  BY <1>6, <1>8
<1>10. o = row
  <2>1. o = [i \in 1 .. c |-> o[i]] /\ row = [i \in 1 .. c |-> row[i]]
    BY <1>5
  <2> HIDE DEF row
  <2> QED
    BY <1>9, <2>1
<1> QED
  BY <1>2, <1>10 DEF o

\* The row is in the order of the dictionary.
LEMMA RowComes ==
    ASSUME NEW n, NEW q, NEW h, Shape(list, n, q, h), Ranked(list, n, q), Records(dict, list, n, q)
    PROVE  /\ n \in Nat
           /\ \A k \in 1 .. n : /\ q[k] \in Members /\ In(q[k]) /\ dict[q[k]] = list.score[q[k]]
                                /\ dict[q[k]] \in Int /\ q[k] \in Nat
           /\ \A m \in Members : In(m) => \E k \in 1 .. n : q[k] = m
           /\ \A i, j \in 1 .. n : i < j => Comes(q[i], q[j])
<1>1. n \in Nat /\ \A k \in 1 .. n : q[k] \in Members
  BY DEF Shape, Row
<1>2. \A m \in Members : list.score[m] \in Int /\ m \in Nat
  BY MembersAssumption DEF Shape, ListType
<1>3. \A k \in 1 .. n : /\ q[k] \in Members /\ In(q[k]) /\ dict[q[k]] = list.score[q[k]]
                          /\ dict[q[k]] \in Int /\ q[k] \in Nat
  BY <1>1, <1>2 DEF Records, In
<1>4. \A i, j \in 1 .. n : i < j => Comes(q[i], q[j])
  BY <1>3 DEF Ranked, Before, Comes
<1> QED
  BY <1>1, <1>3, <1>4 DEF Records, In

\* The order of the dictionary is the row.
LEMMA OrderIs ==
    ASSUME NEW n, NEW q, NEW h, Shape(list, n, q, h), Ranked(list, n, q), Records(dict, list, n, q)
    PROVE  Order = [k \in 1 .. n |-> q[k]]
<1> DEFINE S == {m \in Members : In(m)}
<1>1. /\ n \in Nat /\ \A k \in 1 .. n : q[k] \in S
      /\ \A m \in S : \E k \in 1 .. n : q[k] = m
      /\ \A i, j \in 1 .. n : i < j => Comes(q[i], q[j])
  BY RowComes
<1>2. \A m \in S : m \in Nat /\ dict[m] \in Int
  <2>1. \A k \in 1 .. n : dict[q[k]] \in Int /\ q[k] \in Nat
    BY RowComes
  <2> QED
    BY <1>1, <2>1
<1> HIDE DEF S
<1>3. InOrder(S) = [k \in 1 .. n |-> q[k]]
  <2>1. Listed(n, S, q)
    BY <1>1, <1>2 DEF Listed
  <2> QED
    BY <2>1, InOrderIs
<1> QED
  BY <1>3 DEF Order, S

\* Those that a link of level i leads to are the nodes as high as that.
Shown(n, q, h, i, S) ==
    \A m \in S : (\E k \in {Header} \cup S : list.forward[k][i] = m) <=>
                  \E k \in 1 .. n : q[k] = m /\ i <= h[k]

\* The node at k is on level i, if it is as high as that.
LEMMA OnIs ==
    ASSUME NEW n, NEW q, NEW h, Shape(list, n, q, h), NEW i \in Levels,
           NEW S, \A k \in 1 .. n : q[k] \in S, \A m \in S : \E k \in 1 .. n : q[k] = m
    PROVE  Shown(n, q, h, i, S)
<1>1. /\ n \in Nat /\ Tall(n, h) /\ q[0] = Header /\ Nil \notin S
      /\ \A j, k \in 0 .. n + 1 : q[j] = q[k] => j = k
  BY MembersAssumption DEF Shape, Row
<1>2. ASSUME NEW y \in 1 .. n, i <= h[y]
      PROVE  \E k \in {Header} \cup S : list.forward[k][i] = q[y]
  <2>1. y \in 1 .. n + 1 /\ y \in 0 .. n + 1
    BY <1>1
  <2>2. PICK x \in 0 .. y - 1 : Stop(h, y, i, x)
    BY <1>1, <2>1, StopIs
  <2>3. i <= h[x] /\ x \in 0 .. n
    BY <1>1, <2>2 DEF Stop
  <2>4. Hop(n, h, x, i, y)
    BY <1>1, <1>2, <2>2 DEF Stop, Hop
  <2>5. list.forward[q[x]][i] = q[y]
    BY <2>1, <2>3, <2>4 DEF Shape, Links
  <2>6. q[x] \in {Header} \cup S
    <3>1. x = 0 \/ x \in 1 .. n
      BY <2>3
    <3> QED
      BY <1>1, <3>1
  <2> QED
    BY <2>5, <2>6
<1>3. ASSUME NEW y \in 1 .. n, NEW k \in {Header} \cup S, list.forward[k][i] = q[y]
      PROVE  i <= h[y]
  <2>1. PICK x \in 0 .. n : q[x] = k
    <3>1. k = q[0] \/ \E x \in 1 .. n : q[x] = k
      BY <1>1
    <3>2. 0 \in 0 .. n /\ \A x \in 1 .. n : x \in 0 .. n
      BY <1>1
    <3> QED
      BY <3>1, <3>2
  <2>2. ~(h[x] < i)
    <3>1. q[y] # Nil
      BY <1>1
    <3> QED
      BY <1>3, <2>1, <3>1 DEF Shape, Links
  <2>3. i <= h[x]
    <3>1. h[x] \in Nat /\ i \in Nat
      <4>1. x \in 0 .. n + 1
        BY <1>1
      <4> QED
        BY <1>1, <4>1, TallIs, LevelsAre
    <3> QED
      BY <2>2, <3>1
  <2>4. PICK j \in x + 1 .. n + 1 : Hop(n, h, x, i, j)
    BY <1>1, HopIs
  <2>5. j \in 1 .. n + 1 /\ j \in 0 .. n + 1 /\ y \in 0 .. n + 1
    BY <1>1, <2>4
  <2>6. list.forward[q[x]][i] = q[j]
    BY <2>3, <2>4, <2>5 DEF Shape, Links
  <2>7. j = y
    BY <1>1, <1>3, <2>1, <2>5, <2>6
  <2> QED
    BY <2>4, <2>7 DEF Hop
<1>4. ASSUME NEW m \in S
      PROVE  (\E k \in {Header} \cup S : list.forward[k][i] = m) <=>
             \E k \in 1 .. n : q[k] = m /\ i <= h[k]
  <2>1. PICK y \in 1 .. n : q[y] = m
    BY <1>4
  <2> QED
    BY <1>2, <1>3, <2>1
<1> QED
  BY <1>4 DEF Shown

\* A list that follows a row, ranked and with the records of the dictionary, is
\* well-formed: the row is the order, and the heights say who is on which level.
LEMMA RowWellFormed ==
    ASSUME NEW n, NEW q, NEW h, Shape(list, n, q, h), Ranked(list, n, q), Records(dict, list, n, q)
    PROVE  WellFormed
<1> DEFINE order == Order
           S == ToSet(order)
           place(m) == IF m = Header THEN 0 ELSE CHOOSE i \in 1 .. Size : order[i] = m
           On(i) == {m \in S : \E k \in {Header} \cup S : list.forward[k][i] = m}
<1>1. /\ n \in Nat /\ Row(n, q) /\ Tall(n, h) /\ q[0] = Header /\ q[n + 1] = Nil /\ list \in ListType
      /\ Header \in Nodes /\ Header # Nil
      /\ \A k \in 1 .. n : q[k] \in Members /\ q[k] # Nil /\ q[k] # Header
      /\ \A j, k \in 0 .. n + 1 : q[j] = q[k] => j = k
  BY MembersAssumption DEF Shape, Row, Nodes
<1>2. Size = n
  BY <1>1, SizeIs
<1>3. order = [k \in 1 .. n |-> q[k]]
  BY OrderIs
<1> HIDE DEF order
<1>4. S = {q[k] : k \in 1 .. n}
  BY <1>3 DEF ToSet
<1>5. place(Header) = 0 /\ \A k \in 1 .. n : place(q[k]) = k
  BY <1>1, <1>2, <1>3
<1>6. \A k \in 0 .. n : place(q[k]) = k
  <2> HIDE DEF place
  <2>1. \A k \in 0 .. n : k = 0 \/ k \in 1 .. n
    OBVIOUS
  <2> QED
    BY <1>1, <1>5, <2>1
<1>7. /\ \A k \in 0 .. n + 1 : h[k] \in Nat
      /\ list.level \in Levels /\ \A i \in Levels : i \in Nat /\ 1 <= i
      /\ \A k \in 1 .. n : h[k] \in Levels /\ h[k] <= list.level
      /\ list.level = 1 \/ \E k \in 1 .. n : h[k] = list.level
      /\ \A k \in 1 .. n : list.backward[q[k]] = IF k = 1 THEN Nil ELSE q[k - 1]
      /\ list.tail = (IF n = 0 THEN Nil ELSE q[n])
      /\ list.length = n
  <2>1. list.level \in Levels
    BY <1>1 DEF ListType
  <2>2. \A k \in 0 .. n + 1 : h[k] \in Nat /\ h[k] \in Levels
    BY <1>1, TallIs
  <2>3. \A k \in 1 .. n : k \in 0 .. n + 1
    BY <1>1
  <2> QED
    BY <2>1, <2>2, <2>3, LevelsAre DEF Shape, Ends
<1> HIDE DEF S, place
<1>8. \A i \in Levels : On(i) = {m \in S : \E k \in 1 .. n : q[k] = m /\ i <= h[k]}
  <2> SUFFICES ASSUME NEW i \in Levels
               PROVE  On(i) = {m \in S : \E k \in 1 .. n : q[k] = m /\ i <= h[k]}
    OBVIOUS
  <2> HIDE DEF On
  <2>1. \A m \in S : (\E k \in {Header} \cup S : list.forward[k][i] = m) <=>
                      \E k \in 1 .. n : q[k] = m /\ i <= h[k]
    <3>1. (\A k \in 1 .. n : q[k] \in S) /\ \A m \in S : \E k \in 1 .. n : q[k] = m
      BY <1>4
    <3>2. Shown(n, q, h, i, S)
      BY <3>1, OnIs
    <3> QED
      BY <3>2 DEF Shown
  <2> QED
    BY <2>1 DEF On
<1> HIDE DEF On
<1>9. \A i \in Levels : \A k \in 1 .. n : q[k] \in On(i) <=> i <= h[k]
  <2> SUFFICES ASSUME NEW i \in Levels, NEW k \in 1 .. n
               PROVE  q[k] \in On(i) <=> i <= h[k]
    OBVIOUS
  <2>1. \A y \in 1 .. n : q[y] = q[k] => y = k
    BY <1>1
  <2> QED
    BY <1>4, <1>8, <2>1
<1>10. \A i \in Levels : \A m \in On(i) : \E k \in 1 .. n : q[k] = m /\ i <= h[k]
  BY <1>8
<1>11. Chain(list, list.forward[Header][1]) = order
  <2>1. 0 \in 0 .. n /\ 0 + 1 = 1 /\ 1 \in 1 .. n + 1 /\ n + 1 - 1 = n
    BY <1>1
  <2>2. list.forward[Header][1] = q[1]
    BY <1>1, <2>1, FirstLevel
  <2>3. Chain(list, q[1]) = Piece(q, 1, n)
    BY <2>1, ChainIs
  <2>4. \A x \in 1 .. n : 1 + x - 1 = x
    OBVIOUS
  <2>5. Piece(q, 1, n) = order
    BY <1>3, <2>4 DEF Piece
  <2> QED
    BY <2>2, <2>3, <2>5
<1>12. \A i \in 1 .. Size :
          /\ list.score[order[i]] = dict[order[i]]
          /\ list.backward[order[i]] = IF i = 1 THEN Nil ELSE order[i - 1]
  <2> SUFFICES ASSUME NEW i \in 1 .. n
               PROVE  /\ list.score[order[i]] = dict[order[i]]
                      /\ list.backward[order[i]] = IF i = 1 THEN Nil ELSE order[i - 1]
    BY <1>2
  <2>1. order[i] = q[i] /\ (i # 1 => order[i - 1] = q[i - 1])
    BY <1>1, <1>3
  <2> QED
    BY <1>7, <2>1 DEF Records
<1>13. list.tail = IF Size = 0 THEN Nil ELSE order[Size]
  BY <1>1, <1>2, <1>3, <1>7
<1>14. \A i \in Levels : i > 1 => (i <= list.level <=> \E j \in Levels : j >= i /\ On(j) # {})
  <2> SUFFICES ASSUME NEW i \in Levels, i > 1
               PROVE  i <= list.level <=> \E j \in Levels : j >= i /\ On(j) # {}
    OBVIOUS
  <2>1. i \in Nat /\ list.level \in Nat
    BY <1>7
  <2>2. ASSUME i <= list.level
        PROVE  \E j \in Levels : j >= i /\ On(j) # {}
    <3>1. PICK k \in 1 .. n : h[k] = list.level
      BY <1>7, <2>1, <2>2
    <3>2. q[k] \in On(list.level)
      BY <1>7, <1>9, <2>1, <3>1
    <3> QED
      BY <1>7, <2>1, <2>2, <3>2
  <2>3. ASSUME NEW j \in Levels, j >= i, On(j) # {}
        PROVE  i <= list.level
    <3>1. PICK k \in 1 .. n : j <= h[k]
      BY <1>10, <2>3
    <3>2. j \in Nat /\ h[k] \in Nat /\ h[k] <= list.level
      BY <1>1, <1>7
    <3> QED
      BY <2>1, <2>3, <3>1, <3>2
  <2> QED
    BY <2>2, <2>3
<1>15. ASSUME NEW i \in 1 .. list.level
       PROVE  /\ i > 1 => On(i) \subseteq On(i - 1)
              /\ \A m \in {Header} \cup On(i) :
                    LET next == list.forward[m][i]
                    IN  IF next = Nil
                        THEN /\ \A x \in On(i) : place(x) <= place(m)
                             /\ m # Header => list.span[m][i] = Size - place(m)
                        ELSE /\ list.span[m][i] = place(next) - place(m)
                             /\ \A x \in On(i) : place(x) <= place(m) \/ place(x) >= place(next)
  <2>1. i \in Levels /\ i \in Nat /\ i <= list.level /\ list.level \in Nat /\ i <= MaxLevel
        /\ (i > 1 => i - 1 \in Levels)
    <3>1. list.level \in Nat /\ list.level <= MaxLevel
      BY <1>7, LevelsAre
    <3>2. MaxLevel \in Nat /\ Levels = 1 .. MaxLevel
      BY LevelsAre DEF Levels
    <3> QED
      BY <3>1, <3>2
  <2>2. i > 1 => On(i) \subseteq On(i - 1)
    <3> SUFFICES ASSUME i > 1, NEW m \in On(i)
                 PROVE  m \in On(i - 1)
      OBVIOUS
    <3>1. PICK k \in 1 .. n : q[k] = m /\ i <= h[k]
      BY <1>10, <2>1
    <3>2. i - 1 <= h[k]
      <4>1. h[k] \in Nat
        BY <1>7, LevelsAre
      <4> QED
        BY <2>1, <3>1, <4>1
    <3> QED
      BY <1>9, <2>1, <3>1, <3>2
  <2>3. ASSUME NEW k \in 0 .. n, i <= h[k], NEW j \in k + 1 .. n + 1, Hop(n, h, k, i, j)
        PROVE  /\ list.forward[q[k]][i] = q[j]
               /\ list.span[q[k]][i] = IF j = n + 1 THEN n - k ELSE j - k
               /\ place(q[k]) = k
               /\ j # n + 1 => place(q[j]) = j /\ q[j] # Nil
               /\ \A x \in On(i) : place(x) <= k \/ (j # n + 1 /\ place(x) >= j)
    <3>1. j \in 1 .. n + 1 /\ (j # n + 1 => j \in 0 .. n /\ j \in 1 .. n)
      BY <1>1
    <3>2. /\ list.forward[q[k]][i] = q[j]
          /\ list.span[q[k]][i] = IF j = n + 1 THEN n - k ELSE j - k
      BY <2>1, <2>3, <3>1 DEF Shape, Links
    <3>3. ASSUME NEW x \in On(i)
          PROVE  place(x) <= k \/ (j # n + 1 /\ place(x) >= j)
      <4>1. PICK y \in 1 .. n : q[y] = x /\ i <= h[y]
        BY <1>10, <2>1
      <4>2. place(x) = y /\ h[y] \in Nat
        <5>1. y \in 0 .. n + 1
          BY <1>1
        <5> QED
          BY <1>5, <1>7, <4>1, <5>1
      <4>3. y <= k \/ j <= y
        BY <1>1, <2>1, <2>3, <4>1, <4>2 DEF Hop
      <4> QED
        BY <1>1, <4>2, <4>3
    <3> QED
      BY <1>1, <1>6, <3>1, <3>2, <3>3
  <2>4. ASSUME NEW m \in {Header} \cup On(i)
        PROVE  \E k \in 0 .. n : q[k] = m /\ i <= h[k]
    <3>1. CASE m = Header
      <4>1. 0 \in 0 .. n /\ h[0] = MaxLevel
        BY <1>1 DEF Tall
      <4> QED
        BY <1>1, <2>1, <3>1, <4>1
    <3>2. CASE m \in On(i)
      <4>1. PICK k \in 1 .. n : q[k] = m /\ i <= h[k]
        BY <1>10, <2>1, <3>2
      <4> QED
        BY <4>1
    <3> QED
      BY <3>1, <3>2
  <2>5. ASSUME NEW m \in {Header} \cup On(i)
        PROVE  IF list.forward[m][i] = Nil
               THEN /\ \A x \in On(i) : place(x) <= place(m)
                    /\ m # Header => list.span[m][i] = Size - place(m)
               ELSE /\ list.span[m][i] = place(list.forward[m][i]) - place(m)
                    /\ \A x \in On(i) : place(x) <= place(m) \/ place(x) >= place(list.forward[m][i])
    <3>1. PICK k \in 0 .. n : q[k] = m /\ i <= h[k]
      BY <2>4, <2>5
    <3>2. PICK j \in k + 1 .. n + 1 : Hop(n, h, k, i, j)
      BY <1>1, <2>1, HopIs
    <3>3. /\ list.forward[m][i] = q[j]
          /\ list.span[m][i] = IF j = n + 1 THEN n - k ELSE j - k
          /\ place(m) = k
          /\ j # n + 1 => place(q[j]) = j /\ q[j] # Nil
          /\ \A x \in On(i) : place(x) <= k \/ (j # n + 1 /\ place(x) >= j)
      BY <2>3, <3>1, <3>2
    <3>4. CASE j = n + 1
      BY <1>1, <1>2, <3>3, <3>4
    <3>5. CASE j # n + 1
      BY <1>1, <3>3, <3>5
    <3> QED
      BY <3>4, <3>5
  <2> QED
    BY <2>2, <2>5
<1>16. list.length = Size /\ list.level \in Levels
  BY <1>2, <1>7
<1> QED
  BY <1>11, <1>12, <1>13, <1>14, <1>15, <1>16 DEF WellFormed, order, S, place, On

\* However members come, move and go, the list has the members and scores of the
\* dictionary in order, every level is a part of the one below, a span is the distance in
\* the order, and backward, tail, length and level fit: for any members, scores, levels and
\* borders.  (insert and removeNode of skiplist.go, the removal of ranges with one update
\* for all removed nodes)
THEOREM SetIsWellFormed == SetSpec => []WellFormed
<1>1. SInv => WellFormed
  BY RowWellFormed DEF SInv, Keeps
<1> QED
  BY <1>1, SInvInit, SInvNext, PTL DEF SetSpec

-------------------------------------------------------------------------------
(* Reading in both directions *)

\* The row from its other end.
Back(n, q) == [k \in 0 .. n + 1 |-> IF k = 0 THEN Header ELSE IF k = n + 1 THEN Nil ELSE q[n + 1 - k]]

\* The row in the direction of a query.
Seen(n, q, desc) == IF desc THEN Back(n, q) ELSE q

\* It is a row in both directions.
LEMMA SeenRow ==
    ASSUME NEW n, NEW q, Row(n, q), NEW desc \in BOOLEAN
    PROVE  /\ Row(n, Seen(n, q, desc))
           /\ \A k \in 1 .. n : Seen(n, q, desc)[k] = IF desc THEN q[n + 1 - k] ELSE q[k]
<1> DEFINE u == Back(n, q)
<1>1. /\ n \in Nat /\ q \in [0 .. n + 1 -> Nodes \cup {Nil}] /\ Header \in Nodes
      /\ \A k \in 1 .. n : q[k] \in Members
      /\ \A j, k \in 1 .. n : q[j] = q[k] => j = k
  BY DEF Row, Nodes
<1>2. /\ DOMAIN u = 0 .. n + 1
      /\ \A k \in 0 .. n + 1 : u[k] = IF k = 0 THEN Header ELSE IF k = n + 1 THEN Nil ELSE q[n + 1 - k]
      /\ u = [k \in 0 .. n + 1 |-> u[k]]
  BY DEF Back
<1> HIDE DEF u
<1>3. \A k \in 1 .. n : k \in 0 .. n + 1 /\ k # 0 /\ k # n + 1 /\ n + 1 - k \in 1 .. n
  BY <1>1
<1>4. u[0] = Header /\ u[n + 1] = Nil /\ \A k \in 1 .. n : u[k] = q[n + 1 - k] /\ u[k] \in Members
  BY <1>1, <1>2, <1>3
<1>5. \A k \in 0 .. n + 1 : u[k] \in Nodes \cup {Nil}
  <2>1. \A k \in 0 .. n + 1 : k = 0 \/ k = n + 1 \/ k \in 1 .. n
    BY <1>1
  <2> QED
    BY <1>1, <1>4, <2>1 DEF Nodes
<1>6. \A j, k \in 1 .. n : u[j] = u[k] => j = k
  <2> SUFFICES ASSUME NEW j \in 1 .. n, NEW k \in 1 .. n, u[j] = u[k]
               PROVE  j = k
    OBVIOUS
  <2>1. n + 1 - j = n + 1 - k
    BY <1>1, <1>3, <1>4
  <2> QED
    BY <1>1, <2>1
<1>7. Row(n, u)
  BY <1>1, <1>2, <1>4, <1>5, <1>6 DEF Row
<1> QED
  BY <1>4, <1>7 DEF Seen, u

\* Until stops before the first element that is not ok.
LEMMA UntilFirst ==
    ASSUME NEW s, Len(s) \in Nat, NEW ok, NEW d \in 0 .. Len(s), \A x \in 1 .. d : s[x] \in ok,
           d = Len(s) \/ s[d + 1] \notin ok
    PROVE  Until(s, ok) = SubSeq(s, 1, d)
<1> DEFINE good == {k \in 0 .. Len(s) : \A i \in 1 .. k : s[i] \in ok}
           g == CHOOSE k \in good : \A x \in good : x <= k
<1>1. d \in good
  OBVIOUS
<1>2. ASSUME NEW x \in good
      PROVE  x <= d
  <2>1. CASE d = Len(s)
    BY <2>1
  <2>2. CASE s[d + 1] \notin ok
    <3> SUFFICES ASSUME d < x
                 PROVE  FALSE
      OBVIOUS
    <3>1. d + 1 \in 1 .. x
      OBVIOUS
    <3> QED
      BY <2>2, <3>1
  <2> QED
    BY <2>1, <2>2
<1>3. \A x \in good : x \in Nat
  OBVIOUS
<1>4. Until(s, ok) = SubSeq(s, 1, g)
  BY DEF Until
<1> HIDE DEF good
<1>5. g \in good /\ \A x \in good : x <= g
  BY <1>1, <1>2
<1> HIDE DEF g
<1>6. g = d
  <2>1. g <= d /\ d <= g
    BY <1>1, <1>2, <1>5
  <2> QED
    BY <1>1, <1>3, <1>5, <2>1
<1> QED
  BY <1>4, <1>6

\* The c positions from p on are in the row, and so are the d from the a-th to the b-th of
\* them, which start at r.
Inner(n, p, c, a, b, r, d) ==
    /\ n \in Nat /\ p \in 1 .. n + 1 /\ c \in 0 .. n + 1 - p
    /\ a \in 1 .. c + 1 /\ d \in 0 .. c + 1 - a /\ b = a + d - 1 /\ r = p + a - 1

\* A stretch of a piece is a piece.
LEMMA MidPiece ==
    ASSUME NEW n, NEW q, Row(n, q), NEW p, NEW c, NEW a, NEW b, NEW r, NEW d, Inner(n, p, c, a, b, r, d)
    PROVE  SubSeq(Piece(q, p, c), a, b) = Piece(q, r, d)
<1> USE DEF Inner
<1>1. PICK s : s = Piece(q, p, c)
  OBVIOUS
<1>2. PICK x \in 0 .. c : a = x + 1 /\ b = x + d /\ r = p + x /\ d \in 0 .. c - x
  <2>1. a - 1 \in 0 .. c /\ a = (a - 1) + 1 /\ b = (a - 1) + d /\ r = p + (a - 1) /\ d \in 0 .. c - (a - 1)
    OBVIOUS
  <2> QED
    BY <2>1
<1> DEFINE u == Piece(q, p + x, d)
           t == SubSeq(s, x + 1, x + d)
<1>3. s \in Seq(Members) /\ Len(s) = c /\ \A y \in 1 .. c : s[y] = q[p + y - 1]
  <2>1. Lists(Piece(q, p, c), q, p, c)
    BY PieceIs
  <2> QED
    BY <1>1, <2>1 DEF Lists
<1>4. u \in Seq(Members) /\ Len(u) = d /\ \A y \in 1 .. d : u[y] = q[(p + x) + y - 1]
  <2>1. p + x \in 1 .. n + 1 /\ d \in 0 .. n + 1 - (p + x)
    BY <1>2
  <2>2. Lists(u, q, p + x, d)
    BY <2>1, PieceIs
  <2> QED
    BY <2>2 DEF Lists
<1> HIDE DEF u, t
<1>5. t \in Seq(Members) /\ Len(t) = d /\ \A y \in 1 .. d : t[y] = s[x + y]
  <2>1. \A y \in x + 1 .. x + d : s[y] \in Members
    <3>1. \A y \in x + 1 .. x + d : y \in 1 .. Len(s)
      BY <1>2, <1>3
    <3> QED
      BY <1>3, <3>1
  <2>2. /\ t \in Seq(Members) /\ Len(t) = (IF x + 1 <= x + d THEN (x + d) - (x + 1) + 1 ELSE 0)
        /\ \A y \in 1 .. (x + d) - (x + 1) + 1 : t[y] = s[(x + 1) + y - 1]
    BY <1>2, <2>1, SubSeqProperties DEF t
  <2>3. /\ (IF x + 1 <= x + d THEN (x + d) - (x + 1) + 1 ELSE 0) = d
        /\ (x + d) - (x + 1) + 1 = d /\ \A y \in 1 .. d : (x + 1) + y - 1 = x + y
    BY <1>2
  <2>4. \A y \in 1 .. d : t[y] = s[(x + 1) + y - 1]
    BY <2>2, <2>3
  <2>5. \A y \in 1 .. d : t[y] = s[x + y]
    BY <2>3, <2>4
  <2>6. t \in Seq(Members) /\ Len(t) = d
    BY <2>2, <2>3
  <2> QED
    BY <2>5, <2>6
<1>6. \A y \in 1 .. d : t[y] = u[y]
  <2> SUFFICES ASSUME NEW y \in 1 .. d
               PROVE  t[y] = u[y]
    OBVIOUS
  <2>1. x + y \in 1 .. c /\ p + (x + y) - 1 = (p + x) + y - 1
    BY <1>2
  <2> QED
    BY <1>3, <1>4, <1>5, <2>1
<1>7. t = u
  BY <1>4, <1>5, <1>6, SeqEqual
<1> QED
  BY <1>2, <1>7, <1>1 DEF t, u

\* What Until leaves of a piece is a piece.
LEMMA UntilPiece ==
    ASSUME NEW n \in Nat, NEW q, Row(n, q), NEW p \in 1 .. n + 1, NEW c \in 0 .. n + 1 - p,
           NEW s, s = Piece(q, p, c), NEW ok, NEW d \in 0 .. c,
           \A x \in 1 .. d : q[p + x - 1] \in ok, d = c \/ q[p + d] \notin ok
    PROVE  Until(s, ok) = Piece(q, p, d)
<1>1. Len(s) = c /\ \A y \in 1 .. c : s[y] = q[p + y - 1]
  <2>1. Lists(s, q, p, c)
    BY PieceIs
  <2> QED
    BY <2>1 DEF Lists
<1>2. c \in Nat /\ \A x \in 1 .. d : x \in 1 .. c
  OBVIOUS
<1>3. \A x \in 1 .. d : s[x] \in ok
  BY <1>1, <1>2
<1>4. d = c \/ s[d + 1] \notin ok
  <2>1. d = c \/ (d + 1 \in 1 .. c /\ p + (d + 1) - 1 = p + d)
    OBVIOUS
  <2> QED
    BY <1>1, <2>1
<1>5. Until(s, ok) = SubSeq(s, 1, d)
  BY <1>1, <1>2, <1>3, <1>4, UntilFirst
<1>6. SubSeq(s, 1, d) = Piece(q, p, d)
  BY SubPiece
<1> QED
  BY <1>5, <1>6

\* A limit leaves a piece.
LEMMA AtMostPiece ==
    ASSUME NEW n \in Nat, NEW q, Row(n, q), NEW p \in 1 .. n + 1, NEW c \in 0 .. n + 1 - p,
           NEW s, s = Piece(q, p, c), NEW k \in Nat
    PROVE  AtMost(s, k) = Piece(q, p, IF k < c THEN k ELSE c)
<1>1. c \in 0 .. c /\ Len(s) = c
  BY SubPiece
<1>2. CASE k < c
  <2>1. k \in 0 .. c
    BY <1>2
  <2>2. SubSeq(s, 1, k) = Piece(q, p, k)
    BY <2>1, SubPiece
  <2> QED
    BY <1>1, <1>2, <2>2 DEF AtMost
<1> QED
  BY <1>1, <1>2 DEF AtMost

\* Reversed, the order is the row from its other end.
LEMMA DirectedIs ==
    ASSUME NEW n \in Nat, NEW q, Row(n, q), NEW a \in 1 .. n + 1, NEW c \in 0 .. n + 1 - a,
           NEW desc \in BOOLEAN, NEW s, s = Piece(q, a, c)
    PROVE  Directed(s, desc) = Piece(Seen(n, q, desc), IF desc THEN n + 2 - a - c ELSE a, c)
<1>1. Len(s) = c /\ \A y \in 1 .. c : s[y] = q[a + y - 1]
  <2>1. Lists(s, q, a, c)
    BY PieceIs
  <2> QED
    BY <2>1 DEF Lists
<1>2. CASE ~desc
  BY <1>2 DEF Directed, Seen
<1>3. CASE desc
  <2> DEFINE b == n + 2 - a - c
             u == Seen(n, q, desc)
  <2>1. Directed(s, desc) = [x \in 1 .. c |-> s[c - x + 1]]
    BY <1>1, <1>3 DEF Directed, Reverse
  <2>2. \A k \in 1 .. n : u[k] = q[n + 1 - k]
    BY <1>3, SeenRow
  <2> HIDE DEF u
  <2>3. \A x \in 1 .. c : s[c - x + 1] = u[b + x - 1]
    <3> SUFFICES ASSUME NEW x \in 1 .. c
                 PROVE  s[c - x + 1] = u[b + x - 1]
      OBVIOUS
    <3>1. /\ c - x + 1 \in 1 .. c /\ b + x - 1 \in 1 .. n
          /\ a + (c - x + 1) - 1 = n + 1 - (b + x - 1)
      OBVIOUS
    <3> HIDE DEF b
    <3> QED
      BY <1>1, <2>2, <3>1
  <2>4. Piece(u, b, c) = [x \in 1 .. c |-> u[b + x - 1]]
    BY DEF Piece
  <2> HIDE DEF b
  <2>5. [x \in 1 .. c |-> s[c - x + 1]] = [x \in 1 .. c |-> u[b + x - 1]]
    BY <2>3
  <2> QED
    BY <1>3, <2>1, <2>4, <2>5 DEF b, u
<1> QED
  BY <1>2, <1>3

\* From a position, each direction leads to the next.
LEMMA NextSeen ==
    ASSUME NEW n, NEW q, NEW h, Shape(list, n, q, h), NEW desc \in BOOLEAN, NEW k \in 1 .. n,
           NEW u, u = Seen(n, q, desc)
    PROVE  Neighbour(u[k], desc) = u[k + 1]
<1>1. n \in Nat /\ Row(n, q)
  BY DEF Shape, Row
<1>2. Row(n, u) /\ \A x \in 1 .. n : u[x] = IF desc THEN q[n + 1 - x] ELSE q[x]
  BY <1>1, SeenRow
<1>3. u[n + 1] = Nil
  BY <1>2 DEF Row
<1>4. CASE ~desc
  <2>1. k \in 0 .. n /\ u = q
    BY <1>1, <1>4 DEF Seen
  <2>2. list.forward[q[k]][1] = q[k + 1]
    BY <2>1, FirstLevel
  <2> QED
    BY <1>4, <2>1, <2>2 DEF Neighbour
<1>5. CASE desc
  <2> DEFINE x == n + 1 - k
  <2>1. x \in 1 .. n
    BY <1>1
  <2>2. u[k] = q[x]
    BY <1>2, <1>5
  <2>3. x = 1 => k + 1 = n + 1
    BY <1>1
  <2>4. x # 1 => k + 1 \in 1 .. n /\ n + 1 - (k + 1) = x - 1
    BY <1>1
  <2> HIDE DEF x
  <2>5. list.backward[q[x]] = IF x = 1 THEN Nil ELSE q[x - 1]
    BY <2>1 DEF Shape, Ends
  <2>6. u[k + 1] = IF x = 1 THEN Nil ELSE q[x - 1]
    BY <1>2, <1>3, <1>5, <2>3, <2>4
  <2> QED
    BY <1>5, <2>2, <2>5, <2>6 DEF Neighbour
<1> QED
  BY <1>4, <1>5

\* f is the function that Onward recurses with.
OnwardBy(m, desc, j, f) ==
    f = [i \in 1 .. j |-> IF i = 1 THEN m
                          ELSE IF f[i - 1] = Nil THEN Nil ELSE Neighbour(f[i - 1], desc)]

\* Onward, with the function that its recursion chooses.
LEMMA OnwardDef ==
    ASSUME NEW m, NEW desc, NEW j
    PROVE  Onward(m, desc, j) = Until(CHOOSE f : OnwardBy(m, desc, j, f), Members)
BY DEF Onward, OnwardBy

\* What ForEach visits: the nodes from a position on, as many as it is told and there are.
LEMMA OnwardIs ==
    ASSUME NEW n, NEW q, NEW h, Shape(list, n, q, h), NEW desc \in BOOLEAN, NEW p \in 1 .. n + 1,
           NEW j \in Nat, NEW u, u = Seen(n, q, desc), NEW d, d = IF j < n + 1 - p THEN j ELSE n + 1 - p
    PROVE  Onward(u[p], desc, j) = Piece(u, p, d)
<1> DEFINE at(i) == IF p + i - 1 <= n THEN u[p + i - 1] ELSE Nil
           f == [i \in 1 .. j |-> at(i)]
           node == CHOOSE w : OnwardBy(u[p], desc, j, w)
<1>1. /\ n \in Nat /\ Row(n, u) /\ u[n + 1] = Nil /\ Nil \notin Members
      /\ \A k \in 1 .. n : u[k] \in Members /\ Neighbour(u[k], desc) = u[k + 1]
  <2>1. n \in Nat /\ Row(n, q)
    BY DEF Shape, Row
  <2>2. Row(n, u)
    BY <2>1, SeenRow
  <2>3. \A k \in 1 .. n : Neighbour(u[k], desc) = u[k + 1]
    BY NextSeen
  <2> QED
    BY <2>1, <2>2, <2>3, MembersAssumption DEF Row
<1>2. at(1) = u[p]
  <2>1. p + 1 - 1 = p /\ (p <= n \/ p = n + 1)
    BY <1>1
  <2> QED
    BY <1>1, <2>1
<1>3. \A i \in 2 .. j : at(i) = IF at(i - 1) = Nil THEN Nil ELSE Neighbour(at(i - 1), desc)
  <2> SUFFICES ASSUME NEW i \in 2 .. j
               PROVE  at(i) = IF at(i - 1) = Nil THEN Nil ELSE Neighbour(at(i - 1), desc)
    OBVIOUS
  <2> DEFINE k == p + i - 2
  <2>1. k \in Nat \ {0} /\ p + i - 1 = k + 1 /\ p + (i - 1) - 1 = k
    BY <1>1
  <2>2. at(i) = (IF k + 1 <= n THEN u[k + 1] ELSE Nil) /\ at(i - 1) = IF k <= n THEN u[k] ELSE Nil
    BY <2>1
  <2> HIDE DEF k, at
  <2>3. CASE k <= n
    <3>1. k \in 1 .. n /\ u[k] # Nil
      BY <1>1, <2>1, <2>3
    <3>2. at(i) = u[k + 1]
      <4>1. k + 1 <= n \/ k + 1 = n + 1
        BY <1>1, <2>1, <2>3
      <4> QED
        BY <1>1, <2>2, <4>1
    <3> QED
      BY <1>1, <2>2, <2>3, <3>1, <3>2
  <2>4. CASE ~(k <= n)
    <3>1. ~(k + 1 <= n)
      BY <1>1, <2>1, <2>4
    <3> QED
      BY <2>2, <2>4, <3>1
  <2> QED
    BY <2>3, <2>4
<1>4. \A i \in 1 .. j : f[i] = at(i)
  OBVIOUS
<1> HIDE DEF at
<1>5. OnwardBy(u[p], desc, j, f)
  <2>1. \A i \in 1 .. j : f[i] = IF i = 1 THEN u[p]
                                 ELSE IF f[i - 1] = Nil THEN Nil ELSE Neighbour(f[i - 1], desc)
    <3> SUFFICES ASSUME NEW i \in 1 .. j
                 PROVE  f[i] = IF i = 1 THEN u[p]
                               ELSE IF f[i - 1] = Nil THEN Nil ELSE Neighbour(f[i - 1], desc)
      OBVIOUS
    <3>1. i = 1 \/ (i \in 2 .. j /\ i - 1 \in 1 .. j /\ i # 1)
      OBVIOUS
    <3> HIDE DEF f
    <3> QED
      BY <1>2, <1>3, <1>4, <3>1
  <2>2. f = [i \in 1 .. j |-> f[i]]
    OBVIOUS
  <2> HIDE DEF f
  <2> QED
    BY <2>1, <2>2 DEF OnwardBy
<1>6. OnwardBy(u[p], desc, j, node)
  <2> HIDE DEF f
  <2> QED
    BY <1>5
<1> HIDE DEF node
<1>7. /\ node = [i \in 1 .. j |-> node[i]]
      /\ \A i \in 1 .. j : node[i] = IF i = 1 THEN u[p]
                                     ELSE IF node[i - 1] = Nil THEN Nil ELSE Neighbour(node[i - 1], desc)
  <2> DEFINE g == [i \in 1 .. j |-> IF i = 1 THEN u[p]
                                    ELSE IF node[i - 1] = Nil THEN Nil ELSE Neighbour(node[i - 1], desc)]
  <2>1. node = g
    BY <1>6 DEF OnwardBy
  <2>2. g = [i \in 1 .. j |-> g[i]]
    OBVIOUS
  <2>3. \A i \in 1 .. j : g[i] = IF i = 1 THEN u[p]
                                     ELSE IF node[i - 1] = Nil THEN Nil ELSE Neighbour(node[i - 1], desc)
    OBVIOUS
  <2> HIDE DEF g
  <2> QED
    BY <2>1, <2>2, <2>3
<1>8. \A i \in 1 .. j : node[i] = at(i)
  <2> DEFINE T == {k \in Nat : k + 1 <= j => node[k + 1] = at(k + 1)}
  <2>1. 0 \in T
    <3> SUFFICES ASSUME 0 + 1 <= j
                 PROVE  node[0 + 1] = at(0 + 1)
      OBVIOUS
    <3>1. 1 \in 1 .. j /\ 0 + 1 = 1
      OBVIOUS
    <3> QED
      BY <1>2, <1>7, <3>1
  <2>2. ASSUME NEW k \in Nat, k \in T
        PROVE  k + 1 \in T
    <3> SUFFICES ASSUME (k + 1) + 1 <= j
                 PROVE  node[(k + 1) + 1] = at((k + 1) + 1)
      OBVIOUS
    <3> DEFINE i == (k + 1) + 1
    <3>1. i \in 2 .. j /\ i \in 1 .. j /\ i # 1 /\ i - 1 = k + 1 /\ k + 1 <= j
      OBVIOUS
    <3>2. node[k + 1] = at(k + 1)
      BY <2>2, <3>1
    <3> HIDE DEF i
    <3>3. node[i] = IF node[i - 1] = Nil THEN Nil ELSE Neighbour(node[i - 1], desc)
      BY <1>7, <3>1
    <3>4. at(i) = IF at(i - 1) = Nil THEN Nil ELSE Neighbour(at(i - 1), desc)
      BY <1>3, <3>1
    <3>5. node[i - 1] = at(i - 1)
      BY <3>1, <3>2
    <3>6. node[i] = at(i)
      BY <3>3, <3>4, <3>5
    <3> QED
      BY <3>6 DEF i
  <2> HIDE DEF T
  <2>3. \A k \in Nat : k \in T
    BY <2>1, <2>2, SetInduction
  <2> SUFFICES ASSUME NEW i \in 1 .. j
               PROVE  node[i] = at(i)
    OBVIOUS
  <2>4. i - 1 \in Nat /\ (i - 1) + 1 = i /\ i <= j
    OBVIOUS
  <2>5. i - 1 \in T
    BY <2>3, <2>4
  <2> QED
    BY <2>4, <2>5 DEF T
<1>9. /\ node \in Seq(Members \cup {Nil}) /\ Len(node) = j
  <2>1. \A i \in 1 .. j : at(i) \in Members \cup {Nil}
    <3> SUFFICES ASSUME NEW i \in 1 .. j
                 PROVE  at(i) \in Members \cup {Nil}
      OBVIOUS
    <3>1. p + i - 1 <= n => p + i - 1 \in 1 .. n
      BY <1>1
    <3> QED
      BY <1>1, <3>1 DEF at
  <2>2. node \in [1 .. j -> Members \cup {Nil}]
    BY <1>7, <1>8, <2>1
  <2> QED
    BY <2>2
<1>10. d \in 0 .. j /\ d \in 0 .. n + 1 - p
  BY <1>1
<1>11. \A x \in 1 .. d : x \in 1 .. j /\ node[x] = u[p + x - 1] /\ u[p + x - 1] \in Members
  <2> SUFFICES ASSUME NEW x \in 1 .. d
               PROVE  x \in 1 .. j /\ node[x] = u[p + x - 1] /\ u[p + x - 1] \in Members
    OBVIOUS
  <2>1. x \in 1 .. j /\ p + x - 1 <= n /\ p + x - 1 \in 1 .. n
    BY <1>1, <1>10
  <2> QED
    BY <1>1, <1>8, <2>1 DEF at
<1>12. d = j \/ node[d + 1] \notin Members
  <2> SUFFICES ASSUME d # j
               PROVE  node[d + 1] \notin Members
    OBVIOUS
  <2>1. d + 1 \in 1 .. j /\ ~(p + (d + 1) - 1 <= n)
    BY <1>1, <1>10
  <2> QED
    BY <1>1, <1>8, <2>1 DEF at
<1>13. Until(node, Members) = SubSeq(node, 1, d)
  BY <1>9, <1>10, <1>11, <1>12, UntilFirst
<1>14. SubSeq(node, 1, d) = Piece(u, p, d)
  <2> DEFINE t == SubSeq(node, 1, d)
             v == Piece(u, p, d)
  <2>1. /\ t \in Seq(Members) /\ Len(t) = (IF 1 <= d THEN d - 1 + 1 ELSE 0)
        /\ \A x \in 1 .. d - 1 + 1 : t[x] = node[1 + x - 1]
    <3>1. \A x \in 1 .. d : node[x] \in Members
      BY <1>11
    <3>2. 1 \in Int /\ d \in Int
      BY <1>10
    <3> QED
      BY <3>1, <3>2, SubSeqProperties
  <2>2. v \in Seq(Members) /\ Len(v) = d /\ \A x \in 1 .. d : v[x] = u[p + x - 1]
    <3>1. Lists(v, u, p, d)
      BY <1>1, <1>10, PieceIs
    <3> HIDE DEF v
    <3> QED
      BY <3>1 DEF Lists
  <2> HIDE DEF t, v
  <2>3. Len(t) = d /\ \A x \in 1 .. d : t[x] = v[x]
    <3>1. d \in Nat /\ d - 1 + 1 = d /\ \A x \in 1 .. d : 1 + x - 1 = x
      BY <1>10
    <3>2. \A x \in 1 .. d : t[x] = node[x]
      BY <2>1, <3>1
    <3> QED
      BY <1>11, <2>1, <2>2, <3>1, <3>2
  <2>4. t = v
    BY <2>1, <2>2, <2>3, SeqEqual
  <2> QED
    BY <2>4 DEF t, v
<1> QED
  BY <1>13, <1>14, OnwardDef DEF node

-------------------------------------------------------------------------------
(* Ranks *)

\* Where a search ends: at the last node before the position where it splits the row.
LEMMA SearchIs ==
    ASSUME NEW n, NEW q, NEW h, Shape(list, n, q, h), NEW ok, NEW p, Splits(n, q, ok, p)
    PROVE  /\ Path(list, ok)[1].node = q[p - 1] /\ Path(list, ok)[1].rank = p - 1
           /\ list.forward[Path(list, ok)[1].node][1] = q[p]
<1> DEFINE path == Path(list, ok)
<1>1. p \in 1 .. n + 1
  BY DEF Splits
<1>2. PathAt(n, q, h, p, path)
  BY PathIs
<1> HIDE DEF path
<1>3. path[1].node = q[p - 1] /\ path[1].rank = p - 1 /\ list.forward[path[1].node][1] = q[p]
  BY <1>1, <1>2, AfterIs
<1> QED
  BY <1>3 DEF path

\* getRank finds the position of a member.
LEMMA GetRankIs ==
    ASSUME NEW n, NEW q, NEW h, Shape(list, n, q, h), Ranked(list, n, q), Records(dict, list, n, q),
           NEW k \in 1 .. n
    PROVE  GetRank(list, q[k], dict[q[k]]) = k
<1> DEFINE s == dict[q[k]]
           ok == {at \in Places : \/ Before(list, at.node, s, q[k])
                                  \/ list.score[at.node] = s /\ at.node = q[k]}
<1>1. /\ n \in Nat
      /\ \A x \in 1 .. n : /\ q[x] \in Members /\ In(q[x]) /\ dict[q[x]] = list.score[q[x]]
                           /\ dict[q[x]] \in Int /\ q[x] \in Nat
      /\ \A i, j \in 1 .. n : i < j => Comes(q[i], q[j])
  BY RowComes
<1>2. k + 1 \in 1 .. n + 1 /\ (k + 1) - 1 = k
  BY <1>1
<1>3. ASSUME NEW x \in 1 .. n
      PROVE  PlaceOf(q, x) \in ok <=> x < k + 1
  <2>1. /\ PlaceOf(q, x) \in ok <=> \/ Before(list, q[x], s, q[k])
                                    \/ list.score[q[x]] = s /\ q[x] = q[k]
    <3>1. PlaceOf(q, x) \in Places /\ PlaceOf(q, x).node = q[x]
      BY <1>1 DEF PlaceOf, Places, Nodes
    <3> QED
      BY <3>1
  <2> HIDE DEF ok
  <2>2. /\ dict[q[x]] \in Int /\ dict[q[k]] \in Int /\ q[x] \in Nat /\ q[k] \in Nat
        /\ list.score[q[x]] = dict[q[x]]
    BY <1>1
  <2>3. CASE x < k
    BY <1>1, <2>1, <2>2, <2>3 DEF Comes, Before
  <2>4. CASE x = k
    BY <2>1, <2>2, <2>4
  <2>5. CASE k < x
    <3>1. Comes(q[k], q[x])
      BY <1>1, <2>5
    <3> QED
      BY <2>1, <2>2, <2>5, <3>1 DEF Comes, Before
  <2> QED
    BY <2>3, <2>4, <2>5
<1>4. GetRank(list, q[k], s) = IF Path(list, ok)[1].node = q[k] THEN Path(list, ok)[1].rank ELSE 0
  BY DEF GetRank
<1> HIDE DEF ok, s
<1>5. Splits(n, q, ok, k + 1)
  BY <1>2, <1>3 DEF Splits, PlaceOf
<1>6. Path(list, ok)[1].node = q[k] /\ Path(list, ok)[1].rank = k
  BY <1>2, <1>5, SearchIs
<1> QED
  BY <1>4, <1>6 DEF s

\* getByRank finds the member at a position.
LEMMA GetByRankIs ==
    ASSUME NEW n, NEW q, NEW h, Shape(list, n, q, h), NEW k \in 1 .. n
    PROVE  GetByRank(list, k) = q[k]
<1> DEFINE ok == {at \in Places : at.rank <= k}
<1>1. n \in Nat /\ \A x \in 1 .. n : q[x] \in Members
  BY DEF Shape, Row
<1>2. k + 1 \in 1 .. n + 1 /\ (k + 1) - 1 = k
  BY <1>1
<1>3. ASSUME NEW x \in 1 .. n
      PROVE  PlaceOf(q, x) \in ok <=> x < k + 1
  <2>1. PlaceOf(q, x) \in Places /\ PlaceOf(q, x).rank = x
    BY <1>1 DEF PlaceOf, Places, Nodes
  <2> QED
    BY <2>1
<1>4. GetByRank(list, k) = IF Path(list, ok)[1].rank = k THEN Path(list, ok)[1].node ELSE Nil
  BY DEF GetByRank
<1> HIDE DEF ok
<1>5. Splits(n, q, ok, k + 1)
  BY <1>2, <1>3 DEF Splits, PlaceOf
<1>6. Path(list, ok)[1].node = q[k] /\ Path(list, ok)[1].rank = k
  BY <1>2, <1>5, SearchIs
<1> QED
  BY <1>4, <1>6

\* ForEach starts at the right node in both directions, and Range lists the right stretch.
LEMMA RangeByRankIs ==
    ASSUME NEW n, NEW q, NEW h, Shape(list, n, q, h), Records(dict, list, n, q), NEW desc \in BOOLEAN,
           NEW start \in Nat, NEW stop \in Nat, start < stop, stop <= n,
           NEW u, u = Seen(n, q, desc)
    PROVE  RangeByRank(start, stop, desc) = Piece(u, start + 1, stop - start)
<1> DEFINE first == IF desc THEN IF start > 0 THEN GetByRank(list, Size - start) ELSE list.tail
                    ELSE IF start > 0 THEN GetByRank(list, start + 1)
                    ELSE list.forward[Header][1]
<1>1. n \in Nat /\ Row(n, q) /\ q[0] = Header /\ start + 1 \in 1 .. n /\ start + 1 \in 1 .. n + 1
  BY DEF Shape, Row
<1>2. Size = n
  BY <1>1, SizeIs
<1>3. \A k \in 1 .. n : u[k] = IF desc THEN q[n + 1 - k] ELSE q[k]
  BY <1>1, SeenRow
<1>4. first = u[start + 1]
  <2>1. CASE desc /\ start > 0
    <3>1. n - start \in 1 .. n /\ n + 1 - (start + 1) = n - start
      BY <1>1, <2>1
    <3>2. GetByRank(list, n - start) = q[n - start]
      BY <3>1, GetByRankIs
    <3> QED
      BY <1>1, <1>2, <1>3, <2>1, <3>1, <3>2
  <2>2. CASE desc /\ ~(start > 0)
    <3>1. start = 0 /\ n # 0 /\ n + 1 - (start + 1) = n
      BY <1>1, <2>2
    <3>2. list.tail = q[n]
      BY <3>1 DEF Shape, Ends
    <3> QED
      BY <1>1, <1>3, <2>2, <3>1, <3>2
  <2>3. CASE ~desc /\ start > 0
    <3>1. GetByRank(list, start + 1) = q[start + 1]
      BY <1>1, GetByRankIs
    <3> QED
      BY <1>1, <1>3, <2>3, <3>1
  <2>4. CASE ~desc /\ ~(start > 0)
    <3>1. start = 0 /\ 0 \in 0 .. n /\ 0 + 1 = start + 1
      BY <1>1, <2>4
    <3>2. list.forward[q[0]][1] = q[start + 1]
      BY <3>1, FirstLevel
    <3> QED
      BY <1>1, <1>3, <2>4, <3>2
  <2> QED
    BY <2>1, <2>2, <2>3, <2>4
<1>5. RangeByRank(start, stop, desc) = Onward(first, desc, stop - start)
  BY DEF RangeByRank
<1> HIDE DEF first
<1>6. /\ stop - start \in Nat
      /\ stop - start = IF stop - start < n + 1 - (start + 1) THEN stop - start ELSE n + 1 - (start + 1)
  BY <1>1
<1>7. Onward(u[start + 1], desc, stop - start) = Piece(u, start + 1, stop - start)
  BY <1>1, <1>6, OnwardIs
<1> QED
  BY <1>4, <1>5, <1>7

\* Ranks and ranges of ranks are those of the order, in both directions.
LEMMA RanksAreFound ==
    ASSUME NEW n, NEW q, NEW h, Shape(list, n, q, h), Ranked(list, n, q), Records(dict, list, n, q),
           NEW desc \in BOOLEAN
    PROVE  FindsRanks(desc)
<1> DEFINE u == Seen(n, q, desc)
           order == Directed(Order, desc)
<1>1. n \in Nat /\ Row(n, q) /\ list.length = n
  BY DEF Shape, Row, Ends
<1>2. Size = n
  BY <1>1, SizeIs
<1>3. Row(n, u) /\ \A k \in 1 .. n : u[k] = IF desc THEN q[n + 1 - k] ELSE q[k]
  BY <1>1, SeenRow
<1>4. order = Piece(u, 1, n)
  <2>1. \A x \in 1 .. n : 1 + x - 1 = x
    OBVIOUS
  <2>2. Order = Piece(q, 1, n)
    BY <2>1, OrderIs DEF Piece
  <2>3. 1 \in 1 .. n + 1 /\ n \in 0 .. n + 1 - 1 /\ n + 2 - 1 - n = 1
    BY <1>1
  <2>4. Directed(Order, desc) = Piece(u, IF desc THEN n + 2 - 1 - n ELSE 1, n)
    BY <1>1, <2>2, <2>3, DirectedIs
  <2> HIDE DEF u
  <2> QED
    BY <2>3, <2>4
<1> HIDE DEF u, order
<1>5. ASSUME NEW i \in 1 .. n
      PROVE  Rank(order[i], desc) = i - 1
  <2>1. order[i] = u[i]
    <3>1. 1 + i - 1 = i
      OBVIOUS
    <3> QED
      BY <1>4, <3>1 DEF Piece
  <2>2. n + 1 - i \in 1 .. n /\ n - (n + 1 - i) = i - 1
    BY <1>1
  <2>3. CASE desc
    <3>1. u[i] = q[n + 1 - i]
      BY <1>3, <2>3
    <3>2. GetRank(list, u[i], dict[u[i]]) = n + 1 - i
      BY <2>2, <3>1, GetRankIs
    <3> QED
      BY <1>1, <2>1, <2>2, <2>3, <3>2 DEF Rank
  <2>4. CASE ~desc
    <3>1. u[i] = q[i]
      BY <1>3, <2>4
    <3>2. GetRank(list, u[i], dict[u[i]]) = i
      BY <3>1, GetRankIs
    <3> QED
      BY <2>1, <2>4, <3>2 DEF Rank
  <2> QED
    BY <2>3, <2>4
<1>6. ASSUME NEW start \in 0 .. n, NEW stop \in 0 .. n, start < stop
      PROVE  RangeByRank(start, stop, desc) = SubSeq(order, start + 1, stop)
  <2>1. /\ start \in Nat /\ stop \in Nat /\ stop <= n /\ start \in 0 .. n /\ stop - start \in 0 .. n - start
        /\ 1 \in 1 .. n + 1 /\ n \in 0 .. n + 1 - 1
    BY <1>1, <1>6
  <2>2. RangeByRank(start, stop, desc) = Piece(u, start + 1, stop - start)
    BY <1>6, <2>1, RangeByRankIs DEF u
  <2>3. SubSeq(order, start + 1, stop) = Piece(u, start + 1, stop - start)
    <3>1. PICK a, d : a = start + 1 /\ d = stop - start
      OBVIOUS
    <3>2. Inner(n, 1, n, a, stop, a, d)
      BY <1>1, <2>1, <3>1 DEF Inner
    <3>3. SubSeq(Piece(u, 1, n), a, stop) = Piece(u, a, d)
      BY <1>3, <3>2, MidPiece
    <3> QED
      BY <1>4, <3>1, <3>3
  <2> QED
    BY <2>2, <2>3
<1> QED
  BY <1>2, <1>5, <1>6 DEF FindsRanks, order

-------------------------------------------------------------------------------
(* Ranges of scores *)

\* The range is c positions from a on, and the border max comes at b.
Bounds(n, q, min, max, a, b, c) ==
    /\ a \in 1 .. n + 1 /\ b \in 1 .. n + 1 /\ c \in 0 .. n + 1 - a
    /\ c = IF a < b THEN b - a ELSE 0
    /\ \A k \in 1 .. n : Less(min, list.score[q[k]]) <=> a <= k
    /\ \A k \in 1 .. n : Greater(max, list.score[q[k]]) <=> k < b

\* The loop that looks for the upper border of a range of scores finds a position.
LEMMA GreaterSplits ==
    ASSUME NEW l, NEW n, NEW q, NEW h, Shape(l, n, q, h), Ranked(l, n, q), NEW max \in BorderType
    PROVE  \E p \in 1 .. n + 1 : Splits(n, q, {at \in Places : Greater(max, l.score[at.node])}, p)
<1> DEFINE ok == {at \in Places : Greater(max, l.score[at.node])}
<1>1. /\ n \in Nat /\ \A k \in 1 .. n : q[k] \in Members /\ l.score[q[k]] \in Int
  BY DEF Shape, Row, ListType
<1>2. \A k \in 1 .. n : PlaceOf(q, k) \in ok <=> Greater(max, l.score[q[k]])
  <2> SUFFICES ASSUME NEW k \in 1 .. n
               PROVE  PlaceOf(q, k) \in ok <=> Greater(max, l.score[q[k]])
    OBVIOUS
  <2>1. PlaceOf(q, k) \in Places /\ PlaceOf(q, k).node = q[k]
    BY <1>1 DEF PlaceOf, Places, Nodes
  <2> QED
    BY <2>1
<1> HIDE DEF ok
<1>3. ASSUME NEW j \in 1 .. n, NEW k \in 1 .. n, j < k, PlaceOf(q, k) \in ok
      PROVE  PlaceOf(q, j) \in ok
  <2>1. Before(l, q[j], l.score[q[k]], q[k]) /\ Greater(max, l.score[q[k]])
    BY <1>2, <1>3 DEF Ranked
  <2>2. l.score[q[j]] \in Int /\ l.score[q[k]] \in Int /\ l.score[q[j]] <= l.score[q[k]]
    BY <1>1, <2>1 DEF Before
  <2>3. Greater(max, l.score[q[j]])
    BY <2>1, <2>2 DEF Greater, Finite, BorderType
  <2> QED
    BY <1>2, <2>3
<1> QED
  BY <1>1, <1>3, SplitsAt DEF ok

\* The members of a range are neighbours.
LEMMA BoundsAre ==
    ASSUME NEW n, NEW q, NEW h, Shape(list, n, q, h), Ranked(list, n, q),
           NEW min \in BorderType, NEW max \in BorderType
    PROVE  \E a, b, c : /\ Bounds(n, q, min, max, a, b, c)
                        /\ Splits(n, q, {at \in Places : ~Less(min, list.score[at.node])}, a)
                        /\ Splits(n, q, {at \in Places : Greater(max, list.score[at.node])}, b)
<1> DEFINE less == {at \in Places : ~Less(min, list.score[at.node])}
           more == {at \in Places : Greater(max, list.score[at.node])}
<1>1. n \in Nat /\ \A k \in 1 .. n : q[k] \in Members
  BY DEF Shape, Row
<1>2. \A k \in 1 .. n : /\ PlaceOf(q, k) \in less <=> ~Less(min, list.score[q[k]])
                        /\ PlaceOf(q, k) \in more <=> Greater(max, list.score[q[k]])
  <2> SUFFICES ASSUME NEW k \in 1 .. n
               PROVE  /\ PlaceOf(q, k) \in less <=> ~Less(min, list.score[q[k]])
                      /\ PlaceOf(q, k) \in more <=> Greater(max, list.score[q[k]])
    OBVIOUS
  <2>1. PlaceOf(q, k) \in Places /\ PlaceOf(q, k).node = q[k]
    BY <1>1 DEF PlaceOf, Places, Nodes
  <2> QED
    BY <2>1
<1>3. PICK a \in 1 .. n + 1 : Splits(n, q, less, a)
  BY LessSplits
<1>4. PICK b \in 1 .. n + 1 : Splits(n, q, more, b)
  BY GreaterSplits
<1> DEFINE c == IF a < b THEN b - a ELSE 0
<1>5. c \in 0 .. n + 1 - a
  BY <1>1
<1> HIDE DEF less, more
<1>6. \A k \in 1 .. n : Less(min, list.score[q[k]]) <=> a <= k
  <2> SUFFICES ASSUME NEW k \in 1 .. n
               PROVE  Less(min, list.score[q[k]]) <=> a <= k
    OBVIOUS
  <2>1. PlaceOf(q, k) \in less <=> k < a
    BY <1>3 DEF Splits, PlaceOf
  <2>2. ~Less(min, list.score[q[k]]) <=> k < a
    BY <1>2, <2>1
  <2>3. k < a <=> ~(a <= k)
    BY <1>1
  <2> QED
    BY <2>2, <2>3
<1>7. \A k \in 1 .. n : Greater(max, list.score[q[k]]) <=> k < b
  <2> SUFFICES ASSUME NEW k \in 1 .. n
               PROVE  Greater(max, list.score[q[k]]) <=> k < b
    OBVIOUS
  <2>1. PlaceOf(q, k) \in more <=> k < b
    BY <1>4 DEF Splits, PlaceOf
  <2> QED
    BY <1>2, <2>1
<1>8. Bounds(n, q, min, max, a, b, c)
  BY <1>5, <1>6, <1>7 DEF Bounds
<1> QED
  BY <1>3, <1>4, <1>8 DEF less, more

\* The members of the range, in order.
LEMMA InRangeIs ==
    ASSUME NEW n, NEW q, NEW h, Shape(list, n, q, h), Ranked(list, n, q), Records(dict, list, n, q),
           NEW min, NEW max, NEW a, NEW b, NEW c, Bounds(n, q, min, max, a, b, c)
    PROVE  InRange(min, max) = Piece(q, a, c)
<1> DEFINE S == {m \in Members : In(m) /\ Less(min, dict[m]) /\ Greater(max, dict[m])}
<1>0. PICK r : r = [x \in 1 .. c |-> q[a + x - 1]]
  OBVIOUS
<1>1. /\ n \in Nat
      /\ \A k \in 1 .. n : /\ q[k] \in Members /\ In(q[k]) /\ dict[q[k]] = list.score[q[k]]
                           /\ dict[q[k]] \in Int /\ q[k] \in Nat
      /\ \A m \in Members : In(m) => \E k \in 1 .. n : q[k] = m
      /\ \A i, j \in 1 .. n : i < j => Comes(q[i], q[j])
  BY RowComes
<1>2. /\ a \in 1 .. n + 1 /\ b \in 1 .. n + 1 /\ c \in 0 .. n + 1 - a
      /\ c = IF a < b THEN b - a ELSE 0
      /\ \A k \in 1 .. n : Less(min, list.score[q[k]]) <=> a <= k
      /\ \A k \in 1 .. n : Greater(max, list.score[q[k]]) <=> k < b
  BY DEF Bounds
<1>3. \A k \in 1 .. n : q[k] \in S <=> a <= k /\ k < b
  BY <1>1, <1>2
<1>4. \A m \in S : \E k \in 1 .. n : q[k] = m
  BY <1>1
<1> HIDE DEF S
<1>5. \A x \in 1 .. c : a + x - 1 \in 1 .. n /\ a <= a + x - 1 /\ a + x - 1 < b
  BY <1>1, <1>2
<1>6. c \in Nat /\ \A x \in 1 .. c : r[x] = q[a + x - 1] /\ r[x] \in S
  BY <1>0, <1>1, <1>2, <1>3, <1>5
<1>7. \A m \in S : \E x \in 1 .. c : r[x] = m
  <2> SUFFICES ASSUME NEW m \in S
               PROVE  \E x \in 1 .. c : r[x] = m
    OBVIOUS
  <2>1. PICK k \in 1 .. n : q[k] = m
    BY <1>4
  <2>2. a <= k /\ k < b
    BY <1>3, <2>1
  <2>3. k - a + 1 \in 1 .. c /\ a + (k - a + 1) - 1 = k
    BY <1>1, <1>2, <2>2
  <2> QED
    BY <1>6, <2>1, <2>3
<1>8. \A m \in S : m \in Nat /\ dict[m] \in Int
  BY <1>1, <1>4
<1>9. \A i, j \in 1 .. c : i < j => Comes(r[i], r[j])
  <2> SUFFICES ASSUME NEW i \in 1 .. c, NEW j \in 1 .. c, i < j
               PROVE  Comes(r[i], r[j])
    OBVIOUS
  <2>1. a + i - 1 < a + j - 1
    BY <1>2
  <2> QED
    BY <1>1, <1>5, <1>6, <2>1
<1>10. InOrder(S) = [x \in 1 .. c |-> r[x]]
  <2>1. Listed(c, S, r)
    BY <1>6, <1>7, <1>8, <1>9 DEF Listed
  <2> QED
    BY <2>1, InOrderIs
<1>11. [x \in 1 .. c |-> r[x]] = Piece(q, a, c)
  BY <1>6 DEF Piece
<1> QED
  BY <1>10, <1>11 DEF InRange, S

\* Where hasInRange is not misled, it finds a range that has members.
LEMMA HasInRangeIs ==
    ASSUME NEW n, NEW q, NEW h, Shape(list, n, q, h), NEW min \in BorderType, NEW max \in BorderType,
           NEW a, NEW b, NEW c, Bounds(n, q, min, max, a, b, c)
    PROVE  /\ HasInRange(list, min, max) => a <= n /\ 1 < b
           /\ ~Misled(min, max) /\ c > 0 => HasInRange(list, min, max)
<1> DEFINE some == min.value < max.value \/ (min.value = max.value /\ ~min.exclude /\ ~max.exclude)
<1>1. /\ n \in Nat /\ \A k \in 1 .. n : q[k] \in Members /\ q[k] # Nil /\ list.score[q[k]] \in Int
      /\ list.tail = (IF n = 0 THEN Nil ELSE q[n])
      /\ list.forward[Header][1] = q[1]
  <2>1. n \in Nat /\ q[0] = Header /\ \A k \in 1 .. n : q[k] \in Members
    BY DEF Shape, Row
  <2>2. 0 \in 0 .. n /\ 0 + 1 = 1
    BY <2>1
  <2>3. list.forward[q[0]][1] = q[1]
    BY <2>2, FirstLevel
  <2> QED
    BY <2>1, <2>3, MembersAssumption DEF Shape, ListType, Ends
<1>2. /\ a \in 1 .. n + 1 /\ b \in 1 .. n + 1
      /\ c = IF a < b THEN b - a ELSE 0
      /\ \A k \in 1 .. n : Less(min, list.score[q[k]]) <=> a <= k
      /\ \A k \in 1 .. n : Greater(max, list.score[q[k]]) <=> k < b
  BY DEF Bounds
<1>3. HasInRange(list, min, max) <=> some /\ n # 0 /\ a <= n /\ 1 < b
  <2>1. CASE n = 0
    BY <1>1, <2>1 DEF HasInRange
  <2>2. CASE n # 0
    <3>1. n \in 1 .. n /\ 1 \in 1 .. n
      BY <1>1, <2>2
    <3> QED
      BY <1>1, <1>2, <2>2, <3>1 DEF HasInRange
  <2> QED
    BY <2>1, <2>2
<1>4. ASSUME ~Misled(min, max), c > 0
      PROVE  some /\ n # 0 /\ a <= n /\ 1 < b
  <2>1. a \in 1 .. n /\ a < b /\ n # 0 /\ a <= n /\ 1 < b
    BY <1>1, <1>2, <1>4
  <2>2. Less(min, list.score[q[a]]) /\ Greater(max, list.score[q[a]]) /\ list.score[q[a]] \in Int
    BY <1>1, <1>2, <2>1
  <2>3. /\ min.value \in Int /\ max.value \in Int /\ min.exclude \in BOOLEAN /\ max.exclude \in BOOLEAN
    BY DEF BorderType
  <2>4. ASSUME Finite(min) /\ Finite(max)
        PROVE  some
    <3>1. min.inf = 0 /\ max.inf = 0
      BY <2>4 DEF Finite
    <3> DEFINE v == list.score[q[a]]
    <3>2. min.value < v \/ (v = min.value /\ ~min.exclude)
      BY <2>2, <3>1 DEF Less, Finite
    <3>3. v < max.value \/ (v = max.value /\ ~max.exclude)
      BY <2>2, <3>1 DEF Greater, Finite
    <3>4. v \in Int
      BY <2>2
    <3> HIDE DEF v
    <3> QED
      BY <2>3, <3>2, <3>3, <3>4
  <2>5. ASSUME ~(Finite(min) /\ Finite(max))
        PROVE  some
    <3>1. ~(min.value > max.value \/ (min.value = max.value /\ (min.exclude \/ max.exclude)))
      BY <1>4, <2>5 DEF Misled
    <3> QED
      BY <2>3, <3>1
  <2>6. some
    BY <2>4, <2>5
  <2> HIDE DEF some
  <2> QED
    BY <2>1, <2>6
<1> QED
  BY <1>3, <1>4

\* A search for a range of scores, in the direction of u: it starts at position e, the
\* range is c nodes from there on, and no other is between the borders.
Found(n, u, e, c, min, max, desc) ==
    /\ e \in 1 .. n + 1 /\ c \in 0 .. n + 1 - e
    /\ (IF desc THEN LastInScoreRange(list, min, max) ELSE FirstInScoreRange(list, min, max))
       = IF c > 0 THEN u[e] ELSE Nil
    /\ \A k \in 1 .. n : Within(min, max, u[k]) <=> e <= k /\ k < e + c
    /\ Directed(InRange(min, max), desc) = Piece(u, e, c)

\* The search for the first member of a range finds it, if the range has one.
LEMMA FirstIs ==
    ASSUME NEW n, NEW q, NEW h, Shape(list, n, q, h), NEW min \in BorderType, NEW max \in BorderType,
           ~Misled(min, max), NEW a, NEW b, NEW c, Bounds(n, q, min, max, a, b, c),
           Splits(n, q, {at \in Places : ~Less(min, list.score[at.node])}, a)
    PROVE  FirstInScoreRange(list, min, max) = IF c > 0 THEN q[a] ELSE Nil
<1> DEFINE ok == {at \in Places : ~Less(min, list.score[at.node])}
           x == list.forward[Path(list, ok)[1].node][1]
<1>1. n \in Nat
  BY DEF Shape, Row
<1>2. x = q[a]
  <2> HIDE DEF ok
  <2> QED
    BY SearchIs DEF ok
<1>3. FirstInScoreRange(list, min, max) = IF HasInRange(list, min, max) /\ Greater(max, list.score[x])
                                          THEN x ELSE Nil
  BY DEF FirstInScoreRange
<1> HIDE DEF x
<1>4. /\ a \in 1 .. n + 1 /\ b \in 1 .. n + 1
      /\ c = IF a < b THEN b - a ELSE 0
      /\ \A k \in 1 .. n : Greater(max, list.score[q[k]]) <=> k < b
  BY DEF Bounds
<1>5. /\ HasInRange(list, min, max) => a <= n
      /\ c > 0 => HasInRange(list, min, max)
  BY HasInRangeIs
<1>6. CASE c > 0
  <2>1. a \in 1 .. n /\ a < b
    BY <1>1, <1>4, <1>6
  <2> QED
    BY <1>2, <1>3, <1>4, <1>5, <1>6, <2>1
<1>7. CASE ~(c > 0)
  <2>1. ~(a < b)
    BY <1>1, <1>4, <1>7
  <2>2. a <= n => a \in 1 .. n
    BY <1>1, <1>4
  <2> QED
    BY <1>2, <1>3, <1>4, <1>5, <1>7, <2>1, <2>2
<1> QED
  BY <1>6, <1>7

\* The search for the last member of a range finds it, if the range has one.
LEMMA LastIs ==
    ASSUME NEW n, NEW q, NEW h, Shape(list, n, q, h), NEW min \in BorderType, NEW max \in BorderType,
           ~Misled(min, max), NEW a, NEW b, NEW c, Bounds(n, q, min, max, a, b, c),
           Splits(n, q, {at \in Places : Greater(max, list.score[at.node])}, b)
    PROVE  LastInScoreRange(list, min, max) = IF c > 0 THEN q[b - 1] ELSE Nil
<1> DEFINE ok == {at \in Places : Greater(max, list.score[at.node])}
           x == Path(list, ok)[1].node
<1>1. n \in Nat
  BY DEF Shape, Row
<1>2. x = q[b - 1]
  <2> HIDE DEF ok
  <2> QED
    BY SearchIs DEF ok
<1>3. LastInScoreRange(list, min, max) = IF HasInRange(list, min, max) /\ Less(min, list.score[x])
                                         THEN x ELSE Nil
  BY DEF LastInScoreRange
<1> HIDE DEF x
<1>4. /\ a \in 1 .. n + 1 /\ b \in 1 .. n + 1
      /\ c = IF a < b THEN b - a ELSE 0
      /\ \A k \in 1 .. n : Less(min, list.score[q[k]]) <=> a <= k
  BY DEF Bounds
<1>5. /\ HasInRange(list, min, max) => 1 < b
      /\ c > 0 => HasInRange(list, min, max)
  BY HasInRangeIs
<1>6. CASE c > 0
  <2>1. b - 1 \in 1 .. n /\ a <= b - 1
    BY <1>1, <1>4, <1>6
  <2> QED
    BY <1>2, <1>3, <1>4, <1>5, <1>6, <2>1
<1>7. CASE ~(c > 0)
  <2>1. ~(a <= b - 1)
    BY <1>1, <1>4, <1>7
  <2>2. 1 < b => b - 1 \in 1 .. n
    BY <1>1, <1>4
  <2> QED
    BY <1>2, <1>3, <1>4, <1>5, <1>7, <2>1, <2>2
<1> QED
  BY <1>6, <1>7

\* Every range that hasInRange does not mistake is found, in both directions.
LEMMA RangeIsFound ==
    ASSUME NEW n, NEW q, NEW h, Shape(list, n, q, h), Ranked(list, n, q), Records(dict, list, n, q),
           NEW min \in BorderType, NEW max \in BorderType, ~Misled(min, max),
           NEW desc \in BOOLEAN, NEW u, u = Seen(n, q, desc)
    PROVE  \E e, c : Found(n, u, e, c, min, max, desc)
<1>1. Row(n, q) /\ n \in Nat
  BY DEF Shape, Row
<1>2. PICK a, b, c : /\ Bounds(n, q, min, max, a, b, c)
                     /\ Splits(n, q, {at \in Places : ~Less(min, list.score[at.node])}, a)
                     /\ Splits(n, q, {at \in Places : Greater(max, list.score[at.node])}, b)
  BY BoundsAre
<1>3. PICK e : e = IF desc THEN n + 2 - a - c ELSE a
  OBVIOUS
<1>4. /\ a \in 1 .. n + 1 /\ b \in 1 .. n + 1 /\ c \in 0 .. n + 1 - a
      /\ c = IF a < b THEN b - a ELSE 0
      /\ \A k \in 1 .. n : Less(min, list.score[q[k]]) <=> a <= k
      /\ \A k \in 1 .. n : Greater(max, list.score[q[k]]) <=> k < b
  BY <1>2 DEF Bounds
<1>5. e \in 1 .. n + 1 /\ c \in 0 .. n + 1 - e
  BY <1>1, <1>3, <1>4
<1>6. \A k \in 1 .. n : u[k] = IF desc THEN q[n + 1 - k] ELSE q[k]
  BY <1>1, SeenRow
<1>7. (IF desc THEN LastInScoreRange(list, min, max) ELSE FirstInScoreRange(list, min, max))
      = IF c > 0 THEN u[e] ELSE Nil
  <2>1. CASE desc
    <3>1. LastInScoreRange(list, min, max) = IF c > 0 THEN q[b - 1] ELSE Nil
      BY <1>2, LastIs
    <3>2. c > 0 => e \in 1 .. n /\ n + 1 - e = b - 1
      BY <1>1, <1>3, <1>4, <2>1
    <3> QED
      BY <1>6, <2>1, <3>1, <3>2
  <2>2. CASE ~desc
    <3>1. FirstInScoreRange(list, min, max) = IF c > 0 THEN q[a] ELSE Nil
      BY <1>2, FirstIs
    <3>2. c > 0 => a \in 1 .. n
      BY <1>1, <1>4
    <3> QED
      BY <1>3, <1>6, <2>2, <3>1, <3>2
  <2> QED
    BY <2>1, <2>2
<1>8. \A k \in 1 .. n : Within(min, max, u[k]) <=> e <= k /\ k < e + c
  <2> SUFFICES ASSUME NEW k \in 1 .. n
               PROVE  Within(min, max, u[k]) <=> e <= k /\ k < e + c
    OBVIOUS
  <2>1. PICK j \in 1 .. n : u[k] = q[j] /\ j = IF desc THEN n + 1 - k ELSE k
    <3>1. n + 1 - k \in 1 .. n
      BY <1>1
    <3> QED
      BY <1>6, <3>1
  <2>2. Within(min, max, u[k]) <=> a <= j /\ j < b
    BY <1>4, <2>1 DEF Within
  <2>3. a <= j /\ j < b <=> e <= k /\ k < e + c
    BY <1>1, <1>3, <1>4, <2>1
  <2> QED
    BY <2>2, <2>3
<1>9. Directed(InRange(min, max), desc) = Piece(u, e, c)
  <2>1. InRange(min, max) = Piece(q, a, c)
    BY <1>2, InRangeIs
  <2> QED
    BY <1>1, <1>3, <1>4, <2>1, DirectedIs
<1> QED
  BY <1>5, <1>7, <1>8, <1>9 DEF Found

\* From its first node on, RangeByScore lists what the offset leaves of the range.
LEMMA RangeByScoreIs ==
    ASSUME NEW n, NEW q, NEW h, Shape(list, n, q, h), Records(dict, list, n, q),
           NEW desc \in BOOLEAN, NEW u, u = Seen(n, q, desc), NEW min, NEW max, NEW e, NEW c,
           Found(n, u, e, c, min, max, desc), NEW offset \in 0 .. n,
           offset = 0 \/ offset < c, NEW limit \in Int
    PROVE  \E in : /\ RangeByScore(min, max, offset, limit, desc) =
                         IF limit < 0 THEN in ELSE AtMost(in, limit)
                   /\ in = SubSeq(Directed(InRange(min, max), desc), offset + 1, c)
<1> DEFINE first == IF desc THEN LastInScoreRange(list, min, max) ELSE FirstInScoreRange(list, min, max)
           all == Onward(first, desc, Size)
           rest == IF offset < Len(all) THEN SubSeq(all, offset + 1, Len(all)) ELSE <<>>
           ok == {m \in Members : m = Head(rest) \/ Within(min, max, m)}
           in == Until(rest, ok)
           range == Directed(InRange(min, max), desc)
<1>1. /\ n \in Nat /\ Row(n, q) /\ Size = n
      /\ Row(n, u)
  <2>1. n \in Nat /\ Row(n, q)
    BY DEF Shape, Row
  <2> QED
    BY <2>1, SizeIs, SeenRow
<1>2. /\ e \in 1 .. n + 1 /\ c \in 0 .. n + 1 - e
      /\ first = IF c > 0 THEN u[e] ELSE Nil
      /\ \A k \in 1 .. n : Within(min, max, u[k]) <=> e <= k /\ k < e + c
      /\ range = Piece(u, e, c)
  BY DEF Found
<1>3. RangeByScore(min, max, offset, limit, desc) = IF limit < 0 THEN in ELSE AtMost(in, limit)
  BY DEF RangeByScore
<1> HIDE DEF first, range
<1>4. CASE c = 0
  <2>1. offset = 0 /\ first = u[n + 1]
    BY <1>1, <1>2, <1>4 DEF Row
  <2>2. all = Piece(u, n + 1, 0)
    <3>1. n + 1 \in 1 .. n + 1 /\ 0 = IF n < n + 1 - (n + 1) THEN n ELSE n + 1 - (n + 1)
      BY <1>1
    <3> QED
      BY <1>1, <2>1, <3>1, OnwardIs
  <2>3. Len(all) = 0 /\ all = <<>>
    <3>1. Piece(u, n + 1, 0) = <<>>
      BY DEF Piece
    <3> QED
      BY <2>2, <3>1
  <2>4. rest = <<>>
    BY <2>1, <2>3
  <2>5. in = <<>>
    <3>1. Len(rest) = 0 /\ 0 \in 0 .. Len(rest) /\ \A x \in 1 .. 0 : rest[x] \in ok
      BY <2>4
    <3> HIDE DEF rest, ok
    <3>2. in = SubSeq(rest, 1, 0)
      BY <3>1, UntilFirst
    <3> QED
      BY <2>4, <3>2
  <2>6. SubSeq(range, offset + 1, c) = <<>>
    BY <1>2, <1>4, <2>1
  <2> QED
    BY <1>3, <2>5, <2>6 DEF range
<1>5. CASE c # 0
  <2>1. PICK p, m, w, d : p = e + offset /\ m = n + 1 - p /\ w = n + 1 - e /\ d = c - offset
    OBVIOUS
  <2>2. /\ c > 0 /\ offset < c /\ offset \in Nat /\ c \in 0 .. w
        /\ e \in 1 .. n + 1 /\ e \in 1 .. n /\ p \in 1 .. n /\ p \in 1 .. n + 1
        /\ m \in Nat /\ m \in 0 .. n + 1 - p /\ d \in 0 .. m /\ d > 0
        /\ w \in 0 .. n + 1 - e /\ w = IF n < n + 1 - e THEN n ELSE n + 1 - e
        /\ offset < w /\ offset \in 0 .. w /\ m \in 0 .. w - offset /\ offset + m = w
    BY <1>1, <1>2, <1>5, <2>1
  <2>3. all = Piece(u, e, w)
    <3>1. first = u[e]
      BY <1>2, <2>2
    <3> QED
      BY <1>1, <2>2, <3>1, OnwardIs
  <2> HIDE DEF all
  <2>4. Len(all) = w
    <3>1. Lists(all, u, e, w)
      BY <1>1, <2>2, <2>3, PieceIs
    <3> QED
      BY <3>1 DEF Lists
  <2>5. rest = Piece(u, p, m)
    <3>1. rest = SubSeq(all, offset + 1, w)
      BY <2>2, <2>4
    <3>2. Inner(n, e, w, offset + 1, w, p, m)
      BY <1>1, <2>1, <2>2 DEF Inner
    <3>3. SubSeq(Piece(u, e, w), offset + 1, w) = Piece(u, p, m)
      BY <1>1, <3>2, MidPiece
    <3> QED
      BY <2>3, <3>1, <3>3
  <2> HIDE DEF rest
  <2>6. Head(rest) = u[p]
    <3>1. Lists(rest, u, p, m)
      BY <1>1, <2>2, <2>5, PieceIs
    <3>2. 1 \in 1 .. m /\ p + 1 - 1 = p
      BY <2>2
    <3>3. rest \in Seq(Members) /\ rest # <<>> /\ rest[1] = u[p]
      BY <3>1, <3>2 DEF Lists
    <3> QED
      BY <3>3
  <2>7. \A x \in 1 .. d : u[p + x - 1] \in ok
    <3> SUFFICES ASSUME NEW x \in 1 .. d
                 PROVE  u[p + x - 1] \in ok
      OBVIOUS
    <3>1. p + x - 1 \in 1 .. n /\ e <= p + x - 1 /\ p + x - 1 < e + c
      BY <1>1, <1>2, <2>1, <2>2
    <3> QED
      BY <1>1, <1>2, <3>1 DEF Row
  <2>8. d = m \/ u[p + d] \notin ok
    <3> SUFFICES ASSUME d # m
                 PROVE  u[p + d] \notin ok
      OBVIOUS
    <3>1. p + d = e + c /\ e + c \in 1 .. n /\ e + c # p /\ ~(e + c < e + c)
      BY <1>1, <1>2, <2>1, <2>2
    <3>2. u[e + c] # u[p]
      BY <1>1, <2>2, <3>1 DEF Row
    <3>3. ~Within(min, max, u[e + c])
      BY <1>2, <3>1
    <3> QED
      BY <2>6, <3>1, <3>2, <3>3
  <2> HIDE DEF ok
  <2>9. in = Piece(u, p, d)
    BY <1>1, <2>2, <2>5, <2>7, <2>8, UntilPiece
  <2>10. SubSeq(range, offset + 1, c) = Piece(u, p, d)
    <3>1. Inner(n, e, c, offset + 1, c, p, d)
      BY <1>1, <1>2, <2>1, <2>2 DEF Inner
    <3>2. Row(n, u) /\ range = Piece(u, e, c)
      BY <1>1, <1>2
    <3>3. SubSeq(Piece(u, e, c), offset + 1, c) = Piece(u, p, d)
      BY <3>1, <3>2, MidPiece
    <3> QED
      BY <3>2, <3>3
  <2> QED
    BY <1>3, <2>9, <2>10 DEF range
<1> QED
  BY <1>4, <1>5

\* Ranges of scores, with offset and limit and in both directions, are those of the order.
LEMMA ScoresAreFound ==
    ASSUME NEW n, NEW q, NEW h, Shape(list, n, q, h), Ranked(list, n, q), Records(dict, list, n, q),
           NEW min \in BorderType, NEW max \in BorderType, NEW desc \in BOOLEAN
    PROVE  FindsScores(min, max, desc)
<1> DEFINE range == Directed(InRange(min, max), desc)
<1>1. n \in Nat /\ Row(n, q) /\ Size = n
  BY SizeIs DEF Shape, Row
<1>2. ASSUME NEW offset \in 0 .. n, NEW limit \in Limits, ~Misled(min, max),
             ~(offset > 0 /\ offset >= Len(range))
      PROVE  RangeByScore(min, max, offset, limit, desc) =
                 LET rest == SubSeq(range, offset + 1, Len(range))
                 IN  IF limit < 0 THEN rest ELSE AtMost(rest, limit)
  <2>1. PICK u : u = Seen(n, q, desc)
    OBVIOUS
  <2>2. Row(n, u)
    BY <1>1, <2>1, SeenRow
  <2>3. PICK e, c : Found(n, u, e, c, min, max, desc)
    BY <1>2, <2>1, RangeIsFound
  <2>4. e \in 1 .. n + 1 /\ c \in 0 .. n + 1 - e /\ range = Piece(u, e, c)
    BY <2>3 DEF Found
  <2>5. Len(range) = c
    <3>1. Lists(Piece(u, e, c), u, e, c)
      BY <1>1, <2>2, <2>4, PieceIs
    <3> QED
      BY <2>4, <3>1 DEF Lists
  <2>6. limit \in Int
    BY LimitsAssumption
  <2>7. offset = 0 \/ offset < c
    BY <1>1, <1>2, <2>4, <2>5
  <2>8. PICK in : /\ RangeByScore(min, max, offset, limit, desc) =
                         IF limit < 0 THEN in ELSE AtMost(in, limit)
                  /\ in = SubSeq(range, offset + 1, c)
    BY <2>1, <2>3, <2>6, <2>7, RangeByScoreIs
  <2> HIDE DEF range
  <2> QED
    BY <2>5, <2>8
<1> HIDE DEF range
<1> QED
  BY <1>1, <1>2 DEF FindsScores, range

\* Count counts the members of a range of scores.
LEMMA CountIs ==
    ASSUME NEW n, NEW q, NEW h, Shape(list, n, q, h), Ranked(list, n, q), Records(dict, list, n, q),
           NEW min \in BorderType, NEW max \in BorderType, Size > 0
    PROVE  Count(min, max) = Len(InRange(min, max))
<1> DEFINE all == RangeByRank(0, Size, FALSE)
           from == {i \in 1 .. Len(all) : Less(min, list.score[all[i]])}
           counted == {i \in from : \A j \in from : j <= i => Greater(max, list.score[all[j]])}
<1>1. n \in Nat /\ Row(n, q) /\ Size = n
  BY SizeIs DEF Shape, Row
<1>2. PICK a, b, c : Bounds(n, q, min, max, a, b, c)
  BY BoundsAre
<1>3. /\ a \in 1 .. n + 1 /\ b \in 1 .. n + 1 /\ c \in 0 .. n + 1 - a
      /\ c = IF a < b THEN b - a ELSE 0
      /\ \A k \in 1 .. n : Less(min, list.score[q[k]]) <=> a <= k
      /\ \A k \in 1 .. n : Greater(max, list.score[q[k]]) <=> k < b
  BY <1>2 DEF Bounds
<1>4. Len(all) = n /\ \A i \in 1 .. n : all[i] = q[i]
  <2>1. PICK desc \in BOOLEAN : desc = FALSE
    OBVIOUS
  <2>2. PICK u, start : u = Seen(n, q, desc) /\ start = 0
    OBVIOUS
  <2>3. all = Piece(q, 1, n)
    <3>1. start \in Nat /\ n \in Nat /\ start < n /\ n <= n
      BY <1>1, <2>2
    <3>2. RangeByRank(start, n, desc) = Piece(u, start + 1, n - start)
      BY <2>2, <3>1, RangeByRankIs
    <3>3. start + 1 = 1 /\ n - start = n /\ u = q
      BY <1>1, <2>1, <2>2 DEF Seen
    <3> QED
      BY <1>1, <2>1, <2>2, <3>2, <3>3
  <2>4. Lists(Piece(q, 1, n), q, 1, n)
    BY <1>1, PieceIs
  <2> HIDE DEF all
  <2>5. \A i \in 1 .. n : 1 + i - 1 = i
    OBVIOUS
  <2> QED
    BY <2>3, <2>4, <2>5 DEF Lists
<1> HIDE DEF all
<1>5. \A i \in 1 .. n : i \in from <=> a <= i
  BY <1>3, <1>4
<1>6. from \subseteq 1 .. n
  BY <1>4
<1> HIDE DEF from
<1>7. counted = a .. b - 1
  <2>1. ASSUME NEW i \in counted
        PROVE  i \in a .. b - 1
    <3>1. i \in from /\ i \in 1 .. n /\ a <= i
      BY <1>5, <1>6
    <3>2. i <= i
      BY <3>1
    <3>3. Greater(max, list.score[all[i]])
      BY <3>1, <3>2
    <3>4. i < b
      BY <1>3, <1>4, <3>1, <3>3
    <3> QED
      BY <1>3, <3>1, <3>4
  <2>2. ASSUME NEW i \in a .. b - 1
        PROVE  i \in counted
    <3>1. i \in 1 .. n /\ a <= i /\ i < b
      BY <1>1, <1>3
    <3>2. i \in from
      BY <1>5, <3>1
    <3>3. ASSUME NEW j \in from, j <= i
          PROVE  Greater(max, list.score[all[j]])
      <4>1. j \in 1 .. n /\ j < b
        BY <1>3, <1>6, <3>1, <3>3
      <4> QED
        BY <1>3, <1>4, <4>1
    <3> QED
      BY <3>2, <3>3
  <2> QED
    BY <2>1, <2>2
<1> HIDE DEF counted
<1>8. Cardinality(counted) = c
  <2>1. Cardinality(a .. b - 1) = IF a > b - 1 THEN 0 ELSE (b - 1) - a + 1
    <3>1. a \in Int /\ b - 1 \in Int
      BY <1>1, <1>3
    <3> QED
      BY <3>1, FS_Interval
  <2> QED
    BY <1>3, <1>7, <2>1
<1>9. Len(InRange(min, max)) = c
  <2>1. InRange(min, max) = Piece(q, a, c)
    BY <1>2, InRangeIs
  <2>2. Lists(Piece(q, a, c), q, a, c)
    BY <1>1, <1>3, PieceIs
  <2> QED
    BY <2>1, <2>2 DEF Lists
<1> QED
  BY <1>8, <1>9 DEF Count, counted, from, all

\* Ranks in both directions, ranges of ranks, ranges of scores with offset and limit, and
\* counts are those that a search of the sorted members would find: for any members,
\* scores, levels, borders and limits.  (the searches of skiplist.go with their spans,
\* ForEach, Count and ForEachByScore of sortedset.go)
THEOREM SetFindsAll == SetSpec => []FindsAll
<1>1. SInv => FindsAll
  <2> SUFFICES ASSUME SInv
               PROVE  FindsAll
    OBVIOUS
  <2>1. PICK n, q, h : Shape(list, n, q, h) /\ Ranked(list, n, q) /\ Records(dict, list, n, q)
    BY DEF SInv, Keeps
  <2>2. \A min, max \in Borders : min \in BorderType /\ max \in BorderType
    BY BordersAssumption DEF BorderType
  <2>3. \A desc \in BOOLEAN : FindsRanks(desc)
    BY <2>1, RanksAreFound
  <2>4. \A min, max \in Borders : Size > 0 => Count(min, max) = Len(InRange(min, max))
    BY <2>1, <2>2, CountIs
  <2>5. \A min, max \in Borders, desc \in BOOLEAN : FindsScores(min, max, desc)
    BY <2>1, <2>2, ScoresAreFound
  <2> QED
    BY <2>3, <2>4, <2>5 DEF FindsAll
<1> QED
  BY <1>1, SInvInit, SInvNext, PTL DEF SetSpec

===============================================================================
