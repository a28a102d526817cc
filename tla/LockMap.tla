-------------------------------- MODULE LockMap --------------------------------
(***************************************************************************)
(* pkg/datastruct/lock/lock_map.go: a table of read-write mutexes that     *)
(* stripes the keys of a database.  A goroutine locks the slots of all its *)
(* keys in ascending order, in write mode where one of its write keys      *)
(* hashes to the slot and in read mode elsewhere, and releases them in     *)
(* descending order.  Lock, RLock, Locks and RLocks are RWLocks with one   *)
(* of the two key lists empty, so a single pair of operations covers them. *)
(*                                                                         *)
(* The mutexes are those of Go's sync package: a writer that waits for the *)
(* readers of a slot keeps new readers out of it, and an unlocking writer  *)
(* lets in every reader that queued behind it before the next writer.      *)
(***************************************************************************)
EXTENDS Integers

CONSTANTS
    Procs,        \* the goroutines
    Keys,         \* the keys
    Hash,         \* fnv32 of each key
    TableSize,    \* the argument of Make
    Requests,     \* the footprints goroutines lock
    NoProc        \* no goroutine

ASSUME TableAssumption == TableSize \in Nat \ {0}
ASSUME HashAssumption == Hash \in [Keys -> Nat]
ASSUME ProcAssumption == NoProc \notin Procs
ASSUME RequestAssumption == Requests \subseteq [write : SUBSET Keys, read : SUBSET Keys]

VARIABLES
    pc,           \* "idle", "locking" (granted once todo is empty), "unlocking"
    req,          \* the footprint a goroutine locked last
    todo,         \* the slots it still has to lock, or to unlock
    writer,       \* per slot: the goroutine inside Lock ... Unlock, or NoProc
    readers,      \* per slot: the goroutines that have the read lock
    blocked       \* per slot: readers that found a writer in front of them

vars == <<pc, req, todo, writer, readers, blocked>>

Slots == 0 .. TableSize - 1

\* Mutant: the hash is not reduced to the table.
SlotMutant(k) == Hash[k]

\* spread: tables are powers of two, so "& (size - 1)" is the remainder.
Slot(k) == Hash[k] % TableSize

\* toLockindices: the slots of the keys, without duplicates.
Indices(keys) == {Slot(k) : k \in keys}

Footprint(r) == Indices(r.write \cup r.read)

\* Mutant: a slot whose key is in both lists is locked for reading.
WriteSlotsMutant(r) == Indices(r.write \ r.read)

WriteSlots(r) == Indices(r.write)

\* Mutant: the slots are locked in any order.
IsFirstMutant(s, S) == s \in S

\* sort.Slice: a slot is next when it is the first of those left.
IsFirst(s, S) == s \in S /\ \A t \in S : s <= t
IsLast(s, S) == s \in S /\ \A t \in S : t <= s

TypeOK ==
    /\ pc \in [Procs -> {"idle", "locking", "unlocking"}]
    /\ req \in [Procs -> [write : SUBSET Keys, read : SUBSET Keys]]
    /\ todo \in [Procs -> SUBSET Slots]
    /\ writer \in [Slots -> Procs \cup {NoProc}]
    /\ readers \in [Slots -> SUBSET Procs]
    /\ blocked \in [Slots -> SUBSET Procs]

Init ==
    /\ pc = [p \in Procs |-> "idle"]
    /\ req = [p \in Procs |-> [write |-> {}, read |-> {}]]
    /\ todo = [p \in Procs |-> {}]
    /\ writer = [s \in Slots |-> NoProc]
    /\ readers = [s \in Slots |-> {}]
    /\ blocked = [s \in Slots |-> {}]

-------------------------------------------------------------------------------
\* A goroutine that holds all its slots runs between RWLocks and RWUnLocks.
Granted(p) == pc[p] = "locking" /\ todo[p] = {}

\* RWLocks is called and computes its slots.
RWLocks(p, r) ==
    /\ pc[p] = "idle"
    /\ pc' = [pc EXCEPT ![p] = "locking"]
    /\ req' = [req EXCEPT ![p] = r]
    /\ todo' = [todo EXCEPT ![p] = Footprint(r)]
    /\ UNCHANGED <<writer, readers, blocked>>

\* The slot the loop of RWLocks has reached, and the mode it locks it in.
Locking(p, s) == pc[p] = "locking" /\ IsFirst(s, todo[p])
LockingWrite(p, s) == Locking(p, s) /\ s \in WriteSlots(req[p])
LockingRead(p, s) == Locking(p, s) /\ s \notin WriteSlots(req[p])

\* RWMutex.Lock, first half: the writer passes the other writers and closes
\* the slot to new readers.
AnnounceWrite(p, s) ==
    /\ LockingWrite(p, s)
    /\ writer[s] = NoProc
    /\ writer' = [writer EXCEPT ![s] = p]
    /\ UNCHANGED <<pc, req, todo, readers, blocked>>

\* Mutant: a writer does not wait for the readers inside.
FinishWriteMutant(p, s) ==
    /\ LockingWrite(p, s)
    /\ writer[s] = p
    /\ todo' = [todo EXCEPT ![p] = @ \ {s}]
    /\ UNCHANGED <<pc, req, writer, readers, blocked>>

\* RWMutex.Lock, second half: the readers it found have left.
FinishWrite(p, s) ==
    /\ LockingWrite(p, s)
    /\ writer[s] = p
    /\ readers[s] = {}
    /\ todo' = [todo EXCEPT ![p] = @ \ {s}]
    /\ UNCHANGED <<pc, req, writer, readers, blocked>>

\* Mutant: readers overtake a writer that waits.
LockReadMutant(p, s) ==
    /\ LockingRead(p, s)
    /\ p \notin readers[s]
    /\ \A q \in Procs : writer[s] = q => s \in todo[q]
    /\ readers' = [readers EXCEPT ![s] = @ \cup {p}]
    /\ todo' = [todo EXCEPT ![p] = @ \ {s}]
    /\ UNCHANGED <<pc, req, writer, blocked>>

\* RWMutex.RLock with no writer in front.
LockRead(p, s) ==
    /\ LockingRead(p, s)
    /\ p \notin readers[s]
    /\ writer[s] = NoProc
    /\ readers' = [readers EXCEPT ![s] = @ \cup {p}]
    /\ todo' = [todo EXCEPT ![p] = @ \ {s}]
    /\ UNCHANGED <<pc, req, writer, blocked>>

\* RWMutex.RLock behind a writer: queue ...
QueueRead(p, s) ==
    /\ LockingRead(p, s)
    /\ p \notin readers[s] \cup blocked[s]
    /\ writer[s] # NoProc
    /\ blocked' = [blocked EXCEPT ![s] = @ \cup {p}]
    /\ UNCHANGED <<pc, req, todo, writer, readers>>

\* ... and run again after the writer has handed over the slot.
WakeRead(p, s) ==
    /\ LockingRead(p, s)
    /\ p \in readers[s]
    /\ todo' = [todo EXCEPT ![p] = @ \ {s}]
    /\ UNCHANGED <<pc, req, writer, readers, blocked>>

\* RWUnLocks is called with the footprint RWLocks was called with.
RWUnLocks(p) ==
    /\ Granted(p)
    /\ pc' = [pc EXCEPT ![p] = "unlocking"]
    /\ todo' = [todo EXCEPT ![p] = Footprint(req[p])]
    /\ UNCHANGED <<req, writer, readers, blocked>>

Unlocking(p, s) == pc[p] = "unlocking" /\ IsLast(s, todo[p])

\* Mutant: the readers queued behind the writer stay queued.
UnlockWriteMutant(p, s) ==
    /\ Unlocking(p, s)
    /\ s \in WriteSlots(req[p])
    /\ writer' = [writer EXCEPT ![s] = NoProc]
    /\ todo' = [todo EXCEPT ![p] = @ \ {s}]
    /\ UNCHANGED <<pc, req, readers, blocked>>

UnlockWrite(p, s) ==
    /\ Unlocking(p, s)
    /\ s \in WriteSlots(req[p])
    /\ writer' = [writer EXCEPT ![s] = NoProc]
    /\ readers' = [readers EXCEPT ![s] = @ \cup blocked[s]]
    /\ blocked' = [blocked EXCEPT ![s] = {}]
    /\ todo' = [todo EXCEPT ![p] = @ \ {s}]
    /\ UNCHANGED <<pc, req>>

UnlockRead(p, s) ==
    /\ Unlocking(p, s)
    /\ s \notin WriteSlots(req[p])
    /\ readers' = [readers EXCEPT ![s] = @ \ {p}]
    /\ todo' = [todo EXCEPT ![p] = @ \ {s}]
    /\ UNCHANGED <<pc, req, writer, blocked>>

UnlockDone(p) ==
    /\ pc[p] = "unlocking"
    /\ todo[p] = {}
    /\ pc' = [pc EXCEPT ![p] = "idle"]
    /\ UNCHANGED <<req, todo, writer, readers, blocked>>

\* The steps of a goroutine inside RWLocks that no other goroutine can take away.
Proceed(p) == \E s \in Slots : FinishWrite(p, s) \/ LockRead(p, s)
                               \/ QueueRead(p, s) \/ WakeRead(p, s)
Announce(p) == \E s \in Slots : AnnounceWrite(p, s)
Unlock(p) == RWUnLocks(p) \/ UnlockDone(p)
             \/ \E s \in Slots : UnlockWrite(p, s) \/ UnlockRead(p, s)

Next == \E p \in Procs : \/ \E r \in Requests : RWLocks(p, r)
                         \/ Announce(p) \/ Proceed(p) \/ Unlock(p)

Spec == Init /\ [][Next]_vars

-------------------------------------------------------------------------------
(* Safety *)

\* Two goroutines that run between RWLocks and RWUnLocks never conflict on a
\* key, whatever keys collide in the table and whatever keys a caller names in
\* both lists.
KeyExclusion ==
    \A p, q \in Procs :
        p # q /\ Granted(p) /\ Granted(q) =>
            req[p].write \cap (req[q].write \cup req[q].read) = {}

\* The slots a goroutine has inside RWLocks lie below those it still wants:
\* the order the comment on toLockindices relies on against circular waiting.
OrderedAcquisition ==
    \A p \in Procs : pc[p] = "locking" =>
        \A s \in Footprint(req[p]) \ todo[p], t \in todo[p] : s < t

\* The goroutines that must move before p can: the writer in front of it, or,
\* for a writer that is first in line, the readers still inside.
WaitsFor(p) ==
    UNION {CASE LockingWrite(p, s) /\ writer[s] = p -> readers[s]
             [] LockingWrite(p, s) /\ writer[s] \notin {p, NoProc} -> {writer[s]}
             [] LockingRead(p, s) /\ p \in blocked[s] -> {writer[s]}
             [] OTHER -> {} : s \in todo[p]}

\* Goroutines that lock keys never wait for each other in a circle: in every
\* group of them there is one that waits for nobody of the group.
NoCircularWait ==
    \A S \in (SUBSET Procs) \ {{}} : \E p \in S : WaitsFor(p) \cap S = {}

\* A writer leaves no reader queued at a slot it has left, and a slot nobody
\* uses is open: nothing is leaked by RWUnLocks.
NoLeak ==
    \A s \in Slots :
        /\ writer[s] = NoProc => blocked[s] = {}
        /\ writer[s] # NoProc => pc[writer[s]] # "idle"
        /\ \A p \in readers[s] \cup blocked[s] : pc[p] # "idle"

\* What a caller sees: the keys of a goroutine between RWLocks and RWUnLocks.
GrantedKeys == [p \in Procs |-> IF Granted(p) THEN req[p] ELSE [write |-> {}, read |-> {}]]

\* RWLocks and RWUnLocks implement locks that take and give back all the keys
\* of a request at once.
Locks == INSTANCE KeyLocks WITH granted <- GrantedKeys

\* No step lets a goroutine into its critical section next to a conflicting one.
ImplementsKeyLocks == Locks!Spec

-------------------------------------------------------------------------------
(* Liveness *)

\* Commands end, goroutines inside the lock operations are scheduled, and the
\* mutex among the writers of a slot is starvation free.
Fairness == \A p \in Procs : SF_vars(Announce(p)) /\ WF_vars(Proceed(p)) /\ WF_vars(Unlock(p))

FairSpec == Spec /\ Fairness

\* Every RWLocks returns, under any stream of competing requests.
EveryRequestGranted == \A p \in Procs : pc[p] = "locking" ~> Granted(p)

===============================================================================
