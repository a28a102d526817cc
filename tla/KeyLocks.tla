------------------------------- MODULE KeyLocks -------------------------------
(***************************************************************************)
(* What pkg/datastruct/lock promises its callers: between RWLocks and      *)
(* RWUnLocks a goroutine has its write keys for itself and shares its read *)
(* keys with readers only, all of them taken and given back at once.  The  *)
(* stripes, their order and the hash collisions do not show.               *)
(***************************************************************************)
CONSTANTS Procs,     \* the goroutines that lock keys
          Keys       \* the keys of the database

VARIABLE granted     \* the keys each goroutine has between RWLocks and RWUnLocks

Request == [write : SUBSET Keys, read : SUBSET Keys]
Nothing == [write |-> {}, read |-> {}]

Compatible(a, b) == /\ a.write \cap (b.write \cup b.read) = {}
                    /\ b.write \cap (a.write \cup a.read) = {}

Init == granted = [p \in Procs |-> Nothing]

Grant(p, r) ==
    /\ granted[p] = Nothing
    /\ \A q \in Procs \ {p} : Compatible(r, granted[q])
    /\ granted' = [granted EXCEPT ![p] = r]

Release(p) == granted' = [granted EXCEPT ![p] = Nothing]

Next == \E p \in Procs : Release(p) \/ \E r \in Request : Grant(p, r)

Spec == Init /\ [][Next]_granted

===============================================================================
