------------------------------- MODULE MCLockMap -------------------------------
(* Three goroutines and three keys of which two collide in a table of two.    *)
EXTENDS LockMap, TLC

CONSTANTS p1, p2, p3, a, b, c

MCHash == a :> 4 @@ b :> 7 @@ c :> 6

F(w, r) == [write |-> w, read |-> r]

\* Crossing write/read pairs, a key in both lists, a write key that collides
\* with a read key, and a request for no key at all.
MCRequests == {F({a}, {b}), F({b}, {a}), F({c}, {a}), F({}, {b, c}), F({a}, {a, b}), F({}, {})}
===============================================================================
