------------------------------- MODULE MCExpiry -------------------------------
\* One name in two databases.
EXTENDS Expiry, TLC

CONSTANTS e1, e2, c1, c2, d0, d1, x

MCKeys == {[db |-> d0, name |-> x], [db |-> d1, name |-> x]}

MCSymmetry == Permutations({e1, e2}) \cup Permutations({c1, c2}) \cup Permutations({d0, d1})

===============================================================================
