----------------------------- MODULE MCReplication -----------------------------
\* One replica that reconnects twice; two dumps may be started.
EXTENDS Replication, TLC

CONSTANTS r1, c1, c2, c3

MCSymmetry == Permutations({c1, c2, c3})

===============================================================================
