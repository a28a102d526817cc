------------------------------ MODULE MCSlaveRole ------------------------------
\* Two masters and two goroutines that connect.
EXTENDS SlaveRole, TLC

CONSTANTS h1, h2, g1, g2

MCSymmetry == Permutations({h1, h2}) \cup Permutations({g1, g2})

===============================================================================
