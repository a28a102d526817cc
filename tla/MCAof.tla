---------------------------------- MODULE MCAof ----------------------------------
\* Two databases with a key each, two clients, two goroutines that rewrite.
EXTENDS Aof, TLC

Symmetry == Permutations(Clients) \cup Permutations(Jobs)

===============================================================================
