------------------------------ MODULE MCSortedSet ------------------------------
\* Three members, three levels; scores on both sides of the 0 of an infinite border.
EXTENDS SortedSet

MCScores == {-1, 0, 1}

MCBorders ==
    {NegativeInf, PositiveInf} \cup
    {[inf |-> 0, value |-> v, exclude |-> x] : v \in MCScores, x \in BOOLEAN}

MCLimits == {-1, 0, 1, 2}

===============================================================================
