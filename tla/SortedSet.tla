------------------------------- MODULE SortedSet -------------------------------
(***************************************************************************)
(* pkg/datastruct/sortedset/sortedset.go: a sorted set keeps its elements   *)
(* in a dictionary and in a skip list.  A state here is one between two     *)
(* commands, which the lock of their key keeps apart.  (Not so when COPY    *)
(* has given the set to a second key: commands under the two names may run  *)
(* at once, on one list without a lock.  This is not modelled.)             *)
(***************************************************************************)
EXTENDS SkipList

CONSTANTS
    Scores,
    Borders,        \* of the ranges that are asked for
    Limits          \* on their members

ASSUME ScoresAssumption == Scores \subseteq Int /\ Nil \notin Scores
ASSUME BordersAssumption ==
    Borders \subseteq [inf : {-1, 0, 1}, value : Int, exclude : BOOLEAN]

ASSUME LimitsAssumption == Limits \subseteq Int

VARIABLES
    dict,           \* the score of every member, or Nil
    list            \* the skip list

setVars == <<dict, list>>

In(m) == dict[m] # Nil
Size == Cardinality({m \in Members : In(m)})

Add(m, score, h) ==
    /\ dict' = [dict EXCEPT ![m] = score]
    /\ list' = IF ~In(m) THEN Insert(list, m, score, h)
               ELSE IF dict[m] = score THEN list
               ELSE Insert(RemoveMember(list, m, dict[m]), m, score, h)

\* Remove
Delete(m) ==
    /\ In(m)
    /\ dict' = [dict EXCEPT ![m] = Nil]
    /\ list' = RemoveMember(list, m, dict[m])

RemoveAll(range) ==
    /\ dict' = [m \in Members |-> IF m \in ToSet(range.removed) THEN Nil ELSE dict[m]]
    /\ list' = RemoveRange(list, range)

RemoveByScore(min, max) == RemoveAll(InScoreRange(list, min, max, 0))

\* PopMin: a count of 0 pops all.
PopMin(count) ==
    LET first == FirstInScoreRange(list, NegativeInf, PositiveInf)
        border == [inf |-> 0, value |-> list.score[first], exclude |-> FALSE]
    IN  first # Nil /\ RemoveAll(InScoreRange(list, border, PositiveInf, count))

RemoveByRank(start, stop) == RemoveAll(InRankRange(list, start + 1, stop + 1))

-------------------------------------------------------------------------------
(* What is read *)

Rank(m, desc) ==
    LET r == GetRank(list, m, dict[m])
    IN  IF desc THEN list.length - r ELSE r - 1

Neighbour(m, desc) == IF desc THEN list.backward[m] ELSE list.forward[m][1]

\* The nodes from m on, in one of the directions, n at most.
Onward(m, desc, n) ==
    LET node[i \in 1..n] ==
            IF i = 1 THEN m
            ELSE IF node[i - 1] = Nil THEN Nil ELSE Neighbour(node[i - 1], desc)
    IN  Until(node, Members)

\* ForEach and Range
RangeByRank(start, stop, desc) ==
    LET first == IF desc THEN IF start > 0 THEN GetByRank(list, Size - start) ELSE list.tail
                 ELSE IF start > 0 THEN GetByRank(list, start + 1)
                 ELSE list.forward[Header][1]
    IN  Onward(first, desc, stop - start)

Within(min, max, m) == Less(min, list.score[m]) /\ Greater(max, list.score[m])

\* ForEach stops behind the border.
Count(min, max) ==
    LET all == RangeByRank(0, Size, FALSE)
        from == {i \in 1..Len(all) : Less(min, list.score[all[i]])}
    IN  Cardinality({i \in from : \A j \in from : j <= i => Greater(max, list.score[all[j]])})

\* ForEachByScore and RangeByScore: the node that the offset leads to is not compared
\* with the borders.  A negative limit is none.
RangeByScore(min, max, offset, limit, desc) ==
    LET first == IF desc THEN LastInScoreRange(list, min, max)
                 ELSE FirstInScoreRange(list, min, max)
        all == Onward(first, desc, Size)
        rest == IF offset < Len(all) THEN SubSeq(all, offset + 1, Len(all)) ELSE <<>>
        in == Until(rest, {m \in Members : m = Head(rest) \/ Within(min, max, m)})
    IN  IF limit < 0 THEN in ELSE AtMost(in, limit)

-------------------------------------------------------------------------------

SetInit == dict = [m \in Members |-> Nil] /\ list = EmptyList

SetNext ==
    \/ \E m \in Members, score \in Scores, h \in Levels : Add(m, score, h)
    \/ \E m \in Members : Delete(m)
    \/ \E min, max \in Borders : RemoveByScore(min, max)
    \/ \E count \in 0..Size : PopMin(count)
    \/ \E start, stop \in 0..Size : start < stop /\ RemoveByRank(start, stop)

SetSpec == SetInit /\ [][SetNext]_setVars

-------------------------------------------------------------------------------
(* Properties *)

Comes(m, n) == dict[m] < dict[n] \/ (dict[m] = dict[n] /\ m < n)

\* Members in their order.
InOrder(S) ==
    CHOOSE q \in [1..Cardinality(S) -> S] :
        \A i, j \in 1..Cardinality(S) : i < j => Comes(q[i], q[j])

Order == InOrder({m \in Members : In(m)})

Directed(q, desc) == IF desc THEN Reverse(q) ELSE q

\* However members have come, moved and gone, the list has the members and scores of the
\* dictionary in order; every level is a part of the one below; a span is the distance in
\* the order, and the last node of a level spans what is left; backward, tail and level
\* fit.  (insert and removeNode with their spans, the removal of ranges with one update
\* for all removed nodes, a level that shrinks and grows again)
WellFormed ==
    LET order == Order
        place(n) == IF n = Header THEN 0 ELSE CHOOSE i \in 1..Size : order[i] = n
        On(i) == {n \in ToSet(order) : \E k \in {Header} \cup ToSet(order) :
                                         list.forward[k][i] = n}
    IN  /\ list.length = Size
        /\ Chain(list, list.forward[Header][1]) = order
        /\ \A i \in 1..Size :
              /\ list.score[order[i]] = dict[order[i]]
              /\ list.backward[order[i]] = IF i = 1 THEN Nil ELSE order[i - 1]
        /\ list.tail = IF Size = 0 THEN Nil ELSE order[Size]
        /\ list.level \in Levels
        /\ \A i \in Levels : i > 1 => (i <= list.level <=> \E j \in Levels : j >= i /\ On(j) # {})
        /\ \A i \in 1..list.level :
              /\ i > 1 => On(i) \subseteq On(i - 1)
              /\ \A n \in {Header} \cup On(i) :
                    LET next == list.forward[n][i]
                    IN  IF next = Nil
                        THEN /\ \A m \in On(i) : place(m) <= place(n)
                             /\ n # Header => list.span[n][i] = Size - place(n)
                        ELSE /\ list.span[n][i] = place(next) - place(n)
                             /\ \A m \in On(i) : place(m) <= place(n) \/ place(m) >= place(next)

\* hasInRange takes a range with an infinite border for empty.
Misled(min, max) ==
    /\ ~Finite(min) \/ ~Finite(max)
    /\ min.value > max.value \/ (min.value = max.value /\ (min.exclude \/ max.exclude))

\* The members of a range of scores.
InRange(min, max) ==
    InOrder({m \in Members : In(m) /\ Less(min, dict[m]) /\ Greater(max, dict[m])})

FindsRanks(desc) ==
    LET order == Directed(Order, desc)
    IN  /\ \A i \in 1..Size : Rank(order[i], desc) = i - 1
        /\ \A start, stop \in 0..Size :
              start < stop => RangeByRank(start, stop, desc) = SubSeq(order, start + 1, stop)

FindsScores(min, max, desc) ==
    LET in == Directed(InRange(min, max), desc)
    IN  \A offset \in 0..Size, limit \in Limits :
           \/ Misled(min, max)
           \/ offset > 0 /\ offset >= Len(in)
           \/ RangeByScore(min, max, offset, limit, desc) =
                 LET rest == SubSeq(in, offset + 1, Len(in))
                 IN  IF limit < 0 THEN rest ELSE AtMost(rest, limit)

\* What the shortcuts find is what a search of the sorted members would: ranks in both
\* directions, ranges of ranks, ranges of scores with offset and limit, and counts.  The
\* exceptions are ranges with an infinite border that hasInRange takes for empty, and an
\* offset behind the last member of the range.  (skiplist.go:211 and sortedset.go:153)
FindsAll ==
    /\ \A desc \in BOOLEAN : FindsRanks(desc)
    /\ \A min, max \in Borders :
          /\ Size > 0 => Count(min, max) = Len(InRange(min, max))
          /\ \A desc \in BOOLEAN : FindsScores(min, max, desc)

===============================================================================
