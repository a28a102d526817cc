------------------------------- MODULE SkipList -------------------------------
(***************************************************************************)
(* pkg/datastruct/sortedset/skiplist.go and border.go: a list of members    *)
(* with scores, in order, with shortcuts on higher levels whose spans count *)
(* the nodes they skip.                                                     *)
(*                                                                         *)
(* A list is a record: forward and span of every node on every level,       *)
(* backward, score, tail, length and level.  A member has one node at most  *)
(* and names it; members are numbers in the order of their strings, and     *)
(* the empty one, which getRank takes for the header, is none of them.  The *)
(* level of a new node is given where the program draws it.                 *)
(***************************************************************************)
EXTENDS Integers, Sequences, SequencesExt, FiniteSets

CONSTANTS Members, MaxLevel, Header, Nil

ASSUME MembersAssumption ==
    Members \subseteq Nat /\ Header \notin Members /\ Nil \notin Members /\ Nil # Header
ASSUME LevelAssumption == MaxLevel \in Nat \ {0}

Levels == 1..MaxLevel
Nodes == Members \cup {Header}

EmptyList ==
    [forward |-> [n \in Nodes |-> [i \in Levels |-> Nil]],
     span |-> [n \in Nodes |-> [i \in Levels |-> 0]],
     backward |-> [n \in Members |-> Nil],
     score |-> [n \in Members |-> 0],
     tail |-> Nil, length |-> 0, level |-> 1]

\* A node and its rank.
Places == [node : Nodes, rank : Int]

\* From a place along level i, as long as the next place is ok.
Walk(l, ok, i) ==
    LET walk[at \in Places] ==
            LET next == [node |-> l.forward[at.node][i],
                         rank |-> at.rank + l.span[at.node][i]]
            IN  IF next.node # Nil /\ next \in ok THEN walk[next] ELSE at
    IN  walk

\* Down the levels: where the walk stops on every level.
Path(l, ok) ==
    LET path[i \in 1..(MaxLevel + 1)] ==
            IF i > l.level THEN [node |-> Header, rank |-> 0]
            ELSE Walk(l, ok, i)[path[i + 1]]
    IN  path

Before(l, n, score, m) == l.score[n] < score \/ (l.score[n] = score /\ n < m)

\* The nodes from n to the end.
Chain(l, n) ==
    LET chain[m \in Members \cup {Nil}] ==
            IF m = Nil THEN <<>> ELSE <<m>> \o chain[l.forward[m][1]]
    IN  chain[n]

-------------------------------------------------------------------------------
(* Changes *)

\* Mutant: the header keeps the span it had when the list was last that high.
RaisedMutant(l, h) == l.span

\* The spans when insert has raised the list to level h.
Raised(l, h) ==
    [l.span EXCEPT ![Header] = [i \in Levels |-> IF i \in (l.level + 1)..h THEN l.length
                                                 ELSE @[i]]]

\* insert: the position, the new node on levels 1..h, its neighbours.
Insert(l, m, score, h) ==
    LET path == Path(l, {at \in Places : Before(l, at.node, score, m)})
        rank(i) == path[1].rank - path[i].rank
        top == IF h > l.level THEN h ELSE l.level
        span == Raised(l, h)
        last == path[1].node
        next == l.forward[last][1]
    IN  [forward |-> [n \in Nodes |-> [i \in Levels |->
                        IF i > h THEN IF n = m THEN Nil ELSE l.forward[n][i]
                        ELSE IF n = m THEN l.forward[path[i].node][i]
                        ELSE IF n = path[i].node THEN m
                        ELSE l.forward[n][i]]],
         span |-> [n \in Nodes |-> [i \in Levels |->
                        IF n = m THEN IF i > h THEN 0 ELSE span[path[i].node][i] - rank(i)
                        ELSE IF n # path[i].node \/ i > top THEN span[n][i]
                        ELSE IF i <= h THEN rank(i) + 1
                        ELSE span[n][i] + 1]],
         backward |-> [n \in Members |->
                        IF n = m THEN IF last = Header THEN Nil ELSE last
                        ELSE IF n = next THEN m
                        ELSE l.backward[n]],
         score |-> [l.score EXCEPT ![m] = score],
         tail |-> IF next = Nil THEN m ELSE l.tail,
         length |-> l.length + 1,
         level |-> top]

\* removeNode.  What is left of the node is cleared, as no one has it any more.
RemoveNode(l, m, path) ==
    LET at(n, i) == i <= l.level /\ n = path[i].node
        forward == [n \in Nodes |-> [i \in Levels |->
                        IF n = m THEN Nil
                        ELSE IF at(n, i) /\ l.forward[n][i] = m THEN l.forward[m][i]
                        ELSE l.forward[n][i]]]
        next == l.forward[m][1]
        used == {i \in 2..l.level : forward[Header][i] # Nil}
    IN  [forward |-> forward,
         span |-> [n \in Nodes |-> [i \in Levels |->
                        IF n = m THEN 0
                        ELSE IF ~at(n, i) THEN l.span[n][i]
                        ELSE IF l.forward[n][i] = m THEN l.span[n][i] + l.span[m][i] - 1
                        ELSE l.span[n][i] - 1]],
         backward |-> [n \in Members |-> IF n = m THEN Nil
                                         ELSE IF n = next THEN l.backward[m]
                                         ELSE l.backward[n]],
         score |-> [l.score EXCEPT ![m] = 0],
         tail |-> IF next = Nil THEN l.backward[m] ELSE l.tail,
         length |-> l.length - 1,
         level |-> IF used = {} THEN 1 ELSE CHOOSE i \in used : \A j \in used : j <= i]

\* remove
RemoveMember(l, m, score) ==
    LET path == Path(l, {at \in Places : Before(l, at.node, score, m)})
    IN  IF l.forward[path[1].node][1] = m /\ l.score[m] = score THEN RemoveNode(l, m, path)
        ELSE l

-------------------------------------------------------------------------------
(* Borders *)

Finite(b) == b.inf = 0

\* max.greater
Greater(b, v) ==
    \/ b.inf = 1
    \/ Finite(b) /\ (v < b.value \/ (v = b.value /\ ~b.exclude))

\* min.less
Less(b, v) ==
    \/ b.inf = -1
    \/ Finite(b) /\ (b.value < v \/ (v = b.value /\ ~b.exclude))

PositiveInf == [inf |-> 1, value |-> 0, exclude |-> FALSE]
NegativeInf == [inf |-> -1, value |-> 0, exclude |-> FALSE]

-------------------------------------------------------------------------------
(* Ranges *)

\* The elements before the first that is not ok.
Until(q, ok) ==
    LET good == {n \in 0..Len(q) : \A i \in 1..n : q[i] \in ok}
    IN  SubSeq(q, 1, CHOOSE n \in good : \A k \in good : k <= n)

AtMost(q, n) == IF n < Len(q) THEN SubSeq(q, 1, n) ELSE q

After(l, path) == Chain(l, l.forward[path[1].node][1])

\* RemoveRangeByScore up to its removals; a limit of 0 is none.
InScoreRange(l, min, max, limit) ==
    LET path == Path(l, {at \in Places : ~Less(min, l.score[at.node])})
        in == Until(After(l, path), {m \in Members : Greater(max, l.score[m])})
    IN  [path |-> path, removed |-> IF limit > 0 THEN AtMost(in, limit) ELSE in]

\* RemoveRangeByRank up to its removals, with ranks from 1 and without stop.
InRankRange(l, start, stop) ==
    LET path == Path(l, {at \in Places : at.rank < start})
    IN  [path |-> path, removed |-> AtMost(After(l, path), stop - path[1].rank - 1)]

\* The removal of a range, with the path for all of its nodes.
RemoveRange(l, range) ==
    LET left[n \in 0..Len(range.removed)] ==
            IF n = 0 THEN l ELSE RemoveNode(left[n - 1], range.removed[n], range.path)
    IN  left[Len(range.removed)]

\* getRank, from 1; 0 if the member is not there.
GetRank(l, m, score) ==
    LET path == Path(l, {at \in Places :
                        \/ Before(l, at.node, score, m)
                        \/ l.score[at.node] = score /\ at.node = m})
    IN  IF path[1].node = m THEN path[1].rank ELSE 0

\* getByRank
GetByRank(l, rank) ==
    LET path == Path(l, {at \in Places : at.rank <= rank})
    IN  IF path[1].rank = rank THEN path[1].node ELSE Nil

\* hasInRange: it compares the values also of infinite borders, where they are 0.
HasInRange(l, min, max) ==
    /\ min.value < max.value \/ (min.value = max.value /\ ~min.exclude /\ ~max.exclude)
    /\ l.tail # Nil /\ Less(min, l.score[l.tail])
    /\ Greater(max, l.score[l.forward[Header][1]])

\* getFirstInScoreRange
FirstInScoreRange(l, min, max) ==
    LET path == Path(l, {at \in Places : ~Less(min, l.score[at.node])})
        n == l.forward[path[1].node][1]
    IN  IF HasInRange(l, min, max) /\ Greater(max, l.score[n]) THEN n ELSE Nil

\* Mutant: a node with the score of the border is passed by, too.
LastInScoreRangeMutant(l, min, max) ==
    LET path == Path(l, {at \in Places :
                        \/ Greater(max, l.score[at.node])
                        \/ l.score[at.node] = max.value})
        n == path[1].node
    IN  IF HasInRange(l, min, max) /\ Less(min, l.score[n]) THEN n ELSE Nil

\* getLastInScoreRange
LastInScoreRange(l, min, max) ==
    LET path == Path(l, {at \in Places : Greater(max, l.score[at.node])})
        n == path[1].node
    IN  IF HasInRange(l, min, max) /\ Less(min, l.score[n]) THEN n ELSE Nil

===============================================================================
