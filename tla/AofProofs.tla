------------------------------ MODULE AofProofs ------------------------------
(***************************************************************************)
(* Theorems about Aof, for any databases, keys, clients, jobs and bounds.   *)
(*                                                                         *)
(* Load replays a file line by line; what it computes is a fact about every *)
(* length of a file, proved by induction.  The induction is one about sets  *)
(* of numbers (SetInduction), which follows from the least-number           *)
(* principle of the library.                                               *)
(***************************************************************************)
EXTENDS Aof, WellFoundedInduction, SequenceTheorems, FiniteSetTheorems, TLAPS

-------------------------------------------------------------------------------
(* Induction *)

\* A set of numbers with a member has a least one.
LEMMA LeastNumber ==
    ASSUME NEW T \in SUBSET Nat, T # {}
    PROVE  \E x \in T : \A y \in T : ~(y < x)
<1> DEFINE R == OpToRel(<, Nat)
<1>1. IsWellFoundedOn(R, Nat)
  BY NatLessThanWellFounded
<1>2. \E x \in T : \A y \in T : <<y, x>> \notin R
  BY <1>1, WFMin
<1>3. \A x, y \in Nat : y < x => <<y, x>> \in R
  BY DEF OpToRel
<1> QED
  BY <1>2, <1>3

\* A set with 0, and with the successor of each number in it, has every number.
LEMMA SetInduction ==
    ASSUME NEW S, 0 \in S, \A n \in Nat : n \in S => n + 1 \in S
    PROVE  \A n \in Nat : n \in S
<1> DEFINE T == Nat \ S
<1>1. SUFFICES ASSUME T # {} PROVE FALSE
  OBVIOUS
<1>2. PICK x \in T : \A y \in T : ~(y < x)
  BY <1>1, LeastNumber
<1>3. x - 1 \in Nat /\ x - 1 \notin T
  BY <1>2
<1> QED
  BY <1>2, <1>3

LEMMA SetInductionFrom1 ==
    ASSUME NEW S, 1 \in S, \A n \in Nat \ {0} : n \in S => n + 1 \in S
    PROVE  \A n \in Nat \ {0} : n \in S
<1> DEFINE T == {n \in Nat : n + 1 \in S}
<1>1. 0 \in T /\ \A n \in Nat : n \in T => n + 1 \in T
  OBVIOUS
<1> HIDE DEF T
<1>2. \A n \in Nat : n \in T
  BY <1>1, SetInduction
<1>3. \A n \in Nat \ {0} : n - 1 \in Nat /\ (n - 1) + 1 = n
  OBVIOUS
<1> QED
  BY <1>2, <1>3 DEF T

-------------------------------------------------------------------------------
(* Replay *)

Appends == {AppendCmd(k, v) : k \in Keys, v \in Nat}
Lines == {[db |-> d, cmd |-> <<r>>] : d \in DBs, r \in Appends}
Data == [DBs -> [Keys -> Seq(Nat)]]
State == [db : DBs, data : Data]
Empty == [db |-> 0, data |-> [d \in DBs |-> [k \in Keys |-> <<>>]]]

\* The replay of n lines of a file.
Replayed(f, n, s) == s = [i \in 0 .. n |-> IF i = 0 THEN Empty ELSE Apply(s[i - 1], f[i])]

\* The recursion of Load defines a function.
LEMMA ReplayExists ==
    ASSUME NEW f, NEW m \in Nat
    PROVE  \E s : Replayed(f, m, s)
<1> DEFINE T == {n \in Nat : \E s : Replayed(f, n, s)}
<1>1. 0 \in T
  <2> DEFINE s == [i \in 0 .. 0 |-> Empty]
  <2>1. Replayed(f, 0, s)
    BY DEF Replayed
  <2> QED
    BY <2>1
<1>2. ASSUME NEW n \in Nat, n \in T
      PROVE  n + 1 \in T
  <2>1. PICK s : Replayed(f, n, s)
    BY <1>2
  <2> DEFINE t == [i \in 0 .. n + 1 |-> IF i <= n THEN s[i] ELSE Apply(s[n], f[n + 1])]
  <2>2. Replayed(f, n + 1, t)
    <3>1. ASSUME NEW i \in 0 .. n + 1
          PROVE  t[i] = IF i = 0 THEN Empty ELSE Apply(t[i - 1], f[i])
      <4>1. CASE i = n + 1
        BY <4>1
      <4>2. CASE i <= n
        <5>1. s[i] = IF i = 0 THEN Empty ELSE Apply(s[i - 1], f[i])
          BY <2>1, <4>2 DEF Replayed
        <5>2. i # 0 => t[i - 1] = s[i - 1]
          BY <4>2
        <5> QED
          BY <4>2, <5>1, <5>2
      <4> QED
        BY <4>1, <4>2
    <3>2. t = [i \in 0 .. n + 1 |-> t[i]]
      OBVIOUS
    <3> HIDE DEF t
    <3> QED
      BY <3>1, <3>2 DEF Replayed
  <2> HIDE DEF t
  <2> QED
    BY <2>2
<1> HIDE DEF T
<1>3. m \in T
  BY <1>1, <1>2, SetInduction
<1> QED
  BY <1>3 DEF T

\* What Load takes from the replay of a file.
Steps(f) == CHOOSE s : Replayed(f, Len(f), s)

LEMMA LoadSteps ==
    ASSUME NEW f, Len(f) \in Nat
    PROVE  /\ Replayed(f, Len(f), Steps(f))
           /\ Load(f) = Steps(f)[Len(f)]
<1>1. Replayed(f, Len(f), Steps(f))
  BY ReplayExists DEF Steps
<1>2. Load(f) = Steps(f)[Len(f)]
  BY DEF Load, Steps, Replayed, Empty
<1> QED
  BY <1>1, <1>2

\* The replay, step by step.
LEMMA StepOf ==
    ASSUME NEW f, Len(f) \in Nat
    PROVE  /\ Steps(f)[0] = Empty
           /\ \A n \in 1 .. Len(f) : Steps(f)[n] = Apply(Steps(f)[n - 1], f[n])
           /\ Load(f) = Steps(f)[Len(f)]
<1>1. /\ Steps(f) = [i \in 0 .. Len(f) |-> IF i = 0 THEN Empty
                                           ELSE Apply(Steps(f)[i - 1], f[i])]
      /\ Load(f) = Steps(f)[Len(f)]
  BY LoadSteps DEF Replayed
<1> QED
  BY <1>1

\* It depends on the lines it has met only.
LEMMA SameSteps ==
    ASSUME NEW f, NEW g, Len(f) \in Nat, Len(g) \in Nat,
           NEW m \in 0 .. Len(f), m <= Len(g), \A i \in 1 .. m : f[i] = g[i]
    PROVE  \A n \in 0 .. m : Steps(f)[n] = Steps(g)[n]
<1> DEFINE T == {n \in Nat : n <= m => Steps(f)[n] = Steps(g)[n]}
<1>1. 0 \in T
  BY StepOf
<1>2. ASSUME NEW n \in Nat, n \in T
      PROVE  n + 1 \in T
  <2> SUFFICES ASSUME n + 1 <= m
               PROVE  Steps(f)[n + 1] = Steps(g)[n + 1]
    OBVIOUS
  <2>1. Steps(f)[n] = Steps(g)[n] /\ f[n + 1] = g[n + 1]
    BY <1>2
  <2>2. Steps(f)[n + 1] = Apply(Steps(f)[n], f[n + 1])
    BY StepOf
  <2>3. Steps(g)[n + 1] = Apply(Steps(g)[n], g[n + 1])
    BY StepOf
  <2> QED
    BY <2>1, <2>2, <2>3
<1> HIDE DEF T
<1>3. \A n \in Nat : n \in T
  BY <1>1, <1>2, SetInduction
<1> QED
  BY <1>3 DEF T

LEMMA LoadNothing == Load(<<>>) = Empty
BY StepOf

LEMMA LoadPrefix ==
    ASSUME NEW S, NEW f \in Seq(S), NEW n \in 0 .. Len(f)
    PROVE  Load(SubSeq(f, 1, n)) = Steps(f)[n]
<1> DEFINE g == SubSeq(f, 1, n)
<1>1. Len(g) = n /\ n \in Nat /\ Len(f) \in Nat /\ \A i \in 1 .. n : g[i] = f[i]
  OBVIOUS
<1> HIDE DEF g
<1>2. Load(g) = Steps(g)[n]
  BY <1>1, StepOf
<1>3. Steps(g)[n] = Steps(f)[n]
  BY <1>1, SameSteps, SMTT(60)
<1> QED
  BY <1>2, <1>3 DEF g

LEMMA LoadAppend ==
    ASSUME NEW S, NEW f \in Seq(S), NEW r \in S
    PROVE  Load(Append(f, r)) = Apply(Load(f), r)
<1> DEFINE g == Append(f, r)
           n == Len(f)
<1>1. Len(g) = n + 1 /\ g[n + 1] = r /\ n \in Nat /\ \A i \in 1 .. n : f[i] = g[i]
  OBVIOUS
<1> HIDE DEF g
<1>2. Load(g) = Apply(Steps(g)[n], r)
  BY <1>1, StepOf
<1>3. Steps(g)[n] = Load(f)
  <2>1. Steps(f)[n] = Steps(g)[n]
    BY <1>1, SameSteps
  <2>2. Load(f) = Steps(f)[n]
    BY StepOf
  <2> QED
    BY <2>1, <2>2
<1> QED
  BY <1>2, <1>3 DEF g

\* The state with another value of a key.
Put(s, k, v) == [db |-> s.db,
                 data |-> [d \in DBs |-> [x \in Keys |-> IF d = s.db /\ x = k THEN v
                                                         ELSE s.data[d][x]]]]

\* What a record does.
LEMMA ApplyOf ==
    ASSUME NEW s \in State, NEW r \in Record
    PROVE  /\ r.op = "select" => /\ r.db \in DBs
                                 /\ Apply(s, r) = [db |-> r.db, data |-> s.data]
           /\ r.op = "append" => /\ r.key \in Keys /\ r.val \in Seq(Nat)
                                 /\ Apply(s, r) = Put(s, r.key, s.data[s.db][r.key] \o r.val)
           /\ r.op = "set" => /\ r.key \in Keys /\ r.val \in Seq(Nat)
                              /\ Apply(s, r) = Put(s, r.key, r.val)
           /\ r.op \in {"select", "append", "set"}
<1>1. /\ r.op \in {"select", "append", "set"}
      /\ r.op = "select" => r.db \in DBs
      /\ r.op \in {"append", "set"} => r.key \in Keys /\ r.val \in Seq(Nat)
  BY DEF Record
<1>2. /\ s = [db |-> s.db, data |-> s.data]
      /\ s.data = [d \in DBs |-> [x \in Keys |-> s.data[d][x]]]
      /\ s.db \in DBs
  BY DEF State, Data
<1>3. ASSUME NEW k \in Keys, NEW v
      PROVE  [s EXCEPT !.data[s.db][k] = v] = Put(s, k, v)
  <2>1. [s EXCEPT !.data[s.db][k] = v] =
            [db |-> s.db, data |-> [s.data EXCEPT ![s.db] = [s.data[s.db] EXCEPT ![k] = v]]]
    <3> DEFINE w == [s.data EXCEPT ![s.db] = [s.data[s.db] EXCEPT ![k] = v]]
    <3>1. [s EXCEPT !.data = w] = [db |-> s.db, data |-> w]
      <4> HIDE DEF w
      <4> QED
        BY DEF State
    <3> QED
      BY <3>1
  <2>2. [s.data EXCEPT ![s.db] = [s.data[s.db] EXCEPT ![k] = v]] =
            [d \in DBs |-> [x \in Keys |-> IF d = s.db /\ x = k THEN v ELSE s.data[d][x]]]
    BY DEF State, Data
  <2> QED
    BY <2>1, <2>2 DEF Put
<1>4. CASE r.op = "select"
  <2>1. Apply(s, r) = [s EXCEPT !.db = r.db]
    BY <1>4 DEF Apply
  <2> QED
    BY <1>1, <1>2, <1>4, <2>1
<1>5. CASE r.op = "append"
  <2>1. Apply(s, r) = [s EXCEPT !.data[s.db][r.key] = s.data[s.db][r.key] \o r.val]
    BY <1>5 DEF Apply
  <2> QED
    BY <1>1, <1>3, <1>5, <2>1
<1>6. CASE r.op = "set"
  <2>1. Apply(s, r) = [s EXCEPT !.data[s.db][r.key] = r.val]
    BY <1>6 DEF Apply
  <2> QED
    BY <1>1, <1>3, <1>6, <2>1
<1> QED
  BY <1>1, <1>4, <1>5, <1>6

LEMMA PutType ==
    ASSUME NEW s \in State, NEW k \in Keys, NEW v \in Seq(Nat)
    PROVE  Put(s, k, v) \in State
BY DEF Put, State, Data

\* Records keep the types of databases.
LEMMA ApplyType ==
    ASSUME NEW s \in State, NEW r \in Record
    PROVE  Apply(s, r) \in State
<1>1. s.db \in DBs /\ s.data \in Data /\ \A k \in Keys : s.data[s.db][k] \in Seq(Nat)
  BY DEF State, Data
<1>2. CASE r.op = "select"
  BY <1>1, <1>2, ApplyOf DEF State
<1>3. CASE r.op = "append"
  <2>1. s.data[s.db][r.key] \o r.val \in Seq(Nat)
    BY <1>1, <1>3, ApplyOf, ConcatProperties
  <2> QED
    BY <1>3, <2>1, ApplyOf, PutType
<1>4. CASE r.op = "set"
  BY <1>4, ApplyOf, PutType
<1> QED
  BY <1>2, <1>3, <1>4, ApplyOf

LEMMA EmptyType == Empty \in State
BY NDBAssumption DEF Empty, State, Data, DBs

LEMMA StepsType ==
    ASSUME NEW f \in Seq(Record)
    PROVE  \A n \in 0 .. Len(f) : Steps(f)[n] \in State
<1> DEFINE T == {n \in Nat : n <= Len(f) => Steps(f)[n] \in State}
<1>1. 0 \in T
  BY StepOf, EmptyType
<1>2. ASSUME NEW n \in Nat, n \in T
      PROVE  n + 1 \in T
  <2> SUFFICES ASSUME n + 1 <= Len(f)
               PROVE  Steps(f)[n + 1] \in State
    OBVIOUS
  <2>1. Steps(f)[n] \in State /\ f[n + 1] \in Record
    BY <1>2
  <2>2. Steps(f)[n + 1] = Apply(Steps(f)[n], f[n + 1])
    BY StepOf
  <2> QED
    BY <2>1, <2>2, ApplyType
<1> HIDE DEF T
<1>3. \A n \in Nat : n \in T
  BY <1>1, <1>2, SetInduction
<1> QED
  BY <1>3 DEF T

LEMMA LoadType ==
    ASSUME NEW f \in Seq(Record)
    PROVE  Load(f) \in State
BY StepsType, StepOf

\* From two states that agree, l lines that agree.
SameFrom(f, m, g, n, l) ==
    /\ Len(f) \in Nat /\ Len(g) \in Nat /\ m \in Nat /\ n \in Nat /\ l \in Nat
    /\ m + l <= Len(f) /\ n + l <= Len(g)
    /\ \A i \in 1 .. l : f[m + i] = g[n + i]
    /\ Steps(f)[m] = Steps(g)[n]

LEMMA StepsFrom ==
    ASSUME NEW f, NEW m, NEW g, NEW n, NEW l, SameFrom(f, m, g, n, l)
    PROVE  \A i \in 0 .. l : Steps(f)[m + i] = Steps(g)[n + i]
<1> USE DEF SameFrom
<1> DEFINE T == {i \in Nat : i <= l => Steps(f)[m + i] = Steps(g)[n + i]}
<1>1. 0 \in T
  OBVIOUS
<1>2. ASSUME NEW i \in Nat, i \in T
      PROVE  i + 1 \in T
  <2> SUFFICES ASSUME i + 1 <= l
               PROVE  Steps(f)[m + (i + 1)] = Steps(g)[n + (i + 1)]
    OBVIOUS
  <2>1. Steps(f)[m + i] = Steps(g)[n + i] /\ f[m + (i + 1)] = g[n + (i + 1)]
    <3>1. i + 1 \in 1 .. l
      OBVIOUS
    <3>2. f[m + (i + 1)] = g[n + (i + 1)]
      BY <3>1
    <3> QED
      BY <1>2, <3>2
  <2>2. Steps(f)[m + (i + 1)] = Apply(Steps(f)[m + i], f[m + (i + 1)])
    <3>1. m + (i + 1) \in 1 .. Len(f) /\ (m + (i + 1)) - 1 = m + i
      OBVIOUS
    <3> QED
      BY <3>1, StepOf
  <2>3. Steps(g)[n + (i + 1)] = Apply(Steps(g)[n + i], g[n + (i + 1)])
    <3>1. n + (i + 1) \in 1 .. Len(g) /\ (n + (i + 1)) - 1 = n + i
      OBVIOUS
    <3> QED
      BY <3>1, StepOf
  <2> QED
    BY <2>1, <2>2, <2>3
<1> HIDE DEF T
<1>3. \A i \in Nat : i \in T
  BY <1>1, <1>2, SetInduction
<1> QED
  BY <1>3 DEF T

\* The replay of a longer file begins as that of the shorter one.
LEMMA StepsOfConcat ==
    ASSUME NEW S, NEW f \in Seq(S), NEW h \in Seq(S)
    PROVE  /\ \A n \in 0 .. Len(f) : Steps(f \o h)[n] = Steps(f)[n]
           /\ Len(f \o h) = Len(f) + Len(h) /\ Len(f) \in Nat /\ Len(h) \in Nat
           /\ \A i \in 1 .. Len(h) : (f \o h)[Len(f) + i] = h[i]
           /\ Load(f \o h) = Steps(f \o h)[Len(f) + Len(h)]
           /\ Load(f) = Steps(f \o h)[Len(f)]
<1> DEFINE g == f \o h
<1>1. /\ Len(g) = Len(f) + Len(h) /\ Len(f) \in Nat /\ Len(h) \in Nat
      /\ \A i \in 1 .. Len(f) : f[i] = g[i]
      /\ \A i \in 1 .. Len(h) : g[Len(f) + i] = h[i]
  OBVIOUS
<1> HIDE DEF g
<1>2. Len(g) \in Nat /\ Len(f) <= Len(g) /\ Len(f) \in 0 .. Len(f)
  BY <1>1
<1>3. \A n \in 0 .. Len(f) : Steps(f)[n] = Steps(g)[n]
  BY <1>1, <1>2, SameSteps
<1>4. Load(f) = Steps(f)[Len(f)] /\ Load(g) = Steps(g)[Len(g)]
  BY <1>1, <1>2, StepOf
<1> QED
  BY <1>1, <1>2, <1>3, <1>4 DEF g

\* Files with the same replay have it also when the same lines follow.
LEMMA LoadConcat ==
    ASSUME NEW S, NEW f \in Seq(S), NEW g \in Seq(S), NEW h \in Seq(S), Load(f) = Load(g)
    PROVE  Load(f \o h) = Load(g \o h)
<1> DEFINE F == f \o h
           G == g \o h
           m == Len(f)
           n == Len(g)
           l == Len(h)
<1>1. /\ Len(F) = m + l /\ m \in Nat /\ l \in Nat
      /\ \A i \in 1 .. l : F[m + i] = h[i]
      /\ Load(F) = Steps(F)[m + l] /\ Load(f) = Steps(F)[m]
  BY StepsOfConcat
<1>2. /\ Len(G) = n + l /\ n \in Nat
      /\ \A i \in 1 .. l : G[n + i] = h[i]
      /\ Load(G) = Steps(G)[n + l] /\ Load(g) = Steps(G)[n]
  BY StepsOfConcat
<1> HIDE DEF F, G, m, n, l
<1>3. Steps(F)[m] = Steps(G)[n]
  BY <1>1, <1>2
<1>4. \A i \in 1 .. l : F[m + i] = G[n + i]
  BY <1>1, <1>2
<1>5. Len(F) \in Nat /\ Len(G) \in Nat /\ m + l <= Len(F) /\ n + l <= Len(G)
  BY <1>1, <1>2
<1>6. SameFrom(F, m, G, n, l)
  BY <1>1, <1>2, <1>3, <1>4, <1>5 DEF SameFrom
<1>7. \A i \in 0 .. l : Steps(F)[m + i] = Steps(G)[n + i]
  BY <1>6, StepsFrom
<1>8. l \in 0 .. l
  BY <1>1
<1>9. Load(F) = Load(G)
  BY <1>1, <1>2, <1>7, <1>8
<1> QED
  BY <1>9 DEF F, G

-------------------------------------------------------------------------------
(* Prefixes *)

LEMMA PrefixIs ==
    ASSUME NEW S, NEW s \in Seq(S), NEW t \in Seq(S)
    PROVE  IsPrefix(s, t) <=> Len(s) <= Len(t) /\ \A i \in 1 .. Len(s) : s[i] = t[i]
<1>1. CASE Len(s) <= Len(t)
  <2>1. /\ SubSeq(s, 1, Len(s)) = s
        /\ Len(SubSeq(t, 1, Len(s))) = Len(s)
        /\ \A i \in 1 .. Len(s) : SubSeq(t, 1, Len(s))[i] = t[i]
        /\ SubSeq(t, 1, Len(s)) \in Seq(S)
    BY <1>1
  <2>2. s = SubSeq(t, 1, Len(s)) <=> \A i \in 1 .. Len(s) : s[i] = t[i]
    BY <2>1, SeqEqual
  <2> QED
    BY <1>1, <2>1, <2>2 DEF IsPrefix
<1>2. CASE ~(Len(s) <= Len(t))
  BY <1>2 DEF IsPrefix
<1> QED
  BY <1>1, <1>2

LEMMA PrefixFacts ==
    ASSUME NEW S, NEW s \in Seq(S), NEW t \in Seq(S)
    PROVE  /\ IsPrefix(s, s)
           /\ IsPrefix(<<>>, s)
           /\ IsPrefix(s, s \o t)
           /\ IsPrefix(s, t) /\ Len(s) = Len(t) => s = t
<1>1. <<>> \in Seq(S) /\ s \o t \in Seq(S)
  OBVIOUS
<1>2. Len(s) <= Len(s \o t) /\ \A i \in 1 .. Len(s) : s[i] = (s \o t)[i]
  OBVIOUS
<1>3. IsPrefix(s, t) /\ Len(s) = Len(t) => s = t
  BY PrefixIs, SeqEqual
<1>4. IsPrefix(s, s \o t)
  BY <1>1, <1>2, PrefixIs
<1>5. Len(<<>>) = 0 /\ Len(s) \in Nat
  OBVIOUS
<1>6. IsPrefix(s, s)
  BY <1>5, PrefixIs
<1>7. IsPrefix(<<>>, s)
  <2>1. 0 <= Len(s) /\ \A i \in 1 .. 0 : <<>>[i] = s[i]
    BY <1>5
  <2> QED
    BY <1>1, <1>5, <2>1, PrefixIs
<1> QED
  BY <1>3, <1>4, <1>6, <1>7

LEMMA PrefixTransitive ==
    ASSUME NEW S, NEW s \in Seq(S), NEW t \in Seq(S), NEW u \in Seq(S),
           IsPrefix(s, t), IsPrefix(t, u)
    PROVE  IsPrefix(s, u)
<1>1. /\ Len(s) <= Len(t) /\ \A i \in 1 .. Len(s) : s[i] = t[i]
      /\ Len(t) <= Len(u) /\ \A i \in 1 .. Len(t) : t[i] = u[i]
  BY PrefixIs
<1>2. Len(s) <= Len(u) /\ \A i \in 1 .. Len(s) : s[i] = u[i]
  BY <1>1
<1> QED
  BY <1>2, PrefixIs

\* One state is a past of the other, key by key.
Below(s, t) == \A d \in DBs, k \in Keys : IsPrefix(s.data[d][k], t.data[d][k])

LEMMA ValueType ==
    ASSUME NEW s \in State, NEW d \in DBs, NEW k \in Keys
    PROVE  s.data[d][k] \in Seq(Nat)
BY DEF State, Data

LEMMA BelowSelf ==
    ASSUME NEW s \in State
    PROVE  Below(s, s) /\ Below(Empty, s)
<1>1. \A d \in DBs, k \in Keys : Empty.data[d][k] = <<>>
  BY DEF Empty
<1> QED
  BY <1>1, ValueType, PrefixFacts DEF Below

LEMMA BelowTransitive ==
    ASSUME NEW s \in State, NEW t \in State, NEW u \in State, Below(s, t), Below(t, u)
    PROVE  Below(s, u)
BY ValueType, PrefixTransitive DEF Below

\* No line of the file takes anything away.
Grows(f) == \A n \in 1 .. Len(f) : Below(Steps(f)[n - 1], Steps(f)[n])

LEMMA GrowsBelow ==
    ASSUME NEW f \in Seq(Record), Grows(f), NEW m \in 0 .. Len(f)
    PROVE  \A n \in m .. Len(f) : Below(Steps(f)[m], Steps(f)[n])
<1> DEFINE T == {i \in Nat : m + i <= Len(f) => Below(Steps(f)[m], Steps(f)[m + i])}
<1>1. 0 \in T
  BY StepsType, BelowSelf
<1>2. ASSUME NEW i \in Nat, i \in T
      PROVE  i + 1 \in T
  <2> SUFFICES ASSUME m + (i + 1) <= Len(f)
               PROVE  Below(Steps(f)[m], Steps(f)[m + (i + 1)])
    OBVIOUS
  <2>1. Below(Steps(f)[m], Steps(f)[m + i])
    BY <1>2
  <2>2. m + (i + 1) \in 1 .. Len(f) /\ (m + (i + 1)) - 1 = m + i
    OBVIOUS
  <2>3. Below(Steps(f)[m + i], Steps(f)[m + (i + 1)])
    BY <2>2 DEF Grows
  <2>4. /\ Steps(f)[m] \in State /\ Steps(f)[m + i] \in State
        /\ Steps(f)[m + (i + 1)] \in State
    BY StepsType
  <2> QED
    BY <2>1, <2>3, <2>4, BelowTransitive
<1> HIDE DEF T
<1>3. \A i \in Nat : i \in T
  BY <1>1, <1>2, SetInduction
<1>4. ASSUME NEW n \in m .. Len(f)
      PROVE  Below(Steps(f)[m], Steps(f)[n])
  <2>1. n - m \in Nat /\ m + (n - m) = n
    OBVIOUS
  <2> QED
    BY <1>3, <2>1 DEF T
<1> QED
  BY <1>4

LEMMA GrowsAppend ==
    ASSUME NEW f \in Seq(Record), Grows(f), NEW r \in Record,
           Below(Load(f), Apply(Load(f), r))
    PROVE  Append(f, r) \in Seq(Record) /\ Grows(Append(f, r))
<1> DEFINE g == Append(f, r)
           n == Len(f)
<1>1. Len(g) = n + 1 /\ g[n + 1] = r /\ n \in Nat /\ \A i \in 1 .. n : f[i] = g[i]
  OBVIOUS
<1>2. g \in Seq(Record)
  OBVIOUS
<1> HIDE DEF g
<1>3. \A i \in 0 .. n : Steps(f)[i] = Steps(g)[i]
  BY <1>1, SameSteps
<1>4. Steps(g)[n] = Load(f) /\ Steps(g)[n + 1] = Apply(Load(f), r)
  <2>1. Load(f) = Steps(f)[n] /\ n \in 0 .. n
    BY <1>1, StepOf
  <2>2. Steps(g)[n] = Load(f)
    BY <1>3, <2>1
  <2>3. Len(g) \in Nat /\ n + 1 \in 1 .. Len(g) /\ (n + 1) - 1 = n
    BY <1>1
  <2>4. Steps(g)[n + 1] = Apply(Steps(g)[(n + 1) - 1], g[n + 1])
    BY <2>3, StepOf
  <2> QED
    BY <1>1, <2>2, <2>3, <2>4
<1>5. ASSUME NEW i \in 1 .. Len(g)
      PROVE  Below(Steps(g)[i - 1], Steps(g)[i])
  <2>1. CASE i \in 1 .. n
    <3>1. Below(Steps(f)[i - 1], Steps(f)[i])
      BY <2>1 DEF Grows
    <3> QED
      BY <1>1, <1>3, <2>1, <3>1
  <2>2. CASE i = n + 1
    <3>1. i - 1 = n
      BY <1>1, <2>2
    <3> QED
      BY <1>4, <2>2, <3>1
  <2> QED
    BY <1>1, <2>1, <2>2
<1> QED
  BY <1>2, <1>5 DEF Grows, g

\* Lines that only add to a state only add to one that agrees with it.
LEMMA GrowsConcat ==
    ASSUME NEW f \in Seq(Record), NEW g \in Seq(Record), NEW h \in Seq(Record),
           Load(f) = Load(g), Grows(f), Grows(g \o h)
    PROVE  Grows(f \o h)
<1> DEFINE F == f \o h
           G == g \o h
           m == Len(f)
           n == Len(g)
           l == Len(h)
<1>1. /\ Len(F) = m + l /\ m \in Nat /\ l \in Nat
      /\ \A i \in 1 .. l : F[m + i] = h[i]
      /\ \A i \in 0 .. m : Steps(F)[i] = Steps(f)[i]
      /\ Load(f) = Steps(F)[m]
  BY StepsOfConcat
<1>2. /\ Len(G) = n + l /\ n \in Nat
      /\ \A i \in 1 .. l : G[n + i] = h[i]
      /\ Load(g) = Steps(G)[n]
  BY StepsOfConcat
<1>3. Grows(G)
  OBVIOUS
<1> HIDE DEF F, G, m, n, l
<1>4. SameFrom(F, m, G, n, l)
  <2>1. Steps(F)[m] = Steps(G)[n]
    BY <1>1, <1>2
  <2>2. \A i \in 1 .. l : F[m + i] = G[n + i]
    BY <1>1, <1>2
  <2>3. Len(F) \in Nat /\ Len(G) \in Nat /\ m + l <= Len(F) /\ n + l <= Len(G)
    BY <1>1, <1>2
  <2> QED
    BY <1>1, <1>2, <2>1, <2>2, <2>3 DEF SameFrom
<1>5. \A i \in 0 .. l : Steps(F)[m + i] = Steps(G)[n + i]
  BY <1>4, StepsFrom
<1>6. ASSUME NEW i \in 1 .. Len(F)
      PROVE  Below(Steps(F)[i - 1], Steps(F)[i])
  <2>1. CASE i <= m
    <3>1. Below(Steps(f)[i - 1], Steps(f)[i])
      BY <2>1, <1>1 DEF Grows, m
    <3>2. Steps(F)[i - 1] = Steps(f)[i - 1] /\ Steps(F)[i] = Steps(f)[i]
      BY <1>1, <2>1
    <3> QED
      BY <3>1, <3>2
  <2>2. CASE ~(i <= m)
    <3>1. PICK x \in 1 .. l : i = m + x
      <4>1. i - m \in 1 .. l /\ i = m + (i - m)
        BY <1>1, <2>2
      <4> QED
        BY <4>1
    <3>2. n + x \in 1 .. Len(G) /\ (n + x) - 1 = n + (x - 1)
      BY <1>1, <1>2
    <3>3. Below(Steps(G)[n + (x - 1)], Steps(G)[n + x])
      BY <1>3, <3>2 DEF Grows
    <3>4. Steps(F)[m + (x - 1)] = Steps(G)[n + (x - 1)] /\ Steps(F)[m + x] = Steps(G)[n + x]
      BY <1>1, <1>5
    <3>5. i - 1 = m + (x - 1)
      BY <1>1, <3>1
    <3> QED
      BY <3>1, <3>3, <3>4, <3>5
  <2> QED
    BY <2>1, <2>2
<1> QED
  BY <1>6 DEF Grows, F

LEMMA GrowsPrefix ==
    ASSUME NEW f \in Seq(Record), Grows(f), NEW n \in 0 .. Len(f)
    PROVE  SubSeq(f, 1, n) \in Seq(Record) /\ Grows(SubSeq(f, 1, n))
<1> DEFINE g == SubSeq(f, 1, n)
<1>1. /\ g \in Seq(Record) /\ Len(g) = n /\ n \in Nat /\ Len(f) \in Nat
      /\ \A i \in 1 .. n : g[i] = f[i]
  OBVIOUS
<1> HIDE DEF g
<1>2. \A i \in 0 .. n : Steps(g)[i] = Steps(f)[i]
  <2>1. n \in 0 .. Len(g) /\ n <= Len(f) /\ Len(g) \in Nat
    BY <1>1
  <2> QED
    BY <1>1, <2>1, SameSteps
<1>3. ASSUME NEW i \in 1 .. n
      PROVE  Below(Steps(g)[i - 1], Steps(g)[i])
  <2>1. Below(Steps(f)[i - 1], Steps(f)[i])
    BY DEF Grows
  <2> QED
    BY <1>2, <2>1
<1> QED
  BY <1>1, <1>3 DEF Grows, g

-------------------------------------------------------------------------------
(* FlattenSeq, whose definition is a recursive function *)

Flattened(ss, n, f) == f = [i \in 1 .. n |-> IF i = 1 THEN ss[i] ELSE f[i - 1] \o ss[i]]

LEMMA FlattenedExists ==
    ASSUME NEW ss, NEW m \in Nat
    PROVE  \E f : Flattened(ss, m, f)
<1> DEFINE T == {n \in Nat : \E f : Flattened(ss, n, f)}
<1>1. 0 \in T
  <2> DEFINE f == [i \in 1 .. 0 |-> ss[i]]
  <2>1. Flattened(ss, 0, f)
    BY DEF Flattened
  <2> QED
    BY <2>1
<1>2. ASSUME NEW n \in Nat, n \in T
      PROVE  n + 1 \in T
  <2>1. PICK f : Flattened(ss, n, f)
    BY <1>2
  <2> DEFINE g == [i \in 1 .. n + 1 |-> IF i <= n THEN f[i]
                                        ELSE IF i = 1 THEN ss[i] ELSE f[n] \o ss[i]]
  <2>2. Flattened(ss, n + 1, g)
    <3>1. ASSUME NEW i \in 1 .. n + 1
          PROVE  g[i] = IF i = 1 THEN ss[i] ELSE g[i - 1] \o ss[i]
      <4>1. CASE i = n + 1
        BY <4>1
      <4>2. CASE i <= n
        <5>1. f[i] = IF i = 1 THEN ss[i] ELSE f[i - 1] \o ss[i]
          <6>1. i \in 1 .. n
            BY <4>2
          <6>2. f = [x \in 1 .. n |-> IF x = 1 THEN ss[x] ELSE f[x - 1] \o ss[x]]
            BY <2>1 DEF Flattened
          <6> QED
            BY <6>1, <6>2
        <5>2. i # 1 => g[i - 1] = f[i - 1]
          BY <4>2
        <5> QED
          BY <4>2, <5>1, <5>2
      <4> QED
        BY <4>1, <4>2
    <3>2. g = [i \in 1 .. n + 1 |-> g[i]]
      OBVIOUS
    <3> HIDE DEF g
    <3> QED
      BY <3>1, <3>2 DEF Flattened
  <2> HIDE DEF g
  <2> QED
    BY <2>2
<1> HIDE DEF T
<1>3. m \in T
  BY <1>1, <1>2, SetInduction
<1> QED
  BY <1>3 DEF T

Flats(ss) == CHOOSE f : Flattened(ss, Len(ss), f)

LEMMA FlattenSteps ==
    ASSUME NEW ss, Len(ss) \in Nat \ {0}
    PROVE  /\ Flats(ss)[1] = ss[1]
           /\ FlattenSeq(ss) = Flats(ss)[Len(ss)]
           /\ \A n \in 1 .. Len(ss) - 1 : Flats(ss)[n + 1] = Flats(ss)[n] \o ss[n + 1]
<1>1. Flattened(ss, Len(ss), Flats(ss))
  BY FlattenedExists DEF Flats
<1>2. FlattenSeq(ss) = Flats(ss)[Len(ss)]
  BY DEF FlattenSeq, Flats, Flattened
<1>3. Flats(ss) = [i \in 1 .. Len(ss) |-> IF i = 1 THEN ss[i] ELSE Flats(ss)[i - 1] \o ss[i]]
  BY <1>1 DEF Flattened
<1>4. \A n \in 1 .. Len(ss) : Flats(ss)[n] = IF n = 1 THEN ss[n] ELSE Flats(ss)[n - 1] \o ss[n]
  BY <1>3
<1>5. \A n \in 1 .. Len(ss) - 1 : n + 1 \in 1 .. Len(ss) /\ n + 1 # 1 /\ (n + 1) - 1 = n
  OBVIOUS
<1>6. 1 \in 1 .. Len(ss)
  OBVIOUS
<1> QED
  BY <1>2, <1>4, <1>5, <1>6

LEMMA FlattenNothing ==
    ASSUME NEW ss, Len(ss) = 0
    PROVE  FlattenSeq(ss) = ss
BY DEF FlattenSeq

LEMMA FlatsType ==
    ASSUME NEW S, NEW ss \in Seq(Seq(S)), ss # <<>>
    PROVE  /\ \A n \in 1 .. Len(ss) : Flats(ss)[n] \in Seq(S)
           /\ FlattenSeq(ss) \in Seq(S)
<1> DEFINE T == {n \in Nat : n <= Len(ss) => Flats(ss)[n] \in Seq(S)}
<1>1. Len(ss) \in Nat \ {0} /\ \A n \in 1 .. Len(ss) : ss[n] \in Seq(S)
  OBVIOUS
<1>2. 1 \in T
  <2>1. Flats(ss)[1] = ss[1]
    BY <1>1, FlattenSteps
  <2> QED
    BY <1>1, <2>1
<1>3. ASSUME NEW n \in Nat \ {0}, n \in T
      PROVE  n + 1 \in T
  <2> SUFFICES ASSUME n + 1 <= Len(ss)
               PROVE  Flats(ss)[n + 1] \in Seq(S)
    OBVIOUS
  <2>1. Flats(ss)[n] \in Seq(S) /\ ss[n + 1] \in Seq(S) /\ n \in 1 .. Len(ss) - 1
    BY <1>1, <1>3
  <2>2. Flats(ss)[n + 1] = Flats(ss)[n] \o ss[n + 1]
    BY <1>1, <2>1, FlattenSteps
  <2> QED
    BY <2>1, <2>2, ConcatProperties
<1> HIDE DEF T
<1>4. \A n \in Nat \ {0} : n \in T
  BY <1>2, <1>3, SetInductionFrom1
<1>5. \A n \in 1 .. Len(ss) : Flats(ss)[n] \in Seq(S)
  BY <1>1, <1>4 DEF T
<1>6. FlattenSeq(ss) \in Seq(S)
  <2>1. FlattenSeq(ss) = Flats(ss)[Len(ss)]
    BY <1>1, FlattenSteps
  <2>2. Len(ss) \in 1 .. Len(ss)
    BY <1>1
  <2> QED
    BY <1>5, <2>1, <2>2
<1> QED
  BY <1>5, <1>6

LEMMA FlattenType ==
    ASSUME NEW S, NEW ss \in Seq(Seq(S))
    PROVE  FlattenSeq(ss) \in Seq(S)
<1>1. CASE ss = <<>>
  <2>1. Len(ss) = 0 /\ ss \in Seq(S)
    BY <1>1
  <2> QED
    BY <2>1, FlattenNothing
<1>2. CASE ss # <<>>
  BY <1>2, FlatsType
<1> QED
  BY <1>1, <1>2

LEMMA FlattenAppend ==
    ASSUME NEW S, NEW ss \in Seq(Seq(S)), NEW s \in Seq(S)
    PROVE  FlattenSeq(Append(ss, s)) = FlattenSeq(ss) \o s
<1> DEFINE g == Append(ss, s)
           n == Len(ss)
<1>1. /\ Len(g) = n + 1 /\ g[n + 1] = s /\ n \in Nat
      /\ \A i \in 1 .. n : g[i] = ss[i]
  OBVIOUS
<1> HIDE DEF g, n
<1>2. Len(g) \in Nat \ {0} /\ Len(ss) = n
  BY <1>1 DEF n
<1>3. FlattenSeq(g) = Flats(g)[n + 1]
  BY <1>1, <1>2, FlattenSteps
<1>4. CASE n = 0
  <2>1. ss = <<>>
    BY <1>4 DEF n
  <2>2. FlattenSeq(ss) = ss
    BY <1>2, <1>4, FlattenNothing
  <2>3. FlattenSeq(g) = s
    <3>1. Flats(g)[1] = g[1]
      BY <1>2, FlattenSteps
    <3> QED
      BY <1>1, <1>3, <1>4, <3>1
  <2> QED
    BY <2>1, <2>2, <2>3, ConcatEmptySeq DEF g
<1>5. CASE n # 0
  <2> DEFINE T == {i \in Nat : i <= n => Flats(g)[i] = Flats(ss)[i]}
  <2>0. Len(ss) \in Nat \ {0}
    BY <1>1, <1>2, <1>5
  <2>1. 1 \in T
    <3>1. Flats(g)[1] = g[1] /\ Flats(ss)[1] = ss[1]
      BY <1>2, <2>0, FlattenSteps
    <3>2. g[1] = ss[1]
      BY <1>1, <1>5
    <3> QED
      BY <3>1, <3>2
  <2>2. ASSUME NEW i \in Nat \ {0}, i \in T
        PROVE  i + 1 \in T
    <3> SUFFICES ASSUME i + 1 <= n
                 PROVE  Flats(g)[i + 1] = Flats(ss)[i + 1]
      OBVIOUS
    <3>1. /\ i \in 1 .. Len(g) - 1 /\ i \in 1 .. Len(ss) - 1 /\ i + 1 \in 1 .. n /\ i <= n
      BY <1>1, <1>2
    <3>2. Flats(g)[i + 1] = Flats(g)[i] \o g[i + 1]
      BY <1>2, <3>1, FlattenSteps
    <3>3. Flats(ss)[i + 1] = Flats(ss)[i] \o ss[i + 1]
      BY <2>0, <3>1, FlattenSteps
    <3>4. Flats(g)[i] = Flats(ss)[i] /\ g[i + 1] = ss[i + 1]
      BY <1>1, <2>2, <3>1
    <3> QED
      BY <3>2, <3>3, <3>4
  <2> HIDE DEF T
  <2>3. \A i \in Nat \ {0} : i \in T
    BY <2>1, <2>2, SetInductionFrom1
  <2>4. Flats(g)[n] = Flats(ss)[n]
    BY <1>1, <1>5, <2>3 DEF T
  <2>5. Flats(g)[n + 1] = Flats(g)[n] \o g[n + 1]
    <3>1. n \in 1 .. Len(g) - 1
      BY <1>1, <1>5
    <3> QED
      BY <1>2, <3>1, FlattenSteps
  <2>6. FlattenSeq(ss) = Flats(ss)[n]
    BY <1>2, <2>0, FlattenSteps
  <2> QED
    BY <1>1, <1>3, <2>4, <2>5, <2>6 DEF g
<1> QED
  BY <1>4, <1>5

LEMMA FlattenHeadTail ==
    ASSUME NEW S, NEW ss \in Seq(Seq(S)), ss # <<>>
    PROVE  FlattenSeq(ss) = ss[1] \o FlattenSeq(Tail(ss))
<1> DEFINE t == Tail(ss)
           n == Len(ss)
<1>1. /\ Len(t) = n - 1 /\ n \in Nat \ {0} /\ t \in Seq(Seq(S))
      /\ \A i \in 1 .. n - 1 : t[i] = ss[i + 1]
      /\ \A i \in 1 .. n : ss[i] \in Seq(S)
  OBVIOUS
<1> HIDE DEF t, n
<1>2. Len(ss) \in Nat \ {0} /\ Len(ss) = n
  BY <1>1 DEF n
<1>3. FlattenSeq(ss) = Flats(ss)[n] /\ Flats(ss)[1] = ss[1]
  BY <1>2, FlattenSteps
<1>4. CASE n = 1
  <2>1. t = <<>> /\ Len(t) = 0 /\ ss[1] \in Seq(S)
    BY <1>1, <1>4
  <2>2. FlattenSeq(t) = t
    BY <2>1, FlattenNothing
  <2>3. ss[1] \o t = ss[1]
    BY <2>1, ConcatEmptySeq
  <2> QED
    BY <1>3, <1>4, <2>2, <2>3 DEF t
<1>5. CASE n # 1
  <2> DEFINE T == {i \in Nat : i <= n - 1 => Flats(ss)[i + 1] = ss[1] \o Flats(t)[i]}
  <2>0. Len(t) \in Nat \ {0} /\ t # <<>>
    <3>1. Len(t) \in Nat \ {0}
      BY <1>1, <1>5
    <3> QED
      BY <3>1
  <2>1. 1 \in T
    <3>1. Flats(t)[1] = t[1]
      BY <2>0, FlattenSteps
    <3>2. 1 \in 1 .. Len(ss) - 1 /\ t[1] = ss[1 + 1]
      BY <1>1, <1>2, <1>5
    <3>3. Flats(ss)[1 + 1] = Flats(ss)[1] \o ss[1 + 1]
      BY <1>2, <3>2, FlattenSteps
    <3> QED
      BY <1>3, <3>1, <3>2, <3>3
  <2>2. ASSUME NEW i \in Nat \ {0}, i \in T
        PROVE  i + 1 \in T
    <3>0. i + 1 \in Nat
      OBVIOUS
    <3> SUFFICES ASSUME i + 1 <= n - 1
                 PROVE  Flats(ss)[(i + 1) + 1] = ss[1] \o Flats(t)[i + 1]
      BY <3>0, Zenon
    <3>1. /\ i \in 1 .. Len(t) - 1 /\ i + 1 \in 1 .. Len(ss) - 1
          /\ i \in 1 .. Len(t) /\ (i + 1) + 1 \in 1 .. n /\ i + 1 \in 1 .. n - 1 /\ 1 \in 1 .. n
      BY <1>1, <1>2
    <3>2. Flats(ss)[i + 1] = ss[1] \o Flats(t)[i]
      <4>1. i <= n - 1
        BY <1>1
      <4> QED
        BY <2>2, <4>1
    <3>3. Flats(ss)[(i + 1) + 1] = Flats(ss)[i + 1] \o ss[(i + 1) + 1]
      BY <1>2, <3>1, FlattenSteps
    <3>4. Flats(t)[i + 1] = Flats(t)[i] \o t[i + 1]
      BY <2>0, <3>1, FlattenSteps
    <3>5. Flats(t)[i] \in Seq(S) /\ ss[1] \in Seq(S) /\ t[i + 1] \in Seq(S)
      <4>1. Flats(t)[i] \in Seq(S)
        BY <1>1, <2>0, <3>1, FlatsType
      <4> QED
        BY <1>1, <3>1, <4>1
    <3>6. t[i + 1] = ss[(i + 1) + 1]
      BY <1>1, <3>1
    <3> DEFINE x == ss[1]
               y == Flats(t)[i]
               z == t[i + 1]
    <3>7. (x \o y) \o z = x \o (y \o z)
      <4> HIDE DEF x, y, z
      <4>1. x \in Seq(S) /\ y \in Seq(S) /\ z \in Seq(S)
        BY <3>5 DEF x, y, z
      <4> QED
        BY ONLY <4>1, ConcatAssociative, SMTT(60)
    <3> QED
      BY <3>2, <3>3, <3>4, <3>6, <3>7
  <2> HIDE DEF T
  <2>3. \A i \in Nat \ {0} : i \in T
    BY <2>1, <2>2, SetInductionFrom1
  <2>4. Flats(ss)[n] = ss[1] \o Flats(t)[n - 1]
    <3>1. n - 1 \in Nat \ {0} /\ (n - 1) + 1 = n /\ n - 1 <= n - 1
      BY <1>1, <1>5
    <3>2. n - 1 \in T
      BY <2>3, <3>1
    <3>3. Flats(ss)[(n - 1) + 1] = ss[1] \o Flats(t)[n - 1]
      BY <3>1, <3>2 DEF T
    <3> QED
      BY <3>1, <3>3
  <2>5. FlattenSeq(t) = Flats(t)[n - 1]
    BY <1>1, <2>0, FlattenSteps
  <2> QED
    BY <1>3, <2>4, <2>5 DEF t
<1> QED
  BY <1>4, <1>5

-------------------------------------------------------------------------------
(* Lines on their way to the file *)

\* A line and the SELECT before it.
Piece(p) == <<Select(p.db)>> \o p.cmd

LEMMA LineType ==
    ASSUME NEW p \in Lines
    PROVE  /\ p.db \in DBs /\ p.cmd \in Seq(Record) /\ p \in Line
           /\ \E r \in Appends : p.cmd = <<r>>
           /\ <<Select(p.db)>> \in Seq(Record) /\ Piece(p) \in Seq(Record)
<1>1. ASSUME NEW r \in Appends
      PROVE  r \in Record
  <2>1. PICK k \in Keys, v \in Nat : r = [op |-> "append", key |-> k, val |-> <<v>>]
    BY DEF Appends, AppendCmd
  <2>2. <<v>> \in Seq(Nat)
    OBVIOUS
  <2> QED
    BY <2>1, <2>2 DEF Record
<1>2. p.db \in DBs /\ \E r \in Appends : p.cmd = <<r>> /\ p = [db |-> p.db, cmd |-> <<r>>]
  BY DEF Lines
<1>3. Select(p.db) \in Record
  BY <1>2 DEF Select, Record
<1>4. p.cmd \in Seq(Record)
  BY <1>1, <1>2
<1>5. <<Select(p.db)>> \in Seq(Record) /\ Piece(p) \in Seq(Record)
  BY <1>3, <1>4, ConcatProperties DEF Piece
<1> QED
  BY <1>2, <1>4, <1>5 DEF Line

LEMMA WrittenType ==
    ASSUME NEW q \in Seq(Lines)
    PROVE  /\ Written(q) \in Seq(Record)
           /\ [i \in DOMAIN q |-> Piece(q[i])] \in Seq(Seq(Record))
           /\ Len([i \in DOMAIN q |-> Piece(q[i])]) = Len(q)
           /\ Written(q) = FlattenSeq([i \in DOMAIN q |-> Piece(q[i])])
<1> DEFINE ss == [i \in DOMAIN q |-> Piece(q[i])]
<1>1. DOMAIN q = 1 .. Len(q) /\ Len(q) \in Nat /\ \A i \in 1 .. Len(q) : q[i] \in Lines
  OBVIOUS
<1>2. \A i \in 1 .. Len(q) : Piece(q[i]) \in Seq(Record)
  BY <1>1, LineType
<1>3. ss \in Seq(Seq(Record)) /\ Len(ss) = Len(q)
  BY <1>1, <1>2
<1>4. Written(q) = FlattenSeq(ss)
  BY DEF Written, Piece
<1> HIDE DEF ss
<1>5. Written(q) \in Seq(Record)
  BY <1>3, <1>4, FlattenType
<1> QED
  BY <1>3, <1>4, <1>5 DEF ss

LEMMA WrittenNothing == Written(<<>>) = <<>>
<1> DEFINE q == <<>>
           ss == [i \in DOMAIN q |-> Piece(q[i])]
<1>1. q \in Seq(Lines) /\ Len(q) = 0
  OBVIOUS
<1> HIDE DEF q
<1>2. ss \in Seq(Seq(Record)) /\ Len(ss) = 0 /\ Written(q) = FlattenSeq(ss)
  BY <1>1, WrittenType
<1> HIDE DEF ss
<1>3. FlattenSeq(ss) = ss
  BY <1>2, FlattenNothing
<1>4. ss = <<>>
  BY <1>2
<1> QED
  BY <1>2, <1>3, <1>4 DEF q

LEMMA WrittenAppend ==
    ASSUME NEW q \in Seq(Lines), NEW p \in Lines
    PROVE  Written(Append(q, p)) = Written(q) \o Piece(p)
<1> DEFINE r == Append(q, p)
           ss == [i \in DOMAIN q |-> Piece(q[i])]
           tt == [i \in DOMAIN r |-> Piece(r[i])]
<1>1. r \in Seq(Lines) /\ Piece(p) \in Seq(Record)
  BY LineType
<1>2. /\ Len(r) = Len(q) + 1 /\ DOMAIN r = 1 .. Len(q) + 1 /\ DOMAIN q = 1 .. Len(q)
      /\ r[Len(q) + 1] = p /\ \A i \in 1 .. Len(q) : r[i] = q[i]
      /\ Len(q) \in Nat
  OBVIOUS
<1> HIDE DEF r
<1>3. /\ ss \in Seq(Seq(Record)) /\ Len(ss) = Len(q) /\ Written(q) = FlattenSeq(ss)
      /\ tt \in Seq(Seq(Record)) /\ Len(tt) = Len(r) /\ Written(r) = FlattenSeq(tt)
  BY <1>1, WrittenType
<1>4. /\ \A i \in 1 .. Len(q) : tt[i] = ss[i]
      /\ tt[Len(q) + 1] = Piece(p)
  BY <1>2
<1> HIDE DEF ss, tt
<1>5. tt = Append(ss, Piece(p))
  <2>1. /\ Append(ss, Piece(p)) \in Seq(Seq(Record))
        /\ Len(Append(ss, Piece(p))) = Len(q) + 1
        /\ \A i \in 1 .. Len(q) : Append(ss, Piece(p))[i] = ss[i]
        /\ Append(ss, Piece(p))[Len(q) + 1] = Piece(p)
    BY <1>1, <1>3, AppendProperties
  <2>2. \A i \in 1 .. Len(tt) : tt[i] = Append(ss, Piece(p))[i]
    BY <1>2, <1>3, <1>4, <2>1
  <2> QED
    BY <1>2, <1>3, <2>1, <2>2, SeqEqual
<1> QED
  BY <1>1, <1>3, <1>5, FlattenAppend DEF r

LEMMA WrittenHead ==
    ASSUME NEW q \in Seq(Lines), q # <<>>
    PROVE  /\ Head(q) \in Lines /\ Tail(q) \in Seq(Lines)
           /\ Written(q) = Piece(Head(q)) \o Written(Tail(q))
<1> DEFINE r == Tail(q)
           ss == [i \in DOMAIN q |-> Piece(q[i])]
           tt == [i \in DOMAIN r |-> Piece(r[i])]
<1>1. /\ r \in Seq(Lines) /\ Head(q) \in Lines /\ Head(q) = q[1]
      /\ Len(r) = Len(q) - 1 /\ DOMAIN r = 1 .. Len(q) - 1 /\ DOMAIN q = 1 .. Len(q)
      /\ \A i \in 1 .. Len(q) - 1 : r[i] = q[i + 1]
      /\ Len(q) \in Nat \ {0}
  OBVIOUS
<1> HIDE DEF r
<1>2. /\ ss \in Seq(Seq(Record)) /\ Len(ss) = Len(q) /\ Written(q) = FlattenSeq(ss)
      /\ tt \in Seq(Seq(Record)) /\ Len(tt) = Len(r) /\ Written(r) = FlattenSeq(tt)
  BY <1>1, WrittenType
<1>3. /\ \A i \in 1 .. Len(q) - 1 : tt[i] = ss[i + 1]
      /\ ss[1] = Piece(Head(q))
  BY <1>1
<1> HIDE DEF ss, tt
<1>4. tt = Tail(ss) /\ ss # <<>>
  <2>1. ss # <<>>
    BY <1>1, <1>2
  <2>2. /\ Tail(ss) \in Seq(Seq(Record)) /\ Len(Tail(ss)) = Len(ss) - 1
        /\ \A i \in 1 .. Len(Tail(ss)) : Tail(ss)[i] = ss[i + 1]
    BY <1>2, <2>1, HeadTailProperties
  <2>3. Len(tt) = Len(Tail(ss)) /\ \A i \in 1 .. Len(tt) : tt[i] = Tail(ss)[i]
    BY <1>1, <1>2, <1>3, <2>2
  <2>4. tt = Tail(ss)
    BY <1>2, <2>2, <2>3, SeqEqual
  <2> QED
    BY <2>1, <2>4
<1>5. FlattenSeq(ss) = ss[1] \o FlattenSeq(tt)
  BY <1>2, <1>4, FlattenHeadTail
<1> QED
  BY <1>1, <1>2, <1>3, <1>5 DEF r

-------------------------------------------------------------------------------
(* What lines add *)

Selects == {Select(d) : d \in DBs}

LEMMA SelectsAre ==
    ASSUME NEW d \in DBs
    PROVE  Select(d) \in Selects /\ Select(d) \in Record /\ Select(d).op = "select" /\ Select(d).db = d
BY DEF Selects, Select, Record

LEMMA AppendsAre ==
    ASSUME NEW r \in Appends
    PROVE  r \in Record /\ r.op = "append" /\ r.key \in Keys /\ r.val \in Seq(Nat)
<1>1. PICK k \in Keys, v \in Nat : r = [op |-> "append", key |-> k, val |-> <<v>>]
  BY DEF Appends, AppendCmd
<1>2. <<v>> \in Seq(Nat)
  OBVIOUS
<1> QED
  BY <1>1, <1>2 DEF Record

LEMMA ApplySelect ==
    ASSUME NEW s \in State, NEW d \in DBs
    PROVE  /\ Apply(s, Select(d)) = [db |-> d, data |-> s.data]
           /\ Apply(s, Select(d)) \in State
           /\ s.db = d => Apply(s, Select(d)) = s
           /\ Below(s, Apply(s, Select(d)))
<1>1. Apply(s, Select(d)) = [db |-> d, data |-> s.data]
  BY SelectsAre, ApplyOf
<1>2. Apply(s, Select(d)) \in State
  BY SelectsAre, ApplyType
<1>3. s = [db |-> s.db, data |-> s.data]
  BY DEF State
<1>4. Below(s, s)
  BY BelowSelf
<1>5. Below(s, Apply(s, Select(d)))
  BY <1>1, <1>4 DEF Below
<1> QED
  BY <1>1, <1>2, <1>3, <1>5

LEMMA PutData ==
    ASSUME NEW s, NEW x, NEW v, NEW d \in DBs, NEW k \in Keys
    PROVE  /\ Put(s, x, v).db = s.db
           /\ Put(s, x, v).data[d][k] = IF d = s.db /\ k = x THEN v ELSE s.data[d][k]
BY DEF Put

LEMMA ApplyAppend ==
    ASSUME NEW s \in State, NEW r \in Appends
    PROVE  /\ Apply(s, r) \in State
           /\ Apply(s, r).db = s.db
           /\ \A d \in DBs, k \in Keys :
                  Apply(s, r).data[d][k] = IF d = s.db /\ k = r.key
                                           THEN s.data[d][k] \o r.val ELSE s.data[d][k]
           /\ Below(s, Apply(s, r))
<1>1. r \in Record /\ r.op = "append" /\ r.key \in Keys /\ r.val \in Seq(Nat)
  BY AppendsAre
<1>2. Apply(s, r) = Put(s, r.key, s.data[s.db][r.key] \o r.val)
  BY <1>1, ApplyOf
<1>3. Apply(s, r) \in State
  BY <1>1, ApplyType
<1>4. Apply(s, r).db = s.db
  BY <1>2 DEF Put
<1>5. \A d \in DBs, k \in Keys :
          Apply(s, r).data[d][k] = IF d = s.db /\ k = r.key
                                   THEN s.data[d][k] \o r.val ELSE s.data[d][k]
  BY <1>2, PutData
<1>6. ASSUME NEW d \in DBs, NEW k \in Keys
      PROVE  IsPrefix(s.data[d][k], Apply(s, r).data[d][k])
  <2>1. s.data[d][k] \in Seq(Nat)
    BY ValueType
  <2>2. IsPrefix(s.data[d][k], s.data[d][k])
    BY <2>1, PrefixFacts
  <2>3. IsPrefix(s.data[d][k], s.data[d][k] \o r.val)
    BY <1>1, <2>1, PrefixFacts
  <2> QED
    BY <1>5, <2>2, <2>3
<1> QED
  BY <1>3, <1>4, <1>5, <1>6 DEF Below

\* A SELECT at the end of a file.
LEMMA EndSelect ==
    ASSUME NEW f \in Seq(Record), NEW d \in DBs
    PROVE  /\ f \o <<Select(d)>> \in Seq(Record)
           /\ Load(f \o <<Select(d)>>) = [db |-> d, data |-> Load(f).data]
           /\ Load(f).db = d => Load(f \o <<Select(d)>>) = Load(f)
           /\ Grows(f) => Grows(f \o <<Select(d)>>)
<1>1. f \o <<Select(d)>> = Append(f, Select(d)) /\ Append(f, Select(d)) \in Seq(Record)
  BY SelectsAre, AppendIsConcat, AppendProperties
<1>2. Load(Append(f, Select(d))) = Apply(Load(f), Select(d))
  BY SelectsAre, LoadAppend
<1>3. Load(f) \in State
  BY LoadType
<1>4. Grows(f) => Grows(Append(f, Select(d)))
  BY <1>3, SelectsAre, ApplySelect, GrowsAppend
<1> QED
  BY <1>1, <1>2, <1>3, <1>4, ApplySelect

\* A command at the end of a file.
LEMMA EndAppend ==
    ASSUME NEW f \in Seq(Record), NEW r \in Appends
    PROVE  /\ f \o <<r>> \in Seq(Record)
           /\ Load(f \o <<r>>) = Apply(Load(f), r)
           /\ Grows(f) => Grows(f \o <<r>>)
<1>1. r \in Record
  BY AppendsAre
<1>2. f \o <<r>> = Append(f, r) /\ Append(f, r) \in Seq(Record)
  BY <1>1, AppendIsConcat, AppendProperties
<1>3. Load(Append(f, r)) = Apply(Load(f), r)
  BY <1>1, LoadAppend
<1>4. Load(f) \in State
  BY LoadType
<1>5. Grows(f) => Grows(Append(f, r))
  BY <1>1, <1>4, ApplyAppend, GrowsAppend
<1> QED
  BY <1>2, <1>3, <1>5

\* What a line adds to a key.
Added(p, d, k) == IF d = p.db /\ k = p.cmd[1].key THEN p.cmd[1].val ELSE <<>>

LEMMA RecordsAssociate ==
    ASSUME NEW x \in Seq(Record), NEW y \in Seq(Record), NEW z \in Seq(Record)
    PROVE  x \o (y \o z) = (x \o y) \o z
BY ConcatAssociative, SMTT(60)

\* A line and its SELECT at the end of a file.
LEMMA EndPiece ==
    ASSUME NEW f \in Seq(Record), NEW p \in Lines
    PROVE  /\ f \o Piece(p) \in Seq(Record)
           /\ Load(f \o Piece(p)).db = p.db
           /\ \A d \in DBs, k \in Keys :
                  Load(f \o Piece(p)).data[d][k] = Load(f).data[d][k] \o Added(p, d, k)
           /\ Grows(f) => Grows(f \o Piece(p))
           /\ Below(Load(f), Load(f \o Piece(p)))
           /\ f \o Piece(p) = (f \o <<Select(p.db)>>) \o p.cmd
<1>1. PICK r \in Appends : p.cmd = <<r>>
  BY LineType
<1>2. p.db \in DBs
  BY LineType
<1> DEFINE g == f \o <<Select(p.db)>>
<1>3. /\ g \in Seq(Record) /\ Load(g) = [db |-> p.db, data |-> Load(f).data]
      /\ Grows(f) => Grows(g)
  BY <1>2, EndSelect
<1>4. f \o Piece(p) = g \o <<r>>
  <2>1. <<Select(p.db)>> \in Seq(Record) /\ <<r>> \in Seq(Record)
    BY <1>1, LineType
  <2>2. f \in Seq(Record)
    OBVIOUS
  <2>3. f \o (<<Select(p.db)>> \o <<r>>) = (f \o <<Select(p.db)>>) \o <<r>>
    <3> DEFINE x == <<Select(p.db)>>
               y == <<r>>
    <3>1. x \in Seq(Record) /\ y \in Seq(Record)
      BY <2>1
    <3> HIDE DEF x, y
    <3>2. f \o (x \o y) = (f \o x) \o y
      BY ONLY <2>2, <3>1, RecordsAssociate
    <3> QED
      BY <3>2 DEF x, y
  <2> QED
    BY <1>1, <2>3 DEF Piece
<1> HIDE DEF g
<1>5. /\ g \o <<r>> \in Seq(Record) /\ Load(g \o <<r>>) = Apply(Load(g), r)
      /\ Grows(g) => Grows(g \o <<r>>)
  BY <1>3, EndAppend
<1>6. Load(f) \in State /\ Load(g) \in State
  BY <1>3, LoadType
<1>7. /\ Load(g \o <<r>>).db = p.db
      /\ \A d \in DBs, k \in Keys :
             Load(g \o <<r>>).data[d][k] = IF d = p.db /\ k = r.key
                                           THEN Load(f).data[d][k] \o r.val
                                           ELSE Load(f).data[d][k]
      /\ Below(Load(g), Load(g \o <<r>>))
  BY <1>3, <1>5, <1>6, ApplyAppend
<1>8. ASSUME NEW d \in DBs, NEW k \in Keys
      PROVE  Load(g \o <<r>>).data[d][k] = Load(f).data[d][k] \o Added(p, d, k)
  <2>1. p.cmd[1] = r
    BY <1>1
  <2>2. Load(f).data[d][k] \o <<>> = Load(f).data[d][k]
    BY <1>6, ValueType, ConcatEmptySeq
  <2> QED
    BY <1>7, <2>1, <2>2 DEF Added
<1>9. Below(Load(f), Load(g \o <<r>>))
  BY <1>3, <1>7 DEF Below
<1>10. f \o Piece(p) = (f \o <<Select(p.db)>>) \o p.cmd
  BY <1>1, <1>4 DEF g
<1>11. Grows(f) => Grows(g \o <<r>>)
  BY <1>3, <1>5
<1> HIDE DEF Piece
<1> DEFINE h == g \o <<r>>
<1>12. /\ h \in Seq(Record) /\ Load(h).db = p.db /\ f \o Piece(p) = h
       /\ Grows(f) => Grows(h)
       /\ Below(Load(f), Load(h))
  BY <1>4, <1>5, <1>7, <1>9, <1>11
<1>13. \A d \in DBs, k \in Keys : Load(h).data[d][k] = Load(f).data[d][k] \o Added(p, d, k)
  BY <1>8
<1> HIDE DEF h
<1> QED
  BY <1>10, <1>12, <1>13

\* A longer file keeps its beginning.
LEMMA Extended ==
    ASSUME NEW f \in Seq(Record), NEW h \in Seq(Record), NEW n \in 0 .. Len(f)
    PROVE  /\ SubSeq(f \o h, 1, n) = SubSeq(f, 1, n)
           /\ Len(f) <= Len(f \o h)
<1>1. /\ Len(f \o h) = Len(f) + Len(h) /\ Len(f) \in Nat /\ Len(h) \in Nat
      /\ \A i \in 1 .. Len(f) : (f \o h)[i] = f[i]
      /\ f \o h \in Seq(Record)
  OBVIOUS
<1> DEFINE g == f \o h
<1> HIDE DEF g
<1>2. SubSeq(g, 1, n) = SubSeq(f, 1, n)
  <2>1. /\ SubSeq(g, 1, n) \in Seq(Record) /\ SubSeq(f, 1, n) \in Seq(Record)
        /\ Len(SubSeq(g, 1, n)) = n /\ Len(SubSeq(f, 1, n)) = n
        /\ \A i \in 1 .. n : SubSeq(g, 1, n)[i] = g[i] /\ SubSeq(f, 1, n)[i] = f[i]
    BY <1>1 DEF g
  <2>2. \A i \in 1 .. n : g[i] = f[i]
    BY <1>1 DEF g
  <2> QED
    BY <2>1, <2>2, SeqEqual
<1> QED
  BY <1>1, <1>2 DEF g

\* What writeAof adds to a file does what the line and a SELECT do.
LEMMA EndWrite ==
    ASSUME NEW f \in Seq(Record), NEW p \in Lines,
           NEW sel, sel = IF p.db = Load(f).db THEN <<>> ELSE <<Select(p.db)>>
    PROVE  /\ (f \o sel) \o p.cmd \in Seq(Record)
           /\ f \o sel \in Seq(Record)
           /\ sel \in Seq(Record)
           /\ \E h \in Seq(Record) : (f \o sel) \o p.cmd = f \o h
           /\ Load((f \o sel) \o p.cmd) = Load(f \o Piece(p))
           /\ Grows(f) => Grows((f \o sel) \o p.cmd)
<1>1. /\ f \o Piece(p) = (f \o <<Select(p.db)>>) \o p.cmd
      /\ Grows(f) => Grows(f \o Piece(p))
      /\ p.db \in DBs /\ p.cmd \in Seq(Record) /\ <<Select(p.db)>> \in Seq(Record)
  BY EndPiece, LineType
<1>2. sel \in Seq(Record) /\ f \o sel \in Seq(Record)
  BY <1>1, ConcatProperties
<1>3. (f \o sel) \o p.cmd \in Seq(Record)
  BY <1>1, <1>2, ConcatProperties
<1>4. \E h \in Seq(Record) : (f \o sel) \o p.cmd = f \o h
  <2>1. sel \o p.cmd \in Seq(Record)
    BY <1>1, <1>2, ConcatProperties
  <2> DEFINE c == p.cmd
  <2>2. c \in Seq(Record) /\ f \in Seq(Record)
    BY <1>1
  <2> HIDE DEF c
  <2>3. (f \o sel) \o c = f \o (sel \o c)
    BY ONLY <1>2, <2>2, RecordsAssociate
  <2> QED
    BY <2>1, <2>3 DEF c
<1>5. CASE p.db = Load(f).db
  <2> DEFINE g == f \o <<Select(p.db)>>
  <2>1. g \in Seq(Record) /\ Load(g) = Load(f)
    BY <1>1, <1>5, EndSelect
  <2>2. sel = <<>> /\ f \o sel = f
    BY <1>5, ConcatEmptySeq
  <2> HIDE DEF g
  <2>3. Load(g \o p.cmd) = Load(f \o p.cmd)
    BY <1>1, <2>1, LoadConcat
  <2>4. ASSUME Grows(f)
        PROVE  Grows(f \o p.cmd)
    <3>1. Grows(g \o p.cmd)
      BY <1>1, <2>4 DEF g
    <3> QED
      BY <1>1, <2>1, <2>4, <3>1, GrowsConcat
  <2> QED
    BY <1>1, <1>2, <1>3, <1>4, <2>2, <2>3, <2>4 DEF g
<1>6. CASE p.db # Load(f).db
  BY <1>1, <1>2, <1>3, <1>4, <1>6
<1> QED
  BY <1>5, <1>6

\* The lines of the queue only add.
LEMMA BelowWritten ==
    ASSUME NEW f \in Seq(Record), NEW q \in Seq(Lines)
    PROVE  Below(Load(f), Load(f \o Written(q))) /\ f \o Written(q) \in Seq(Record)
<1> DEFINE P(i) == SubSeq(q, 1, i)
           T == {i \in Nat : i <= Len(q) => Below(Load(f), Load(f \o Written(P(i))))}
<1>0. Load(f) \in State
  BY LoadType
<1>1. 0 \in T
  <2>1. P(0) = <<>>
    OBVIOUS
  <2>2. f \o Written(P(0)) = f
    BY <2>1, WrittenNothing, ConcatEmptySeq
  <2>3. Below(Load(f), Load(f))
    BY <1>0, BelowSelf
  <2> QED
    BY <2>2, <2>3
<1>2. ASSUME NEW i \in Nat, i \in T
      PROVE  i + 1 \in T
  <2> SUFFICES ASSUME i + 1 <= Len(q)
               PROVE  Below(Load(f), Load(f \o Written(P(i + 1))))
    OBVIOUS
  <2> DEFINE p == q[i + 1]
             w == Written(P(i))
  <2>1. /\ P(i + 1) = Append(P(i), p) /\ P(i) \in Seq(Lines) /\ p \in Lines
    OBVIOUS
  <2>2. Written(P(i + 1)) = w \o Piece(p) /\ w \in Seq(Record) /\ Piece(p) \in Seq(Record)
    BY <2>1, WrittenAppend, WrittenType, LineType
  <2>3. Below(Load(f), Load(f \o w))
    BY <1>2
  <2> DEFINE u == Piece(p)
             g == f \o w
  <2>4. f \in Seq(Record) /\ w \in Seq(Record) /\ u \in Seq(Record) /\ g \in Seq(Record)
    BY <2>2, ConcatProperties
  <2>5. Below(Load(g), Load(g \o u)) /\ g \o u \in Seq(Record)
    BY <2>1, <2>4, EndPiece
  <2>6. f \o (w \o u) = g \o u
    <3> HIDE DEF w, u
    <3>1. f \o (w \o u) = (f \o w) \o u
      BY ONLY <2>4, RecordsAssociate
    <3> QED
      BY <3>1
  <2>7. Load(g) \in State /\ Load(g \o u) \in State
    BY <2>4, <2>5, LoadType
  <2>8. Below(Load(f), Load(g \o u))
    BY <1>0, <2>3, <2>5, <2>7, BelowTransitive
  <2> QED
    BY <2>2, <2>6, <2>8
<1> HIDE DEF T
<1>3. Len(q) \in T
  BY <1>1, <1>2, SetInduction
<1>4. P(Len(q)) = q
  BY SubSeqFull
<1>5. f \o Written(q) \in Seq(Record)
  BY WrittenType, ConcatProperties
<1>6. Below(Load(f), Load(f \o Written(P(Len(q)))))
  <2>1. Len(q) \in Nat /\ Len(q) <= Len(q)
    OBVIOUS
  <2> QED
    BY <1>3, <2>1 DEF T
<1> QED
  BY <1>4, <1>5, <1>6

-------------------------------------------------------------------------------
(* The dump of a rewrite *)

Support(row) == {k \in Keys : row[k] # <<>>}

\* However many keys there are, a file has set finitely many.
LEMMA FiniteSupport ==
    ASSUME NEW f \in Seq(Record)
    PROVE  \A d \in DBs : IsFiniteSet(Support(Load(f).data[d]))
<1> DEFINE T == {n \in Nat : n <= Len(f) =>
                                 \A d \in DBs : IsFiniteSet(Support(Steps(f)[n].data[d]))}
<1>1. 0 \in T
  <2>1. Steps(f)[0] = Empty
    BY StepOf
  <2>2. \A d \in DBs : Support(Empty.data[d]) = {}
    BY DEF Support, Empty
  <2> QED
    BY <2>1, <2>2, FS_EmptySet
<1>2. ASSUME NEW n \in Nat, n \in T
      PROVE  n + 1 \in T
  <2> SUFFICES ASSUME n + 1 <= Len(f), NEW d \in DBs
               PROVE  IsFiniteSet(Support(Steps(f)[n + 1].data[d]))
    OBVIOUS
  <2> DEFINE s == Steps(f)[n]
             r == f[n + 1]
  <2>1. s \in State /\ r \in Record
    BY StepsType
  <2>2. Steps(f)[n + 1] = Apply(s, r)
    BY StepOf
  <2>3. IsFiniteSet(Support(s.data[d]))
    BY <1>2
  <2> HIDE DEF s, r
  <2>4. CASE r.op = "select"
    <3>1. Apply(s, r).data = s.data
      BY <2>1, <2>4, ApplyOf
    <3> QED
      BY <2>2, <2>3, <3>1
  <2>5. ASSUME NEW v, Apply(s, r) = Put(s, r.key, v)
        PROVE  IsFiniteSet(Support(Apply(s, r).data[d]))
    <3>1. \A k \in Keys : Apply(s, r).data[d][k] # s.data[d][k] => k = r.key
      BY <2>5, PutData
    <3>2. Support(Apply(s, r).data[d]) \in SUBSET (Support(s.data[d]) \cup {r.key})
      BY <3>1 DEF Support
    <3>3. IsFiniteSet(Support(s.data[d]) \cup {r.key})
      BY <2>3, FS_AddElement
    <3> QED
      BY <3>2, <3>3, FS_Subset
  <2>6. CASE r.op \in {"append", "set"}
    <3>1. \E v : Apply(s, r) = Put(s, r.key, v)
      BY <2>1, <2>6, ApplyOf
    <3> QED
      BY <2>2, <2>5, <3>1
  <2> QED
    BY <2>1, <2>4, <2>6, ApplyOf
<1> HIDE DEF T
<1>3. \A n \in Nat : n \in T
  BY <1>1, <1>2, SetInduction
<1>4. Len(f) \in Nat /\ Load(f) = Steps(f)[Len(f)]
  BY StepOf
<1> QED
  BY <1>3, <1>4 DEF T

\* SetToSeq numbers the members of a finite set.
LEMMA SetToSeqIs ==
    ASSUME NEW S, IsFiniteSet(S)
    PROVE  /\ SetToSeq(S) \in [1 .. Cardinality(S) -> S]
           /\ Cardinality(S) \in Nat
           /\ \A i, j \in 1 .. Cardinality(S) : SetToSeq(S)[i] = SetToSeq(S)[j] => i = j
           /\ \A x \in S : \E i \in 1 .. Cardinality(S) : SetToSeq(S)[i] = x
<1> DEFINE n == Cardinality(S)
<1>1. n \in Nat /\ ExistsBijection(1 .. n, S)
  BY FS_CardinalityType
<1>2. \E f \in [1 .. n -> S] : IsInjective(f)
  BY <1>1 DEF ExistsBijection, Bijection, Injection
<1>3. SetToSeq(S) \in [1 .. n -> S] /\ IsInjective(SetToSeq(S))
  BY <1>2 DEF SetToSeq
<1> DEFINE f == SetToSeq(S)
<1>4. f \in Injection(1 .. n, S)
  BY <1>3 DEF Injection
<1>5. Cardinality(1 .. n) = n
  BY <1>1, FS_Interval
<1> HIDE DEF f
<1>6. f \in Surjection(1 .. n, S)
  BY <1>4, <1>5, FS_Injection
<1>7. \A i, j \in 1 .. n : f[i] = f[j] => i = j
  BY <1>3 DEF IsInjective, f
<1>8. \A x \in S : \E i \in 1 .. n : f[i] = x
  BY <1>6 DEF Surjection
<1> QED
  BY <1>1, <1>3, <1>7, <1>8 DEF f

LEMMA SetsAre ==
    ASSUME NEW row \in [Keys -> Seq(Nat)], IsFiniteSet(Support(row))
    PROVE  /\ Sets(row) \in Seq(Record)
           /\ Len(Sets(row)) = Cardinality(Support(row))
           /\ \A i \in 1 .. Len(Sets(row)) :
                  /\ SetToSeq(Support(row))[i] \in Keys
                  /\ Sets(row)[i] = SetCmd(SetToSeq(Support(row))[i],
                                          row[SetToSeq(Support(row))[i]])
<1> DEFINE ks == SetToSeq(Support(row))
           n == Cardinality(Support(row))
<1>1. ks \in [1 .. n -> Support(row)] /\ n \in Nat
  BY SetToSeqIs
<1>2. Sets(row) = [i \in DOMAIN ks |-> SetCmd(ks[i], row[ks[i]])]
  BY DEF Sets, Support
<1> HIDE DEF ks, n
<1>3. DOMAIN ks = 1 .. n /\ \A i \in 1 .. n : ks[i] \in Keys
  BY <1>1 DEF Support
<1>4. \A k \in Keys : SetCmd(k, row[k]) \in Record
  BY DEF SetCmd, Record
<1>5. \A i \in 1 .. n : SetCmd(ks[i], row[ks[i]]) \in Record
  BY <1>3, <1>4
<1>6. Sets(row) = [i \in 1 .. n |-> SetCmd(ks[i], row[ks[i]])]
  BY <1>2, <1>3
<1>7. Sets(row) \in Seq(Record) /\ Len(Sets(row)) = n
  BY <1>1, <1>5, <1>6
<1>8. \A i \in 1 .. n : Sets(row)[i] = SetCmd(ks[i], row[ks[i]])
  BY <1>6
<1> QED
  BY <1>3, <1>7, <1>8 DEF ks, n

\* A SET of a key that holds nothing.
LEMMA EndSet ==
    ASSUME NEW f \in Seq(Record), Grows(f), NEW x \in Keys, NEW v \in Seq(Nat),
           Load(f).data[Load(f).db][x] = <<>>
    PROVE  /\ Append(f, SetCmd(x, v)) \in Seq(Record)
           /\ Grows(Append(f, SetCmd(x, v)))
           /\ Load(Append(f, SetCmd(x, v))) = Put(Load(f), x, v)
<1> DEFINE r == SetCmd(x, v)
           s == Load(f)
<1>1. r \in Record /\ r.op = "set" /\ r.key = x /\ r.val = v
  BY DEF SetCmd, Record
<1>2. s \in State
  BY LoadType
<1>3. Load(Append(f, r)) = Apply(s, r)
  BY <1>1, LoadAppend
<1> HIDE DEF r
<1>4. Apply(s, r) = Put(s, x, v)
  BY <1>1, <1>2, ApplyOf
<1>5. ASSUME NEW d \in DBs, NEW k \in Keys
      PROVE  IsPrefix(s.data[d][k], Put(s, x, v).data[d][k])
  <2>1. Put(s, x, v).data[d][k] = IF d = s.db /\ k = x THEN v ELSE s.data[d][k]
    BY PutData
  <2>2. CASE d = s.db /\ k = x
    <3>1. s.data[d][k] = <<>>
      BY <2>2
    <3>2. IsPrefix(<<>>, v)
      BY PrefixFacts
    <3> QED
      BY <2>1, <2>2, <3>1, <3>2
  <2>3. CASE ~(d = s.db /\ k = x)
    <3>1. s.data[d][k] \in Seq(Nat)
      BY <1>2, ValueType
    <3>2. IsPrefix(s.data[d][k], s.data[d][k])
      BY <3>1, PrefixFacts
    <3> QED
      BY <2>1, <2>3, <3>2
  <2> QED
    BY <2>2, <2>3
<1>6. Below(s, Apply(s, r))
  BY <1>4, <1>5 DEF Below
<1> HIDE DEF s
<1>7. Append(f, r) \in Seq(Record) /\ Grows(Append(f, r))
  BY <1>1, <1>6, GrowsAppend DEF s
<1> QED
  BY <1>3, <1>4, <1>7 DEF r, s

\* The SETs of a database fill it, when it was empty.
LEMMA EndSets ==
    ASSUME NEW f \in Seq(Record), Grows(f), NEW d \in DBs, Load(f).db = d,
           \A k \in Keys : Load(f).data[d][k] = <<>>,
           NEW row \in [Keys -> Seq(Nat)], IsFiniteSet(Support(row))
    PROVE  /\ f \o Sets(row) \in Seq(Record)
           /\ Grows(f \o Sets(row))
           /\ \A e \in DBs, k \in Keys :
                  Load(f \o Sets(row)).data[e][k] = IF e = d THEN row[k]
                                                    ELSE Load(f).data[e][k]
<1> DEFINE ks == SetToSeq(Support(row))
           n == Len(Sets(row))
           P(i) == f \o SubSeq(Sets(row), 1, i)
           Right(i) == /\ P(i) \in Seq(Record) /\ Grows(P(i)) /\ Load(P(i)).db = d
                       /\ \A e \in DBs, k \in Keys :
                              Load(P(i)).data[e][k] =
                                  IF e # d THEN Load(f).data[e][k]
                                  ELSE IF \E x \in 1 .. i : ks[x] = k THEN row[k] ELSE <<>>
           T == {i \in Nat : i <= n => Right(i)}
<1>0. /\ 0 \in T <=> (0 <= n => Right(0))
      /\ \A i \in Nat : i \in T <=> (i <= n => Right(i))
  <2> HIDE DEF Right, n
  <2> QED
    OBVIOUS
<1>1. /\ Sets(row) \in Seq(Record) /\ n = Cardinality(Support(row)) /\ n \in Nat
      /\ \A i \in 1 .. n : ks[i] \in Keys /\ Sets(row)[i] = SetCmd(ks[i], row[ks[i]])
      /\ \A i, j \in 1 .. n : ks[i] = ks[j] => i = j
      /\ \A k \in Support(row) : \E i \in 1 .. n : ks[i] = k
  <2>1. n = Cardinality(Support(row))
    BY SetsAre
  <2>2. /\ n \in Nat /\ \A i, j \in 1 .. n : ks[i] = ks[j] => i = j
        /\ \A k \in Support(row) : \E i \in 1 .. n : ks[i] = k
    BY ONLY <2>1, IsFiniteSet(Support(row)), SetToSeqIs
  <2>3. /\ Sets(row) \in Seq(Record)
        /\ \A i \in 1 .. n : ks[i] \in Keys /\ Sets(row)[i] = SetCmd(ks[i], row[ks[i]])
    BY SetsAre
  <2> QED
    BY ONLY <2>1, <2>2, <2>3
<1> HIDE DEF ks, T
<1>2. 0 \in T
  <2>1. P(0) = f
    BY <1>1
  <2>2. \A k \in Keys : ~ \E x \in 1 .. 0 : ks[x] = k
    OBVIOUS
  <2> HIDE DEF P
  <2>3. Right(0)
    BY <2>1, <2>2
  <2> QED
    BY <1>0, <2>3
<1>3. ASSUME NEW i \in Nat, i \in T
      PROVE  i + 1 \in T
  <2>0. SUFFICES ASSUME i + 1 <= n
                 PROVE  Right(i + 1)
    <3> HIDE DEF Right, n
    <3> QED
      BY <1>0
  <2> DEFINE x == ks[i + 1]
             v == row[x]
             g == P(i)
  <2>1. x \in Keys /\ v \in Seq(Nat) /\ Sets(row)[i + 1] = SetCmd(x, v)
    BY <1>1, <2>0
  <2>2. Right(i)
    <3>1. i <= n
      BY <1>1, <2>0
    <3> HIDE DEF Right, n
    <3> QED
      BY <1>0, <1>3, <3>1
  <2>3. P(i + 1) = Append(g, SetCmd(x, v))
    <3> DEFINE w == SubSeq(Sets(row), 1, i)
    <3>1. SubSeq(Sets(row), 1, i + 1) = Append(w, SetCmd(x, v)) /\ w \in Seq(Record)
      BY <1>1, <2>0, <2>1
    <3>2. SetCmd(x, v) \in Record
      BY <2>1 DEF SetCmd, Record
    <3> HIDE DEF w, x, v
    <3>3. f \o Append(w, SetCmd(x, v)) = Append(f \o w, SetCmd(x, v))
      BY <3>1, <3>2
    <3> QED
      BY <3>1, <3>3 DEF w
  <2>4. Load(g).data[d][x] = <<>>
    <3>1. ~ \E y \in 1 .. i : ks[y] = x
      BY <1>1, <2>0
    <3> QED
      BY <2>1, <2>2, <3>1
  <2>5. /\ Append(g, SetCmd(x, v)) \in Seq(Record) /\ Grows(Append(g, SetCmd(x, v)))
        /\ Load(Append(g, SetCmd(x, v))) = Put(Load(g), x, v)
    <3>1. g \in Seq(Record) /\ Grows(g) /\ Load(g).db = d
      BY <2>2
    <3> HIDE DEF g, x, v
    <3>2. Load(g).data[Load(g).db][x] = <<>>
      BY <2>4, <3>1
    <3> QED
      BY <2>1, <3>1, <3>2, EndSet
  <2>6. ASSUME NEW e \in DBs, NEW k \in Keys
        PROVE  Put(Load(g), x, v).data[e][k] =
                   IF e # d THEN Load(f).data[e][k]
                   ELSE IF \E y \in 1 .. i + 1 : ks[y] = k THEN row[k] ELSE <<>>
    <3>1. Put(Load(g), x, v).data[e][k] = IF e = d /\ k = x THEN v ELSE Load(g).data[e][k]
      BY <2>2, PutData
    <3>2. (\E y \in 1 .. i + 1 : ks[y] = k) <=> k = x \/ \E y \in 1 .. i : ks[y] = k
      OBVIOUS
    <3> QED
      BY <2>2, <3>1, <3>2
  <2>7. Put(Load(g), x, v).db = d
    BY <2>2 DEF Put
  <2> QED
    <3> DEFINE q == Append(g, SetCmd(x, v))
    <3>1. q \in Seq(Record) /\ Grows(q) /\ Load(q).db = d
      BY <2>5, <2>7
    <3>2. \A e \in DBs, k \in Keys :
              Load(q).data[e][k] = IF e # d THEN Load(f).data[e][k]
                                   ELSE IF \E y \in 1 .. i + 1 : ks[y] = k THEN row[k] ELSE <<>>
      <4> HIDE DEF g, x, v
      <4> QED
        BY <2>5, <2>6
    <3>3. P(i + 1) = q
      BY <2>3
    <3> HIDE DEF q, P
    <3> QED
      BY <3>1, <3>2, <3>3
<1>4. n \in T
  BY <1>1, <1>2, <1>3, SetInduction
<1>5. Right(n)
  <2> HIDE DEF Right, n
  <2> QED
    BY <1>0, <1>1, <1>4
<1>6. P(n) = f \o Sets(row)
  BY <1>1, SubSeqFull
<1>7. \A k \in Keys : row[k] = IF \E x \in 1 .. n : ks[x] = k THEN row[k] ELSE <<>>
  BY <1>1 DEF Support
<1> HIDE DEF P
<1>8. ASSUME NEW e \in DBs, NEW k \in Keys
      PROVE  Load(P(n)).data[e][k] = IF e = d THEN row[k] ELSE Load(f).data[e][k]
  BY <1>5, <1>7
<1> QED
  BY <1>5, <1>6, <1>8

\* What a dump has read from the file comes back from the dump.
LEMMA DumpLoads ==
    ASSUME NEW m \in Data, \A d \in DBs : IsFiniteSet(Support(m[d]))
    PROVE  /\ Dump(m) \in Seq(Record)
           /\ Grows(Dump(m))
           /\ Load(Dump(m)).data = m
<1> DEFINE Part(i) == <<Select(i - 1)>> \o Sets(m[i - 1])
           Parts(i) == [x \in 1 .. i |-> Part(x)]
           P(i) == FlattenSeq(Parts(i))
           Right(i) == /\ P(i) \in Seq(Record) /\ Grows(P(i))
                       /\ \A e \in DBs, k \in Keys :
                              Load(P(i)).data[e][k] = IF e < i THEN m[e][k] ELSE <<>>
           T == {i \in Nat : i <= NDB => Right(i)}
<1>1. \A d \in DBs : m[d] \in [Keys -> Seq(Nat)] /\ Sets(m[d]) \in Seq(Record)
  BY SetsAre DEF Data
<1>2. ASSUME NEW i \in 1 .. NDB
      PROVE  i - 1 \in DBs /\ Part(i) \in Seq(Record)
  <2>1. i - 1 \in DBs
    BY NDBAssumption DEF DBs
  <2>2. <<Select(i - 1)>> \in Seq(Record) /\ Sets(m[i - 1]) \in Seq(Record)
    BY <1>1, <2>1, SelectsAre
  <2> QED
    BY <2>1, <2>2, ConcatProperties
<1> HIDE DEF Part, Right
<1>3. 0 \in T
  <2>1. Parts(0) = <<>>
    OBVIOUS
  <2>2. P(0) = <<>>
    BY <2>1, FlattenNothing
  <2>3. Grows(<<>>)
    BY DEF Grows
  <2>4. Load(<<>>) = Empty /\ \A e \in DBs, k \in Keys : Empty.data[e][k] = <<>>
    BY LoadNothing DEF Empty
  <2>5. \A e \in DBs : ~(e < 0)
    BY DEF DBs
  <2> HIDE DEF P
  <2>6. P(0) \in Seq(Record) /\ Grows(P(0))
    <3>1. <<>> \in Seq(Record)
      OBVIOUS
    <3> QED
      BY <2>2, <2>3, <3>1, Zenon
  <2>7. \A e \in DBs, k \in Keys : Load(P(0)).data[e][k] = IF e < 0 THEN m[e][k] ELSE <<>>
    BY <2>2, <2>4, <2>5
  <2>8. Right(0)
    BY <2>6, <2>7 DEF Right
  <2> QED
    BY <2>8
<1>4. ASSUME NEW i \in Nat, i \in T
      PROVE  i + 1 \in T
  <2> SUFFICES ASSUME i + 1 <= NDB
               PROVE  Right(i + 1)
    OBVIOUS
  <2>1. Right(i)
    BY <1>4, NDBAssumption
  <2> USE DEF Right
  <2>2. /\ i \in DBs /\ i + 1 \in 1 .. NDB /\ (i + 1) - 1 = i
        /\ \A x \in 1 .. i : x \in 1 .. NDB
    BY NDBAssumption DEF DBs
  <2>3. Part(i + 1) = <<Select(i)>> \o Sets(m[i]) /\ Part(i + 1) \in Seq(Record)
    BY <1>2, <2>2 DEF Part
  <2>4. P(i + 1) = P(i) \o (<<Select(i)>> \o Sets(m[i]))
    <3> DEFINE ss == Parts(i)
               q == Part(i + 1)
    <3>1. ss \in Seq(Seq(Record)) /\ Len(ss) = i
      BY <1>2, <2>2
    <3>2. q \in Seq(Record)
      BY <2>3
    <3>3. Parts(i + 1) = Append(ss, q)
      OBVIOUS
    <3> HIDE DEF ss, q
    <3>4. FlattenSeq(Append(ss, q)) = FlattenSeq(ss) \o q
      BY <3>1, <3>2, FlattenAppend
    <3> QED
      BY <2>3, <3>3, <3>4 DEF ss, q
  <2> DEFINE f == P(i)
             g == f \o <<Select(i)>>
             row == m[i]
  <2>5. /\ g \in Seq(Record) /\ Load(g) = [db |-> i, data |-> Load(f).data] /\ Grows(g)
    BY <2>1, <2>2, EndSelect
  <2>6. \A k \in Keys : Load(g).data[i][k] = <<>>
    <3>1. \A k \in Keys : Load(f).data[i][k] = <<>>
      <4>1. ~(i < i)
        OBVIOUS
      <4> HIDE DEF P
      <4> QED
        BY <2>1, <2>2, <4>1
    <3> QED
      BY <2>5, <3>1
  <2>7. row \in [Keys -> Seq(Nat)] /\ IsFiniteSet(Support(row)) /\ Sets(row) \in Seq(Record)
    BY <1>1, <2>2
  <2>8. P(i + 1) = g \o Sets(row)
    <3> DEFINE a == <<Select(i)>>
               b == Sets(row)
    <3>1. f \in Seq(Record) /\ a \in Seq(Record) /\ b \in Seq(Record)
      BY <2>1, <2>2, <2>7, SelectsAre
    <3> HIDE DEF a, b, f
    <3>2. f \o (a \o b) = (f \o a) \o b
      BY ONLY <3>1, RecordsAssociate
    <3> QED
      BY <2>4, <3>2 DEF a, b, f
  <2> HIDE DEF f, g, row
  <2>9. /\ g \o Sets(row) \in Seq(Record) /\ Grows(g \o Sets(row))
        /\ \A e \in DBs, k \in Keys :
               Load(g \o Sets(row)).data[e][k] = IF e = i THEN row[k] ELSE Load(g).data[e][k]
    <3>1. Load(g).db = i
      BY <2>5
    <3>2. i \in DBs /\ g \in Seq(Record) /\ Grows(g)
      BY <2>2, <2>5
    <3> QED
      BY ONLY <2>6, <2>7, <3>1, <3>2, EndSets
  <2>10. ASSUME NEW e \in DBs, NEW k \in Keys
         PROVE  Load(g \o Sets(row)).data[e][k] = IF e < i + 1 THEN m[e][k] ELSE <<>>
    <3>1. e \in Int /\ i \in Int
      BY DEF DBs
    <3>2. CASE e = i
      BY <2>9, <3>1, <3>2 DEF row
    <3>3. CASE e # i
      <4>1. Load(g \o Sets(row)).data[e][k] = Load(f).data[e][k]
        BY <2>5, <2>9, <3>3
      <4>2. Load(f).data[e][k] = IF e < i THEN m[e][k] ELSE <<>>
        BY <2>1 DEF f
      <4>3. (e < i) <=> (e < i + 1)
        BY <3>1, <3>3
      <4> QED
        BY <4>1, <4>2, <4>3
    <3> QED
      BY <3>2, <3>3
  <2> QED
    BY <2>8, <2>9, <2>10
<1> HIDE DEF T
<1>5. NDB \in T
  BY <1>3, <1>4, NDBAssumption, SetInduction
<1>6. Right(NDB)
  <2>1. NDB \in Nat /\ NDB <= NDB
    BY NDBAssumption
  <2> QED
    BY <1>5, <2>1 DEF T
<1> USE DEF Right
<1>7. P(NDB) = Dump(m)
  BY DEF Dump, Part
<1>8. Load(Dump(m)).data \in Data
  BY <1>6, <1>7, LoadType DEF State
<1>9. \A e \in DBs, k \in Keys : Load(Dump(m)).data[e][k] = m[e][k]
  <2>1. \A e \in DBs : e < NDB
    BY NDBAssumption DEF DBs
  <2> QED
    BY <1>6, <1>7, <2>1
<1>10. Load(Dump(m)).data = m
  BY <1>8, <1>9 DEF Data
<1> QED
  BY <1>6, <1>7, <1>10

-------------------------------------------------------------------------------
(* Who has still to save what *)

HoldsIn(ln, c, d, k) == ln[c] # NoLine /\ ln[c].db = d /\ ln[c].cmd[1].key = k

Pending(ln, d, k) ==
    IF \E c \in Clients : HoldsIn(ln, c, d, k)
    THEN ln[CHOOSE c \in Clients : HoldsIn(ln, c, d, k)].cmd[1].val
    ELSE <<>>

\* The lock of a key has one owner.
OneIn(ln) == \A c, e \in Clients, d \in DBs, k \in Keys :
                 HoldsIn(ln, c, d, k) /\ HoldsIn(ln, e, d, k) => c = e

LineOf == [Clients -> Lines \cup {NoLine}]

LEMMA PendingIs ==
    ASSUME NEW ln, OneIn(ln), NEW d \in DBs, NEW k \in Keys
    PROVE  /\ \A c \in Clients : HoldsIn(ln, c, d, k) => Pending(ln, d, k) = ln[c].cmd[1].val
           /\ (~ \E c \in Clients : HoldsIn(ln, c, d, k)) => Pending(ln, d, k) = <<>>
<1>1. ASSUME NEW c \in Clients, HoldsIn(ln, c, d, k)
      PROVE  Pending(ln, d, k) = ln[c].cmd[1].val
  <2> DEFINE e == CHOOSE x \in Clients : HoldsIn(ln, x, d, k)
  <2>1. e \in Clients /\ HoldsIn(ln, e, d, k)
    BY <1>1
  <2>2. e = c
    BY <1>1, <2>1 DEF OneIn
  <2> QED
    BY <1>1, <2>2 DEF Pending
<1> QED
  BY <1>1 DEF Pending

LEMMA PendingSame ==
    ASSUME NEW ln, OneIn(ln), NEW new, OneIn(new), NEW d \in DBs, NEW k \in Keys,
           \A c \in Clients : /\ HoldsIn(new, c, d, k) <=> HoldsIn(ln, c, d, k)
                              /\ HoldsIn(ln, c, d, k) => new[c] = ln[c]
    PROVE  Pending(new, d, k) = Pending(ln, d, k)
<1>1. CASE \E c \in Clients : HoldsIn(ln, c, d, k)
  <2>1. PICK c \in Clients : HoldsIn(ln, c, d, k)
    BY <1>1
  <2>2. Pending(ln, d, k) = ln[c].cmd[1].val
    BY <2>1, PendingIs
  <2>3. Pending(new, d, k) = new[c].cmd[1].val
    BY <2>1, PendingIs
  <2> QED
    BY <2>1, <2>2, <2>3
<1>2. CASE ~ \E c \in Clients : HoldsIn(ln, c, d, k)
  <2>1. Pending(ln, d, k) = <<>>
    BY <1>2, PendingIs
  <2>2. Pending(new, d, k) = <<>>
    BY <1>2, PendingIs
  <2> QED
    BY <2>1, <2>2
<1> QED
  BY <1>1, <1>2

LEMMA LineIs ==
    ASSUME NEW p \in Lines
    PROVE  /\ p # NoLine /\ p.db \in DBs
           /\ p.cmd[1] \in Appends /\ p.cmd = <<p.cmd[1]>>
           /\ p.cmd[1].key \in Keys /\ p.cmd[1].val \in Seq(Nat)
<1>1. PICK r \in Appends : p.cmd = <<r>>
  BY LineType
<1>2. p.cmd[1] = r
  BY <1>1
<1>3. p.db \in DBs
  BY LineType
<1>4. p # NoLine
  BY <1>3 DEF NoLine, DBs
<1> QED
  BY <1>1, <1>2, <1>3, <1>4, AppendsAre

LEMMA PendingType ==
    ASSUME NEW ln \in LineOf, OneIn(ln), NEW d \in DBs, NEW k \in Keys
    PROVE  Pending(ln, d, k) \in Seq(Nat)
<1>1. CASE \E c \in Clients : HoldsIn(ln, c, d, k)
  <2>1. PICK c \in Clients : HoldsIn(ln, c, d, k)
    BY <1>1
  <2>2. ln[c] \in Lines
    BY <2>1 DEF HoldsIn, LineOf
  <2> QED
    BY <2>1, <2>2, LineIs, PendingIs
<1>2. CASE ~ \E c \in Clients : HoldsIn(ln, c, d, k)
  <2>1. Pending(ln, d, k) = <<>>
    BY <1>2, PendingIs
  <2> QED
    BY <2>1
<1> QED
  BY <1>1, <1>2

\* A client that has saved its line gives its lock back.
Releases(ln, c, new) ==
    /\ ln \in LineOf /\ OneIn(ln) /\ ln[c] # NoLine
    /\ new = [ln EXCEPT ![c] = NoLine]

LEMMA Released ==
    ASSUME NEW ln, NEW c \in Clients, NEW new, Releases(ln, c, new)
    PROVE  /\ new \in LineOf /\ OneIn(new) /\ ln[c] \in Lines
           /\ \A d \in DBs, k \in Keys : \A v \in Seq(Nat) :
                  (v \o Added(ln[c], d, k)) \o Pending(new, d, k) = v \o Pending(ln, d, k)
<1> USE DEF Releases
<1>1. ln[c] \in Lines
  BY DEF LineOf
<1>2. new \in LineOf /\ new[c] = NoLine /\ \A e \in Clients : e # c => new[e] = ln[e]
  BY DEF LineOf
<1>3. \A e \in Clients : \A d, k : HoldsIn(new, e, d, k) <=> e # c /\ HoldsIn(ln, e, d, k)
  BY <1>2 DEF HoldsIn
<1>4. OneIn(new)
  BY <1>3 DEF OneIn
<1>5. ASSUME NEW d \in DBs, NEW k \in Keys, NEW v \in Seq(Nat)
      PROVE  (v \o Added(ln[c], d, k)) \o Pending(new, d, k) = v \o Pending(ln, d, k)
  <2>1. CASE HoldsIn(ln, c, d, k)
    <3>1. Added(ln[c], d, k) = ln[c].cmd[1].val
      BY <2>1 DEF HoldsIn, Added
    <3>2. Pending(ln, d, k) = ln[c].cmd[1].val
      BY <2>1, PendingIs
    <3>3. Pending(new, d, k) = <<>>
      BY <1>3, <1>4, <2>1, PendingIs DEF OneIn
    <3>4. v \o ln[c].cmd[1].val \in Seq(Nat)
      BY <1>1, LineIs, ConcatProperties
    <3> QED
      BY <3>1, <3>2, <3>3, <3>4, ConcatEmptySeq
  <2>2. CASE ~HoldsIn(ln, c, d, k)
    <3>1. Added(ln[c], d, k) = <<>>
      BY <2>2 DEF HoldsIn, Added
    <3>2. Pending(new, d, k) = Pending(ln, d, k)
      <4>1. \A e \in Clients : /\ HoldsIn(new, e, d, k) <=> HoldsIn(ln, e, d, k)
                               /\ HoldsIn(ln, e, d, k) => new[e] = ln[e]
        BY <1>2, <1>3, <2>2
      <4> QED
        <5>1. OneIn(ln)
          OBVIOUS
        <5> QED
          BY ONLY <1>4, <4>1, <5>1, d \in DBs, k \in Keys, PendingSame
    <3>3. v \o <<>> = v
      BY ConcatEmptySeq
    <3> QED
      BY <3>1, <3>2, <3>3
  <2> QED
    BY <2>1, <2>2
<1> QED
  BY <1>1, <1>2, <1>4, <1>5

\* A client takes the lock of a key that nobody has.
Takes(ln, c, d, k, v, new) ==
    /\ ln \in LineOf /\ OneIn(ln) /\ ln[c] = NoLine
    /\ \A e \in Clients : ~HoldsIn(ln, e, d, k)
    /\ new = [ln EXCEPT ![c] = [db |-> d, cmd |-> <<AppendCmd(k, v)>>]]

LEMMA Taken ==
    ASSUME NEW ln, NEW c \in Clients, NEW d \in DBs, NEW k \in Keys, NEW v \in Nat, NEW new,
           Takes(ln, c, d, k, v, new)
    PROVE  /\ new \in LineOf /\ OneIn(new)
           /\ Pending(ln, d, k) = <<>> /\ Pending(new, d, k) = <<v>>
           /\ \A x \in DBs, y \in Keys : x # d \/ y # k => Pending(new, x, y) = Pending(ln, x, y)
<1> USE DEF Takes
<1> DEFINE p == [db |-> d, cmd |-> <<AppendCmd(k, v)>>]
<1>1. p \in Lines /\ p.db = d /\ p.cmd[1].key = k /\ p.cmd[1].val = <<v>>
  BY DEF Lines, Appends, AppendCmd
<1> HIDE DEF p
<1>2. new \in LineOf /\ new[c] = p /\ \A e \in Clients : e # c => new[e] = ln[e]
  BY <1>1 DEF LineOf, p
<1>3. p # NoLine
  BY <1>1, LineIs
<1>4. ASSUME NEW x \in DBs, NEW y \in Keys
      PROVE  /\ HoldsIn(new, c, x, y) <=> x = d /\ y = k
             /\ ~HoldsIn(ln, c, x, y)
             /\ \A e \in Clients : e # c => (HoldsIn(new, e, x, y) <=> HoldsIn(ln, e, x, y))
  BY <1>1, <1>2, <1>3 DEF HoldsIn
<1>5. OneIn(new)
  <2> SUFFICES ASSUME NEW a \in Clients, NEW b \in Clients, NEW x \in DBs, NEW y \in Keys,
                      HoldsIn(new, a, x, y), HoldsIn(new, b, x, y)
               PROVE  a = b
    BY DEF OneIn
  <2>1. CASE x = d /\ y = k
    <3>1. \A e \in Clients : e # c => ~HoldsIn(new, e, x, y)
      BY <1>4, <2>1
    <3> QED
      BY <3>1
  <2>2. CASE ~(x = d /\ y = k)
    <3>1. a # c /\ b # c
      BY <1>4, <2>2
    <3>2. HoldsIn(ln, a, x, y) /\ HoldsIn(ln, b, x, y)
      BY <1>4, <3>1
    <3> QED
      BY <3>2 DEF OneIn
  <2> QED
    BY <2>1, <2>2
<1>6. Pending(ln, d, k) = <<>>
  BY PendingIs
<1>7. Pending(new, d, k) = <<v>>
  <2>1. HoldsIn(new, c, d, k)
    BY <1>4
  <2>2. Pending(new, d, k) = new[c].cmd[1].val
    BY <1>5, <2>1, PendingIs
  <2> QED
    BY <1>1, <1>2, <2>2
<1>8. ASSUME NEW x \in DBs, NEW y \in Keys, x # d \/ y # k
      PROVE  Pending(new, x, y) = Pending(ln, x, y)
  <2>1. \A e \in Clients : /\ HoldsIn(new, e, x, y) <=> HoldsIn(ln, e, x, y)
                           /\ HoldsIn(ln, e, x, y) => new[e] = ln[e]
    BY <1>2, <1>4, <1>8
  <2>2. x \in DBs /\ y \in Keys /\ OneIn(ln)
    OBVIOUS
  <2> QED
    BY ONLY <1>5, <2>1, <2>2, PendingSame
<1> QED
  BY <1>2, <1>5, <1>6, <1>7, <1>8

LEMMA NobodyHolds ==
    LET ln == [c \in Clients |-> NoLine]
    IN  ln \in LineOf /\ OneIn(ln) /\ \A d \in DBs, k \in Keys : Pending(ln, d, k) = <<>>
BY DEF LineOf, OneIn, Pending, HoldsIn

-------------------------------------------------------------------------------
(* Jobs *)

JobType == [pc : {"idle", "load", "finish", "rename"}, size : Nat, db : DBs,
            stale : BOOLEAN, bad : BOOLEAN, tmp : Seq(Record)]

JobRec(p, n, d, s, b, t) == [pc |-> p, size |-> n, db |-> d, stale |-> s, bad |-> b, tmp |-> t]

LEMMA JobIs ==
    ASSUME NEW a \in JobType
    PROVE  a = JobRec(a.pc, a.size, a.db, a.stale, a.bad, a.tmp)
BY DEF JobType, JobRec

\* Updates of several fields.
Loading(a, n, d) == [a EXCEPT !.pc = "load", !.size = n, !.db = d]
Finishing(a, b, t) == [a EXCEPT !.pc = "finish", !.bad = b, !.tmp = t]
Renaming(a, t) == [a EXCEPT !.pc = "rename", !.tmp = t]
Staling(a) == [a EXCEPT !.stale = TRUE]

LEMMA JobUpdates ==
    ASSUME NEW a \in JobType, NEW n, NEW d, NEW b, NEW t
    PROVE  /\ Loading(a, n, d) = JobRec("load", n, d, a.stale, a.bad, a.tmp)
           /\ Finishing(a, b, t) = JobRec("finish", a.size, a.db, a.stale, b, t)
           /\ Renaming(a, t) = JobRec("rename", a.size, a.db, a.stale, a.bad, t)
           /\ Staling(a) = JobRec(a.pc, a.size, a.db, TRUE, a.bad, a.tmp)
<1> DEFINE R(pc) == JobRec(pc, a.size, a.db, a.stale, a.bad, a.tmp)
<1>1. a = R(a.pc)
  BY JobIs
<1>2. ASSUME NEW pc
      PROVE  [a EXCEPT !.pc = pc] = R(pc)
  <2> DEFINE r == R(a.pc)
  <2>1. [r EXCEPT !.pc = pc] = R(pc)
    BY DEF JobRec
  <2>2. a = r
    BY <1>1
  <2> HIDE DEF r, R
  <2> QED
    BY <2>1, <2>2
<1>3. Loading(a, n, d) = JobRec("load", n, d, a.stale, a.bad, a.tmp)
  <2> DEFINE x == [a EXCEPT !.pc = "load"]
             y == [x EXCEPT !.size = n]
  <2>1. Loading(a, n, d) = [y EXCEPT !.db = d]
    BY DEF Loading
  <2>2. x = R("load")
    BY <1>2
  <2> HIDE DEF x
  <2>3. y = JobRec("load", n, a.db, a.stale, a.bad, a.tmp)
    BY <2>2 DEF JobRec
  <2> HIDE DEF y
  <2>4. [y EXCEPT !.db = d] = JobRec("load", n, d, a.stale, a.bad, a.tmp)
    BY <2>3 DEF JobRec
  <2> QED
    BY <2>1, <2>4
<1>4. Finishing(a, b, t) = JobRec("finish", a.size, a.db, a.stale, b, t)
  <2> DEFINE x == [a EXCEPT !.pc = "finish"]
             y == [x EXCEPT !.bad = b]
  <2>1. Finishing(a, b, t) = [y EXCEPT !.tmp = t]
    BY DEF Finishing
  <2>2. x = R("finish")
    BY <1>2
  <2> HIDE DEF x
  <2>3. y = JobRec("finish", a.size, a.db, a.stale, b, a.tmp)
    BY <2>2 DEF JobRec
  <2> HIDE DEF y
  <2>4. [y EXCEPT !.tmp = t] = JobRec("finish", a.size, a.db, a.stale, b, t)
    BY <2>3 DEF JobRec
  <2> QED
    BY <2>1, <2>4
<1>5. Renaming(a, t) = JobRec("rename", a.size, a.db, a.stale, a.bad, t)
  <2> DEFINE x == [a EXCEPT !.pc = "rename"]
  <2>1. Renaming(a, t) = [x EXCEPT !.tmp = t]
    BY DEF Renaming
  <2>2. x = R("rename")
    BY <1>2
  <2> HIDE DEF x
  <2>3. [x EXCEPT !.tmp = t] = JobRec("rename", a.size, a.db, a.stale, a.bad, t)
    BY <2>2 DEF JobRec
  <2> QED
    BY <2>1, <2>3
<1>6. Staling(a) = JobRec(a.pc, a.size, a.db, TRUE, a.bad, a.tmp)
  <2> DEFINE r == R(a.pc)
  <2>0. ASSUME NEW x
        PROVE  [r EXCEPT !.stale = x] = JobRec(a.pc, a.size, a.db, x, a.bad, a.tmp)
    BY DEF JobRec
  <2>1. [r EXCEPT !.stale = TRUE] = JobRec(a.pc, a.size, a.db, TRUE, a.bad, a.tmp)
    BY <2>0
  <2>2. a = r
    BY <1>1
  <2> HIDE DEF r, R
  <2> QED
    BY <2>1, <2>2 DEF Staling
<1> QED
  BY <1>3, <1>4, <1>5, <1>6

LEMMA IdleIs ==
    /\ Idle = JobRec("idle", 0, 0, FALSE, FALSE, <<>>)
    /\ Idle \in JobType /\ Idle.pc = "idle" /\ Idle.stale = FALSE /\ Idle.bad = FALSE /\ Idle.tmp = <<>>
<1>1. <<>> \in Seq(Record) /\ 0 \in DBs
  BY NDBAssumption DEF DBs
<1> QED
  BY <1>1 DEF Idle, JobType, JobRec

\* What a job knows of a file f that no other job has replaced.
SizeFits(b, f) == b.pc \in {"load", "finish"} => b.size <= Len(f)

JobTrue(b, f) ==
    /\ b.pc \in {"load", "finish"} => Load(SubSeq(f, 1, b.size)).db = b.db
    /\ b.pc = "finish" /\ ~b.bad =>
           Load(b.tmp).data = Load(SubSeq(f, 1, b.size)).data /\ Grows(b.tmp)
    /\ b.pc = "rename" /\ ~b.bad => Load(b.tmp) = Load(f) /\ Grows(b.tmp)

LEMMA JobExtended ==
    ASSUME NEW b \in JobType, NEW f \in Seq(Record), NEW h \in Seq(Record),
           SizeFits(b, f), b.pc # "rename"
    PROVE  SizeFits(b, f \o h) /\ (JobTrue(b, f) => JobTrue(b, f \o h))
<1>1. CASE b.pc \in {"load", "finish"}
  <2>1. b.size \in 0 .. Len(f)
    BY <1>1 DEF SizeFits, JobType
  <2>2. SubSeq(f \o h, 1, b.size) = SubSeq(f, 1, b.size) /\ Len(f) <= Len(f \o h)
    BY <2>1, Extended
  <2>3. Len(f) \in Nat /\ Len(f \o h) \in Nat /\ b.size <= Len(f \o h)
    BY <2>1, <2>2
  <2> DEFINE g == f \o h
  <2> HIDE DEF g
  <2>4. JobTrue(b, f) => JobTrue(b, g)
    BY <1>1, <2>2, <2>3 DEF JobTrue, g
  <2>5. SizeFits(b, g)
    BY <2>3 DEF SizeFits, g
  <2> QED
    BY <2>4, <2>5 DEF g
<1>2. CASE b.pc = "idle"
  BY <1>2 DEF JobTrue, SizeFits
<1> QED
  BY <1>1, <1>2 DEF JobType

LEMMA DumpOfPrefix ==
    ASSUME NEW f \in Seq(Record), NEW n \in 0 .. Len(f)
    PROVE  LET m == Load(SubSeq(f, 1, n)).data
           IN  Dump(m) \in Seq(Record) /\ Grows(Dump(m)) /\ Load(Dump(m)).data = m
<1> DEFINE g == SubSeq(f, 1, n)
<1>1. g \in Seq(Record)
  OBVIOUS
<1> HIDE DEF g
<1>2. Load(g).data \in Data
  BY <1>1, LoadType DEF State
<1>3. \A d \in DBs : IsFiniteSet(Support(Load(g).data[d]))
  BY <1>1, FiniteSupport
<1>4. LET m == Load(g).data
      IN  Dump(m) \in Seq(Record) /\ Grows(Dump(m)) /\ Load(Dump(m)).data = m
  BY <1>2, <1>3, DumpLoads
<1> QED
  BY <1>4 DEF g

\* The dump, the SELECT and what has been written since make up the file.
LEMMA Finished ==
    ASSUME NEW f \in Seq(Record), NEW t \in Seq(Record), NEW d \in DBs, NEW n \in 0 .. Len(f)
    PROVE  /\ (t \o <<Select(d)>>) \o From(f, n) \in Seq(Record)
           /\ /\ Load(SubSeq(f, 1, n)).db = d
              /\ Load(t).data = Load(SubSeq(f, 1, n)).data
              /\ Grows(t) /\ Grows(f)
              => /\ Load((t \o <<Select(d)>>) \o From(f, n)) = Load(f)
                 /\ Grows((t \o <<Select(d)>>) \o From(f, n))
<1> DEFINE g == SubSeq(f, 1, n)
           h == From(f, n)
           u == t \o <<Select(d)>>
<1>1. /\ g \in Seq(Record) /\ h \in Seq(Record) /\ u \in Seq(Record)
      /\ Load(u) = [db |-> d, data |-> Load(t).data]
      /\ Grows(t) => Grows(u)
  <2>1. g \in Seq(Record) /\ h \in Seq(Record)
    BY DEF From
  <2> QED
    BY <2>1, EndSelect
<1>2. g \o h = f
  <2>1. Len(f) \in Nat
    OBVIOUS
  <2>2. SubSeq(f, 1, n) \o SubSeq(f, n + 1, Len(f)) = SubSeq(f, 1, Len(f))
    <3>1. 1 \in 1 .. Len(f) + 1 /\ n \in 1 - 1 .. Len(f) /\ Len(f) \in n .. Len(f)
      BY <2>1
    <3> QED
      BY <3>1, ConcatAdjacentSubSeq
  <2> QED
    BY <2>2, SubSeqFull DEF From
<1> HIDE DEF g, h, u
<1>3. u \o h \in Seq(Record)
  BY <1>1, ConcatProperties
<1>4. ASSUME Load(g).db = d, Load(t).data = Load(g).data, Grows(t), Grows(f)
      PROVE  Load(u \o h) = Load(f) /\ Grows(u \o h)
  <2>1. Load(g) = [db |-> d, data |-> Load(t).data]
    BY <1>1, <1>4, LoadType DEF State
  <2>2. Load(u) = Load(g)
    BY <1>1, <2>1
  <2>3. Load(u \o h) = Load(g \o h)
    BY <1>1, <2>2, LoadConcat
  <2>4. Grows(u \o h)
    BY <1>1, <1>2, <1>4, <2>2, GrowsConcat
  <2> QED
    BY <1>2, <2>3, <2>4
<1> QED
  BY <1>3, <1>4 DEF g, h, u

-------------------------------------------------------------------------------
(* The inductive invariant *)

IType ==
    /\ policy \in Policies /\ mode \in {"up", "closing", "down"}
    /\ data \in Data /\ line \in LineOf /\ queue \in Seq(Lines)
    /\ file \in Seq(Record) /\ synced \in 0 .. Len(file) /\ currentDB \in DBs
    /\ pausing \in Jobs \cup {NoJob} /\ job \in [Jobs -> JobType]
    /\ ops \in Nat /\ rewrites \in Nat /\ boots \in Nat /\ fails \in Nat
    /\ spoiled \in BOOLEAN

\* The file is in the database that currentDB says, always.
InDB == Load(file).db = currentDB

\* Who writes directly, and who has stopped, leaves nothing in the queue.
Waits == policy = "always" \/ mode = "down" => queue = <<>>

\* pausingAof is held across steps to replace the file, and for nothing else.
Paused == \A j \in Jobs : pausing = j <=> job[j].pc = "rename"

OneEach == OneIn(line)

\* No line of the file takes anything away, so that every prefix is a past.
Growing == ~spoiled => Grows(file)

\* What is not synced under appendfsync always are SELECTs.
SyncedAll ==
    ~spoiled /\ policy = "always" /\ synced # 0 =>
        \A n \in synced .. Len(file) : Steps(file)[n].data = Load(file).data

JobsTrue ==
    \A j \in Jobs : ~job[j].stale => /\ SizeFits(job[j], file)
                                     /\ ~spoiled => JobTrue(job[j], file)

\* The file, the queue and the lines under way make up the data.
AllThere ==
    ~spoiled => \A d \in DBs, k \in Keys :
                    Load(file \o Written(queue)).data[d][k] \o Pending(line, d, k) = data[d][k]

IInv == /\ IType /\ InDB /\ Waits /\ Paused /\ OneEach
        /\ Growing /\ SyncedAll /\ JobsTrue /\ AllThere

LEMMA InitInv == Init => IInv
<1> SUFFICES ASSUME Init PROVE IInv
  OBVIOUS
<1>1. IType
  <2>1. data \in Data
    BY LoadNothing, EmptyType DEF Init, State
  <2>2. \A j \in Jobs : job[j] = Idle /\ Idle \in JobType
    <3>1. <<>> \in Seq(Record) /\ 0 \in DBs
      BY NDBAssumption DEF DBs
    <3> QED
      BY <3>1 DEF Init, Idle, JobType
  <2>3. job \in [Jobs -> JobType]
    BY <2>2 DEF Init
  <2>4. line \in LineOf
    BY NobodyHolds DEF Init
  <2>5. currentDB \in DBs
    BY NDBAssumption DEF Init, DBs
  <2>6. queue \in Seq(Lines) /\ file \in Seq(Record) /\ synced \in 0 .. Len(file)
    BY DEF Init
  <2>7. /\ policy \in Policies /\ mode \in {"up", "closing", "down"}
        /\ pausing \in Jobs \cup {NoJob} /\ spoiled \in BOOLEAN
        /\ ops \in Nat /\ rewrites \in Nat /\ boots \in Nat /\ fails \in Nat
    BY DEF Init
  <2> QED
    BY <2>1, <2>3, <2>4, <2>5, <2>6, <2>7 DEF IType
<1>2. InDB
  BY LoadNothing DEF Init, InDB, Empty
<1>3. Waits
  BY DEF Init, Waits
<1>4. Paused
  BY NoJobAssumption DEF Init, Paused, Idle
<1>5. OneEach
  BY NobodyHolds DEF Init, OneEach
<1>6. Growing /\ SyncedAll
  BY DEF Init, Growing, Grows, SyncedAll
<1>7. JobsTrue
  BY DEF Init, JobsTrue, JobTrue, SizeFits, Idle
<1>8. AllThere
  <2>1. file \o Written(queue) = <<>>
    BY WrittenNothing DEF Init
  <2>2. \A d \in DBs, k \in Keys : Pending(line, d, k) = <<>> /\ Empty.data[d][k] = <<>>
    BY NobodyHolds DEF Init, Empty
  <2>3. data = Empty.data
    BY LoadNothing DEF Init
  <2>4. <<>> \o <<>> = <<>>
    OBVIOUS
  <2> QED
    BY <2>1, <2>2, <2>3, <2>4, LoadNothing DEF AllThere
<1> QED
  BY <1>1, <1>2, <1>3, <1>4, <1>5, <1>6, <1>7, <1>8 DEF IInv

LEMMA ExecStep ==
    ASSUME IInv, NEW c \in Clients, Exec(c)
    PROVE  IInv'
<1> USE DEF IInv
<1>1. PICK d \in DBs, k \in Keys :
          /\ ~Busy(d, k)
          /\ data' = [data EXCEPT ![d][k] = Append(@, ops')]
          /\ line' = [line EXCEPT ![c] = [db |-> d, cmd |-> <<AppendCmd(k, ops')>>]]
  BY DEF Exec
<1>2. /\ line[c] = NoLine /\ ops' = ops + 1 /\ ops' \in Nat
      /\ UNCHANGED <<policy, mode, queue, file, synced, currentDB, pausing, job,
                     rewrites, boots, fails, spoiled>>
  BY DEF Exec, IType
<1>3. \A e \in Clients : ~HoldsIn(line, e, d, k)
  BY <1>1 DEF Busy, Holds, HoldsIn
<1>4. /\ line' \in LineOf /\ OneIn(line')
      /\ Pending(line, d, k) = <<>> /\ Pending(line', d, k) = <<ops'>>
      /\ \A x \in DBs, y \in Keys : x # d \/ y # k => Pending(line', x, y) = Pending(line, x, y)
  <2>1. line \in LineOf /\ OneIn(line)
    BY DEF IType, OneEach
  <2>2. Takes(line, c, d, k, ops', line')
    BY <1>1, <1>2, <1>3, <2>1 DEF Takes
  <2> QED
    BY <1>2, <2>2, Taken
<1>5. \A x \in DBs, y \in Keys :
          data'[x][y] = IF x = d /\ y = k THEN Append(data[x][y], ops') ELSE data[x][y]
  BY <1>1 DEF IType, Data
<1>6. data' \in Data
  <2>1. data[d][k] \in Seq(Nat)
    BY DEF IType, Data
  <2>2. Append(data[d][k], ops') \in Seq(Nat)
    BY <1>2, <2>1
  <2> QED
    BY <1>1, <2>2 DEF IType, Data
<1>7. IType'
  BY <1>2, <1>4, <1>6 DEF IType
<1>8. /\ InDB' /\ Waits' /\ Paused' /\ Growing' /\ SyncedAll' /\ JobsTrue'
  BY <1>2 DEF InDB, Waits, Paused, Growing, SyncedAll, JobsTrue
<1>9. OneEach'
  BY <1>4 DEF OneEach
<1>10. AllThere'
  <2> SUFFICES ASSUME ~spoiled, NEW x \in DBs, NEW y \in Keys
               PROVE  Load(file \o Written(queue)).data[x][y] \o Pending(line', x, y) = data'[x][y]
    BY <1>2 DEF AllThere
  <2> DEFINE v == Load(file \o Written(queue)).data[x][y]
  <2>1. v \o Pending(line, x, y) = data[x][y]
    BY DEF AllThere
  <2>2. v \in Seq(Nat)
    BY BelowWritten, LoadType, ValueType DEF IType
  <2> HIDE DEF v
  <2>3. CASE x = d /\ y = k
    <3>1. v = data[x][y]
      BY <1>4, <2>1, <2>2, <2>3, ConcatEmptySeq
    <3>2. v \o <<ops'>> = Append(v, ops')
      BY <1>2, <2>2, AppendIsConcat
    <3> QED
      BY <1>4, <1>5, <2>3, <3>1, <3>2 DEF v
  <2>4. CASE ~(x = d /\ y = k)
    BY <1>4, <1>5, <2>1, <2>4 DEF v
  <2> QED
    BY <2>3, <2>4
<1> QED
  BY <1>7, <1>8, <1>9, <1>10

\* What writeAof does to the file, whatever comes of it.
LEMMA WriteEffect ==
    ASSUME IInv, NEW p \in Lines, WriteAof(p)
    PROVE  /\ pausing = NoJob
           /\ file' \in Seq(Record) /\ synced' \in 0 .. Len(file') /\ currentDB' \in DBs
           /\ fails' \in Nat /\ spoiled' \in BOOLEAN
           /\ Load(file').db = currentDB'
           /\ \E h \in Seq(Record) : file' = file \o h
           /\ ~spoiled' => /\ ~spoiled
                           /\ Load(file') = Load(file \o Piece(p))
                           /\ Grows(file) => Grows(file')
                           /\ policy = "always" => synced' = Len(file')
<1> USE DEF IInv
<1> DEFINE sel == IF p.db = currentDB THEN <<>> ELSE <<Select(p.db)>>
<1>1. /\ file \in Seq(Record) /\ currentDB = Load(file).db /\ p.db \in DBs /\ currentDB \in DBs
      /\ fails \in Nat /\ spoiled \in BOOLEAN /\ synced \in 0 .. Len(file)
  BY LineType DEF IType, InDB
<1>2. /\ pausing = NoJob
      /\ \/ /\ file' = (file \o sel) \o p.cmd /\ currentDB' = p.db
            /\ UNCHANGED <<fails, spoiled>>
         \/ /\ fails' = fails + 1 /\ spoiled' = TRUE
            /\ \/ p.db # currentDB /\ UNCHANGED <<file, currentDB>>
               \/ file' = file \o sel /\ currentDB' = p.db
      /\ synced' = IF policy = "always" /\ currentDB' = p.db THEN Len(file') ELSE synced
  BY DEF WriteAof
<1>3. sel = IF p.db = Load(file).db THEN <<>> ELSE <<Select(p.db)>>
  BY <1>1
<1> HIDE DEF sel
<1>4. /\ (file \o sel) \o p.cmd \in Seq(Record)
      /\ file \o sel \in Seq(Record) /\ sel \in Seq(Record)
      /\ \E h \in Seq(Record) : (file \o sel) \o p.cmd = file \o h
      /\ Load((file \o sel) \o p.cmd) = Load(file \o Piece(p))
      /\ Grows(file) => Grows((file \o sel) \o p.cmd)
  BY <1>1, <1>3, EndWrite
<1>5. file' \in Seq(Record) /\ currentDB' \in DBs
  BY <1>1, <1>2, <1>4
<1>6. \E h \in Seq(Record) : file' = file \o h
  <2>1. file = file \o <<>> /\ <<>> \in Seq(Record)
    BY <1>1, ConcatEmptySeq
  <2> QED
    BY <1>2, <1>4, <2>1
<1>7. Load(file').db = currentDB'
  <2>1. Load(file \o Piece(p)).db = p.db
    BY <1>1, EndPiece
  <2>2. Load(file \o sel).db = p.db
    <3>1. CASE p.db = Load(file).db
      BY <1>1, <1>3, <3>1, ConcatEmptySeq
    <3>2. CASE p.db # Load(file).db
      <4>1. sel = <<Select(p.db)>>
        BY <1>3, <3>2
      <4>2. Load(file \o <<Select(p.db)>>) = [db |-> p.db, data |-> Load(file).data]
        BY <1>1, EndSelect
      <4> QED
        BY <4>1, <4>2
    <3> QED
      BY <3>1, <3>2
  <2>3. CASE file' = (file \o sel) \o p.cmd /\ currentDB' = p.db
    BY <1>4, <2>1, <2>3
  <2>4. CASE UNCHANGED <<file, currentDB>>
    BY <1>1, <2>4
  <2>5. CASE file' = file \o sel /\ currentDB' = p.db
    BY <2>2, <2>5
  <2> QED
    BY <1>2, <2>3, <2>4, <2>5
<1>8. synced' \in 0 .. Len(file')
  <2>1. PICK h \in Seq(Record) : file' = file \o h
    BY <1>6
  <2>2. Len(file') = Len(file) + Len(h) /\ Len(h) \in Nat /\ Len(file) \in Nat
    BY <1>1, <2>1
  <2> QED
    BY <1>1, <1>2, <2>2
<1>9. ASSUME ~spoiled'
      PROVE  /\ ~spoiled /\ Load(file') = Load(file \o Piece(p))
             /\ Grows(file) => Grows(file')
             /\ policy = "always" => synced' = Len(file')
  <2>1. ~(spoiled' = TRUE)
    BY <1>9
  <2>2. /\ file' = (file \o sel) \o p.cmd /\ currentDB' = p.db /\ spoiled' = spoiled
    BY <1>2, <2>1
  <2>3. ~spoiled
    BY <1>9, <2>2
  <2> QED
    BY <1>2, <1>4, <2>2, <2>3
<1>10. fails' \in Nat /\ spoiled' \in BOOLEAN
  <2>1. fails' = fails \/ fails' = fails + 1
    BY <1>2
  <2>2. spoiled' = spoiled \/ spoiled' = TRUE
    BY <1>2
  <2>3. fails' \in Nat
    BY <1>1, <2>1
  <2>4. spoiled' \in BOOLEAN
    BY <1>1, <2>2
  <2> QED
    BY <2>3, <2>4
<1> QED
  BY <1>2, <1>5, <1>6, <1>7, <1>8, <1>9, <1>10

\* The conjuncts that a write alone decides.
LEMMA WriteKeeps ==
    ASSUME IInv, NEW p \in Lines, WriteAof(p), UNCHANGED <<policy, pausing, job>>
    PROVE  InDB' /\ Paused' /\ Growing' /\ SyncedAll' /\ JobsTrue'
<1> USE DEF IInv
<1>1. /\ pausing = NoJob /\ file' \in Seq(Record) /\ Load(file').db = currentDB'
      /\ \E h \in Seq(Record) : file' = file \o h
      /\ ~spoiled' => /\ ~spoiled
                      /\ Grows(file) => Grows(file')
                      /\ policy = "always" => synced' = Len(file')
  BY WriteEffect
<1>2. InDB' /\ Paused' /\ Growing'
  BY <1>1 DEF InDB, Paused, Growing
<1>3. SyncedAll'
  <2> SUFFICES ASSUME ~spoiled', policy' = "always", NEW n \in synced' .. Len(file')
               PROVE  Steps(file')[n].data = Load(file').data
    BY DEF SyncedAll
  <2>1. n = Len(file') /\ Len(file') \in Nat
    BY <1>1
  <2> DEFINE g == file'
  <2>2. Len(g) \in Nat
    BY <2>1
  <2> HIDE DEF g
  <2>3. Load(g) = Steps(g)[Len(g)]
    BY <2>2, StepOf
  <2> QED
    BY <2>1, <2>3 DEF g
<1>4. JobsTrue'
  <2> SUFFICES ASSUME NEW j \in Jobs, ~job[j].stale
               PROVE  SizeFits(job[j], file') /\ (~spoiled' => JobTrue(job[j], file'))
    BY DEF JobsTrue
  <2>1. job[j] \in JobType /\ file \in Seq(Record)
    BY DEF IType
  <2>2. job[j].pc # "rename"
    BY <1>1, NoJobAssumption DEF Paused
  <2>3. SizeFits(job[j], file) /\ (~spoiled => JobTrue(job[j], file))
    BY DEF JobsTrue
  <2>4. PICK h \in Seq(Record) : file' = file \o h
    BY <1>1
  <2>5. SizeFits(job[j], file \o h) /\ (JobTrue(job[j], file) => JobTrue(job[j], file \o h))
    BY <2>1, <2>2, <2>3, JobExtended
  <2> QED
    BY <1>1, <2>3, <2>4, <2>5
<1> QED
  BY <1>2, <1>3, <1>4

LEMMA SaveDirectlyStep ==
    ASSUME IInv, NEW c \in Clients, SaveDirectly(c)
    PROVE  IInv'
<1> USE DEF IInv
<1>1. /\ policy = "always" /\ mode # "down" /\ line[c] # NoLine /\ WriteAof(line[c])
      /\ line' = [line EXCEPT ![c] = NoLine]
      /\ UNCHANGED <<policy, mode, data, queue, pausing, job, ops, rewrites, boots>>
  BY DEF SaveDirectly
<1> DEFINE p == line[c]
<1>2. /\ line' \in LineOf /\ OneIn(line') /\ p \in Lines
      /\ \A d \in DBs, k \in Keys : \A v \in Seq(Nat) :
             (v \o Added(p, d, k)) \o Pending(line', d, k) = v \o Pending(line, d, k)
  <2>1. line \in LineOf /\ OneIn(line)
    BY DEF IType, OneEach
  <2>2. Releases(line, c, line')
    BY <1>1, <2>1 DEF Releases
  <2> QED
    BY <2>2, Released
<1>3. WriteAof(p)
  BY <1>1
<1> HIDE DEF p
<1>4. /\ file' \in Seq(Record) /\ synced' \in 0 .. Len(file') /\ currentDB' \in DBs
      /\ fails' \in Nat /\ spoiled' \in BOOLEAN
      /\ ~spoiled' => ~spoiled /\ Load(file') = Load(file \o Piece(p))
  BY <1>2, <1>3, WriteEffect
<1>5. IType'
  BY <1>1, <1>2, <1>4 DEF IType
<1>6. InDB' /\ Paused' /\ Growing' /\ SyncedAll' /\ JobsTrue'
  BY <1>1, <1>2, <1>3, WriteKeeps
<1>7. Waits' /\ OneEach'
  BY <1>1, <1>2 DEF Waits, OneEach
<1>8. AllThere'
  <2> SUFFICES ASSUME ~spoiled', NEW d \in DBs, NEW k \in Keys
               PROVE  Load(file' \o Written(queue')).data[d][k] \o Pending(line', d, k) = data'[d][k]
    BY DEF AllThere
  <2>1. queue = <<>> /\ queue' = <<>>
    BY <1>1 DEF Waits
  <2>2. file' \o Written(queue') = file' /\ file \o Written(queue) = file
    BY <1>4, <2>1, WrittenNothing, ConcatEmptySeq DEF IType
  <2>3. file \in Seq(Record)
    BY DEF IType
  <2>4. Load(file').data[d][k] = Load(file).data[d][k] \o Added(p, d, k)
    <3>1. Load(file \o Piece(p)).data[d][k] = Load(file).data[d][k] \o Added(p, d, k)
      BY <1>2, <2>3, EndPiece
    <3> QED
      BY <1>4, <3>1
  <2>5. Load(file).data[d][k] \in Seq(Nat)
    BY <2>3, LoadType, ValueType
  <2>6. Load(file).data[d][k] \o Pending(line, d, k) = data[d][k]
    BY <1>4, <2>2 DEF AllThere
  <2> QED
    BY <1>1, <1>2, <2>2, <2>4, <2>5, <2>6
<1> QED
  BY <1>5, <1>6, <1>7, <1>8

LEMMA SaveToQueueStep ==
    ASSUME IInv, NEW c \in Clients, SaveToQueue(c)
    PROVE  IInv'
<1> USE DEF IInv
<1>1. /\ policy # "always" /\ mode = "up" /\ line[c] # NoLine
      /\ queue' = Append(queue, line[c]) /\ line' = [line EXCEPT ![c] = NoLine]
      /\ UNCHANGED <<policy, mode, data, file, synced, currentDB, pausing, job, ops, rewrites,
                     boots, fails, spoiled>>
  BY DEF SaveToQueue, counters
<1> DEFINE p == line[c]
<1>2. /\ line' \in LineOf /\ OneIn(line') /\ p \in Lines
      /\ \A d \in DBs, k \in Keys : \A v \in Seq(Nat) :
             (v \o Added(p, d, k)) \o Pending(line', d, k) = v \o Pending(line, d, k)
  <2>1. line \in LineOf /\ OneIn(line)
    BY DEF IType, OneEach
  <2>2. Releases(line, c, line')
    BY <1>1, <2>1 DEF Releases
  <2> QED
    BY <2>2, Released
<1>3. queue' = Append(queue, p) /\ queue' \in Seq(Lines) /\ queue \in Seq(Lines)
  BY <1>1, <1>2 DEF IType
<1> HIDE DEF p
<1>4. IType'
  BY <1>1, <1>2, <1>3 DEF IType
<1>5. InDB' /\ Waits' /\ Paused' /\ Growing' /\ SyncedAll' /\ JobsTrue'
  BY <1>1 DEF InDB, Waits, Paused, Growing, SyncedAll, JobsTrue
<1>6. OneEach'
  BY <1>2 DEF OneEach
<1>7. AllThere'
  <2> SUFFICES ASSUME ~spoiled, NEW d \in DBs, NEW k \in Keys
               PROVE  Load(file \o Written(queue')).data[d][k] \o Pending(line', d, k) = data[d][k]
    BY <1>1 DEF AllThere
  <2> DEFINE w == Written(queue)
             u == Piece(p)
             g == file \o w
  <2>1. Written(queue') = w \o u
    BY <1>2, <1>3, WrittenAppend
  <2>2. file \in Seq(Record) /\ w \in Seq(Record) /\ u \in Seq(Record) /\ g \in Seq(Record)
    BY <1>2, <1>3, WrittenType, LineType, BelowWritten DEF IType
  <2>3. file \o Written(queue') = g \o u
    <3> DEFINE f == file
    <3>1. f \in Seq(Record)
      BY <2>2
    <3> HIDE DEF w, u, f
    <3>2. f \o (w \o u) = (f \o w) \o u
      BY ONLY <2>2, <3>1, RecordsAssociate
    <3> QED
      BY <2>1, <3>2 DEF f
  <2>4. Load(g \o u).data[d][k] = Load(g).data[d][k] \o Added(p, d, k)
    BY <1>2, <2>2, EndPiece
  <2>5. Load(g).data[d][k] \in Seq(Nat)
    BY <2>2, LoadType, ValueType
  <2>6. Load(g).data[d][k] \o Pending(line, d, k) = data[d][k]
    BY DEF AllThere
  <2> QED
    BY <1>2, <2>3, <2>4, <2>5, <2>6
<1> QED
  BY <1>4, <1>5, <1>6, <1>7

LEMMA ListenCmdStep ==
    ASSUME IInv, ListenCmd
    PROVE  IInv'
<1> USE DEF IInv
<1>1. /\ queue # <<>> /\ WriteAof(Head(queue)) /\ queue' = Tail(queue)
      /\ UNCHANGED <<policy, mode, data, line, pausing, job, ops, rewrites, boots>>
  BY DEF ListenCmd
<1> DEFINE p == Head(queue)
           t == Tail(queue)
<1>2. p \in Lines /\ t \in Seq(Lines) /\ Written(queue) = Piece(p) \o Written(t)
  BY <1>1, WrittenHead DEF IType
<1>3. WriteAof(p) /\ queue' = t
  BY <1>1
<1> HIDE DEF p, t
<1>4. /\ file' \in Seq(Record) /\ synced' \in 0 .. Len(file') /\ currentDB' \in DBs
      /\ fails' \in Nat /\ spoiled' \in BOOLEAN
      /\ ~spoiled' => ~spoiled /\ Load(file') = Load(file \o Piece(p))
  BY <1>2, <1>3, WriteEffect
<1>5. IType'
  BY <1>1, <1>2, <1>3, <1>4 DEF IType
<1>6. InDB' /\ Paused' /\ Growing' /\ SyncedAll' /\ JobsTrue'
  BY <1>1, <1>2, <1>3, WriteKeeps
<1>7. Waits' /\ OneEach'
  BY <1>1 DEF Waits, OneEach
<1>8. AllThere'
  <2> SUFFICES ASSUME ~spoiled', NEW d \in DBs, NEW k \in Keys
               PROVE  Load(file' \o Written(t)).data[d][k] \o Pending(line, d, k) = data[d][k]
    BY <1>1, <1>3 DEF AllThere
  <2> DEFINE u == Piece(p)
             w == Written(t)
             f == file
             g == file'
  <2>1. f \in Seq(Record) /\ u \in Seq(Record) /\ w \in Seq(Record) /\ g \in Seq(Record)
    BY <1>2, <1>4, LineType, WrittenType DEF IType
  <2>2. Load(g) = Load(f \o u)
    BY <1>4
  <2>3. Written(queue) = u \o w
    BY <1>2
  <2>4. Load(file \o Written(queue)).data[d][k] \o Pending(line, d, k) = data[d][k]
    BY <1>4 DEF AllThere
  <2> HIDE DEF u, w, f, g
  <2>5. f \o (u \o w) = (f \o u) \o w
    BY ONLY <2>1, RecordsAssociate
  <2>6. f \o u \in Seq(Record)
    BY <2>1, ConcatProperties
  <2>7. Load(g \o w) = Load((f \o u) \o w)
    BY <2>1, <2>2, <2>6, LoadConcat
  <2> QED
    BY <2>3, <2>4, <2>5, <2>7 DEF w, f, g
<1> QED
  BY <1>5, <1>6, <1>7, <1>8

LEMMA FsyncEverySecondStep ==
    ASSUME IInv, FsyncEverySecond
    PROVE  IInv'
<1> USE DEF IInv
<1>1. /\ policy = "everysec" /\ synced' = Len(file)
      /\ UNCHANGED <<policy, mode, data, line, queue, file, currentDB, pausing, job, ops,
                     rewrites, boots, fails, spoiled>>
  BY DEF FsyncEverySecond, counters
<1>2. synced' \in 0 .. Len(file)
  BY <1>1 DEF IType
<1>3. IType'
  BY <1>1, <1>2 DEF IType
<1>4. /\ InDB' /\ Waits' /\ Paused' /\ OneEach' /\ Growing' /\ SyncedAll' /\ JobsTrue' /\ AllThere'
  BY <1>1 DEF InDB, Waits, Paused, OneEach, Growing, SyncedAll, JobsTrue, AllThere
<1> QED
  BY <1>3, <1>4

\* A job that learns something, and nothing else happens.
LEMMA JobStep ==
    ASSUME IInv, NEW j \in Jobs, NEW b \in JobType, job' = [job EXCEPT ![j] = b],
           UNCHANGED <<policy, mode, data, line, queue, file, currentDB, ops, boots, spoiled>>,
           rewrites' \in Nat, fails' \in Nat,
           synced' = synced \/ synced' = Len(file),
           \/ b.pc # "rename" /\ job[j].pc # "rename" /\ pausing' = pausing
           \/ b.pc = "rename" /\ pausing = NoJob /\ pausing' = j,
           ~b.stale => SizeFits(b, file) /\ (~spoiled => JobTrue(b, file))
    PROVE  IInv'
<1> USE DEF IInv
<1>1. /\ job' \in [Jobs -> JobType] /\ job'[j] = b
      /\ \A i \in Jobs : i # j => job'[i] = job[i]
  BY DEF IType
<1>2. pausing' \in Jobs \cup {NoJob}
  BY DEF IType
<1>3. file \in Seq(Record) /\ Len(file) \in Nat /\ synced \in 0 .. Len(file)
  BY DEF IType
<1>4. synced' \in 0 .. Len(file)
  BY <1>3
<1>5. IType'
  BY <1>1, <1>2, <1>4 DEF IType
<1>6. InDB' /\ Waits' /\ OneEach' /\ Growing' /\ AllThere'
  BY DEF InDB, Waits, OneEach, Growing, AllThere
<1>7. Paused'
  BY <1>1, NoJobAssumption DEF Paused
<1>8. JobsTrue'
  BY <1>1 DEF JobsTrue
<1>9. SyncedAll'
  <2>1. CASE synced' = synced
    BY <2>1 DEF SyncedAll
  <2>2. CASE synced' = Len(file)
    <3> SUFFICES ASSUME NEW n \in Len(file) .. Len(file)
                 PROVE  Steps(file)[n].data = Load(file).data
      BY <2>2 DEF SyncedAll
    <3>1. n = Len(file)
      BY <1>3
    <3> QED
      BY <1>3, <3>1, StepOf
  <2> QED
    BY <2>1, <2>2
<1> QED
  BY <1>5, <1>6, <1>7, <1>8, <1>9

LEMMA StartRewriteStep ==
    ASSUME IInv, NEW j \in Jobs, StartRewrite(j)
    PROVE  IInv'
<1> USE DEF IInv
<1> DEFINE b == JobRec("load", Len(file), currentDB, FALSE, FALSE, <<>>)
<1>1. /\ job[j].pc = "idle" /\ pausing = NoJob /\ rewrites' = rewrites + 1
      /\ synced' = Len(file) /\ job' = [job EXCEPT ![j] = b]
      /\ UNCHANGED <<policy, mode, data, line, queue, file, currentDB, pausing, ops, boots,
                     fails, spoiled>>
  <2>1. [Idle EXCEPT !.pc = "load", !.size = Len(file), !.db = currentDB] = b
    <3>1. /\ Idle.stale = FALSE /\ Idle.bad = FALSE /\ Idle.tmp = <<>> /\ Idle \in JobType
      BY IdleIs
    <3>2. Loading(Idle, Len(file), currentDB) =
              JobRec("load", Len(file), currentDB, Idle.stale, Idle.bad, Idle.tmp)
      BY <3>1, JobUpdates
    <3> QED
      BY <3>1, <3>2 DEF Loading
  <2> HIDE DEF b
  <2> QED
    BY <2>1 DEF StartRewrite
<1>2. file \in Seq(Record) /\ Len(file) \in Nat /\ currentDB \in DBs /\ <<>> \in Seq(Record)
  BY DEF IType
<1>3. b \in JobType /\ b.pc = "load" /\ b.size = Len(file) /\ b.db = currentDB
  BY <1>2 DEF JobType, JobRec
<1>4. SubSeq(file, 1, Len(file)) = file
  BY <1>2, SubSeqFull
<1>5. rewrites' \in Nat /\ fails' \in Nat
  BY <1>1 DEF IType
<1> HIDE DEF b
<1>6. SizeFits(b, file) /\ JobTrue(b, file)
  <2>1. SizeFits(b, file)
    BY <1>2, <1>3 DEF SizeFits
  <2>2. Load(SubSeq(file, 1, b.size)).db = b.db
    BY <1>3, <1>4 DEF InDB
  <2> QED
    BY <1>3, <2>1, <2>2 DEF JobTrue
<1> QED
  BY <1>1, <1>3, <1>5, <1>6, JobStep

LEMMA DoRewriteStep ==
    ASSUME IInv, NEW j \in Jobs, DoRewrite(j)
    PROVE  IInv'
<1> USE DEF IInv
<1> DEFINE a == job[j]
<1>1. PICK n \in IF a.stale THEN 0 .. Len(file)
                 ELSE {IF a.size = 0 THEN Len(file) ELSE a.size} :
          job' = [job EXCEPT ![j].pc = "finish", ![j].bad = (n # job[j].size),
                             ![j].tmp = Dump(Load(SubSeq(file, 1, n)).data)]
  BY DEF DoRewrite
<1>2. /\ a.pc = "load"
      /\ UNCHANGED <<policy, mode, data, line, queue, file, synced, currentDB, pausing, ops,
                     rewrites, boots, fails, spoiled>>
  BY DEF DoRewrite, counters
<1>3. /\ file \in Seq(Record) /\ Len(file) \in Nat /\ a \in JobType
      /\ job \in [Jobs -> JobType] /\ rewrites \in Nat /\ fails \in Nat
  BY DEF IType
<1>4. ~a.stale => SizeFits(a, file) /\ (~spoiled => JobTrue(a, file))
  BY DEF JobsTrue
<1> DEFINE t == Dump(Load(SubSeq(file, 1, n)).data)
           b == JobRec("finish", a.size, a.db, a.stale, n # a.size, t)
<1>5. job' = [job EXCEPT ![j] = b]
  <2>1. [a EXCEPT !.pc = "finish", !.bad = (n # a.size), !.tmp = t] = b
    <3> HIDE DEF t, a
    <3>1. Finishing(a, n # a.size, t) = b
      BY <1>3, JobUpdates
    <3> HIDE DEF b
    <3> QED
      BY <3>1 DEF Finishing
  <2>2. job' = [job EXCEPT ![j] = [a EXCEPT !.pc = "finish", !.bad = (n # a.size), !.tmp = t]]
    <3> DEFINE bad == n # a.size
    <3>1. job' = [job EXCEPT ![j].pc = "finish", ![j].bad = bad, ![j].tmp = t]
      BY <1>1
    <3> HIDE DEF bad, t
    <3>2. job' = [job EXCEPT ![j] = [a EXCEPT !.pc = "finish", !.bad = bad, !.tmp = t]]
      BY <1>3, <3>1
    <3> QED
      BY <3>2 DEF bad
  <2> HIDE DEF b
  <2> QED
    BY <2>1, <2>2
<1>6. n \in 0 .. Len(file)
  BY <1>1, <1>2, <1>3, <1>4 DEF SizeFits, JobType
<1>7. t \in Seq(Record) /\ Grows(t) /\ Load(t).data = Load(SubSeq(file, 1, n)).data
  BY <1>3, <1>6, DumpOfPrefix
<1> HIDE DEF t, a
<1>8. b \in JobType
  BY <1>3, <1>7 DEF JobType, JobRec
<1>9. /\ b.pc = "finish" /\ b.size = a.size /\ b.db = a.db /\ b.stale = a.stale /\ b.tmp = t
      /\ ~b.bad => n = a.size
  BY DEF JobRec
<1> HIDE DEF b
<1>10. ~b.stale => SizeFits(b, file) /\ (~spoiled => JobTrue(b, file))
  BY <1>2, <1>4, <1>7, <1>9 DEF SizeFits, JobTrue
<1>11. rewrites' \in Nat /\ fails' \in Nat
  BY <1>2, <1>3
<1> QED
  BY <1>2, <1>5, <1>8, <1>9, <1>10, <1>11, JobStep DEF a

LEMMA FinishRewriteStep ==
    ASSUME IInv, NEW j \in Jobs, FinishRewrite(j)
    PROVE  IInv'
<1> USE DEF IInv
<1> DEFINE a == job[j]
<1>1. PICK n \in IF a.stale THEN 0 .. Len(file) ELSE {a.size} :
          job' = [job EXCEPT ![j].pc = "rename",
                             ![j].tmp = (@ \o <<Select(job[j].db)>>) \o From(file, n)]
  BY DEF FinishRewrite
<1>2. /\ a.pc = "finish" /\ pausing = NoJob /\ pausing' = j
      /\ UNCHANGED <<policy, mode, data, line, queue, file, synced, currentDB, ops, rewrites,
                     boots, fails, spoiled>>
  BY DEF FinishRewrite, counters
<1>3. /\ file \in Seq(Record) /\ Len(file) \in Nat /\ a \in JobType
      /\ job \in [Jobs -> JobType] /\ rewrites \in Nat /\ fails \in Nat
  BY DEF IType
<1>4. ~a.stale => SizeFits(a, file) /\ (~spoiled => JobTrue(a, file))
  BY DEF JobsTrue
<1> DEFINE t == (a.tmp \o <<Select(a.db)>>) \o From(file, n)
           b == JobRec("rename", a.size, a.db, a.stale, a.bad, t)
<1>5. job' = [job EXCEPT ![j] = b]
  <2>1. [a EXCEPT !.pc = "rename", !.tmp = t] = b
    <3> HIDE DEF t, a
    <3>1. Renaming(a, t) = b
      BY <1>3, JobUpdates
    <3> HIDE DEF b
    <3> QED
      BY <3>1 DEF Renaming
  <2>2. job' = [job EXCEPT ![j] = [a EXCEPT !.pc = "rename", !.tmp = t]]
    <3>1. job' = [job EXCEPT ![j].pc = "rename", ![j].tmp = t]
      BY <1>1, <1>3 DEF JobType
    <3> HIDE DEF t
    <3> QED
      BY <1>3, <3>1
  <2> HIDE DEF b
  <2> QED
    BY <2>1, <2>2
<1>6. n \in 0 .. Len(file)
  BY <1>1, <1>2, <1>3, <1>4 DEF SizeFits, JobType
<1>7. a.tmp \in Seq(Record) /\ a.db \in DBs
  BY <1>3 DEF JobType
<1>8. /\ t \in Seq(Record)
      /\ /\ Load(SubSeq(file, 1, n)).db = a.db
         /\ Load(a.tmp).data = Load(SubSeq(file, 1, n)).data
         /\ Grows(a.tmp) /\ Grows(file)
         => Load(t) = Load(file) /\ Grows(t)
  BY <1>3, <1>6, <1>7, Finished
<1> HIDE DEF t, a
<1>9. b \in JobType
  BY <1>3, <1>8 DEF JobType, JobRec
<1>10. /\ b.pc = "rename" /\ b.stale = a.stale /\ b.bad = a.bad /\ b.tmp = t
  BY DEF JobRec
<1> HIDE DEF b
<1>11. ~b.stale => SizeFits(b, file) /\ (~spoiled => JobTrue(b, file))
  <2>1. ~a.stale => n = a.size
    BY <1>1
  <2>2. ~spoiled => Grows(file)
    BY DEF Growing
  <2> QED
    BY <1>2, <1>4, <1>8, <1>10, <2>1, <2>2 DEF SizeFits, JobTrue
<1>12. rewrites' \in Nat /\ fails' \in Nat
  BY <1>2, <1>3
<1> QED
  BY <1>2, <1>5, <1>9, <1>10, <1>11, <1>12, JobStep

LEMMA AbandonRewriteStep ==
    ASSUME IInv, NEW j \in Jobs, AbandonRewrite(j)
    PROVE  IInv'
<1> USE DEF IInv
<1>1. /\ job[j].pc \in {"load", "finish"} /\ fails' = fails + 1 /\ job' = [job EXCEPT ![j] = Idle]
      /\ UNCHANGED <<policy, mode, data, line, queue, file, synced, currentDB, pausing, ops,
                     rewrites, boots, spoiled>>
  BY DEF AbandonRewrite
<1>2. Idle \in JobType /\ Idle.pc = "idle"
  BY IdleIs
<1>3. SizeFits(Idle, file) /\ JobTrue(Idle, file)
  BY <1>2 DEF SizeFits, JobTrue
<1>4. rewrites' \in Nat /\ fails' \in Nat
  BY <1>1 DEF IType
<1> QED
  BY <1>1, <1>2, <1>3, <1>4, JobStep

LEMMA RenameStep ==
    ASSUME IInv, NEW j \in Jobs, Rename(j)
    PROVE  IInv'
<1> USE DEF IInv
<1> DEFINE a == job[j]
           s == <<Select(currentDB)>>
<1>1. /\ a.pc = "rename" /\ pausing' = NoJob
      /\ UNCHANGED <<policy, mode, data, line, queue, currentDB, ops, rewrites, boots, fails>>
  BY DEF Rename, counters
<1>2. \/ /\ file' = a.tmp \o s /\ synced' = 0
         /\ job' = [i \in Jobs |-> IF i = j THEN Idle ELSE Staling(job[i])]
         /\ spoiled' = (spoiled \/ a.stale \/ a.bad)
      \/ /\ file' = file \o s /\ job' = [job EXCEPT ![j] = Idle]
         /\ UNCHANGED <<synced, spoiled>>
  BY DEF Rename, Staling
<1>3. /\ file \in Seq(Record) /\ Len(file) \in Nat /\ a \in JobType /\ a.tmp \in Seq(Record)
      /\ job \in [Jobs -> JobType] /\ currentDB \in DBs /\ synced \in 0 .. Len(file)
      /\ a.stale \in BOOLEAN /\ a.bad \in BOOLEAN /\ spoiled \in BOOLEAN
      /\ Load(file).db = currentDB
  BY DEF IType, JobType, InDB
<1>4. ~a.stale /\ ~spoiled => JobTrue(a, file)
  BY DEF JobsTrue
<1>5. \A i \in Jobs : i # j => job[i].pc # "rename"
  BY <1>1 DEF Paused
<1>6. s \in Seq(Record) /\ Len(s) = 1
  BY <1>3, SelectsAre
<1>7. Waits' /\ OneEach'
  BY <1>1 DEF Waits, OneEach
<1> HIDE DEF a
<1>8. CASE /\ file' = a.tmp \o s /\ synced' = 0
           /\ job' = [i \in Jobs |-> IF i = j THEN Idle ELSE Staling(job[i])]
           /\ spoiled' = (spoiled \/ a.stale \/ a.bad)
  <2>1. ASSUME NEW i \in Jobs
        PROVE  job'[i] \in JobType /\ job'[i].pc # "rename" /\ (i # j => job'[i].stale = TRUE)
    <3>1. CASE i = j
      BY <1>8, <3>1, IdleIs
    <3>2. CASE i # j
      <4>1. job[i] \in JobType /\ job'[i] = Staling(job[i])
        BY <1>3, <1>8, <3>2
      <4> DEFINE b == job[i]
      <4>2. b \in JobType /\ b.pc # "rename"
        BY <1>5, <3>2, <4>1
      <4> HIDE DEF b
      <4>3. Staling(b) = JobRec(b.pc, b.size, b.db, TRUE, b.bad, b.tmp)
        BY <4>2, JobUpdates
      <4>4. JobRec(b.pc, b.size, b.db, TRUE, b.bad, b.tmp) \in JobType
        BY <4>2 DEF JobRec, JobType
      <4>5. JobRec(b.pc, b.size, b.db, TRUE, b.bad, b.tmp).pc = b.pc
        BY DEF JobRec
      <4>6. JobRec(b.pc, b.size, b.db, TRUE, b.bad, b.tmp).stale = TRUE
        BY DEF JobRec
      <4> QED
        BY <4>1, <4>2, <4>3, <4>4, <4>5, <4>6 DEF b
    <3> QED
      BY <3>1, <3>2
  <2>2. /\ file' \in Seq(Record) /\ Load(file') = [db |-> currentDB, data |-> Load(a.tmp).data]
        /\ Load(a.tmp).db = currentDB => Load(file') = Load(a.tmp)
        /\ Grows(a.tmp) => Grows(file')
    BY <1>3, <1>8, EndSelect
  <2>3. IType'
    <3>1. job' \in [Jobs -> JobType]
      BY <1>8, <2>1
    <3>2. synced' \in 0 .. Len(file')
      BY <1>8, <2>2
    <3>3. spoiled' \in BOOLEAN
      BY <1>8
    <3> QED
      BY <1>1, <2>2, <3>1, <3>2, <3>3 DEF IType
  <2>4. InDB'
    BY <1>1, <2>2 DEF InDB
  <2>5. Paused'
    BY <1>1, <2>1, NoJobAssumption DEF Paused
  <2>6. SyncedAll'
    BY <1>8 DEF SyncedAll
  <2>7. JobsTrue'
    <3> SUFFICES ASSUME NEW i \in Jobs, ~job'[i].stale
                 PROVE  SizeFits(job'[i], file') /\ JobTrue(job'[i], file')
      BY DEF JobsTrue
    <3>1. job'[i] = Idle
      BY <1>8, <2>1
    <3> QED
      BY <3>1, IdleIs DEF SizeFits, JobTrue
  <2>8. ~spoiled' => ~spoiled /\ Load(file') = Load(file) /\ Grows(file')
    <3> SUFFICES ASSUME ~spoiled'
                 PROVE  ~spoiled /\ Load(file') = Load(file) /\ Grows(file')
      OBVIOUS
    <3>1. ~spoiled /\ ~a.stale /\ ~a.bad
      BY <1>8
    <3>2. Load(a.tmp) = Load(file) /\ Grows(a.tmp)
      BY <1>1, <1>4, <3>1 DEF JobTrue
    <3> QED
      BY <1>3, <2>2, <3>1, <3>2
  <2>9. Growing'
    BY <2>8 DEF Growing
  <2>10. AllThere'
    <3> SUFFICES ASSUME ~spoiled', NEW d \in DBs, NEW k \in Keys
                 PROVE  Load(file' \o Written(queue)).data[d][k] \o Pending(line, d, k) = data[d][k]
      BY <1>1 DEF AllThere
    <3>1. Written(queue) \in Seq(Record)
      BY WrittenType DEF IType
    <3>2. Load(file' \o Written(queue)) = Load(file \o Written(queue))
      BY <1>3, <2>2, <2>8, <3>1, LoadConcat
    <3> QED
      BY <2>8, <3>2 DEF AllThere
  <2> QED
    BY <1>7, <2>3, <2>4, <2>5, <2>6, <2>7, <2>9, <2>10
<1>9. CASE /\ file' = file \o s /\ job' = [job EXCEPT ![j] = Idle]
           /\ UNCHANGED <<synced, spoiled>>
  <2>1. /\ file' \in Seq(Record) /\ Load(file') = Load(file)
        /\ Grows(file) => Grows(file')
    BY <1>3, <1>9, EndSelect
  <2>2. job' \in [Jobs -> JobType] /\ job'[j] = Idle /\ \A i \in Jobs : i # j => job'[i] = job[i]
    BY <1>3, <1>9, IdleIs
  <2>3. Len(file') = Len(file) + 1
    BY <1>3, <1>6, <1>9
  <2>4. IType'
    <3>1. synced' \in 0 .. Len(file')
      BY <1>3, <1>9, <2>3
    <3> QED
      BY <1>1, <1>9, <2>1, <2>2, <3>1 DEF IType
  <2>5. InDB' /\ Growing'
    BY <1>1, <1>9, <2>1 DEF InDB, Growing
  <2>6. Paused'
    BY <1>1, <1>5, <2>2, IdleIs, NoJobAssumption DEF Paused
  <2>7. JobsTrue'
    <3> SUFFICES ASSUME NEW i \in Jobs, ~job'[i].stale
                 PROVE  SizeFits(job'[i], file') /\ (~spoiled => JobTrue(job'[i], file'))
      BY <1>9 DEF JobsTrue
    <3>1. CASE i = j
      <4>1. job'[i] = Idle
        BY <2>2, <3>1
      <4> QED
        BY <4>1, IdleIs DEF SizeFits, JobTrue
    <3>2. CASE i # j
      <4>1. job'[i] = job[i] /\ job[i] \in JobType /\ job[i].pc # "rename"
        BY <1>3, <1>5, <2>2, <3>2
      <4>2. SizeFits(job[i], file) /\ (~spoiled => JobTrue(job[i], file))
        BY <4>1 DEF JobsTrue
      <4>3. /\ SizeFits(job[i], file \o s)
            /\ JobTrue(job[i], file) => JobTrue(job[i], file \o s)
        BY <1>3, <1>6, <4>1, <4>2, JobExtended
      <4> QED
        BY <1>9, <4>1, <4>2, <4>3
    <3> QED
      BY <3>1, <3>2
  <2>8. SyncedAll'
    <3> SUFFICES ASSUME ~spoiled, policy = "always", synced # 0, NEW n \in synced .. Len(file')
                 PROVE  Steps(file')[n].data = Load(file').data
      BY <1>1, <1>9 DEF SyncedAll
    <3>1. \A i \in 0 .. Len(file) : Steps(file \o s)[i] = Steps(file)[i]
      <4>1. file \in Seq(Record) /\ s \in Seq(Record)
        BY <1>3, <1>6
      <4> QED
        BY ONLY <4>1, StepsOfConcat
    <3>2. CASE n \in 0 .. Len(file)
      <4>1. n \in synced .. Len(file)
        BY <3>2
      <4>2. Steps(file)[n].data = Load(file).data
        BY <4>1 DEF SyncedAll
      <4> QED
        BY <1>9, <2>1, <3>1, <3>2, <4>2
    <3>3. CASE n = Len(file')
      <4> DEFINE g == file'
      <4>1. Len(g) \in Nat
        BY <1>3, <2>3
      <4> HIDE DEF g
      <4>2. Load(g) = Steps(g)[Len(g)]
        BY <4>1, StepOf
      <4> QED
        BY <3>3, <4>2 DEF g
    <3> QED
      BY <1>3, <2>3, <3>2, <3>3
  <2>9. AllThere'
    <3> SUFFICES ASSUME ~spoiled, NEW d \in DBs, NEW k \in Keys
                 PROVE  Load(file' \o Written(queue)).data[d][k] \o Pending(line, d, k) = data[d][k]
      BY <1>1, <1>9 DEF AllThere
    <3>1. Written(queue) \in Seq(Record)
      BY WrittenType DEF IType
    <3>2. Load(file' \o Written(queue)) = Load(file \o Written(queue))
      BY <1>3, <2>1, <3>1, LoadConcat
    <3> QED
      BY <3>2 DEF AllThere
  <2> QED
    BY <1>7, <2>4, <2>5, <2>6, <2>7, <2>8, <2>9
<1> QED
  BY <1>2, <1>8, <1>9 DEF a

\* A start on a file that grows, after a crash or not.
LEMMA BootStep ==
    ASSUME IInv, NEW f \in Seq(Record), Boot(f), synced' \in 0 .. Len(f),
           ~spoiled => Grows(f), SyncedAll'
    PROVE  IInv'
<1> USE DEF IInv
<1>1. /\ boots' = boots + 1 /\ mode' = "up" /\ file' = f
      /\ data' = Load(f).data /\ currentDB' = Load(f).db
      /\ line' = [c \in Clients |-> NoLine]
      /\ queue' = <<>> /\ pausing' = NoJob /\ job' = [j \in Jobs |-> Idle]
      /\ UNCHANGED <<policy, ops, rewrites, fails, spoiled>>
  BY DEF Boot
<1>2. Load(f).db \in DBs /\ Load(f).data \in Data
  BY LoadType DEF State
<1>3. /\ line' \in LineOf /\ OneIn(line')
      /\ \A d \in DBs, k \in Keys : Pending(line', d, k) = <<>>
  BY <1>1, NobodyHolds
<1>4. IType'
  <2>1. job' \in [Jobs -> JobType]
    BY <1>1, IdleIs
  <2>2. queue' \in Seq(Lines)
    BY <1>1
  <2> QED
    BY <1>1, <1>2, <1>3, <2>1, <2>2 DEF IType
<1>5. InDB' /\ Waits' /\ OneEach' /\ Growing'
  BY <1>1, <1>3 DEF InDB, Waits, OneEach, Growing
<1>6. Paused'
  BY <1>1, IdleIs, NoJobAssumption DEF Paused
<1>7. JobsTrue'
  BY <1>1, IdleIs DEF JobsTrue, SizeFits, JobTrue
<1>8. AllThere'
  <2> SUFFICES ASSUME NEW d \in DBs, NEW k \in Keys
               PROVE  Load(file' \o Written(queue')).data[d][k] \o Pending(line', d, k) = data'[d][k]
    BY DEF AllThere
  <2>1. file' \o Written(queue') = f
    BY <1>1, WrittenNothing, ConcatEmptySeq
  <2>2. Load(f).data[d][k] \in Seq(Nat)
    BY LoadType, ValueType
  <2> QED
    BY <1>1, <1>3, <2>1, <2>2, ConcatEmptySeq
<1> QED
  BY <1>4, <1>5, <1>6, <1>7, <1>8

LEMMA CrashStep ==
    ASSUME IInv, Crash
    PROVE  IInv'
<1> USE DEF IInv
<1>1. PICK n \in synced .. Len(file) : Boot(SubSeq(file, 1, n)) /\ synced' = n
  BY DEF Crash
<1> DEFINE f == SubSeq(file, 1, n)
<1>2. file \in Seq(Record) /\ n \in 0 .. Len(file) /\ Len(file) \in Nat
  BY DEF IType
<1>3. f \in Seq(Record) /\ Len(f) = n
  BY <1>2
<1>4. Boot(f) /\ synced' = n
  BY <1>1
<1>5. ~spoiled => Grows(f)
  BY <1>2, GrowsPrefix DEF Growing
<1> HIDE DEF f
<1>6. SyncedAll'
  <2> SUFFICES ASSUME NEW i \in n .. Len(f)
               PROVE  Steps(f)[i].data = Load(f).data
    BY <1>4 DEF SyncedAll, Boot
  <2>1. i = Len(f) /\ Len(f) \in Nat
    BY <1>2, <1>3
  <2> QED
    BY <2>1, StepOf
<1>7. synced' \in 0 .. Len(f)
  BY <1>2, <1>3, <1>4
<1> QED
  BY <1>3, <1>4, <1>5, <1>6, <1>7, BootStep

LEMMA RestartStep ==
    ASSUME IInv, Restart
    PROVE  IInv'
<1> USE DEF IInv
<1>1. Boot(file) /\ synced' = synced
  BY DEF Restart
<1>2. file \in Seq(Record) /\ synced' \in 0 .. Len(file) /\ (~spoiled => Grows(file))
  BY <1>1 DEF IType, Growing
<1>3. SyncedAll'
  BY <1>1 DEF SyncedAll, Boot
<1> QED
  BY <1>1, <1>2, <1>3, BootStep

LEMMA CloseStep ==
    ASSUME IInv, Close \/ CloseFile
    PROVE  IInv'
<1> USE DEF IInv
<1>1. /\ mode' \in {"closing", "down"} /\ (mode' = "down" => queue = <<>>)
      /\ UNCHANGED <<policy, data, line, queue, file, synced, currentDB, pausing, job, ops,
                     rewrites, boots, fails, spoiled>>
  BY DEF Close, CloseFile, counters
<1>2. IType'
  BY <1>1 DEF IType
<1>3. /\ InDB' /\ Waits' /\ Paused' /\ OneEach' /\ Growing' /\ SyncedAll' /\ JobsTrue' /\ AllThere'
  BY <1>1 DEF InDB, Waits, Paused, OneEach, Growing, SyncedAll, JobsTrue, AllThere
<1> QED
  BY <1>2, <1>3

LEMMA Stutter ==
    ASSUME IInv, UNCHANGED vars
    PROVE  IInv'
<1> USE DEF IInv, vars, counters
<1>1. IType'
  BY DEF IType
<1>2. /\ InDB' /\ Waits' /\ Paused' /\ OneEach' /\ Growing' /\ SyncedAll' /\ JobsTrue' /\ AllThere'
  BY DEF InDB, Waits, Paused, OneEach, Growing, SyncedAll, JobsTrue, AllThere
<1> QED
  BY <1>1, <1>2

LEMMA NextInv == IInv /\ [Next]_vars => IInv'
<1> SUFFICES ASSUME IInv, [Next]_vars
             PROVE  IInv'
  OBVIOUS
<1>1. ASSUME NEW c \in Clients, Exec(c) \/ SaveDirectly(c) \/ SaveToQueue(c)
      PROVE  IInv'
  BY <1>1, ExecStep, SaveDirectlyStep, SaveToQueueStep
<1>2. ASSUME NEW j \in Jobs,
             \/ StartRewrite(j) \/ DoRewrite(j) \/ FinishRewrite(j) \/ Rename(j)
             \/ AbandonRewrite(j)
      PROVE  IInv'
  BY <1>2, StartRewriteStep, DoRewriteStep, FinishRewriteStep, RenameStep, AbandonRewriteStep
<1>3. CASE ListenCmd
  BY <1>3, ListenCmdStep
<1>4. CASE FsyncEverySecond
  BY <1>4, FsyncEverySecondStep
<1>5. CASE Crash
  BY <1>5, CrashStep
<1>6. CASE Close \/ CloseFile
  BY <1>6, CloseStep
<1>7. CASE Restart
  BY <1>7, RestartStep
<1>8. CASE UNCHANGED vars
  BY <1>8, Stutter
<1> QED
  BY <1>1, <1>2, <1>3, <1>4, <1>5, <1>6, <1>7, <1>8 DEF Next

LEMMA Invariant == Spec => []IInv
<1>1. Init => IInv
  BY InitInv
<1>2. IInv /\ [Next]_vars => IInv'
  BY NextInv
<1> QED
  BY <1>1, <1>2, PTL DEF Spec

-------------------------------------------------------------------------------
(* Theorems *)

\* Every line, queue entry, file and rewrite context has the shape the code gives it.
THEOREM TypeCorrect == Spec => []TypeOK
<1>1. IInv => TypeOK
  <2> SUFFICES ASSUME IInv
               PROVE  TypeOK
    OBVIOUS
  <2>1. IType
    BY DEF IInv
  <2>2. line \in [Clients -> Line \cup {NoLine}]
    BY <2>1, LineType DEF IType, LineOf
  <2>3. queue \in Seq(Line)
    <3>1. \A i \in 1 .. Len(queue) : queue[i] \in Lines
      BY <2>1 DEF IType
    <3> QED
      BY <2>1, <3>1, LineType DEF IType
  <2> QED
    BY <2>1, <2>2, <2>3 DEF IType, TypeOK, Data, JobType
<1> QED
  BY <1>1, Invariant, PTL

\* The database that writeAof compares with before it leaves the SELECT out is the one
\* that a replay of the file ends in (aof.go:136-166), through refused writes and rewrites.
THEOREM InCurrentDB == Spec => []FileInCurrentDB
<1>1. IInv => FileInCurrentDB
  BY DEF IInv, InDB, FileInCurrentDB
<1> QED
  BY <1>1, Invariant, PTL

LEMMA UnsavedIs ==
    ASSUME NEW d \in DBs, NEW k \in Keys
    PROVE  Unsaved(d, k) = Pending(line, d, k) /\ (~Busy(d, k) => Pending(line, d, k) = <<>>)
BY DEF Unsaved, Pending, Busy, Holds, HoldsIn

\* A replay of the file, of the lines in aofChan and of what the clients still have to
\* save gives exactly the data, whatever the rewrites and restarts (aof.go, rewrite.go).
THEOREM Recovers == Spec => []Recoverable
<1>1. IInv => Recoverable
  BY UnsavedIs DEF IInv, AllThere, Recoverable, Recovered
<1> QED
  BY <1>1, Invariant, PTL

\* What a start makes of the file.
LEMMA Started ==
    ASSUME IInv, [Next]_vars, boots' # boots
    PROVE  \/ Restart /\ data' = Load(file).data
           \/ \E n \in synced .. Len(file) :
                  /\ data' = Steps(file)[n].data
                  /\ Len(file') = n
<1>0. IType
  BY DEF IInv
<1>1. boots' = boots \/ Crash \/ Restart
  BY DEF Next, vars, counters, Exec, SaveDirectly, SaveToQueue, ListenCmd, FsyncEverySecond,
         StartRewrite, DoRewrite, FinishRewrite, Rename, AbandonRewrite, Close, CloseFile
<1>2. CASE Restart
  BY <1>2 DEF Restart, Boot
<1>3. CASE Crash
  <2>1. PICK n \in synced .. Len(file) : Boot(SubSeq(file, 1, n))
    BY <1>3 DEF Crash
  <2>2. n \in 0 .. Len(file) /\ file \in Seq(Record)
    BY <1>0 DEF IType
  <2>3. Len(SubSeq(file, 1, n)) = n
    BY <2>2
  <2> QED
    BY <2>1, <2>2, <2>3, LoadPrefix DEF Boot
<1> QED
  BY <1>1, <1>2, <1>3

\* The data a file holds, and what the data has been through.
LEMMA FileBelowData ==
    ASSUME IInv, ~spoiled, NEW n \in 0 .. Len(file), NEW d \in DBs, NEW k \in Keys
    PROVE  IsPrefix(Steps(file)[n].data[d][k], data[d][k])
<1> DEFINE g == file \o Written(queue)
<1>0. /\ file \in Seq(Record) /\ queue \in Seq(Lines) /\ line \in LineOf /\ OneIn(line)
      /\ Grows(file) /\ Len(file) \in Nat
  BY DEF IInv, IType, Growing, OneEach
<1>1. Steps(file)[n] \in State /\ Load(file) \in State
  BY <1>0, StepsType, LoadType
<1>2. Below(Steps(file)[n], Load(file))
  <2>1. Len(file) \in n .. Len(file) /\ Load(file) = Steps(file)[Len(file)]
    BY <1>0, StepOf
  <2> QED
    BY <1>0, <2>1, GrowsBelow
<1>3. g \in Seq(Record) /\ Below(Load(file), Load(g))
  BY <1>0, BelowWritten
<1> HIDE DEF g
<1>4. Load(g) \in State
  BY <1>3, LoadType
<1>5. Below(Steps(file)[n], Load(g))
  BY <1>1, <1>2, <1>3, <1>4, BelowTransitive
<1>6. /\ Load(g).data[d][k] \in Seq(Nat) /\ Steps(file)[n].data[d][k] \in Seq(Nat)
      /\ Pending(line, d, k) \in Seq(Nat)
  BY <1>0, <1>1, <1>4, ValueType, PendingType
<1>7. data[d][k] = Load(g).data[d][k] \o Pending(line, d, k)
  BY DEF IInv, AllThere, g
<1>8. IsPrefix(Load(g).data[d][k], data[d][k]) /\ data[d][k] \in Seq(Nat)
  BY <1>6, <1>7, PrefixFacts
<1>9. IsPrefix(Steps(file)[n].data[d][k], Load(g).data[d][k])
  BY <1>5 DEF Below
<1> QED
  BY <1>6, <1>8, <1>9, PrefixTransitive

\* LoadAof of whatever a crash has left gives every key a value it has had
\* (aof.go:188-265): none with a gap, a doubled or a foreign part.
THEOREM RestartsInThePast == Spec => RestartIsPast
<1>1. IInv /\ [Next]_vars =>
          [boots' # boots /\ ~spoiled =>
               \A d \in DBs, k \in Keys : IsPrefix(data'[d][k], data[d][k])]_vars
  <2> SUFFICES ASSUME IInv, [Next]_vars, boots' # boots, ~spoiled,
                      NEW d \in DBs, NEW k \in Keys
               PROVE  IsPrefix(data'[d][k], data[d][k])
    OBVIOUS
  <2>0. file \in Seq(Record) /\ Len(file) \in Nat /\ synced \in 0 .. Len(file)
    BY DEF IInv, IType
  <2>1. PICK n \in 0 .. Len(file) : data' = Steps(file)[n].data
    <3>1. CASE data' = Load(file).data
      BY <2>0, <3>1, StepOf
    <3> QED
      BY <2>0, <3>1, Started
  <2> QED
    BY <2>1, FileBelowData
<1> QED
  BY <1>1, Invariant, PTL DEF Spec, RestartIsPast

\* A restart after Close gives back every answered command, and so does a crash under
\* appendfsync always (aof.go:136-166, 298-308), if the file is not fresh from a rewrite.
THEOREM RestartsKeepAnswered == Spec => RestartKeepsAnswered
<1>1. IInv /\ [Next]_vars =>
          [/\ boots' # boots /\ ~spoiled
           /\ \/ mode = "down" /\ Len(file') = Len(file)
              \/ policy = "always" /\ synced # 0
           => \A d \in DBs, k \in Keys : ~Busy(d, k) => data'[d][k] = data[d][k]]_vars
  <2> SUFFICES ASSUME IInv, [Next]_vars, boots' # boots, ~spoiled,
                      \/ mode = "down" /\ Len(file') = Len(file)
                      \/ policy = "always" /\ synced # 0,
                      NEW d \in DBs, NEW k \in Keys, ~Busy(d, k)
               PROVE  data'[d][k] = data[d][k]
    OBVIOUS
  <2>0. file \in Seq(Record) /\ Len(file) \in Nat /\ synced \in 0 .. Len(file)
    BY DEF IInv, IType
  <2>1. queue = <<>> /\ (Restart => mode = "down")
    BY DEF IInv, Waits, Restart
  <2>2. file \o Written(queue) = file
    BY <2>0, <2>1, WrittenNothing, ConcatEmptySeq
  <2>3. Pending(line, d, k) = <<>>
    BY UnsavedIs
  <2>4. Load(file).data[d][k] \in Seq(Nat)
    BY <2>0, LoadType, ValueType
  <2>5. data[d][k] = Load(file).data[d][k]
    BY <2>2, <2>3, <2>4, ConcatEmptySeq DEF IInv, AllThere
  <2>6. data' = Load(file).data
    <3>1. CASE \E n \in synced .. Len(file) : data' = Steps(file)[n].data /\ Len(file') = n
      <4>1. PICK n \in synced .. Len(file) : data' = Steps(file)[n].data /\ Len(file') = n
        BY <3>1
      <4>2. CASE n = Len(file)
        BY <2>0, <4>1, <4>2, StepOf
      <4>3. CASE policy = "always" /\ synced # 0
        BY <4>1, <4>3 DEF IInv, SyncedAll
      <4> QED
        BY <4>1, <4>2, <4>3
    <3> QED
      BY <3>1, Started
  <2> QED
    BY <2>5, <2>6
<1> QED
  BY <1>1, Invariant, PTL DEF Spec, RestartKeepsAnswered
===============================================================================
