----------------------------- MODULE CommandsProofs -----------------------------
(***************************************************************************)
(* Commands, for any finite sets of keys and members, any commands and any  *)
(* files: TypeOK, LocksCover, UndoRestores and ReplayExact.                 *)
(*                                                                         *)
(* A database is Good if its parts have their types, keys that share        *)
(* something have one sorted set or strings in one array (OneObject), and   *)
(* sharing is transitive.  Every executor keeps this and changes, besides   *)
(* the keys of its command, only keys that share with one of them what it   *)
(* writes to in place (Done, Spread).  IInv adds that every line of the     *)
(* file is a command, so that a replay makes a Good database, too.          *)
(*                                                                         *)
(* ReplayExact needs more (RInv): for every moment that is still to come, a *)
(* replay of the file at that moment brings back what is sure until then,   *)
(* with what is shared and with what is past its deadline (Brings).  An     *)
(* executor leaves alone what its command does not name (ExecRuns) and does *)
(* the same to databases that agree on what it names (ExecAlike), unless    *)
(* the room of a shared array decides what it does (Spills); replays        *)
(* go line after line (RunConcat), and the lines of a rewrite make every    *)
(* key once more (DumpLoads).                                               *)
(***************************************************************************)
EXTENDS Commands, WellFoundedInduction, FiniteSetTheorems, SequenceTheorems, TLAPS

ZSets == {ZSet(z) : z \in UNION {[D -> Nat] : D \in SUBSET Members}}
Entities == {Nil} \cup Strings \cup ZSets
Deadlines == 0 .. Never
DbType == [data : [Keys -> Entities], ttl : [Keys -> Deadlines], jobs : SUBSET Keys,
           shares : SUBSET (SUBSET Keys), cap : [Keys -> Nat]]

Sharing(s) ==
    /\ \A p \in s.shares : /\ \E i, j \in Keys : i # j /\ p = {i, j}
                           /\ \A j, k \in p : OneObject(s.data[j], s.data[k])
    /\ \A i, j, k \in Keys : {i, j} \in s.shares /\ {j, k} \in s.shares /\ i # k
                                => {i, k} \in s.shares

Good(s) == s \in DbType /\ Sharing(s) /\ \A k \in s.jobs : s.ttl[k] # Never

Times == 0 .. MaxTime

-------------------------------------------------------------------------------
(* Parts of the executors *)

LEMMA NeverIs == Never \in Nat /\ Never \in Deadlines /\ 0 \in Deadlines
BY DEF Never, Deadlines

\* A database part by part.
LEMMA DbParts ==
    ASSUME NEW s, Good(s)
    PROVE  /\ s = [data |-> s.data, ttl |-> s.ttl, jobs |-> s.jobs, shares |-> s.shares,
                   cap |-> s.cap]
           /\ s.data \in [Keys -> Entities] /\ s.ttl \in [Keys -> Deadlines]
           /\ s.jobs \in SUBSET Keys /\ s.shares \in SUBSET (SUBSET Keys)
           /\ s.cap \in [Keys -> Nat]
           /\ \A k \in s.jobs : s.ttl[k] # Never
BY DEF Good, DbType

LEMMA SharingOf ==
    ASSUME NEW s, Sharing(s), NEW e, e.data = s.data, e.shares = s.shares
    PROVE  Sharing(e)
<1>1. \A p \in e.shares : /\ \E i, j \in Keys : i # j /\ p = {i, j}
                          /\ \A j, k \in p : OneObject(e.data[j], e.data[k])
  BY DEF Sharing
<1>2. \A i, j, k \in Keys : {i, j} \in e.shares /\ {j, k} \in e.shares /\ i # k
                               => {i, k} \in e.shares
  BY Zenon DEF Sharing
<1> QED
  BY <1>1, <1>2 DEF Sharing

\* The pairs without these keys.
Apart(sh, ks) == {p \in sh : p \cap ks = {}}

\* Entities, and what they are not.
LEMMA KindIs ==
    ASSUME NEW x \in Entities, IsStr(x)
    PROVE  x.str \in Values /\ x = Str(x.str)
BY DEF Entities, Strings, ZSets, ZSet, IsStr, Str

LEMMA StrIs == \A v \in Values : Str(v) \in Entities /\ Str(v) # Nil /\ IsStr(Str(v))
BY NilAssumption DEF Entities, Strings, Str, IsStr

LEMMA RoomIs == \A x \in Entities : Room(x) \in Nat
<1> SUFFICES ASSUME NEW x \in Entities
             PROVE  Room(x) \in Nat
  OBVIOUS
<1>1. CASE IsStr(x)
  <2>1. x.str \in Seq(Pieces)
    BY <1>1, KindIs DEF Values
  <2>2. Len(x.str) \in Nat
    BY <2>1, LenProperties
  <2> QED
    BY <1>1, <2>2, RoomAssumption DEF Room
<1>2. CASE ~IsStr(x)
  BY <1>2 DEF Room
<1> QED
  BY <1>1, <1>2

LEMMA OneSelf == \A x : OneObject(x, x)
BY DEF OneObject

LEMMA OneBack == ASSUME NEW x, NEW y, OneObject(x, y) PROVE OneObject(y, x)
BY DEF OneObject

\* An entity is written to where another one is: they are in one place.
LEMMA InPlaceIs ==
    ASSUME NEW x \in Entities, NEW y \in Entities
    PROVE  /\ InPlace(y, x) \in Entities
           /\ OneObject(x, InPlace(y, x))
           /\ x # Nil => InPlace(y, x) # Nil
           /\ ~IsStr(x) => InPlace(y, x) = x
<1>1. CASE IsStr(x) /\ IsStr(y)
  <2> DEFINE v == [i \in DOMAIN y.str |-> IF i \in DOMAIN x.str THEN x.str[i] ELSE y.str[i]]
  <2>1. InPlace(y, x) = Str(v)
    BY <1>1 DEF InPlace
  <2>2. x.str \in Seq(Pieces) /\ y.str \in Seq(Pieces)
    BY <1>1, KindIs DEF Values
  <2>3. v \in Seq(Pieces)
    <3>1. DOMAIN y.str = 1 .. Len(y.str) /\ Len(y.str) \in Nat
      BY <2>2
    <3>2. \A i \in 1 .. Len(y.str) : v[i] \in Pieces
      BY <2>2, <3>1
    <3>3. v \in [1 .. Len(y.str) -> Pieces]
      BY <3>1, <3>2
    <3> HIDE DEF v
    <3> QED
      BY <3>1, <3>3, SeqDef
  <2>4. \A i \in DOMAIN x.str \cap DOMAIN v : x.str[i] = v[i]
    OBVIOUS
  <2> HIDE DEF v
  <2>5. Str(v) \in Entities /\ Str(v) # Nil /\ IsStr(Str(v)) /\ Str(v).str = v
    BY <2>3, StrIs DEF Values, Str
  <2> QED
    BY <1>1, <2>1, <2>4, <2>5 DEF OneObject
<1>2. CASE ~(IsStr(x) /\ IsStr(y))
  BY <1>2, OneSelf DEF InPlace
<1> QED
  BY <1>1, <1>2

LEMMA InPlaceOne ==
    ASSUME NEW x \in Entities, NEW y \in Entities, NEW z \in Entities, OneObject(y, z)
    PROVE  OneObject(InPlace(y, x), InPlace(z, x))
<1>1. CASE y = z
  BY <1>1, OneSelf
<1>2. CASE y # z /\ ~IsStr(x)
  BY <1>2, OneSelf DEF InPlace
<1>3. CASE y # z /\ IsStr(x)
  <2>1. IsStr(y) /\ IsStr(z) /\ \A i \in DOMAIN y.str \cap DOMAIN z.str : y.str[i] = z.str[i]
    BY <1>3 DEF OneObject
  <2> DEFINE a == [i \in DOMAIN y.str |-> IF i \in DOMAIN x.str THEN x.str[i] ELSE y.str[i]]
             b == [i \in DOMAIN z.str |-> IF i \in DOMAIN x.str THEN x.str[i] ELSE z.str[i]]
  <2>2. InPlace(y, x) = Str(a) /\ InPlace(z, x) = Str(b)
    BY <1>3, <2>1 DEF InPlace
  <2>3. \A i \in DOMAIN a \cap DOMAIN b : a[i] = b[i]
    BY <2>1
  <2> HIDE DEF a, b
  <2>4. InPlace(y, x) \in Entities /\ InPlace(z, x) \in Entities
    BY InPlaceIs
  <2>5. IsStr(Str(a)) /\ IsStr(Str(b)) /\ Str(a).str = a /\ Str(b).str = b
    <3>1. x # Nil
      BY <1>3 DEF IsStr
    <3>2. Str(a) # Nil /\ Str(b) # Nil
      BY <2>2, <3>1, InPlaceIs
    <3> QED
      BY <3>2 DEF Str, IsStr
  <2> QED
    BY <2>2, <2>3, <2>5 DEF OneObject
<1> QED
  BY <1>1, <1>2, <1>3

\* What PutEntities makes of s.
PutInto(s, ks, x, e) ==
    /\ Good(e)
    /\ \A k \in Keys : e.data[k] = IF k \in ks THEN x ELSE s.data[k]
    /\ e.ttl = s.ttl /\ e.jobs = s.jobs /\ e.shares = Apart(s.shares, ks)

LEMMA PutIs ==
    ASSUME NEW s, Good(s), NEW ks \in SUBSET Keys, NEW x \in Entities
    PROVE  PutInto(s, ks, x, PutEntities(s, ks, x))
<1> DEFINE d == [k \in Keys |-> IF k \in ks THEN x ELSE s.data[k]]
           sh == Apart(s.shares, ks)
           cp == [k \in Keys |-> IF k \in ks THEN Room(x) ELSE s.cap[k]]
           e == [data |-> d, ttl |-> s.ttl, jobs |-> s.jobs, shares |-> sh, cap |-> cp]
<1>1. PutEntities(s, ks, x) = e
  <2>1. PutEntities(s, ks, x) = [s EXCEPT !.data = d, !.shares = sh, !.cap = cp]
    BY DEF PutEntities, Apart
  <2> HIDE DEF d, sh, cp
  <2> QED
    BY <2>1 DEF Good, DbType
<1>7. cp \in [Keys -> Nat]
  BY RoomIs, DbParts
<1>2. d \in [Keys -> Entities] /\ \A k \in Keys : d[k] = IF k \in ks THEN x ELSE s.data[k]
  BY DbParts
<1>3. sh \subseteq s.shares /\ \A p \in s.shares : p \in sh <=> p \cap ks = {}
  BY DEF Apart
<1> HIDE DEF d, sh, cp
<1>4. e \in DbType
  BY <1>2, <1>3, <1>7, DbParts DEF DbType
<1>5. Sharing(e)
  <2>1. ASSUME NEW p \in sh
        PROVE  /\ \E i, j \in Keys : i # j /\ p = {i, j}
               /\ \A j, k \in p : OneObject(d[j], d[k])
    BY <1>2, <1>3, <2>1, DbParts DEF Good, Sharing
  <2>2. ASSUME NEW i \in Keys, NEW j \in Keys, NEW k \in Keys,
               {i, j} \in sh, {j, k} \in sh, i # k
        PROVE  {i, k} \in sh
    BY <1>3, <2>2 DEF Good, Sharing
  <2>3. e.data = d /\ e.shares = sh
    OBVIOUS
  <2> HIDE DEF e
  <2> QED
    BY <2>1, <2>2, <2>3 DEF Sharing
<1>6. Good(e)
  BY <1>4, <1>5, DbParts DEF Good
<1> QED
  BY <1>1, <1>2, <1>6 DEF PutInto, sh

\* What Removes makes of s.
RemovedFrom(s, ks, e) ==
    /\ Good(e)
    /\ \A k \in Keys : /\ e.data[k] = IF k \in ks THEN Nil ELSE s.data[k]
                       /\ e.ttl[k] = IF k \in ks THEN Never ELSE s.ttl[k]
    /\ e.jobs = s.jobs \ ks /\ e.shares = Apart(s.shares, ks)

LEMMA RemovesIs ==
    ASSUME NEW s, Good(s), NEW ks \in SUBSET Keys
    PROVE  RemovedFrom(s, ks, Removes(s, ks))
<1> DEFINE d == PutEntities(s, ks, Nil)
           tt == [k \in Keys |-> IF k \in ks THEN Never ELSE s.ttl[k]]
           e == [data |-> d.data, ttl |-> tt, jobs |-> s.jobs \ ks, shares |-> d.shares,
                 cap |-> d.cap]
<1>1. PutInto(s, ks, Nil, d)
  <2>1. Nil \in Entities
    BY DEF Entities
  <2> QED
    BY <2>1, PutIs
<1>2. Removes(s, ks) = e
  <2>1. Removes(s, ks) = [d EXCEPT !.ttl = tt, !.jobs = @ \ ks]
    BY DEF Removes
  <2> HIDE DEF d, tt
  <2> QED
    BY <1>1, <2>1 DEF PutInto, Good, DbType
<1> HIDE DEF d
<1>3. tt \in [Keys -> Deadlines] /\ \A k \in Keys : tt[k] = IF k \in ks THEN Never ELSE s.ttl[k]
  BY DbParts, NeverIs
<1>4. e \in DbType
  BY <1>1, <1>3, DbParts DEF PutInto, DbType
<1>5. Sharing(e)
  <2>1. e.data = d.data /\ e.shares = d.shares
    OBVIOUS
  <2> HIDE DEF e
  <2> QED
    BY <1>1, <2>1, SharingOf DEF PutInto, Good
<1>6. \A k \in e.jobs : e.ttl[k] # Never
  BY <1>3, DbParts
<1>7. Good(e)
  BY <1>4, <1>5, <1>6 DEF Good
<1> QED
  BY <1>1, <1>2, <1>3, <1>7 DEF PutInto, RemovedFrom

\* What Write makes of s: the new value is in the keys that share the entity, too.
WrittenTo(s, k, x, e) ==
    /\ Good(e)
    /\ \A j \in Keys : e.data[j] = IF j = k THEN x
                                  ELSE IF j \in Aliases(s, k) THEN InPlace(s.data[j], x)
                                  ELSE s.data[j]
    /\ e.ttl = s.ttl /\ e.jobs = s.jobs /\ e.shares = s.shares

LEMMA WriteIs ==
    ASSUME NEW s, Good(s), NEW k \in Keys, NEW x \in Entities
    PROVE  WrittenTo(s, k, x, Write(s, k, x))
<1> DEFINE at(j) == j \in Aliases(s, k)
           d == [j \in Keys |-> IF j = k THEN x
                               ELSE IF at(j) THEN InPlace(s.data[j], x) ELSE s.data[j]]
           e == [data |-> d, ttl |-> s.ttl, jobs |-> s.jobs, shares |-> s.shares,
                 cap |-> s.cap]
<1>1. Write(s, k, x) = e
  <2>1. Write(s, k, x) = [s EXCEPT !.data = d]
    BY DEF Write
  <2> HIDE DEF d
  <2> QED
    BY <2>1 DEF Good, DbType
<1>2. /\ d \in [Keys -> Entities]
      /\ \A j \in Keys : d[j] = IF j = k THEN x
                                ELSE IF at(j) THEN InPlace(s.data[j], x) ELSE s.data[j]
  <2>1. \A j \in Keys : s.data[j] \in Entities /\ InPlace(s.data[j], x) \in Entities
    BY DbParts, InPlaceIs
  <2> HIDE DEF at
  <2> QED
    BY <2>1
<1>3. \A j \in Keys : at(j) <=> {j, k} \in s.shares
  BY DEF Aliases
<1> HIDE DEF d, at
<1>4. e \in DbType
  BY <1>2, DbParts DEF DbType
<1>5. \A i, j \in Keys : {i, j} \in s.shares /\ i # k /\ j # k => (at(i) <=> at(j))
  <2> SUFFICES ASSUME NEW i \in Keys, NEW j \in Keys, {i, j} \in s.shares, j # k, at(i)
               PROVE  at(j)
    <3>1. \A i, j \in Keys : {i, j} = {j, i}
      OBVIOUS
    <3> QED
      BY <3>1
  <2>1. {i, j} = {j, i}
    OBVIOUS
  <2> QED
    BY <1>3, <2>1 DEF Good, Sharing
<1>6. Sharing(e)
  <2>1. ASSUME NEW p \in s.shares
        PROVE  /\ \E i, j \in Keys : i # j /\ p = {i, j}
               /\ \A i, j \in p : OneObject(d[i], d[j])
    <3>1. PICK i \in Keys, j \in Keys : i # j /\ p = {i, j}
      BY DEF Good, Sharing
    <3>2. OneObject(s.data[i], s.data[j])
      BY <3>1 DEF Good, Sharing
    <3>3. OneObject(d[i], d[j])
      <4>1. s.data[i] \in Entities /\ s.data[j] \in Entities
        BY DbParts
      <4>2. CASE i = k
        <5>1. at(j) /\ d[i] = x /\ d[j] = InPlace(s.data[j], x)
          <6>1. {i, j} = {j, i}
            OBVIOUS
          <6> QED
            BY <1>2, <1>3, <3>1, <4>2, <6>1
        <5> QED
          BY <4>1, <5>1, InPlaceIs
      <4>3. CASE j = k
        <5>1. at(i) /\ d[j] = x /\ d[i] = InPlace(s.data[i], x)
          BY <1>2, <1>3, <3>1, <4>3
        <5> QED
          BY <4>1, <5>1, InPlaceIs, OneBack
      <4>4. CASE i # k /\ j # k /\ at(i)
        <5>1. d[i] = InPlace(s.data[i], x) /\ d[j] = InPlace(s.data[j], x)
          BY <1>2, <1>5, <3>1, <4>4
        <5> QED
          BY <3>2, <4>1, <5>1, InPlaceOne
      <4>5. CASE i # k /\ j # k /\ ~at(i)
        BY <1>2, <1>5, <3>1, <3>2, <4>5
      <4> QED
        BY <4>2, <4>3, <4>4, <4>5
    <3>4. OneObject(d[j], d[i]) /\ OneObject(d[i], d[i]) /\ OneObject(d[j], d[j])
      BY <3>3, OneBack, OneSelf
    <3> QED
      BY <3>1, <3>3, <3>4
  <2>2. e.data = d /\ e.shares = s.shares
    OBVIOUS
  <2>3. \A i, j, l \in Keys : {i, j} \in s.shares /\ {j, l} \in s.shares /\ i # l
                                => {i, l} \in s.shares
    BY DEF Good, Sharing
  <2> HIDE DEF e
  <2>4. \A p \in e.shares : /\ \E i, j \in Keys : i # j /\ p = {i, j}
                            /\ \A i, j \in p : OneObject(e.data[i], e.data[j])
    BY <2>1, <2>2
  <2>5. \A i, j, l \in Keys : {i, j} \in e.shares /\ {j, l} \in e.shares /\ i # l
                                => {i, l} \in e.shares
    BY <2>2, <2>3
  <2> QED
    BY ONLY <2>4, <2>5 DEF Sharing
<1>7. Good(e)
  BY <1>4, <1>6, DbParts DEF Good
<1> QED
  BY <1>1, <1>2, <1>7 DEF WrittenTo, at

\* What Expire and Persist make of s.
Deadlined(s, k, at, e) ==
    /\ Good(e)
    /\ \A j \in Keys : e.ttl[j] = IF j = k THEN at ELSE s.ttl[j]
    /\ e.data = s.data /\ e.shares = s.shares

LEMMA ExpireIs ==
    ASSUME NEW s, Good(s), NEW k \in Keys, NEW at \in Deadlines, at # Never, NEW t
    PROVE  Deadlined(s, k, at, Expire(s, k, at, t))
<1> DEFINE tt == [s.ttl EXCEPT ![k] = at]
           jj == IF at < t THEN s.jobs ELSE s.jobs \cup {k}
           e == [data |-> s.data, ttl |-> tt, jobs |-> jj, shares |-> s.shares,
                 cap |-> s.cap]
<1>1. Expire(s, k, at, t) = e
  <2>1. Expire(s, k, at, t) = [s EXCEPT !.ttl[k] = at, !.jobs = jj]
    BY DEF Expire
  <2> HIDE DEF jj
  <2> QED
    BY <2>1 DEF Good, DbType
<1>2. /\ tt \in [Keys -> Deadlines] /\ jj \in SUBSET Keys
      /\ \A j \in Keys : tt[j] = IF j = k THEN at ELSE s.ttl[j]
      /\ \A j \in jj : j = k \/ j \in s.jobs
  BY DbParts
<1> HIDE DEF tt, jj
<1>3. e \in DbType
  BY <1>2, DbParts DEF DbType
<1>4. Sharing(e)
  <2>1. e.data = s.data /\ e.shares = s.shares
    OBVIOUS
  <2> HIDE DEF e
  <2> QED
    BY <2>1, SharingOf DEF Good
<1>5. \A j \in e.jobs : e.ttl[j] # Never
  BY <1>2, DbParts
<1>6. Good(e)
  BY <1>3, <1>4, <1>5 DEF Good
<1> QED
  BY <1>1, <1>2, <1>6 DEF Deadlined

LEMMA PersistIs ==
    ASSUME NEW s, Good(s), NEW k \in Keys
    PROVE  Deadlined(s, k, Never, Persist(s, k))
<1> DEFINE tt == [s.ttl EXCEPT ![k] = Never]
           jj == s.jobs \ {k}
           e == [data |-> s.data, ttl |-> tt, jobs |-> jj, shares |-> s.shares,
                 cap |-> s.cap]
<1>1. Persist(s, k) = e
  <2>1. Persist(s, k) = [s EXCEPT !.ttl[k] = Never, !.jobs = jj]
    BY DEF Persist
  <2> HIDE DEF jj
  <2> QED
    BY <2>1 DEF Good, DbType
<1>2. /\ tt \in [Keys -> Deadlines] /\ jj \in SUBSET Keys
      /\ \A j \in Keys : tt[j] = IF j = k THEN Never ELSE s.ttl[j]
      /\ \A j \in jj : j # k /\ j \in s.jobs
  BY DbParts, NeverIs
<1> HIDE DEF tt, jj
<1>3. e \in DbType
  BY <1>2, DbParts DEF DbType
<1>4. Sharing(e)
  <2>1. e.data = s.data /\ e.shares = s.shares
    OBVIOUS
  <2> HIDE DEF e
  <2> QED
    BY <2>1, SharingOf DEF Good
<1>5. \A j \in e.jobs : e.ttl[j] # Never
  BY <1>2, DbParts
<1>6. Good(e)
  BY <1>3, <1>4, <1>5 DEF Good
<1> QED
  BY <1>1, <1>2, <1>6 DEF Deadlined

\* Keys that share an entity have the same sorted set, or strings in one array.
LEMMA SharedSame ==
    ASSUME NEW s, Good(s), NEW i \in Keys, NEW j \in Keys, {i, j} \in s.shares
    PROVE  /\ OneObject(s.data[i], s.data[j])
           /\ s.data[i] = Nil <=> s.data[j] = Nil
           /\ IsStr(s.data[i]) <=> IsStr(s.data[j])
           /\ IsZSet(s.data[i]) \/ IsZSet(s.data[j]) => s.data[i] = s.data[j]
<1>1. OneObject(s.data[i], s.data[j])
  BY DEF Good, Sharing
<1>2. \A x : ~(IsStr(x) /\ IsZSet(x))
  BY DEF IsStr, IsZSet
<1>3. CASE s.data[i] = s.data[j]
  BY <1>1, <1>3
<1>4. CASE IsStr(s.data[i]) /\ IsStr(s.data[j])
  BY <1>1, <1>2, <1>4 DEF IsStr
<1> QED
  BY <1>1, <1>3, <1>4 DEF OneObject

\* What Share makes of s.
SharedTo(s, j, k, e) ==
    /\ Good(e)
    /\ \A i \in Keys : e.data[i] = IF i = k THEN s.data[j] ELSE s.data[i]
    /\ e.ttl = s.ttl

LEMMA ShareIs ==
    ASSUME NEW s, Good(s), NEW j \in Keys, NEW k \in Keys
    PROVE  SharedTo(s, j, k, Share(s, j, k))
<1>1. CASE j = k
  BY <1>1 DEF Share, SharedTo
<1>2. CASE j # k
  <2> DEFINE d == PutEntity(s, k, s.data[j])
             peers == ({j} \cup Aliases(s, j)) \ {k}
             sh == d.shares \cup {{i, k} : i \in peers}
             cp == [d.cap EXCEPT ![k] = s.cap[j]]
             e == [data |-> d.data, ttl |-> d.ttl, jobs |-> d.jobs, shares |-> sh,
                   cap |-> cp]
  <2>1. PutInto(s, {k}, s.data[j], d)
    <3>1. s.data[j] \in Entities /\ {k} \in SUBSET Keys
      BY DbParts
    <3> QED
      BY <3>1, PutIs DEF PutEntity
  <2>2. Share(s, j, k) = e
    <3>1. Share(s, j, k) = [d EXCEPT !.shares = @ \cup {{i, k} : i \in peers},
                                     !.cap[k] = s.cap[j]]
      BY <1>2 DEF Share
    <3> DEFINE new == {{i, k} : i \in peers}
    <3>2. /\ Share(s, j, k) = [d EXCEPT !.shares = @ \cup new, !.cap[k] = s.cap[j]]
          /\ sh = d.shares \cup new
      BY <3>1
    <3> HIDE DEF d, new, sh
    <3> QED
      BY <2>1, <3>2 DEF PutInto, Good, DbType
  <2>3. /\ peers \subseteq Keys /\ k \notin peers
        /\ \A i \in Keys : i \in peers <=> i # k /\ (i = j \/ {i, j} \in s.shares)
    BY DEF Aliases
  <2>4. \A i \in peers : OneObject(d.data[i], d.data[k]) /\ OneObject(d.data[k], d.data[i])
    <3> SUFFICES ASSUME NEW i \in peers
                 PROVE  OneObject(d.data[i], d.data[k]) /\ OneObject(d.data[k], d.data[i])
      OBVIOUS
    <3> HIDE DEF d, peers
    <3>1. OneObject(s.data[i], s.data[j])
      BY <2>3, SharedSame, OneSelf
    <3>2. d.data[i] = s.data[i] /\ d.data[k] = s.data[j]
      BY <2>1, <2>3 DEF PutInto
    <3> QED
      BY <3>1, <3>2, OneBack
  <2>5. \A a, b \in Keys :
            {a, b} \in sh <=> \/ a # k /\ b # k /\ {a, b} \in s.shares
                              \/ b = k /\ a \in peers
                              \/ a = k /\ b \in peers
    <3> SUFFICES ASSUME NEW a \in Keys, NEW b \in Keys
                 PROVE  {a, b} \in sh <=> \/ a # k /\ b # k /\ {a, b} \in s.shares
                                          \/ b = k /\ a \in peers
                                          \/ a = k /\ b \in peers
      OBVIOUS
    <3>1. {a, b} \in d.shares <=> a # k /\ b # k /\ {a, b} \in s.shares
      <4> HIDE DEF d
      <4> QED
        BY <2>1 DEF PutInto, Apart
    <3>2. {a, b} \in {{i, k} : i \in peers} <=> (b = k /\ a \in peers) \/ (a = k /\ b \in peers)
      <4>1. \A i \in peers : {a, b} = {i, k} <=> (b = k /\ a = i) \/ (a = k /\ b = i)
        BY <2>3
      <4>2. {a, k} = {k, a} /\ {b, k} = {k, b}
        OBVIOUS
      <4> HIDE DEF peers
      <4> QED
        BY <4>1, <4>2
    <3> QED
      BY <3>1, <3>2
  <2>6. \A a, b \in Keys : {a, b} \in s.shares /\ a # k /\ b # k => (a \in peers <=> b \in peers)
    <3> SUFFICES ASSUME NEW a \in Keys, NEW b \in Keys, {a, b} \in s.shares, a # k, b # k,
                        a \in peers
                 PROVE  b \in peers
      <4>1. \A a, b \in Keys : {a, b} = {b, a}
        OBVIOUS
      <4> HIDE DEF peers
      <4> QED
        BY <4>1
    <3>1. {a, b} = {b, a}
      OBVIOUS
    <3> HIDE DEF peers
    <3>2. CASE a = j
      BY <2>3, <3>1, <3>2
    <3>3. CASE b = j
      BY <2>3, <3>3
    <3>4. CASE a # j /\ b # j
      BY <2>3, <3>1, <3>4 DEF Good, Sharing
    <3> QED
      BY <3>2, <3>3, <3>4
  <2>7. \A a, b \in peers : a # b => {a, b} \in s.shares
    <3> SUFFICES ASSUME NEW a \in peers, NEW b \in peers, a # b
                 PROVE  {a, b} \in s.shares
      OBVIOUS
    <3>1. a \in Keys /\ b \in Keys /\ {a, b} = {b, a} /\ {j, b} = {b, j}
      BY <2>3
    <3> HIDE DEF peers
    <3>2. CASE a = j
      BY <2>3, <3>1, <3>2
    <3>3. CASE b = j
      BY <2>3, <3>1, <3>3
    <3>4. CASE a # j /\ b # j
      <4>1. {a, j} \in s.shares /\ {j, b} \in s.shares
        BY <2>3, <3>1, <3>4
      <4> QED
        BY <3>1, <4>1 DEF Good, Sharing
    <3> QED
      BY <3>2, <3>3, <3>4
  <2>8. \A p \in sh : \E a, b \in Keys : a # b /\ p = {a, b}
    <3>1. \A p \in d.shares : \E a, b \in Keys : a # b /\ p = {a, b}
      <4> HIDE DEF d
      <4> QED
        BY <2>1 DEF PutInto, Good, Sharing
    <3>2. \A p \in {{i, k} : i \in peers} : \E a, b \in Keys : a # b /\ p = {a, b}
      BY <2>3
    <3> QED
      BY <3>1, <3>2
  <2>9. \A a, b \in Keys : {a, b} \in sh => OneObject(d.data[a], d.data[b])
    <3>1. \A a, b \in Keys : a # k /\ b # k /\ {a, b} \in s.shares
                                => OneObject(d.data[a], d.data[b])
      <4> HIDE DEF d
      <4>1. \A a, b \in Keys : {a, b} \in s.shares => OneObject(s.data[a], s.data[b])
        BY SharedSame
      <4> QED
        BY <2>1, <4>1 DEF PutInto
    <3> HIDE DEF d, peers, sh
    <3> QED
      BY <2>4, <2>5, <3>1
  <2>10. \A a, b, c \in Keys : {a, b} \in sh /\ {b, c} \in sh /\ a # c => {a, c} \in sh
    <3>1. \A a, b, c \in Keys : {a, b} \in s.shares /\ {b, c} \in s.shares /\ a # c
                                   => {a, c} \in s.shares
      BY DEF Good, Sharing
    <3> HIDE DEF d, peers, sh
    <3> SUFFICES ASSUME NEW a \in Keys, NEW b \in Keys, NEW c \in Keys,
                        {a, b} \in sh, {b, c} \in sh, a # c
                 PROVE  {a, c} \in sh
      OBVIOUS
    <3>2. CASE b = k
      <4>1. a \in peers /\ c \in peers /\ a # k /\ c # k
        BY <2>3, <2>5, <3>2
      <4> QED
        BY <2>5, <2>7, <4>1
    <3>3. CASE a = k /\ b # k
      <4>1. b \in peers /\ {b, c} \in s.shares /\ c # k
        BY <2>5, <3>3
      <4>2. c \in peers
        BY <2>6, <3>3, <4>1
      <4> QED
        BY <2>5, <3>3, <4>2
    <3>4. CASE c = k /\ b # k
      <4>1. b \in peers /\ {a, b} \in s.shares /\ a # k
        BY <2>5, <3>4
      <4>2. a \in peers
        BY <2>6, <3>4, <4>1
      <4> QED
        BY <2>5, <3>4, <4>2
    <3>5. CASE a # k /\ b # k /\ c # k
      <4>1. {a, b} \in s.shares /\ {b, c} \in s.shares
        BY <2>5, <3>5
      <4>2. {a, c} \in s.shares
        BY <3>1, <4>1
      <4> QED
        BY <2>5, <3>5, <4>2
    <3> QED
      BY <3>2, <3>3, <3>4, <3>5
  <2>11. sh \in SUBSET (SUBSET Keys)
    <3> HIDE DEF sh
    <3> QED
      BY <2>8
  <2>15. cp \in [Keys -> Nat]
    <3> HIDE DEF d
    <3>1. d.cap \in [Keys -> Nat] /\ s.cap[j] \in Nat
      BY <2>1, DbParts DEF PutInto
    <3> QED
      BY <3>1
  <2> HIDE DEF d, peers, sh, cp
  <2>12. Sharing(e)
    <3>1. \A p \in sh : /\ \E a, b \in Keys : a # b /\ p = {a, b}
                        /\ \A a, b \in p : OneObject(d.data[a], d.data[b])
      <4> SUFFICES ASSUME NEW p \in sh
                   PROVE  /\ \E a, b \in Keys : a # b /\ p = {a, b}
                          /\ \A a, b \in p : OneObject(d.data[a], d.data[b])
        OBVIOUS
      <4>1. PICK a \in Keys, b \in Keys : a # b /\ p = {a, b}
        BY <2>8
      <4>2. OneObject(d.data[a], d.data[b]) /\ OneObject(d.data[b], d.data[a])
        BY <2>9, <4>1, OneBack
      <4> QED
        BY <4>1, <4>2, OneSelf
    <3>2. e.data = d.data /\ e.shares = sh
      OBVIOUS
    <3> HIDE DEF e
    <3>3. \A p \in e.shares : /\ \E a, b \in Keys : a # b /\ p = {a, b}
                              /\ \A a, b \in p : OneObject(e.data[a], e.data[b])
      BY <3>1, <3>2
    <3>4. \A a, b, c \in Keys : {a, b} \in e.shares /\ {b, c} \in e.shares /\ a # c
                                   => {a, c} \in e.shares
      BY <2>10, <3>2, Zenon
    <3> QED
      BY <3>3, <3>4, Zenon DEF Sharing
  <2>13. e \in DbType /\ \A i \in e.jobs : e.ttl[i] # Never
    BY <2>1, <2>11, <2>15 DEF PutInto, Good, DbType
  <2>14. Good(e)
    BY <2>12, <2>13 DEF Good
  <2> QED
    BY <2>1, <2>2, <2>14 DEF PutInto, SharedTo
<1> QED
  BY <1>1, <1>2

-------------------------------------------------------------------------------
(* From one database to the next *)

\* The same for clients, and no new sharing.
Near(s, e, t) == /\ Good(e)
                 /\ \A k \in Keys : SameKey(s, e, k, t) /\ Aliases(e, k) \subseteq Aliases(s, k)

\* What Look makes of s.
LookedAt(s, ks, t, e) ==
    /\ Near(s, e, t)
    /\ \A k \in ks : ~Expired(e, k, t) /\ e.data[k] = Visible(s, k, t)
    /\ \A k \in Keys : \/ ~Expired(s, k, t) /\ e.data[k] = s.data[k] /\ e.ttl[k] = s.ttl[k]
                       \/ k \notin ks /\ e.data[k] = s.data[k] /\ e.ttl[k] = s.ttl[k]
                       \/ k \in ks /\ Expired(s, k, t) /\ e.data[k] = Nil /\ e.ttl[k] = Never

LEMMA SameOf ==
    ASSUME NEW s, NEW e, NEW k, NEW t, e.data[k] = s.data[k], e.ttl[k] = s.ttl[k]
    PROVE  SameKey(s, e, k, t) /\ (Expired(e, k, t) <=> Expired(s, k, t))
BY DEF SameKey, Visible, Expired

LEMMA SameTwice ==
    ASSUME NEW s, NEW e, NEW f, NEW k, NEW t, SameKey(s, e, k, t), SameKey(e, f, k, t)
    PROVE  SameKey(s, f, k, t)
BY DEF SameKey

LEMMA NearSelf == ASSUME NEW s, Good(s), NEW t PROVE Near(s, s, t)
BY DEF Near, SameKey

LEMMA LookIs ==
    ASSUME NEW s, Good(s), NEW ks \in SUBSET Keys, NEW t
    PROVE  LookedAt(s, ks, t, Look(s, ks, t))
<1> DEFINE gone == {k \in ks : Expired(s, k, t)}
           e == Look(s, ks, t)
<1>1. gone \in SUBSET Keys /\ \A k \in Keys : k \in gone <=> k \in ks /\ Expired(s, k, t)
  OBVIOUS
<1>2. RemovedFrom(s, gone, e)
  BY <1>1, RemovesIs DEF Look
<1> HIDE DEF gone, e
<1>3. ASSUME NEW k \in Keys
      PROVE  /\ SameKey(s, e, k, t)
             /\ Aliases(e, k) \subseteq Aliases(s, k)
             /\ k \in ks => ~Expired(e, k, t) /\ e.data[k] = Visible(s, k, t)
             /\ \/ ~Expired(s, k, t) /\ e.data[k] = s.data[k] /\ e.ttl[k] = s.ttl[k]
                \/ k \notin ks /\ e.data[k] = s.data[k] /\ e.ttl[k] = s.ttl[k]
                \/ k \in ks /\ Expired(s, k, t) /\ e.data[k] = Nil /\ e.ttl[k] = Never
  <2>1. Aliases(e, k) \subseteq Aliases(s, k)
    BY <1>2 DEF RemovedFrom, Apart, Aliases
  <2>2. CASE k \in gone
    <3>1. e.data[k] = Nil /\ e.ttl[k] = Never /\ k \in ks /\ Expired(s, k, t)
      BY <1>1, <1>2, <2>2 DEF RemovedFrom
    <3> QED
      BY <2>1, <3>1 DEF SameKey, Visible, Expired
  <2>3. CASE k \notin gone
    <3>1. e.data[k] = s.data[k] /\ e.ttl[k] = s.ttl[k] /\ (k \in ks => ~Expired(s, k, t))
      BY <1>1, <1>2, <2>3 DEF RemovedFrom
    <3> QED
      BY <2>1, <3>1 DEF SameKey, Visible, Expired
  <2> QED
    BY <2>2, <2>3
<1> QED
  BY <1>2, <1>3 DEF LookedAt, Near, e, RemovedFrom

\* What most executors promise: commands for the file and a Good database, in which other
\* keys than ks are what they were.
Done(s, r, ks, t) ==
    /\ r.lines \in Seq(CmdType) /\ Good(r.db)
    /\ \A k \in Keys \ ks : SameKey(s, r.db, k, t)

\* The keys a command may change.
Touched(c) == IF c.op \in Flushes THEN Keys ELSE KeysOf(c)

\* What every executor promises: other keys than those of the command are what they were,
\* or reached by a write in place.
Spread(s, r, c, t) ==
    /\ r.lines \in Seq(CmdType) /\ Good(r.db)
    /\ \A k \in Keys \ Touched(c) :
          SameKey(s, r.db, k, t) \/ \E j \in Touched(c) : Reaches(s, r.db, c, j, k, t)

LEMMA DoneSpread ==
    ASSUME NEW s, NEW r, NEW c, NEW t, Done(s, r, Touched(c), t)
    PROVE  Spread(s, r, c, t)
BY DEF Done, Spread

\* A change of the keys ks.
LEMMA DoneAt ==
    ASSUME NEW s, NEW e, NEW t, Near(s, e, t), NEW f, Good(f), NEW ks,
           \A k \in Keys \ ks : f.data[k] = e.data[k] /\ f.ttl[k] = e.ttl[k],
           NEW ls \in Seq(CmdType)
    PROVE  Done(s, Ok(f, ls), ks, t) /\ \A k \in Keys \ ks : SameKey(s, f, k, t)
<1>1. \A k \in Keys \ ks : SameKey(s, f, k, t)
  BY SameOf, SameTwice DEF Near
<1> QED
  BY <1>1 DEF Done, Ok

\* No change.
LEMMA DoneNothing ==
    ASSUME NEW s, NEW e, NEW t, Near(s, e, t), NEW ks
    PROVE  Done(s, Ok(e, <<>>), ks, t) /\ Done(s, Err(e), ks, t)
<1>1. <<>> \in Seq(CmdType)
  OBVIOUS
<1> QED
  BY <1>1 DEF Near, Done, Ok, Err

\* A change of an entity in place: a key that shares it stays, with its deadline.
LEMMA WriteReaches ==
    ASSUME NEW s, NEW e, NEW t, Near(s, e, t), NEW k \in Keys, e.data[k] # Nil,
           NEW x \in Entities, x # Nil, NEW f, NEW j \in Aliases(e, k),
           f.data[j] = InPlace(e.data[j], x), f.ttl[j] = e.ttl[j]
    PROVE  \/ SameKey(s, f, j, t)
           \/ /\ k \in Aliases(s, j) /\ Visible(s, j, t) # Nil /\ Visible(f, j, t) # Nil
              /\ f.ttl[j] = s.ttl[j] /\ s.data[j] = e.data[j]
<1>1. {j, k} \in e.shares /\ {j, k} = {k, j} /\ j \in Keys
  BY DEF Aliases
<1>2. k \in Aliases(s, j)
  <2>1. k \in Aliases(e, j)
    BY <1>1 DEF Aliases
  <2> QED
    BY <1>1, <2>1 DEF Near
<1>3. e.data[j] # Nil /\ f.data[j] # Nil
  <2>1. e.data[j] # Nil
    BY <1>1, SharedSame DEF Near
  <2>2. e.data[j] \in Entities
    BY <1>1, DbParts DEF Near
  <2> QED
    BY <2>1, <2>2, InPlaceIs
<1>4. SameKey(s, e, j, t)
  BY <1>1 DEF Near
<1>5. CASE Visible(e, j, t) = Nil
  <2>1. Visible(f, j, t) = Nil
    BY <1>3, <1>5 DEF Visible, Expired
  <2> QED
    BY <1>4, <1>5, <2>1 DEF SameKey
<1>6. CASE Visible(e, j, t) # Nil
  <2>1. Visible(f, j, t) # Nil
    BY <1>3, <1>6 DEF Visible, Expired
  <2>2. Visible(s, j, t) # Nil /\ s.ttl[j] = e.ttl[j] /\ s.data[j] = e.data[j]
    BY <1>4, <1>6 DEF SameKey, Visible
  <2> QED
    BY <1>2, <2>1, <2>2
<1> QED
  BY <1>5, <1>6

-------------------------------------------------------------------------------
(* Commands *)

ZOps == {"zadd", "zincrby", "zrem", "zpopmin", "zremrangebyscore"}

\* The parts of a command.
CmdParts(c) ==
    /\ c = [op |-> c.op, keys |-> c.keys, val |-> c.val, n |-> c.n]
    /\ c.op \in Ops /\ c.keys \in Seq(Keys) /\ c.n \in Nat
    /\ c.val \in Values \cup Members
    /\ c.op \in ZOps => c.val \in Members
    /\ c.op \notin ZOps => c.val \in Values
    /\ c.op \in Lists => Len(c.keys) >= 1
    /\ c.op \in Pairs => Len(c.keys) = 2
    /\ c.op \notin Lists \cup Pairs \cup Flushes => Len(c.keys) = 1
    /\ c.op \in {"setex", "psetex"} => MaxTime + c.n * Second < Never
    /\ c.op \in {"expire", "psetex"} => MaxTime + c.n < Never
    /\ c.op = "pexpireat" => c.n < Never

LEMMA CmdIs == ASSUME NEW c PROVE c \in CmdType <=> CmdParts(c)
<1>1. ASSUME c \in CmdType PROVE CmdParts(c)
  BY <1>1 DEF CmdType, CmdParts, ZOps, Flushes, Pairs, Lists
<1>2. ASSUME CmdParts(c) PROVE c \in CmdType
  <2>1. c \in [op : Ops, keys : Seq(Keys), val : Values \cup Members, n : Nat]
    BY <1>2 DEF CmdParts
  <2> QED
    BY <1>2, <2>1 DEF CmdType, CmdParts, ZOps, Flushes, Pairs, Lists
<1> QED
  BY <1>1, <1>2

\* Its keys.
LEMMA KeysAre ==
    ASSUME NEW c \in CmdType
    PROVE  /\ KeysOf(c) \in SUBSET Keys
           /\ c.op \notin Flushes => Key(c) \in Keys /\ Key(c) \in KeysOf(c)
           /\ c.op \in Pairs => /\ Key(c) \in Keys /\ c.keys[2] \in Keys
                                /\ KeysOf(c) = {Key(c), c.keys[2]}
<1>1. CmdParts(c)
  BY CmdIs
<1> DEFINE q == c.keys
<1>2. q \in Seq(Keys) /\ KeysOf(c) = {q[i] : i \in 1 .. Len(q)} /\ Key(c) = q[1]
  BY <1>1 DEF CmdParts, KeysOf, ToSet, Key
<1>3. (c.op \notin Flushes => Len(q) >= 1) /\ (c.op \in Pairs => Len(q) = 2)
  <2>1. /\ c.op \in Lists => Len(q) >= 1
        /\ c.op \in Pairs => Len(q) = 2
        /\ c.op \notin Lists \cup Pairs \cup Flushes => Len(q) = 1
    BY <1>1 DEF CmdParts
  <2> HIDE DEF q
  <2> QED
    BY <2>1
<1> HIDE DEF q
<1>4. c.op \in Pairs => c.op \notin Flushes
  BY DEF Pairs, Flushes
<1> QED
  BY <1>2, <1>3, <1>4 DEF q

LEMMA OneLine == ASSUME NEW c \in CmdType PROVE <<c>> \in Seq(CmdType) /\ <<>> \in Seq(CmdType)
OBVIOUS

\* Another operation, and another number, with the same keys.
Renamed(c, name) == [c EXCEPT !.op = name]
Recode(c, name, at) == [c EXCEPT !.op = name, !.n = at]

LEMMA ExceptIs ==
    ASSUME NEW c \in CmdType, NEW name, NEW at
    PROVE  /\ Renamed(c, name) = [op |-> name, keys |-> c.keys, val |-> c.val, n |-> c.n]
           /\ Recode(c, name, at) = [op |-> name, keys |-> c.keys, val |-> c.val, n |-> at]
<1>1. c \in [op : Ops, keys : Seq(Keys), val : Values \cup Members, n : Nat]
  BY DEF CmdType
<1>2. Renamed(c, name) = [op |-> name, keys |-> c.keys, val |-> c.val, n |-> c.n]
  BY ONLY <1>1 DEF Renamed
<1>3. Recode(c, name, at) = [op |-> name, keys |-> c.keys, val |-> c.val, n |-> at]
  <2> DEFINE d == [op |-> name, keys |-> c.keys, val |-> c.val, n |-> c.n]
  <2>1. Recode(c, name, at) = [Renamed(c, name) EXCEPT !.n = at]
    BY ONLY <1>1 DEF Renamed, Recode
  <2>2. [d EXCEPT !.n = at] = [op |-> name, keys |-> c.keys, val |-> c.val, n |-> at]
    OBVIOUS
  <2>3. Renamed(c, name) = d
    BY <1>2
  <2> HIDE DEF d
  <2> QED
    BY <2>1, <2>2, <2>3
<1> QED
  BY <1>2, <1>3

\* The name keeps its meaning with this number.
Encodes(name, at) ==
    /\ name \in Ops \ (ZOps \cup Flushes \cup Pairs \cup Lists) /\ at \in Nat
    /\ name \in {"setex", "psetex"} => MaxTime + at * Second < Never
    /\ name \in {"expire", "psetex"} => MaxTime + at < Never
    /\ name = "pexpireat" => at < Never

LEMMA RecodeIs ==
    ASSUME NEW c \in CmdType, c.op \notin ZOps \cup Flushes \cup Pairs \cup Lists, NEW name, NEW at, Encodes(name, at)
    PROVE  Recode(c, name, at) \in CmdType
<1> DEFINE r == Recode(c, name, at)
<1>1. CmdParts(c)
  BY CmdIs
<1>2. r = [op |-> name, keys |-> c.keys, val |-> c.val, n |-> at]
  BY ExceptIs
<1>3. r.op = name /\ r.keys = c.keys /\ r.val = c.val /\ r.n = at
  BY <1>2
<1>4. r = [op |-> r.op, keys |-> r.keys, val |-> r.val, n |-> r.n]
  BY <1>2
<1> HIDE DEF r
<1>5. CmdParts(r)
  BY <1>1, <1>3, <1>4 DEF CmdParts, Encodes
<1> QED
  BY <1>5, CmdIs DEF r

LEMMA RenamedIs ==
    ASSUME NEW c \in CmdType, c.op \notin ZOps \cup Flushes \cup Pairs \cup Lists, NEW name, Encodes(name, c.n)
    PROVE  Renamed(c, name) \in CmdType
<1>1. Renamed(c, name) = Recode(c, name, c.n)
  BY ExceptIs
<1> QED
  BY <1>1, RecodeIs

\* A line with one key.
LineOf(l, op, k, v, n) ==
    /\ l \in CmdType
    /\ l.op = op /\ Key(l) = k /\ l.val = v /\ l.n = n /\ KeysOf(l) = {k}

LEMMA LineIs ==
    ASSUME NEW op \in Ops, NEW k \in Keys, NEW v, NEW n \in Nat,
           op \notin Flushes \cup Pairs \cup {"setex", "psetex", "expire"},
           op \in ZOps => v \in Members, op \notin ZOps => v \in Values,
           op = "pexpireat" => n < Never
    PROVE  LineOf(Line(op, k, v, n), op, k, v, n)
<1> DEFINE r == Line(op, k, v, n)
<1>1. r.op = op /\ r.keys = <<k>> /\ r.val = v /\ r.n = n
  BY DEF Line
<1>2. r = [op |-> r.op, keys |-> r.keys, val |-> r.val, n |-> r.n]
  BY DEF Line
<1>3. r.keys \in Seq(Keys) /\ Len(r.keys) = 1
  BY <1>1
<1>4. KeysOf(r) = {k} /\ Key(r) = k
  BY <1>1 DEF KeysOf, ToSet, Key
<1> HIDE DEF r
<1>5. CmdParts(r)
  BY <1>1, <1>2, <1>3 DEF CmdParts
<1>6. LineOf(r, op, k, v, n)
  BY <1>1, <1>4, <1>5, CmdIs DEF LineOf
<1> QED
  BY <1>6 DEF r

LEMMA ZeroIs == <<>> \in Values /\ 0 \in Nat
BY DEF Values

\* The lines of the undo logs and of a rewrite.
LEMMA LinesAre ==
    ASSUME NEW k \in Keys
    PROVE  /\ \A v \in Values : LineOf(Line("set", k, v, 0), "set", k, v, 0)
           /\ LineOf(Line("del", k, <<>>, 0), "del", k, <<>>, 0)
           /\ LineOf(Line("persist", k, <<>>, 0), "persist", k, <<>>, 0)
           /\ \A n \in Nat : n < Never =>
                  LineOf(Line("pexpireat", k, <<>>, n), "pexpireat", k, <<>>, n)
           /\ \A m \in Members, n \in Nat : /\ LineOf(Line("zadd", k, m, n), "zadd", k, m, n)
                                            /\ LineOf(Line("zrem", k, m, 0), "zrem", k, m, 0)
<1> DEFINE Plain == Ops \ (ZOps \cup Flushes \cup Pairs \cup {"setex", "psetex", "expire"})
<1>1. \A op \in Plain, v \in Values, n \in Nat : (op = "pexpireat" => n < Never)
          => LineOf(Line(op, k, v, n), op, k, v, n)
  BY LineIs
<1>2. "set" \in Plain /\ "del" \in Plain /\ "persist" \in Plain /\ "pexpireat" \in Plain
  BY DEF Ops, ZOps, Flushes, Pairs, Lists
<1>3. \A op \in {"zadd", "zrem"}, m \in Members, n \in Nat :
          LineOf(Line(op, k, m, n), op, k, m, n)
  <2>1. \A op \in {"zadd", "zrem"} : op \in Ops /\ op \in ZOps /\ op # "pexpireat"
           /\ op \notin Flushes \cup Pairs \cup {"setex", "psetex", "expire"}
    BY DEF Ops, ZOps, Flushes, Pairs, Lists
  <2> QED
    BY <2>1, LineIs
<1> HIDE DEF Plain
<1>4. \A v \in Values, n \in Nat :
          /\ LineOf(Line("set", k, v, n), "set", k, v, n)
          /\ LineOf(Line("del", k, v, n), "del", k, v, n)
          /\ LineOf(Line("persist", k, v, n), "persist", k, v, n)
  BY <1>1, <1>2
<1>5. \A n \in Nat : n < Never => LineOf(Line("pexpireat", k, <<>>, n), "pexpireat", k, <<>>, n)
  BY <1>1, <1>2, ZeroIs
<1> QED
  BY <1>3, <1>4, <1>5, ZeroIs

\* What keys may hold.
LEMMA EntityIs ==
    /\ Nil \in Entities
    /\ \A v \in Values : Str(v) \in Entities /\ Str(v).str = v
    /\ \A D \in SUBSET Members :
          \A z \in [D -> Nat] : ZSet(z) \in Entities /\ ZSet(z).zset = z
    /\ \A x \in Entities : x # Nil => (IsStr(x) /\ x.str \in Values) \/ IsZSet(x)
    /\ \A x \in Entities : IsZSet(x) => ~IsStr(x) /\ DOMAIN x.zset \in SUBSET Members
                                        /\ x.zset \in [DOMAIN x.zset -> Nat] /\ x = ZSet(x.zset)
    /\ \A x \in Entities : IsStr(x) => x # Nil /\ x.str \in Values
<1>1. Nil \in Entities
  BY DEF Entities
<1>2. ASSUME NEW v \in Values
      PROVE  Str(v) \in Entities /\ Str(v).str = v
  BY DEF Entities, Strings, Str
<1>3. ASSUME NEW D \in SUBSET Members, NEW z \in [D -> Nat]
      PROVE  ZSet(z) \in Entities /\ ZSet(z).zset = z
  BY DEF Entities, ZSets, ZSet
<1>4. ASSUME NEW x \in Entities, x # Nil
      PROVE  (IsStr(x) /\ x.str \in Values) \/ IsZSet(x)
  <2>1. CASE x \in Strings
    BY <1>4, <2>1 DEF Strings, Str, IsStr
  <2>2. CASE x \in ZSets
    BY <1>4, <2>2 DEF ZSets, ZSet, IsZSet
  <2> QED
    BY <1>4, <2>1, <2>2 DEF Entities
<1>5. ASSUME NEW x \in Entities, IsZSet(x)
      PROVE  /\ ~IsStr(x) /\ DOMAIN x.zset \in SUBSET Members
             /\ x.zset \in [DOMAIN x.zset -> Nat] /\ x = ZSet(x.zset)
  <2>1. x \notin Strings
    BY <1>5 DEF Strings, Str, IsZSet
  <2>2. x \in ZSets
    BY <1>5, <2>1 DEF Entities, IsZSet
  <2>3. ~IsStr(x)
    BY <1>5 DEF IsStr, IsZSet
  <2> QED
    BY <2>2, <2>3 DEF ZSets, ZSet
<1>6. ASSUME NEW x \in Entities, IsStr(x)
      PROVE  x # Nil /\ x.str \in Values
  <2>1. x \notin ZSets
    BY <1>6 DEF ZSets, ZSet, IsStr
  <2> QED
    BY <1>6, <2>1 DEF Entities, Strings, Str, IsStr
<1> QED
  BY <1>1, <1>2, <1>3, <1>4, <1>5, <1>6

-------------------------------------------------------------------------------
(* Executors *)

\* f is e but for the keys ks.
Off(e, f, ks) == Good(f) /\ \A k \in Keys \ ks : f.data[k] = e.data[k] /\ f.ttl[k] = e.ttl[k]

LEMMA OffTwice ==
    ASSUME NEW e, NEW f, NEW g, NEW ks, Off(e, f, ks), Off(f, g, ks)
    PROVE  Off(e, g, ks)
BY DEF Off

LEMMA OffParts ==
    ASSUME NEW e, Good(e), NEW ks \in SUBSET Keys, NEW k \in ks
    PROVE  /\ \A x \in Entities : Off(e, PutEntity(e, k, x), ks)
           /\ Off(e, Persist(e, k), ks)
           /\ \A t : \A at \in Deadlines : at # Never => Off(e, Expire(e, k, at, t), ks)
           /\ Off(e, RemoveKey(e, k), ks)
           /\ \A j \in Keys : Off(e, Share(e, j, k), ks)
<1>1. k \in Keys /\ {k} \in SUBSET Keys
  OBVIOUS
<1>2. ASSUME NEW x \in Entities PROVE Off(e, PutEntity(e, k, x), ks)
  <2>1. PutInto(e, {k}, x, PutEntity(e, k, x))
    BY <1>1, PutIs DEF PutEntity
  <2> QED
    BY <2>1 DEF PutInto, Off
<1>3. Off(e, Persist(e, k), ks)
  BY <1>1, PersistIs DEF Deadlined, Off
<1>4. ASSUME NEW at \in Deadlines, NEW t, at # Never PROVE Off(e, Expire(e, k, at, t), ks)
  BY <1>1, <1>4, ExpireIs DEF Deadlined, Off
<1>5. Off(e, RemoveKey(e, k), ks)
  BY <1>1, RemovesIs DEF RemoveKey, RemovedFrom, Off
<1>6. ASSUME NEW j \in Keys PROVE Off(e, Share(e, j, k), ks)
  <2>1. SharedTo(e, j, k, Share(e, j, k))
    BY <1>1, ShareIs
  <2> QED
    BY <2>1 DEF SharedTo, Off
<1> QED
  BY <1>2, <1>3, <1>4, <1>5, <1>6

LEMMA OffDone ==
    ASSUME NEW s, NEW e, NEW t, Near(s, e, t), NEW ks, NEW f, Off(e, f, ks),
           NEW ls \in Seq(CmdType)
    PROVE  Done(s, Ok(f, ls), ks, t) /\ \A k \in Keys \ ks : SameKey(s, f, k, t)
BY DoneAt DEF Off

\* A command on its keys at a moment.
Asked(s, c, t) == Good(s) /\ c \in CmdType /\ c.op \notin Flushes /\ t \in Times

LEMMA AskedLook ==
    ASSUME NEW s, NEW c, NEW t, Asked(s, c, t)
    PROVE  /\ Near(s, Look(s, KeysOf(c), t), t) /\ Good(Look(s, KeysOf(c), t))
           /\ Key(c) \in Keys /\ Key(c) \in KeysOf(c) /\ KeysOf(c) \in SUBSET Keys
           /\ \A k \in Keys : Look(s, KeysOf(c), t).data[k] \in Entities
           /\ \A k \in KeysOf(c) : Look(s, KeysOf(c), t).data[k] = Visible(s, k, t)
           /\ <<c>> \in Seq(CmdType) /\ <<>> \in Seq(CmdType)
<1>1. KeysOf(c) \in SUBSET Keys /\ Key(c) \in Keys /\ Key(c) \in KeysOf(c)
  BY KeysAre DEF Asked
<1>2. LookedAt(s, KeysOf(c), t, Look(s, KeysOf(c), t))
  BY <1>1, LookIs DEF Asked
<1>3. <<c>> \in Seq(CmdType) /\ <<>> \in Seq(CmdType)
  BY OneLine DEF Asked
<1>4. Near(s, Look(s, KeysOf(c), t), t) /\ Good(Look(s, KeysOf(c), t))
  BY <1>2 DEF LookedAt, Near
<1>5. \A k \in Keys : Look(s, KeysOf(c), t).data[k] \in Entities
  BY <1>4, DbParts
<1> QED
  BY <1>1, <1>2, <1>3, <1>4, <1>5 DEF LookedAt

LEMMA ReadDone ==
    ASSUME NEW s, NEW c, NEW t, Asked(s, c, t)
    PROVE  Done(s, ExecRead(s, c, t), KeysOf(c), t)
BY AskedLook, DoneNothing DEF ExecRead

LEMMA GetEXDone ==
    ASSUME NEW s, NEW c, NEW t, Asked(s, c, t), c.op = "getex persist"
    PROVE  Done(s, ExecGetEX(s, c, t), KeysOf(c), t)
<1> DEFINE e == Look(s, KeysOf(c), t)
           r == [c EXCEPT !.op = "persist"]
<1>1. <<r>> \in Seq(CmdType)
  <2>1. CmdParts(c) /\ c \in CmdType /\ c.op \notin ZOps \cup Flushes \cup Pairs \cup Lists
    BY CmdIs DEF Asked, ZOps, Flushes, Pairs, Lists
  <2>2. Encodes("persist", c.n)
    BY <2>1 DEF CmdParts, Encodes, Ops, ZOps, Flushes, Pairs, Lists
  <2>3. r \in CmdType
    BY <2>1, <2>2, RenamedIs DEF Renamed
  <2> QED
    BY <2>3, OneLine
<1> HIDE DEF r
<1>2. Off(e, Persist(e, Key(c)), KeysOf(c))
  BY AskedLook, OffParts
<1>3. Done(s, Ok(Persist(e, Key(c)), <<r>>), KeysOf(c), t)
  BY <1>1, <1>2, AskedLook, OffDone
<1>4. Done(s, Ok(e, <<>>), KeysOf(c), t) /\ Done(s, Err(e), KeysOf(c), t)
  BY AskedLook, DoneNothing
<1> QED
  BY <1>3, <1>4 DEF ExecGetEX, e, r

\* SET, GETSET: a new value without deadline; SETEX: one with a deadline.
LEMMA PutTimed ==
    ASSUME NEW e, Good(e), NEW ks \in SUBSET Keys, NEW k \in ks, NEW x \in Entities, NEW t
    PROVE  /\ Off(e, Persist(PutEntity(e, k, x), k), ks)
           /\ \A at \in Deadlines : at # Never => Off(e, Expire(PutEntity(e, k, x), k, at, t), ks)
<1>1. Off(e, PutEntity(e, k, x), ks)
  BY OffParts
<1>2. Good(PutEntity(e, k, x))
  BY <1>1 DEF Off
<1>3. Off(PutEntity(e, k, x), Persist(PutEntity(e, k, x), k), ks)
  BY <1>2, OffParts
<1>4. \A at \in Deadlines : at # Never
          => Off(PutEntity(e, k, x), Expire(PutEntity(e, k, x), k, at, t), ks)
  BY <1>2, OffParts
<1> QED
  BY <1>1, <1>3, <1>4, OffTwice

\* The string of a command that is not about sorted sets.
LEMMA ValIs ==
    ASSUME NEW c \in CmdType, c.op \notin ZOps
    PROVE  c.val \in Values /\ Str(c.val) \in Entities
BY CmdIs, EntityIs DEF CmdParts

LEMMA SetDone ==
    ASSUME NEW s, NEW c, NEW t, Asked(s, c, t), c.op \notin ZOps
    PROVE  /\ Done(s, ExecSet(s, c, t), KeysOf(c), t)
           /\ Done(s, ExecSetNX(s, c, t), KeysOf(c), t)
<1> DEFINE p == PutEntity(s, Key(c), Str(c.val))
<1>1. Near(s, s, t)
  BY NearSelf DEF Asked
<1>2. Str(c.val) \in Entities
  BY ValIs DEF Asked
<1>3. Off(s, Persist(p, Key(c)), KeysOf(c)) /\ Off(s, p, KeysOf(c)) /\ Off(s, s, KeysOf(c))
  <2>1. Good(s) /\ KeysOf(c) \in SUBSET Keys /\ Key(c) \in KeysOf(c)
    BY AskedLook DEF Asked
  <2>2. Off(s, p, KeysOf(c))
    BY <1>2, <2>1, OffParts
  <2>3. Off(s, Persist(p, Key(c)), KeysOf(c))
    BY <1>2, <2>1, PutTimed
  <2> QED
    BY <2>1, <2>2, <2>3 DEF Off
<1> HIDE DEF p
<1>4. <<c>> \in Seq(CmdType)
  BY AskedLook
<1>5. /\ Done(s, Ok(Persist(p, Key(c)), <<c>>), KeysOf(c), t)
      /\ Done(s, Ok(p, <<c>>), KeysOf(c), t) /\ Done(s, Ok(s, <<c>>), KeysOf(c), t)
  BY <1>1, <1>3, <1>4, OffDone
<1>6. Done(s, Ok(s, <<>>), KeysOf(c), t)
  BY <1>1, DoneNothing
<1> QED
  BY <1>5, <1>6 DEF ExecSet, ExecSetNX, p

LEMMA SetEXDone ==
    ASSUME NEW s, NEW c, NEW t, Asked(s, c, t), c.op \in {"setex", "psetex"}
    PROVE  /\ Done(s, ExecSetEX(s, c, t), KeysOf(c), t)
           /\ Done(s, ExecPSetEX(s, c, t), KeysOf(c), t)
<1> DEFINE p == PutEntity(s, Key(c), Str(c.val))
           r == [c EXCEPT !.op = "setex"]
<1>1. Near(s, s, t)
  BY NearSelf DEF Asked
<1>2. CmdParts(c) /\ c.op \notin ZOps \cup Flushes \cup Pairs \cup Lists
  BY CmdIs DEF Asked, ZOps, Flushes, Pairs, Lists
<1>3. <<r>> \in Seq(CmdType)
  <2>1. Encodes("setex", c.n)
    BY <1>2 DEF CmdParts, Encodes, Ops, ZOps, Flushes, Pairs, Lists
  <2>2. r \in CmdType
    BY <1>2, <2>1, RenamedIs DEF Renamed, Asked
  <2> QED
    BY <2>2, OneLine
<1> HIDE DEF r
<1>4. t + c.n * Second \in Deadlines \ {Never} /\ t + c.n \in Deadlines \ {Never}
  <2> DEFINE m == c.n * Second
  <2>1. m \in Nat /\ m >= c.n
    BY <1>2, ClockAssumption DEF CmdParts
  <2>2. MaxTime + m < Never /\ c.n \in Nat
    BY <1>2 DEF CmdParts
  <2> HIDE DEF m
  <2>3. t + m \in Deadlines \ {Never} /\ t + c.n \in Deadlines \ {Never}
    BY <2>1, <2>2, ClockAssumption, NeverIs DEF Asked, Times, Deadlines
  <2> QED
    BY <2>3 DEF m
<1>5. Str(c.val) \in Entities
  BY <1>2, ValIs DEF Asked
<1>6. /\ Off(s, Expire(p, Key(c), t + c.n * Second, t), KeysOf(c))
      /\ Off(s, Expire(p, Key(c), t + c.n, t), KeysOf(c))
  <2>1. Good(s) /\ KeysOf(c) \in SUBSET Keys /\ Key(c) \in KeysOf(c)
    BY AskedLook DEF Asked
  <2> QED
    BY <1>4, <1>5, <2>1, PutTimed
<1> HIDE DEF p
<1>7. <<c>> \in Seq(CmdType)
  BY AskedLook
<1>8. /\ Done(s, Ok(Expire(p, Key(c), t + c.n * Second, t), <<c>>), KeysOf(c), t)
      /\ Done(s, Ok(Expire(p, Key(c), t + c.n, t), <<r>>), KeysOf(c), t)
  BY <1>1, <1>3, <1>6, <1>7, OffDone
<1>9. Done(s, Err(s), KeysOf(c), t)
  BY <1>1, DoneNothing
<1> QED
  BY <1>8, <1>9 DEF ExecSetEX, ExecPSetEX, p, r

\* PutEntities with keys of a command.
LEMMA OffPutAll ==
    ASSUME NEW e, Good(e), NEW ks \in SUBSET Keys, NEW x \in Entities
    PROVE  Off(e, PutEntities(e, ks, x), ks)
<1>1. PutInto(e, ks, x, PutEntities(e, ks, x))
  BY PutIs
<1> QED
  BY <1>1 DEF PutInto, Off

LEMMA MSetDone ==
    ASSUME NEW s, NEW c, NEW t, Asked(s, c, t), c.op \notin ZOps
    PROVE  /\ Done(s, ExecMSet(s, c, t), KeysOf(c), t)
           /\ Done(s, ExecMSetNX(s, c, t), KeysOf(c), t)
<1> DEFINE Found(i) == Visible(s, c.keys[i], t) # Nil
           seen == {i \in DOMAIN c.keys : \A j \in 1 .. i - 1 : ~Found(j)}
           ks == {c.keys[i] : i \in seen}
           e == Look(s, ks, t)
<1>1. ks \in SUBSET Keys
  <2>1. c.keys \in Seq(Keys)
    BY CmdIs DEF Asked, CmdParts
  <2> QED
    BY <2>1
<1> HIDE DEF ks
<1>2. Near(s, e, t) /\ Near(s, s, t)
  BY <1>1, LookIs, NearSelf DEF Asked, LookedAt
<1>3. Off(e, PutAll(e, c), KeysOf(c)) /\ Off(s, PutAll(s, c), KeysOf(c))
  <2>1. Good(e) /\ Good(s) /\ KeysOf(c) \in SUBSET Keys /\ Str(c.val) \in Entities
    BY <1>2, AskedLook, ValIs DEF Near, Asked
  <2> HIDE DEF e
  <2> QED
    BY <2>1, OffPutAll DEF PutAll
<1> HIDE DEF e
<1>4. <<c>> \in Seq(CmdType)
  BY AskedLook
<1>5. /\ Done(s, Ok(PutAll(e, c), <<c>>), KeysOf(c), t)
      /\ Done(s, Ok(PutAll(s, c), <<c>>), KeysOf(c), t)
  BY <1>2, <1>3, <1>4, OffDone
<1>6. Done(s, Ok(e, <<>>), KeysOf(c), t)
  BY <1>2, DoneNothing
<1> QED
  BY <1>5, <1>6 DEF ExecMSet, ExecMSetNX, e, ks, Found, seen

LEMMA GetSetDone ==
    ASSUME NEW s, NEW c, NEW t, Asked(s, c, t), c.op \notin ZOps
    PROVE  /\ Done(s, ExecGetSet(s, c, t), KeysOf(c), t)
           /\ Done(s, ExecGetDel(s, c, t), KeysOf(c), t)
<1> DEFINE e == Look(s, KeysOf(c), t)
           p == PutEntity(e, Key(c), Str(c.val))
<1>1. Near(s, e, t) /\ Good(e) /\ KeysOf(c) \in SUBSET Keys /\ Key(c) \in KeysOf(c)
      /\ <<c>> \in Seq(CmdType)
  BY AskedLook
<1> HIDE DEF e
<1>2. Str(c.val) \in Entities
  BY ValIs DEF Asked
<1>3. Off(e, Persist(p, Key(c)), KeysOf(c))
  BY <1>1, <1>2, PutTimed
<1>4. Off(e, RemoveKey(e, Key(c)), KeysOf(c))
  BY <1>1, OffParts
<1> HIDE DEF p
<1>5. /\ Done(s, Ok(Persist(p, Key(c)), <<c>>), KeysOf(c), t)
      /\ Done(s, Ok(RemoveKey(e, Key(c)), <<c>>), KeysOf(c), t)
  BY <1>1, <1>3, <1>4, OffDone
<1>6. Done(s, Ok(e, <<>>), KeysOf(c), t) /\ Done(s, Err(e), KeysOf(c), t)
  BY <1>1, DoneNothing
<1> QED
  BY <1>5, <1>6 DEF ExecGetSet, ExecGetDel, p, e

\* A new value for the key of a command.
LEMMA PutDone ==
    ASSUME NEW s, NEW c, NEW t, Asked(s, c, t), NEW x \in Entities, NEW ls \in Seq(CmdType)
    PROVE  Done(s, Ok(PutEntity(Look(s, KeysOf(c), t), Key(c), x), ls), KeysOf(c), t)
<1> DEFINE e == Look(s, KeysOf(c), t)
<1>1. Near(s, e, t) /\ Good(e) /\ KeysOf(c) \in SUBSET Keys /\ Key(c) \in KeysOf(c)
  BY AskedLook
<1> HIDE DEF e
<1>2. Off(e, PutEntity(e, Key(c), x), KeysOf(c))
  BY <1>1, OffParts
<1>3. Done(s, Ok(PutEntity(e, Key(c), x), ls), KeysOf(c), t)
  BY <1>1, <1>2, OffDone
<1> QED
  BY <1>3 DEF e

\* A new value for the sorted set of its key.
LEMMA WriteDone ==
    ASSUME NEW s, NEW c, NEW t, Asked(s, c, t), NEW x \in Entities, NEW ls \in Seq(CmdType),
           Look(s, KeysOf(c), t).data[Key(c)] # Nil, x # Nil,
           c.op \in InPlaceOps \ {"append"}
    PROVE  Spread(s, Ok(Write(Look(s, KeysOf(c), t), Key(c), x), ls), c, t)
<1> DEFINE e == Look(s, KeysOf(c), t)
           f == Write(e, Key(c), x)
<1>1. /\ Near(s, e, t) /\ Good(e) /\ Key(c) \in Keys /\ Key(c) \in KeysOf(c)
      /\ Touched(c) = KeysOf(c)
  BY AskedLook DEF Touched, Asked
<1>2. e.data[Key(c)] # Nil
  OBVIOUS
<1> HIDE DEF e
<1>3. WrittenTo(e, Key(c), x, f)
  BY <1>1, WriteIs
<1> HIDE DEF f
<1>4. ASSUME NEW j \in Keys \ KeysOf(c)
      PROVE  SameKey(s, f, j, t) \/ Reaches(s, f, c, Key(c), j, t)
  <2>1. CASE j \in Aliases(e, Key(c))
    <3>1. f.data[j] = InPlace(e.data[j], x) /\ f.ttl[j] = e.ttl[j]
      BY <1>1, <1>3, <2>1 DEF WrittenTo
    <3> QED
      BY <1>1, <1>2, <2>1, <3>1, WriteReaches DEF Reaches
  <2>2. CASE j \notin Aliases(e, Key(c))
    <3>1. f.data[j] = e.data[j] /\ f.ttl[j] = e.ttl[j]
      BY <1>1, <1>3, <2>2 DEF WrittenTo
    <3> QED
      BY <1>1, <3>1, SameOf, SameTwice DEF Near
  <2> QED
    BY <2>1, <2>2
<1>5. Good(f)
  BY <1>3 DEF WrittenTo
<1> QED
  BY <1>1, <1>4, <1>5 DEF Spread, Ok, e, f

\* Nothing, after a look at the keys.
LEMMA IdleDone ==
    ASSUME NEW s, NEW c, NEW t, Asked(s, c, t)
    PROVE  /\ Done(s, Ok(Look(s, KeysOf(c), t), <<>>), KeysOf(c), t)
           /\ Done(s, Err(Look(s, KeysOf(c), t)), KeysOf(c), t)
BY AskedLook, DoneNothing

LEMMA CapIs ==
    ASSUME NEW s, NEW ks, NEW x, NEW e, PutInto(s, ks, x, e), NEW k \in Keys, NEW n \in Nat
    PROVE  PutInto(s, ks, x, [e EXCEPT !.cap[k] = n])
<1> DEFINE cp == [e.cap EXCEPT ![k] = n]
           f == [data |-> e.data, ttl |-> e.ttl, jobs |-> e.jobs, shares |-> e.shares, cap |-> cp]
<1>1. Good(e)
  BY DEF PutInto
<1>2. [e EXCEPT !.cap[k] = n] = f
  BY <1>1 DEF Good, DbType
<1>3. cp \in [Keys -> Nat]
  BY <1>1, DbParts
<1> HIDE DEF cp
<1>4. f \in DbType
  BY <1>1, <1>3, DbParts DEF DbType
<1>5. Sharing(f)
  <2>1. f.data = e.data /\ f.shares = e.shares
    OBVIOUS
  <2> HIDE DEF f
  <2> QED
    BY <1>1, <2>1, SharingOf DEF Good
<1>6. Good(f)
  BY <1>1, <1>4, <1>5 DEF Good
<1> QED
  BY <1>2, <1>6 DEF PutInto

\* What PutBytes makes of s: the string of k is written in place or is a new one, or the
\* former was begun before.
BytesPut(s, k, x, f) ==
    \/ s.data[k] # Nil /\ WrittenTo(s, k, x, f)
    \/ PutInto(s, {k}, x, f)
    \/ s.data[k] # Nil /\ \E d : WrittenTo(s, k, x, d) /\ PutInto(d, {k}, x, f)

LEMMA PutBytesIs ==
    ASSUME NEW s, Good(s), NEW k \in Keys, NEW x \in Entities, IsStr(x), NEW begun,
           begun \in BOOLEAN, begun => s.data[k] # Nil
    PROVE  BytesPut(s, k, x, PutBytes(s, k, x, begun))
<1> DEFINE w == Write(s, k, x)
           old == IF begun THEN w ELSE s
           n == Grow(s, k, Len(x.str)).cap[k]
           g == [PutEntity(old, k, x) EXCEPT !.cap[k] = n]
           f == PutBytes(s, k, x, begun)
<1>1. WrittenTo(s, k, x, w)
  BY WriteIs
<1>2. n \in Nat
  <2>1. Len(x.str) \in Nat /\ s.cap[k] \in Nat
    BY KindIs, DbParts DEF Values
  <2>2. Grow(s, k, Len(x.str)).cap[k]
            = IF Len(x.str) > 2 * s.cap[k] THEN Len(x.str) ELSE 2 * s.cap[k]
    <3>1. s.cap \in [Keys -> Nat]
      BY DbParts
    <3>2. s = [data |-> s.data, ttl |-> s.ttl, jobs |-> s.jobs, shares |-> s.shares,
               cap |-> s.cap]
      BY DbParts
    <3> DEFINE m == IF Len(x.str) > 2 * s.cap[k] THEN Len(x.str) ELSE 2 * s.cap[k]
    <3>3. Grow(s, k, Len(x.str)) = [s EXCEPT !.cap[k] = m]
      BY DEF Grow
    <3> HIDE DEF m
    <3>4. [s EXCEPT !.cap[k] = m].cap = [s.cap EXCEPT ![k] = m]
      BY <3>2
    <3>5. [s.cap EXCEPT ![k] = m][k] = m
      BY <3>1
    <3> QED
      BY <3>3, <3>4, <3>5 DEF m
  <2> QED
    BY <2>1, <2>2
<1> HIDE DEF n, w
<1>3. Good(old)
  BY <1>1 DEF WrittenTo
<1>4. PutInto(old, {k}, x, g)
  <2>1. PutInto(old, {k}, x, PutEntity(old, k, x))
    <3> HIDE DEF old
    <3> QED
      BY <1>3, PutIs DEF PutEntity
  <2> QED
    BY <1>2, <2>1, CapIs
<1>5. (f = w /\ s.data[k] # Nil) \/ f = g
  BY DEF PutBytes, n, w
<1> HIDE DEF f, g
<1>6. CASE f = w /\ s.data[k] # Nil
  BY <1>1, <1>6 DEF BytesPut, f
<1>7. CASE f = g /\ begun
  BY <1>1, <1>4, <1>7 DEF BytesPut, f
<1>8. CASE f = g /\ ~begun
  BY <1>4, <1>8 DEF BytesPut, f
<1> QED
  BY <1>5, <1>6, <1>7, <1>8

\* What all cases have in common.
BytesIn(s, k, x, f) ==
    /\ Good(f) /\ f.data[k] = x /\ f.ttl = s.ttl /\ f.jobs = s.jobs
    /\ f.shares = s.shares \/ f.shares = Apart(s.shares, {k})
    /\ \A j \in Keys \ {k} :
          \/ f.data[j] = s.data[j]
          \/ /\ j \in Aliases(s, k) /\ s.data[k] # Nil
             /\ f.data[j] = InPlace(s.data[j], x)

LEMMA BytesParts ==
    ASSUME NEW s, Good(s), NEW k \in Keys, NEW x, NEW f, BytesPut(s, k, x, f)
    PROVE  BytesIn(s, k, x, f)
<1>1. CASE s.data[k] # Nil /\ WrittenTo(s, k, x, f)
  BY <1>1 DEF WrittenTo, BytesIn
<1>2. CASE PutInto(s, {k}, x, f)
  BY <1>2 DEF PutInto, BytesIn
<1>3. CASE s.data[k] # Nil /\ \E d : WrittenTo(s, k, x, d) /\ PutInto(d, {k}, x, f)
  <2>1. PICK d : WrittenTo(s, k, x, d) /\ PutInto(d, {k}, x, f)
    BY <1>3
  <2> QED
    BY <1>3, <2>1 DEF WrittenTo, PutInto, BytesIn
<1> QED
  BY <1>1, <1>2, <1>3 DEF BytesPut

\* Bytes that are appended change keys with the same array only behind the old ones.
LEMMA AppendedTo ==
    ASSUME NEW v \in Values, NEW w \in Values, NEW y \in Entities, OneObject(Str(v), y), IsStr(y),
           Len(y.str) <= Len(v)
    PROVE  InPlace(y, Str(v \o w)) = y
<1>1. v \in Seq(Pieces) /\ w \in Seq(Pieces) /\ y.str \in Seq(Pieces) /\ y = Str(y.str)
  BY KindIs DEF Values
<1> DEFINE u == v \o w
<1>2. u \in Values /\ \A i \in 1 .. Len(v) : i \in DOMAIN u /\ u[i] = v[i]
  BY <1>1 DEF Values
<1>3. DOMAIN y.str = 1 .. Len(y.str) /\ DOMAIN v = 1 .. Len(v) /\ Len(y.str) \in Nat /\ Len(v) \in Nat
  BY <1>1
<1> HIDE DEF u
<1>4. \A i \in DOMAIN y.str : y.str[i] = v[i] /\ i \in 1 .. Len(v)
  <2>1. Str(v).str = v
    BY DEF Str
  <2> QED
    BY <1>3, <2>1 DEF OneObject
<1>5. [i \in DOMAIN y.str |-> IF i \in DOMAIN u THEN u[i] ELSE y.str[i]] = [i \in DOMAIN y.str |-> y.str[i]]
  BY <1>2, <1>4
<1>6. [i \in DOMAIN y.str |-> y.str[i]] = y.str
  BY <1>1
<1>7. IsStr(Str(u)) /\ Str(u).str = u
  BY <1>2, StrIs DEF Str
<1> QED
  BY <1>1, <1>5, <1>6, <1>7 DEF InPlace, u

\* v with w from n on.
LEMMA SplicedIs ==
    ASSUME NEW v \in Values, NEW w \in Values, NEW n \in Nat
    PROVE  Spliced(v, n, w) \in Values
<1> DEFINE l == IF n + Len(w) > Len(v) THEN n + Len(w) ELSE Len(v)
           u == [i \in 1 .. l |-> IF n < i /\ i <= n + Len(w) THEN w[i - n]
                                  ELSE IF i <= Len(v) THEN v[i] ELSE Text]
<1>1. Spliced(v, n, w) = u
  BY DEF Spliced
<1>2. v \in Seq(Pieces) /\ w \in Seq(Pieces) /\ Text \in Pieces
  BY DEF Values, Pieces
<1>3. Len(v) \in Nat /\ Len(w) \in Nat /\ l \in Nat
  BY <1>2
<1>4. \A i \in 1 .. l : u[i] \in Pieces
  <2> SUFFICES ASSUME NEW i \in 1 .. l
               PROVE  u[i] \in Pieces
    OBVIOUS
  <2>1. CASE n < i /\ i <= n + Len(w)
    <3>1. i - n \in 1 .. Len(w)
      BY <1>3, <2>1
    <3> QED
      BY <1>2, <2>1, <3>1
  <2>2. CASE ~(n < i /\ i <= n + Len(w)) /\ i <= Len(v)
    <3>1. i \in 1 .. Len(v)
      BY <1>3, <2>2
    <3> QED
      BY <1>2, <2>2, <3>1
  <2>3. CASE ~(n < i /\ i <= n + Len(w)) /\ ~(i <= Len(v))
    BY <1>2, <2>3
  <2> QED
    BY <2>1, <2>2, <2>3
<1>5. u \in [1 .. l -> Pieces]
  BY <1>4
<1> HIDE DEF u, l
<1>6. u \in Seq(Pieces)
  BY <1>3, <1>5, SeqDef
<1> QED
  BY <1>1, <1>6 DEF Values

LEMMA BytesAre == ASSUME NEW x \in Entities, ~IsZSet(x) PROVE Bytes(x) \in Values
BY EntityIs, ZeroIs DEF Bytes

\* What APPEND and SETRANGE write for the key of a command.
Appended(x, c) == Str(Bytes(x) \o c.val)
Overwritten(x, c) == Str(Spliced(Bytes(x), c.n, c.val))

LEMMA WrittenIs ==
    ASSUME NEW c \in CmdType, c.op \notin ZOps, NEW x \in Entities, ~IsZSet(x)
    PROVE  /\ Appended(x, c) \in Entities /\ IsStr(Appended(x, c))
           /\ Overwritten(x, c) \in Entities /\ IsStr(Overwritten(x, c))
<1>1. Bytes(x) \in Values /\ c.val \in Values /\ c.n \in Nat
  BY BytesAre, ValIs, CmdIs DEF CmdParts
<1>2. Bytes(x) \o c.val \in Values
  BY <1>1 DEF Values
<1>3. Spliced(Bytes(x), c.n, c.val) \in Values
  BY <1>1, SplicedIs
<1> QED
  BY <1>2, <1>3, StrIs DEF Appended, Overwritten

\* New bytes for the key of a command.
LEMMA BytesSpread ==
    ASSUME NEW s, NEW c, NEW t, Asked(s, c, t), c.op \in {"append", "setrange", "setbit"},
           NEW x \in Entities, IsStr(x), NEW f, BytesPut(Look(s, KeysOf(c), t), Key(c), x, f),
           ~IsZSet(Look(s, KeysOf(c), t).data[Key(c)]),
           c.op = "append" => x = Appended(Look(s, KeysOf(c), t).data[Key(c)], c),
           NEW ls \in Seq(CmdType)
    PROVE  Spread(s, Ok(f, ls), c, t)
<1> DEFINE e == Look(s, KeysOf(c), t)
<1>1. /\ Near(s, e, t) /\ Good(e) /\ Key(c) \in Keys /\ Key(c) \in KeysOf(c)
      /\ Touched(c) = KeysOf(c) /\ \A k \in Keys : e.data[k] \in Entities
      /\ e.data[Key(c)] = Visible(s, Key(c), t)
  BY AskedLook DEF Touched, Asked
<1>2. /\ BytesPut(e, Key(c), x, f) /\ ~IsZSet(e.data[Key(c)])
      /\ c.op = "append" => x = Appended(e.data[Key(c)], c)
  OBVIOUS
<1> HIDE DEF e
<1>3. x # Nil
  BY DEF IsStr
<1>6. BytesIn(e, Key(c), x, f)
  BY <1>1, <1>2, BytesParts
<1>4. ASSUME NEW j \in Keys \ KeysOf(c)
      PROVE  SameKey(s, f, j, t) \/ Reaches(s, f, c, Key(c), j, t)
  <2>1. CASE f.data[j] = e.data[j]
    <3>1. f.ttl[j] = e.ttl[j]
      BY <1>6 DEF BytesIn
    <3> QED
      BY <1>1, <2>1, <3>1, SameOf, SameTwice DEF Near
  <2>2. CASE f.data[j] # e.data[j]
    <3>1. /\ j \in Aliases(e, Key(c)) /\ e.data[Key(c)] # Nil /\ f.ttl[j] = e.ttl[j]
          /\ f.data[j] = InPlace(e.data[j], x)
      BY <1>1, <1>6, <2>2 DEF BytesIn
    <3>2. \/ SameKey(s, f, j, t)
          \/ /\ Key(c) \in Aliases(s, j) /\ Visible(s, j, t) # Nil /\ Visible(f, j, t) # Nil
             /\ f.ttl[j] = s.ttl[j] /\ s.data[j] = e.data[j]
      BY <1>1, <1>3, <3>1, WriteReaches
    <3>3. ASSUME c.op = "append"
          PROVE  Len(e.data[j].str) > Len(e.data[Key(c)].str)
      <4> DEFINE y == e.data[j]
                 v == e.data[Key(c)].str
      <4>1. IsStr(e.data[Key(c)])
        BY <1>1, <1>2, <3>1, EntityIs
      <4>2. v \in Values /\ e.data[Key(c)] = Str(v) /\ c.val \in Values
        BY <1>1, <4>1, <3>3, KindIs, ValIs DEF Asked, ZOps
      <4>3. y \in Entities /\ IsStr(y) /\ OneObject(Str(v), y)
        <5>1. {j, Key(c)} \in e.shares /\ {j, Key(c)} = {Key(c), j}
          BY <3>1 DEF Aliases
        <5>2. OneObject(e.data[Key(c)], e.data[j]) /\ (IsStr(e.data[Key(c)]) <=> IsStr(e.data[j]))
          <6> HIDE DEF y, v
          <6> QED
            BY <1>1, <5>1, SharedSame
        <5> QED
          BY <1>1, <4>1, <4>2, <5>2
      <4>4. x = Str(v \o c.val)
        BY <1>2, <3>1, <3>3 DEF Appended, Bytes
      <4>5. Len(y.str) \in Nat /\ Len(v) \in Nat
        BY <4>2, <4>3, KindIs DEF Values
      <4> HIDE DEF y, v
      <4>6. InPlace(y, x) # y
        BY <2>2, <3>1 DEF y
      <4>7. ~(Len(y.str) <= Len(v))
        BY <4>2, <4>3, <4>4, <4>6, AppendedTo
      <4> QED
        BY <4>5, <4>7 DEF y, v
    <3>4. s.data[Key(c)] = e.data[Key(c)]
      BY <1>1, <3>1 DEF Visible
    <3> QED
      BY <3>2, <3>3, <3>4 DEF Reaches, InPlaceOps
  <2> QED
    BY <2>1, <2>2
<1>5. Good(f)
  BY <1>6 DEF BytesIn
<1> QED
  BY <1>1, <1>4, <1>5 DEF Spread, Ok

LEMMA AppendDone ==
    ASSUME NEW s, NEW c, NEW t, Asked(s, c, t), c.op = "append"
    PROVE  Spread(s, ExecAppend(s, c, t), c, t)
<1> DEFINE e == Look(s, KeysOf(c), t)
           x == e.data[Key(c)]
           y == Appended(x, c)
           f == PutBytes(e, Key(c), y, FALSE)
<1>1. Good(e) /\ Key(c) \in Keys /\ x \in Entities /\ <<c>> \in Seq(CmdType)
  BY AskedLook
<1>2. Spread(s, Err(e), c, t)
  BY IdleDone, DoneSpread DEF Touched, Asked
<1>3. ASSUME ~IsZSet(x)
      PROVE  Spread(s, Ok(f, <<c>>), c, t)
  <2>1. c \in CmdType /\ c.op \notin ZOps
    BY DEF Asked, ZOps
  <2>2. y \in Entities /\ IsStr(y)
    <3> HIDE DEF x
    <3> QED
      BY <1>1, <1>3, <2>1, WrittenIs
  <2>3. BytesPut(e, Key(c), y, f)
    <3> HIDE DEF e, y
    <3> QED
      BY <1>1, <2>2, PutBytesIs
  <2> HIDE DEF f
  <2>4. y = Appended(e.data[Key(c)], c)
    OBVIOUS
  <2> HIDE DEF y
  <2> QED
    BY <1>1, <1>3, <2>2, <2>3, <2>4, BytesSpread
<1>4. ExecAppend(s, c, t) = IF IsZSet(x) THEN Err(e) ELSE Ok(f, <<c>>)
  BY DEF ExecAppend, Appended
<1> HIDE DEF e, x, f
<1> QED
  BY <1>2, <1>3, <1>4

LEMMA SetRangeDone ==
    ASSUME NEW s, NEW c, NEW t, Asked(s, c, t), c.op \in {"setrange", "setbit"}
    PROVE  Spread(s, ExecSetRange(s, c, t), c, t)
<1> DEFINE e == Look(s, KeysOf(c), t)
           x == e.data[Key(c)]
           y == Overwritten(x, c)
           begun == c.op = "setrange" /\ x # Nil /\ c.n <= e.cap[Key(c)]
           f == PutBytes(e, Key(c), y, begun)
           lines == IF c.op = "setbit" THEN <<>> ELSE <<c>>
<1>1. Good(e) /\ Key(c) \in Keys /\ x \in Entities /\ lines \in Seq(CmdType)
  BY AskedLook
<1>2. Spread(s, Err(e), c, t)
  BY IdleDone, DoneSpread DEF Touched, Asked
<1>3. ASSUME ~IsZSet(x)
      PROVE  Spread(s, Ok(f, lines), c, t)
  <2>1. c \in CmdType /\ c.op \notin ZOps
    BY DEF Asked, ZOps
  <2>2. y \in Entities /\ IsStr(y)
    <3> HIDE DEF x
    <3> QED
      BY <1>1, <1>3, <2>1, WrittenIs
  <2>3. BytesPut(e, Key(c), y, f)
    <3>1. begun \in BOOLEAN /\ (begun => x # Nil)
      OBVIOUS
    <3> HIDE DEF e, y, begun
    <3> QED
      BY <1>1, <2>2, <3>1, PutBytesIs
  <2> HIDE DEF f, y, lines
  <2> QED
    BY <1>1, <1>3, <2>2, <2>3, BytesSpread
<1>4. ExecSetRange(s, c, t) = IF IsZSet(x) THEN Err(e) ELSE Ok(f, lines)
  BY DEF ExecSetRange, Overwritten
<1> HIDE DEF e, x, f, lines
<1> QED
  BY <1>2, <1>3, <1>4

\* Integers wrap.
NumberIs ==
    /\ 1 % IntMod \in Pieces
    /\ \A x \in Entities : IsNumber(x) => (x.str[1] + 1) % IntMod \in Pieces

LEMMA NumbersAre == NumberIs
<1>1. \A i \in Nat : i % IntMod \in Pieces
  BY SetsAssumption DEF Pieces
<1>2. ASSUME NEW x \in Entities, IsNumber(x)
      PROVE  x.str[1] \in Nat
  <2>1. x.str \in Seq(Pieces) /\ Len(x.str) = 1 /\ x.str[1] # Text
    BY <1>2, KindIs DEF IsNumber, Values
  <2>2. x.str[1] \in Pieces
    BY <2>1
  <2> QED
    BY <2>1, <2>2 DEF Pieces
<1>3. 1 % IntMod \in Pieces
  BY <1>1
<1>4. \A x \in Entities : IsNumber(x) => (x.str[1] + 1) % IntMod \in Pieces
  <2>1. \A i \in Nat : i + 1 \in Nat
    OBVIOUS
  <2> QED
    BY <1>1, <1>2, <2>1
<1> QED
  BY <1>3, <1>4 DEF NumberIs

LEMMA IncrDone ==
    ASSUME NEW s, NEW c, NEW t, Asked(s, c, t), c.op \in {"incr", "incrbyfloat"}
    PROVE  Done(s, ExecIncr(s, c, t), KeysOf(c), t)
<1> DEFINE e == Look(s, KeysOf(c), t)
           x == e.data[Key(c)]
           op == IF c.op = "incrbyfloat" THEN "incrfloat" ELSE c.op
           r == [c EXCEPT !.op = op]
           Put(i) == Ok(PutEntity(e, Key(c), Str(<<i>>)), <<r>>)
<1>1. <<r>> \in Seq(CmdType)
  <2>1. CmdParts(c) /\ c \in CmdType /\ c.op \notin ZOps \cup Flushes \cup Pairs \cup Lists
    BY CmdIs DEF Asked, ZOps, Flushes, Pairs, Lists
  <2>2. Encodes(op, c.n)
    BY <2>1 DEF CmdParts, Encodes, Ops, ZOps, Flushes, Pairs, Lists
  <2> HIDE DEF op
  <2>3. r \in CmdType
    BY <2>1, <2>2, RenamedIs DEF Renamed
  <2> QED
    BY <2>3, OneLine
<1> HIDE DEF r
<1>2. \A i \in Pieces : Done(s, Put(i), KeysOf(c), t)
  <2>1. \A i \in Pieces : Str(<<i>>) \in Entities
    <3>1. \A i \in Pieces : <<i>> \in Values
      BY DEF Values
    <3> QED
      BY <3>1, StrIs
  <2> QED
    BY <1>1, <2>1, PutDone
<1>3. NumberIs
  BY NumbersAre
<1>4. Done(s, Ok(e, <<>>), KeysOf(c), t) /\ Done(s, Err(e), KeysOf(c), t)
  BY IdleDone
<1>5. x \in Entities
  BY AskedLook
<1>7. ExecIncr(s, c, t) = IF x = Nil THEN Put(1 % IntMod)
                          ELSE IF ~IsNumber(x) THEN Err(e)
                          ELSE Put((x.str[1] + 1) % IntMod)
  BY DEF ExecIncr, r
<1> HIDE DEF e, x, Put
<1> QED
  BY <1>2, <1>3, <1>4, <1>5, <1>7 DEF NumberIs

LEMMA DelDone ==
    ASSUME NEW s, NEW c, NEW t, Asked(s, c, t)
    PROVE  Done(s, ExecDel(s, c, t), KeysOf(c), t)
<1> DEFINE e == Look(s, KeysOf(c), t)
           found == {k \in KeysOf(c) : e.data[k] # Nil}
           lines == IF found = {} THEN <<>> ELSE <<c>>
<1>1. Near(s, e, t) /\ Good(e) /\ KeysOf(c) \in SUBSET Keys /\ lines \in Seq(CmdType)
  BY AskedLook
<1>2. found \in SUBSET KeysOf(c)
  OBVIOUS
<1> HIDE DEF e, found, lines
<1>3. RemovedFrom(e, found, Removes(e, found))
  BY <1>1, <1>2, RemovesIs
<1>4. Off(e, Removes(e, found), KeysOf(c))
  BY <1>2, <1>3 DEF RemovedFrom, Off
<1>5. Done(s, Ok(Removes(e, found), lines), KeysOf(c), t)
  BY <1>1, <1>4, OffDone
<1> QED
  BY <1>5 DEF ExecDel, e, found, lines

\* The deadline of EXPIRE and PEXPIREAT.
ExpireAt(c, t) == IF c.op = "expire" THEN t + c.n ELSE c.n

LEMMA ExpireAtIs ==
    ASSUME NEW c \in CmdType, c.op \in {"expire", "pexpireat"}, NEW t \in Times
    PROVE  ExpireAt(c, t) \in Deadlines /\ ExpireAt(c, t) # Never /\ ExpireAt(c, t) < Never
           /\ ExpireAt(c, t) \in Nat
<1>1. c.n \in Nat /\ (c.op = "expire" => MaxTime + c.n < Never) /\ (c.op = "pexpireat" => c.n < Never)
  BY CmdIs DEF CmdParts
<1> QED
  BY <1>1, NeverIs, ClockAssumption DEF Deadlines, Times, ExpireAt

LEMMA ExpireDone ==
    ASSUME NEW s, NEW c, NEW t, Asked(s, c, t), c.op \in {"expire", "pexpireat"}
    PROVE  Done(s, ExecExpire(s, c, t), KeysOf(c), t)
<1> DEFINE e == Look(s, KeysOf(c), t)
           at == ExpireAt(c, t)
           r == [c EXCEPT !.op = "pexpireat", !.n = at]
<1>1. Near(s, e, t) /\ Good(e) /\ KeysOf(c) \in SUBSET Keys /\ Key(c) \in KeysOf(c)
  BY AskedLook
<1>2. at \in Deadlines /\ at # Never /\ at < Never /\ at \in Nat
  BY ExpireAtIs DEF Asked
<1> HIDE DEF e, at
<1>3. <<r>> \in Seq(CmdType)
  <2>1. Encodes("pexpireat", at)
    BY <1>2 DEF Encodes, Ops, ZOps, Flushes, Pairs, Lists
  <2>2. c \in CmdType /\ c.op \notin ZOps \cup Flushes \cup Pairs \cup Lists
    BY DEF Asked, ZOps, Flushes, Pairs, Lists
  <2>3. r \in CmdType
    BY <2>1, <2>2, RecodeIs DEF Recode
  <2> QED
    BY <2>3, OneLine
<1> HIDE DEF r
<1>4. Off(e, Expire(e, Key(c), at, t), KeysOf(c))
  BY <1>1, <1>2, OffParts
<1>5. Done(s, Ok(Expire(e, Key(c), at, t), <<r>>), KeysOf(c), t)
  BY <1>1, <1>3, <1>4, OffDone
<1>6. Done(s, Ok(e, <<>>), KeysOf(c), t)
  BY <1>1, DoneNothing
<1> QED
  BY <1>5, <1>6 DEF ExecExpire, e, at, r, ExpireAt

LEMMA PersistDone ==
    ASSUME NEW s, NEW c, NEW t, Asked(s, c, t)
    PROVE  Done(s, ExecPersist(s, c, t), KeysOf(c), t)
<1> DEFINE e == Look(s, KeysOf(c), t)
<1>1. Near(s, e, t) /\ Good(e) /\ KeysOf(c) \in SUBSET Keys /\ Key(c) \in KeysOf(c)
      /\ <<c>> \in Seq(CmdType)
  BY AskedLook
<1> HIDE DEF e
<1>2. Off(e, Persist(e, Key(c)), KeysOf(c))
  BY <1>1, OffParts
<1>3. Done(s, Ok(Persist(e, Key(c)), <<c>>), KeysOf(c), t)
  BY <1>1, <1>2, OffDone
<1>4. Done(s, Ok(e, <<>>), KeysOf(c), t)
  BY <1>1, DoneNothing
<1> QED
  BY <1>3, <1>4 DEF ExecPersist, e

LEMMA NearTwice ==
    ASSUME NEW s, NEW e, NEW f, NEW t, Near(s, e, t), Near(e, f, t)
    PROVE  Near(s, f, t)
BY SameTwice DEF Near

LEMMA MoveIs ==
    ASSUME NEW e, Good(e), NEW src \in Keys, NEW dest \in Keys, NEW t
    PROVE  Off(e, Move(e, src, dest, t), {src, dest})
<1> DEFINE ks == {src, dest}
           f == Share(e, src, dest)
           moved == RemoveKey(f, src)
           p == Persist(moved, dest)
           at == e.ttl[src]
<1>1. ks \in SUBSET Keys /\ src \in ks /\ dest \in ks
  OBVIOUS
<1> HIDE DEF ks
<1>2. Off(e, f, ks)
  BY <1>1, OffParts
<1> HIDE DEF f
<1>3. Off(f, moved, ks)
  BY <1>1, <1>2, OffParts DEF Off
<1> HIDE DEF moved
<1>4. Off(moved, p, ks)
  BY <1>1, <1>3, OffParts DEF Off
<1> HIDE DEF p
<1>5. at # Never => Off(p, Expire(p, dest, at, t), ks)
  <2>1. Good(p)
    BY <1>4 DEF Off
  <2>2. at \in Deadlines
    BY DbParts
  <2> HIDE DEF at
  <2> QED
    BY <1>1, <2>1, <2>2, OffParts
<1>6. Off(e, moved, ks) /\ Off(e, p, ks)
  BY <1>2, <1>3, <1>4, OffTwice
<1>7. at # Never => Off(e, Expire(p, dest, at, t), ks)
  BY <1>5, <1>6, OffTwice
<1> QED
  BY <1>6, <1>7 DEF Move, f, moved, p, ks

LEMMA RenameDone ==
    ASSUME NEW s, NEW c, NEW t, Asked(s, c, t), c.op \in Pairs
    PROVE  /\ Done(s, ExecRename(s, c, t), KeysOf(c), t)
           /\ \A k \in Keys \ KeysOf(c) : SameKey(s, ExecRename(s, c, t).db, k, t)
<1> DEFINE src == Key(c)
           dest == c.keys[2]
           e == Look(s, {src}, t)
           m == Move(e, src, dest, t)
<1>1. src \in Keys /\ dest \in Keys /\ KeysOf(c) = {src, dest} /\ <<c>> \in Seq(CmdType)
  BY KeysAre, OneLine DEF Asked
<1>2. Near(s, e, t) /\ Good(e)
  <2>1. {src} \in SUBSET Keys
    BY <1>1
  <2> QED
    BY <2>1, LookIs DEF LookedAt, Near, Asked
<1> HIDE DEF e
<1>3. Off(e, m, KeysOf(c))
  BY <1>1, <1>2, MoveIs
<1> HIDE DEF m
<1>4. Done(s, Ok(m, <<c>>), KeysOf(c), t) /\ \A k \in Keys \ KeysOf(c) : SameKey(s, m, k, t)
  BY <1>1, <1>2, <1>3, OffDone
<1>5. Done(s, Err(e), KeysOf(c), t) /\ \A k \in Keys : SameKey(s, e, k, t)
  BY <1>2, DoneNothing DEF Near
<1>6. Ok(m, <<c>>).db = m /\ Err(e).db = e
  BY DEF Ok, Err
<1>7. ExecRename(s, c, t) = IF e.data[src] = Nil THEN Err(e) ELSE Ok(m, <<c>>)
  BY DEF ExecRename, e, m
<1> QED
  BY <1>4, <1>5, <1>6, <1>7

LEMMA RenameNxDone ==
    ASSUME NEW s, NEW c, NEW t, Asked(s, c, t), c.op \in Pairs
    PROVE  /\ Done(s, ExecRenameNx(s, c, t), KeysOf(c), t)
           /\ \A k \in Keys \ KeysOf(c) : SameKey(s, ExecRenameNx(s, c, t).db, k, t)
<1> DEFINE src == Key(c)
           dest == c.keys[2]
           d == Look(s, {dest}, t)
           e == Look(d, {src}, t)
           m == Move(e, src, dest, t)
<1>1. src \in Keys /\ dest \in Keys /\ KeysOf(c) = {src, dest} /\ <<c>> \in Seq(CmdType)
  BY KeysAre, OneLine DEF Asked
<1>2. Near(s, d, t) /\ Good(d)
  <2>1. {dest} \in SUBSET Keys
    BY <1>1
  <2> QED
    BY <2>1, LookIs DEF LookedAt, Near, Asked
<1> HIDE DEF d
<1>3. Near(s, e, t) /\ Good(e)
  <2>1. {src} \in SUBSET Keys
    BY <1>1
  <2>2. Near(d, e, t)
    BY <1>2, <2>1, LookIs DEF LookedAt
  <2> HIDE DEF e
  <2> QED
    BY <1>2, <2>2, NearTwice DEF Near
<1> HIDE DEF e
<1>4. Off(e, m, KeysOf(c))
  BY <1>1, <1>3, MoveIs
<1> HIDE DEF m
<1>5. Done(s, Ok(m, <<c>>), KeysOf(c), t) /\ \A k \in Keys \ KeysOf(c) : SameKey(s, m, k, t)
  BY <1>1, <1>3, <1>4, OffDone
<1>6. Done(s, Err(e), KeysOf(c), t) /\ \A k \in Keys : SameKey(s, e, k, t)
  BY <1>3, DoneNothing DEF Near
<1>7. Done(s, Ok(d, <<>>), KeysOf(c), t) /\ \A k \in Keys : SameKey(s, d, k, t)
  BY <1>2, DoneNothing DEF Near
<1>8. Ok(m, <<c>>).db = m /\ Err(e).db = e /\ Ok(d, <<>>).db = d
  BY DEF Ok, Err
<1>9. ExecRenameNx(s, c, t) = IF d.data[dest] # Nil THEN Ok(d, <<>>)
                              ELSE IF e.data[src] = Nil THEN Err(e) ELSE Ok(m, <<c>>)
  BY DEF ExecRenameNx, d, e, m
<1> QED
  BY <1>5, <1>6, <1>7, <1>8, <1>9

LEMMA CopyDone ==
    ASSUME NEW s, NEW c, NEW t, Asked(s, c, t), c.op \in Pairs
    PROVE  Done(s, ExecCopy(s, c, t), KeysOf(c), t)
<1> DEFINE src == Key(c)
           dest == c.keys[2]
           d == Look(s, {src}, t)
           e == Look(d, {dest}, t)
           copied == Share(e, src, dest)
           at == e.ttl[src]
           f == IF at = Never THEN copied ELSE Expire(copied, dest, at, t)
<1>1. src \in Keys /\ dest \in Keys /\ KeysOf(c) = {src, dest} /\ <<c>> \in Seq(CmdType)
  BY KeysAre, OneLine DEF Asked
<1>2. Near(s, d, t) /\ Good(d)
  <2>1. {src} \in SUBSET Keys
    BY <1>1
  <2> QED
    BY <2>1, LookIs DEF LookedAt, Near, Asked
<1> HIDE DEF d
<1>3. Near(s, e, t) /\ Good(e)
  <2>1. {dest} \in SUBSET Keys
    BY <1>1
  <2>2. Near(d, e, t)
    BY <1>2, <2>1, LookIs DEF LookedAt
  <2> HIDE DEF e
  <2> QED
    BY <1>2, <2>2, NearTwice DEF Near
<1>4. at \in Deadlines
  BY <1>1, <1>3, DbParts
<1> HIDE DEF e
<1>5. KeysOf(c) \in SUBSET Keys /\ dest \in KeysOf(c)
  BY <1>1
<1>6. Off(e, copied, KeysOf(c)) /\ Good(copied)
  <2>1. Off(e, copied, KeysOf(c))
    <3> HIDE DEF src, dest
    <3> QED
      BY <1>1, <1>3, <1>5, OffParts
  <2> QED
    BY <2>1 DEF Off
<1> HIDE DEF copied
<1>7. at # Never => Off(copied, Expire(copied, dest, at, t), KeysOf(c))
  <2> HIDE DEF at
  <2> QED
    BY <1>4, <1>5, <1>6, OffParts
<1>8. at # Never => Off(e, Expire(copied, dest, at, t), KeysOf(c))
  BY <1>6, <1>7, OffTwice
<1>9. Off(e, f, KeysOf(c))
  BY <1>6, <1>8
<1> HIDE DEF f
<1>10. Done(s, Ok(f, <<c>>), KeysOf(c), t)
  BY <1>1, <1>3, <1>9, OffDone
<1>11. Done(s, Ok(e, <<>>), KeysOf(c), t) /\ Done(s, Ok(d, <<>>), KeysOf(c), t)
  BY <1>2, <1>3, DoneNothing
<1>12. Done(s, Err(s), KeysOf(c), t)
  BY NearSelf, DoneNothing DEF Asked
<1> QED
  BY <1>10, <1>11, <1>12 DEF ExecCopy, d, e, copied, f

\* The scores of a key that holds no string.
LEMMA ScoresAre ==
    ASSUME NEW x \in Entities, ~IsStr(x)
    PROVE  /\ DOMAIN Scores(x) \in SUBSET Members
           /\ Scores(x) \in [DOMAIN Scores(x) -> Nat]
           /\ x = Nil \/ IsZSet(x)
<1>1. CASE x = Nil
  BY <1>1 DEF Scores
<1>2. CASE x # Nil
  <2>1. IsZSet(x)
    BY <1>2, EntityIs
  <2>2. DOMAIN x.zset \in SUBSET Members /\ x.zset \in [DOMAIN x.zset -> Nat]
    BY <2>1, EntityIs
  <2>3. Scores(x) = x.zset
    BY <1>2 DEF Scores
  <2> QED
    BY <2>1, <2>2, <2>3
<1> QED
  BY <1>1, <1>2

\* What SetScore makes of the scores z of the members D, and a removal.
Scored(D, z, m, i, y) ==
    y \in [D \cup {m} -> Nat] /\ \A j \in D \cup {m} : y[j] = IF j = m THEN i ELSE z[j]

Without(z, m) == [j \in DOMAIN z \ {m} |-> z[j]]

LEMMA NotNil ==
    ASSUME NEW D \in SUBSET Members, NEW z \in [D -> Nat]
    PROVE  /\ ZSet(z) # Nil /\ IsZSet(ZSet(z)) /\ ZSet(z) \in Entities
           /\ ZSet(z).zset = z /\ Scores(ZSet(z)) = z
<1>1. ZSet(z) \in [zset : UNION {[E -> Nat] : E \in SUBSET Members}]
  BY DEF ZSet
<1>2. ZSet(z) # Nil
  BY <1>1, NilAssumption
<1>3. DOMAIN ZSet(z) = {"zset"} /\ ZSet(z).zset = z
  BY DEF ZSet
<1>4. ZSet(z) \in Entities
  BY EntityIs
<1> QED
  BY <1>2, <1>3, <1>4 DEF IsZSet, Scores

LEMMA ScoredIs ==
    ASSUME NEW D \in SUBSET Members, NEW z \in [D -> Nat], NEW m \in Members, NEW i \in Nat
    PROVE  /\ Scored(D, z, m, i, SetScore(z, m, i))
           /\ ZSet(SetScore(z, m, i)) \in Entities /\ ZSet(SetScore(z, m, i)) # Nil
<1> DEFINE y == SetScore(z, m, i)
<1>1. D \cup {m} \in SUBSET Members
  OBVIOUS
<1>2. y \in [D \cup {m} -> Nat] /\ \A j \in D \cup {m} : y[j] = IF j = m THEN i ELSE z[j]
  BY DEF SetScore
<1> HIDE DEF y
<1>3. ZSet(y) \in Entities /\ ZSet(y) # Nil
  BY <1>1, <1>2, NotNil
<1> QED
  BY <1>2, <1>3 DEF y, Scored

LEMMA ZAddDone ==
    ASSUME NEW s, NEW c, NEW t, Asked(s, c, t), c.op \in {"zadd", "zincrby"}
    PROVE  Spread(s, ExecZAdd(s, c, t), c, t)
<1> DEFINE e == Look(s, KeysOf(c), t)
           x == e.data[Key(c)]
           z == Scores(x)
           score == IF c.op = "zincrby" /\ c.val \in DOMAIN z THEN z[c.val] + c.n ELSE c.n
           y == ZSet(SetScore(z, c.val, score))
<1>1. x \in Entities /\ <<c>> \in Seq(CmdType)
  BY AskedLook
<1>2. c.val \in Members /\ c.n \in Nat
  BY CmdIs DEF Asked, CmdParts, ZOps
<1>3. Spread(s, Err(e), c, t)
  BY IdleDone, DoneSpread DEF Touched, Asked
<1>4. CASE ~IsStr(x)
  <2>1. DOMAIN z \in SUBSET Members /\ z \in [DOMAIN z -> Nat]
    <3> HIDE DEF x
    <3> QED
      BY <1>1, <1>4, ScoresAre
  <2> HIDE DEF z
  <2>2. score \in Nat
    BY <1>2, <2>1
  <2> HIDE DEF score
  <2>3. y \in Entities
    BY <1>2, <2>1, <2>2, ScoredIs
  <2>7. y # Nil
    BY <1>2, <2>1, <2>2, ScoredIs
  <2> HIDE DEF y
  <2>4. Spread(s, Ok(PutEntity(e, Key(c), y), <<c>>), c, t)
    BY <1>1, <2>3, PutDone, DoneSpread DEF Touched, Asked
  <2>5. x # Nil => Spread(s, Ok(Write(e, Key(c), y), <<c>>), c, t)
    BY <1>1, <2>3, <2>7, WriteDone DEF InPlaceOps
  <2>6. ExecZAdd(s, c, t) = IF IsStr(x) THEN Err(e)
                            ELSE Ok(IF x = Nil THEN PutEntity(e, Key(c), y)
                                               ELSE Write(e, Key(c), y), <<c>>)
    BY DEF ExecZAdd, y, score, z
  <2> QED
    BY <1>4, <2>4, <2>5, <2>6
<1>5. CASE IsStr(x)
  BY <1>3, <1>5 DEF ExecZAdd
<1> QED
  BY <1>4, <1>5

LEMMA ZRemDone ==
    ASSUME NEW s, NEW c, NEW t, Asked(s, c, t),
           c.op \in {"zrem", "zpopmin", "zremrangebyscore"}
    PROVE  Spread(s, ExecZRem(s, c, t), c, t)
<1> DEFINE e == Look(s, KeysOf(c), t)
           x == e.data[Key(c)]
           z == Scores(x)
           left == DOMAIN z \ Doomed(z, c)
           rest == [m \in left |-> z[m]]
<1>1. x \in Entities /\ <<c>> \in Seq(CmdType)
  BY AskedLook
<1>2. Spread(s, Ok(e, <<>>), c, t) /\ Spread(s, Err(e), c, t)
  BY IdleDone, DoneSpread DEF Touched, Asked
<1>3. CASE x # Nil /\ ~IsStr(x)
  <2>1. DOMAIN z \in SUBSET Members /\ z \in [DOMAIN z -> Nat]
    <3> HIDE DEF x
    <3> QED
      BY <1>1, <1>3, ScoresAre
  <2>2. left \in SUBSET Members
    BY <2>1
  <2>3. left \subseteq DOMAIN z
    OBVIOUS
  <2> HIDE DEF z, left
  <2>4. rest \in [left -> Nat]
    BY <2>1, <2>3
  <2> HIDE DEF rest
  <2>5. ZSet(rest) \in Entities
    BY <2>2, <2>4, EntityIs
  <2>8. ZSet(rest) # Nil
    BY <2>2, <2>4, NotNil
  <2>6. Spread(s, Ok(Write(e, Key(c), ZSet(rest)), <<c>>), c, t)
    BY <1>1, <1>3, <2>5, <2>8, WriteDone DEF InPlaceOps
  <2>7. ExecZRem(s, c, t) = IF x = Nil THEN Ok(e, <<>>)
                            ELSE IF IsStr(x) THEN Err(e)
                            ELSE IF left = DOMAIN z THEN Ok(e, <<>>)
                            ELSE Ok(Write(e, Key(c), ZSet(rest)), <<c>>)
    BY DEF ExecZRem, rest, left, z
  <2> QED
    BY <1>2, <1>3, <2>6, <2>7
<1>4. CASE x = Nil \/ IsStr(x)
  BY <1>2, <1>4 DEF ExecZRem
<1> QED
  BY <1>3, <1>4

LEMMA EmptyGood == Good(Empty)
<1> DEFINE e == Empty
<1>1. /\ e = [data |-> e.data, ttl |-> e.ttl, jobs |-> e.jobs, shares |-> e.shares,
              cap |-> e.cap]
      /\ e.data = [k \in Keys |-> Nil] /\ e.ttl = [k \in Keys |-> Never]
      /\ e.jobs = {} /\ e.shares = {} /\ e.cap = [k \in Keys |-> 0]
  BY DEF Empty
<1> HIDE DEF e
<1>2. e.data \in [Keys -> Entities] /\ e.ttl \in [Keys -> Deadlines]
  BY <1>1, NeverIs, EntityIs
<1>3. e \in DbType
  BY <1>1, <1>2 DEF DbType
<1>4. Sharing(e)
  BY <1>1 DEF Sharing
<1> QED
  BY <1>1, <1>3, <1>4 DEF Good, e

LEMMA FlushDone ==
    ASSUME NEW s, NEW c \in CmdType, NEW t
    PROVE  Done(s, ExecFlush(s, c, t), Keys, t)
<1> DEFINE lines == IF c.op = "flushall" THEN <<c>> ELSE <<>>
<1>1. lines \in Seq(CmdType)
  BY OneLine
<1> HIDE DEF lines
<1>2. Done(s, Ok(Empty, lines), Keys, t)
  BY <1>1, EmptyGood DEF Done, Ok
<1> QED
  BY <1>2 DEF ExecFlush, lines

\* A command keeps a database Good and changes nothing but its keys and what it reaches by
\* writing in place.
LEMMA ExecDone ==
    ASSUME NEW s, Good(s), NEW c \in CmdType, NEW t \in Times
    PROVE  Spread(s, Exec(s, c, t), c, t)
<1>1. CASE c.op \in Flushes
  <2>1. Exec(s, c, t) = ExecFlush(s, c, t)
    BY <1>1 DEF Exec, Flushes
  <2> QED
    BY <1>1, <2>1, FlushDone, DoneSpread DEF Touched
<1>2. CASE c.op \notin Flushes
  <2>0. Asked(s, c, t) /\ Touched(c) = KeysOf(c)
    BY <1>2 DEF Asked, Touched
  <2> DEFINE OK == Done(s, Exec(s, c, t), KeysOf(c), t)
             Out == Spread(s, Exec(s, c, t), c, t)
  <2>1. c.op = "get" => OK
    BY <2>0, ReadDone DEF Exec
  <2>2. c.op = "getex persist" => OK
    BY <2>0, GetEXDone DEF Exec
  <2>3. c.op \in {"set", "set nx", "set xx", "setnx"} => OK
    BY <2>0, SetDone DEF Exec, ZOps
  <2>4. c.op \in {"setex", "psetex"} => OK
    BY <2>0, SetEXDone DEF Exec
  <2>5. c.op \in {"mset", "msetnx"} => OK
    BY <2>0, MSetDone DEF Exec, ZOps
  <2>6. c.op \in {"getset", "getdel"} => OK
    BY <2>0, GetSetDone DEF Exec, ZOps
  <2>7. c.op \in {"incr", "incrbyfloat"} => OK
    BY <2>0, IncrDone DEF Exec
  <2>8. c.op \in {"append", "setrange", "setbit"} => Out
    BY <2>0, AppendDone, SetRangeDone DEF Exec
  <2>9. c.op = "del" => OK
    BY <2>0, DelDone DEF Exec
  <2>10. c.op \in {"expire", "pexpireat"} => OK
    BY <2>0, ExpireDone DEF Exec
  <2>11. c.op = "persist" => OK
    BY <2>0, PersistDone DEF Exec
  <2>12. c.op = "rename" => OK
    BY <2>0, RenameDone DEF Exec, Pairs
  <2>13. c.op = "renamenx" => OK
    BY <2>0, RenameNxDone DEF Exec, Pairs
  <2>14. c.op \in {"copy", "copy replace"} => OK
    BY <2>0, CopyDone DEF Exec, Pairs
  <2>15. c.op \in {"zadd", "zincrby"} => Out
    BY <2>0, ZAddDone DEF Exec
  <2>16. c.op \in {"zrem", "zpopmin", "zremrangebyscore"} => Out
    BY <2>0, ZRemDone DEF Exec
  <2>17. c.op = "incrfloat" => OK
    <3>1. c.op = "incrfloat" => Exec(s, c, t) = Err(s)
      BY DEF Exec
    <3> QED
      BY <3>1, NearSelf, DoneNothing
  <2>18. c.op \in Ops
    BY CmdIs DEF CmdParts
  <2>19. OK => Out
    BY <2>0, DoneSpread
  <2> HIDE DEF OK, Out
  <2> QED
    BY <1>2, <2>19, <2>1, <2>2, <2>3, <2>4, <2>5, <2>6, <2>7, <2>8, <2>9, <2>10, <2>11, <2>12,
       <2>13, <2>14, <2>15, <2>16, <2>17, <2>18 DEF Out, Ops, Flushes
<1> QED
  BY <1>1, <1>2

-------------------------------------------------------------------------------
(* Induction *)

\* A set of numbers with a member has a least one.
LEMMA LeastNumber ==
    ASSUME NEW T \in SUBSET Nat, T # {}
    PROVE  \E x \in T : \A y \in T : ~(y < x)
<1> DEFINE R == OpToRel(<, Nat)
<1>1. IsWellFoundedOn(R, Nat)
  BY NatLessThanWellFounded
<1>2. \E x \in T : \A y \in T : <<y, x>> \notin R
  BY <1>1, WFMin
<1>3. \A x, y \in Nat : y < x => <<y, x>> \in R
  BY DEF OpToRel
<1> QED
  BY <1>2, <1>3

\* A set with 0, and with the successor of each number in it, has every number.
LEMMA SetInduction ==
    ASSUME NEW S, 0 \in S, \A n \in Nat : n \in S => n + 1 \in S
    PROVE  \A n \in Nat : n \in S
<1> DEFINE T == Nat \ S
<1>1. SUFFICES ASSUME T # {} PROVE FALSE
  OBVIOUS
<1>2. PICK x \in T : \A y \in T : ~(y < x)
  BY <1>1, LeastNumber
<1>3. x - 1 \in Nat /\ x - 1 \notin T
  BY <1>2
<1> QED
  BY <1>2, <1>3

LEMMA SetInductionFrom1 ==
    ASSUME NEW S, 1 \in S, \A n \in Nat \ {0} : n \in S => n + 1 \in S
    PROVE  \A n \in Nat \ {0} : n \in S
<1> DEFINE T == {n \in Nat : n + 1 \in S}
<1>1. 0 \in T /\ \A n \in Nat : n \in T => n + 1 \in T
  OBVIOUS
<1> HIDE DEF T
<1>2. \A n \in Nat : n \in T
  BY <1>1, SetInduction
<1>3. \A n \in Nat \ {0} : n - 1 \in Nat /\ (n - 1) + 1 = n
  OBVIOUS
<1> QED
  BY <1>2, <1>3 DEF T

-------------------------------------------------------------------------------
(* FlattenSeq, whose definition is a recursive function *)

Flattened(ss, n, f) == f = [i \in 1 .. n |-> IF i = 1 THEN ss[i] ELSE f[i - 1] \o ss[i]]

LEMMA FlattenedExists ==
    ASSUME NEW ss, NEW m \in Nat
    PROVE  \E f : Flattened(ss, m, f)
<1> DEFINE T == {n \in Nat : \E f : Flattened(ss, n, f)}
<1>1. 0 \in T
  <2> DEFINE f == [i \in 1 .. 0 |-> ss[i]]
  <2>1. Flattened(ss, 0, f)
    BY DEF Flattened
  <2> QED
    BY <2>1
<1>2. ASSUME NEW n \in Nat, n \in T
      PROVE  n + 1 \in T
  <2>1. PICK f : Flattened(ss, n, f)
    BY <1>2
  <2> DEFINE g == [i \in 1 .. n + 1 |-> IF i <= n THEN f[i]
                                        ELSE IF i = 1 THEN ss[i] ELSE f[n] \o ss[i]]
  <2>2. Flattened(ss, n + 1, g)
    <3>1. ASSUME NEW i \in 1 .. n + 1
          PROVE  g[i] = IF i = 1 THEN ss[i] ELSE g[i - 1] \o ss[i]
      <4>1. CASE i = n + 1
        BY <4>1
      <4>2. CASE i <= n
        <5>1. f[i] = IF i = 1 THEN ss[i] ELSE f[i - 1] \o ss[i]
          <6>1. i \in 1 .. n
            BY <4>2
          <6>2. f = [x \in 1 .. n |-> IF x = 1 THEN ss[x] ELSE f[x - 1] \o ss[x]]
            BY <2>1 DEF Flattened
          <6> QED
            BY <6>1, <6>2
        <5>2. i # 1 => g[i - 1] = f[i - 1]
          BY <4>2
        <5> QED
          BY <4>2, <5>1, <5>2
      <4> QED
        BY <4>1, <4>2
    <3>2. g = [i \in 1 .. n + 1 |-> g[i]]
      OBVIOUS
    <3> HIDE DEF g
    <3> QED
      BY <3>1, <3>2 DEF Flattened
  <2> HIDE DEF g
  <2> QED
    BY <2>2
<1> HIDE DEF T
<1>3. m \in T
  BY <1>1, <1>2, SetInduction
<1> QED
  BY <1>3 DEF T

Flats(ss) == CHOOSE f : Flattened(ss, Len(ss), f)

LEMMA FlattenSteps ==
    ASSUME NEW ss, Len(ss) \in Nat \ {0}
    PROVE  /\ Flats(ss)[1] = ss[1]
           /\ FlattenSeq(ss) = Flats(ss)[Len(ss)]
           /\ \A n \in 1 .. Len(ss) - 1 : Flats(ss)[n + 1] = Flats(ss)[n] \o ss[n + 1]
<1>1. Flattened(ss, Len(ss), Flats(ss))
  BY FlattenedExists DEF Flats
<1>2. FlattenSeq(ss) = Flats(ss)[Len(ss)]
  BY DEF FlattenSeq, Flats, Flattened
<1>3. Flats(ss) = [i \in 1 .. Len(ss) |-> IF i = 1 THEN ss[i] ELSE Flats(ss)[i - 1] \o ss[i]]
  BY <1>1 DEF Flattened
<1>4. \A n \in 1 .. Len(ss) : Flats(ss)[n] = IF n = 1 THEN ss[n] ELSE Flats(ss)[n - 1] \o ss[n]
  BY <1>3
<1>5. \A n \in 1 .. Len(ss) - 1 : n + 1 \in 1 .. Len(ss) /\ n + 1 # 1 /\ (n + 1) - 1 = n
  OBVIOUS
<1>6. 1 \in 1 .. Len(ss)
  OBVIOUS
<1> QED
  BY <1>2, <1>4, <1>5, <1>6

LEMMA FlattenNothing ==
    ASSUME NEW ss, Len(ss) = 0
    PROVE  FlattenSeq(ss) = ss
BY DEF FlattenSeq

LEMMA FlatsType ==
    ASSUME NEW S, NEW ss \in Seq(Seq(S)), ss # <<>>
    PROVE  /\ \A n \in 1 .. Len(ss) : Flats(ss)[n] \in Seq(S)
           /\ FlattenSeq(ss) \in Seq(S)
<1> DEFINE T == {n \in Nat : n <= Len(ss) => Flats(ss)[n] \in Seq(S)}
<1>1. Len(ss) \in Nat \ {0} /\ \A n \in 1 .. Len(ss) : ss[n] \in Seq(S)
  OBVIOUS
<1>2. 1 \in T
  <2>1. Flats(ss)[1] = ss[1]
    BY <1>1, FlattenSteps
  <2> QED
    BY <1>1, <2>1
<1>3. ASSUME NEW n \in Nat \ {0}, n \in T
      PROVE  n + 1 \in T
  <2> SUFFICES ASSUME n + 1 <= Len(ss)
               PROVE  Flats(ss)[n + 1] \in Seq(S)
    OBVIOUS
  <2>1. Flats(ss)[n] \in Seq(S) /\ ss[n + 1] \in Seq(S) /\ n \in 1 .. Len(ss) - 1
    BY <1>1, <1>3
  <2>2. Flats(ss)[n + 1] = Flats(ss)[n] \o ss[n + 1]
    BY <1>1, <2>1, FlattenSteps
  <2> QED
    BY <2>1, <2>2, ConcatProperties
<1> HIDE DEF T
<1>4. \A n \in Nat \ {0} : n \in T
  BY <1>2, <1>3, SetInductionFrom1
<1>5. \A n \in 1 .. Len(ss) : Flats(ss)[n] \in Seq(S)
  BY <1>1, <1>4 DEF T
<1>6. FlattenSeq(ss) \in Seq(S)
  <2>1. FlattenSeq(ss) = Flats(ss)[Len(ss)]
    BY <1>1, FlattenSteps
  <2>2. Len(ss) \in 1 .. Len(ss)
    BY <1>1
  <2> QED
    BY <1>5, <2>1, <2>2
<1> QED
  BY <1>5, <1>6

LEMMA FlattenType ==
    ASSUME NEW S, NEW ss \in Seq(Seq(S))
    PROVE  FlattenSeq(ss) \in Seq(S)
<1>1. CASE ss = <<>>
  <2>1. Len(ss) = 0 /\ ss \in Seq(S)
    BY <1>1
  <2> QED
    BY <2>1, FlattenNothing
<1>2. CASE ss # <<>>
  BY <1>2, FlatsType
<1> QED
  BY <1>1, <1>2

\* SetToSeq numbers the members of a finite set.
LEMMA SetToSeqIs ==
    ASSUME NEW S, IsFiniteSet(S)
    PROVE  /\ SetToSeq(S) \in [1 .. Cardinality(S) -> S]
           /\ Cardinality(S) \in Nat
           /\ \A i, j \in 1 .. Cardinality(S) : SetToSeq(S)[i] = SetToSeq(S)[j] => i = j
           /\ \A x \in S : \E i \in 1 .. Cardinality(S) : SetToSeq(S)[i] = x
<1> DEFINE n == Cardinality(S)
<1>1. n \in Nat /\ ExistsBijection(1 .. n, S)
  BY FS_CardinalityType
<1>2. \E f \in [1 .. n -> S] : IsInjective(f)
  BY <1>1 DEF ExistsBijection, Bijection, Injection
<1>3. SetToSeq(S) \in [1 .. n -> S] /\ IsInjective(SetToSeq(S))
  BY <1>2 DEF SetToSeq
<1> DEFINE f == SetToSeq(S)
<1>4. f \in Injection(1 .. n, S)
  BY <1>3 DEF Injection
<1>5. Cardinality(1 .. n) = n
  BY <1>1, FS_Interval
<1> HIDE DEF f
<1>6. f \in Surjection(1 .. n, S)
  BY <1>4, <1>5, FS_Injection
<1>7. \A i, j \in 1 .. n : f[i] = f[j] => i = j
  BY <1>3 DEF IsInjective, f
<1>8. \A x \in S : \E i \in 1 .. n : f[i] = x
  BY <1>6 DEF Surjection
<1> QED
  BY <1>1, <1>3, <1>7, <1>8 DEF f

-------------------------------------------------------------------------------
(* LoadAof and DoRewrite *)

\* The replay of n lines of a file.
Replayed(s, f, n, t, run) ==
    run = [i \in 0 .. n |-> IF i = 0 THEN s ELSE Exec(run[i - 1], f[i], t).db]

\* The recursion of RunLines defines a function.
LEMMA ReplayExists ==
    ASSUME NEW s, NEW f, NEW t, NEW m \in Nat
    PROVE  \E run : Replayed(s, f, m, t, run)
<1> DEFINE T == {n \in Nat : \E run : Replayed(s, f, n, t, run)}
<1>1. 0 \in T
  <2> DEFINE run == [i \in 0 .. 0 |-> s]
  <2>1. Replayed(s, f, 0, t, run)
    BY DEF Replayed
  <2> QED
    BY <2>1
<1>2. ASSUME NEW n \in Nat, n \in T
      PROVE  n + 1 \in T
  <2>1. PICK run : Replayed(s, f, n, t, run)
    BY <1>2
  <2> DEFINE r == [i \in 0 .. n + 1 |-> IF i <= n THEN run[i] ELSE Exec(run[n], f[n + 1], t).db]
  <2>2. Replayed(s, f, n + 1, t, r)
    <3>1. ASSUME NEW i \in 0 .. n + 1
          PROVE  r[i] = IF i = 0 THEN s ELSE Exec(r[i - 1], f[i], t).db
      <4>1. CASE i = n + 1
        BY <4>1
      <4>2. CASE i <= n
        <5>1. run[i] = IF i = 0 THEN s ELSE Exec(run[i - 1], f[i], t).db
          BY <2>1, <4>2 DEF Replayed
        <5>2. i # 0 => r[i - 1] = run[i - 1]
          BY <4>2
        <5> QED
          BY <4>2, <5>1, <5>2
      <4> QED
        BY <4>1, <4>2
    <3>2. r = [i \in 0 .. n + 1 |-> r[i]]
      OBVIOUS
    <3> HIDE DEF r
    <3> QED
      BY <3>1, <3>2 DEF Replayed
  <2> HIDE DEF r
  <2> QED
    BY <2>2
<1> HIDE DEF T
<1>3. m \in T
  BY <1>1, <1>2, SetInduction
<1> QED
  BY <1>3 DEF T

\* What RunLines takes from the replay of a file.
Steps(s, f, t) == CHOOSE run : Replayed(s, f, Len(f), t, run)

\* The replay, step by step.
LEMMA StepOf ==
    ASSUME NEW s, NEW f, NEW t, Len(f) \in Nat
    PROVE  /\ Steps(s, f, t)[0] = s
           /\ \A n \in 1 .. Len(f) :
                  Steps(s, f, t)[n] = Exec(Steps(s, f, t)[n - 1], f[n], t).db
           /\ RunLines(s, f, t) = Steps(s, f, t)[Len(f)]
<1>1. Replayed(s, f, Len(f), t, Steps(s, f, t))
  BY ReplayExists DEF Steps
<1>2. RunLines(s, f, t) = Steps(s, f, t)[Len(f)]
  BY DEF RunLines, Steps, Replayed
<1>3. Steps(s, f, t) = [i \in 0 .. Len(f) |-> IF i = 0 THEN s
                                              ELSE Exec(Steps(s, f, t)[i - 1], f[i], t).db]
  BY <1>1 DEF Replayed
<1> QED
  BY <1>2, <1>3

LEMMA RunNothing == ASSUME NEW s, NEW t PROVE RunLines(s, <<>>, t) = s
<1>1. Len(<<>>) = 0
  OBVIOUS
<1> QED
  BY <1>1, StepOf

LEMMA RunOne == ASSUME NEW s, NEW l, NEW t PROVE RunLines(s, <<l>>, t) = Exec(s, l, t).db
<1> DEFINE f == <<l>>
<1>1. Len(f) = 1 /\ f[1] = l
  OBVIOUS
<1> HIDE DEF f
<1>2. RunLines(s, f, t) = Steps(s, f, t)[1] /\ Steps(s, f, t)[0] = s
      /\ Steps(s, f, t)[1] = Exec(Steps(s, f, t)[0], f[1], t).db
  BY <1>1, StepOf
<1> QED
  BY <1>1, <1>2 DEF f

\* The lines of a file are commands: they keep a database Good.
LEMMA RunGood ==
    ASSUME NEW s, Good(s), NEW f \in Seq(CmdType), NEW t \in Times
    PROVE  Good(RunLines(s, f, t))
<1> DEFINE run == Steps(s, f, t)
           T == {n \in Nat : n <= Len(f) => Good(run[n])}
<1>1. /\ run[0] = s /\ RunLines(s, f, t) = run[Len(f)]
      /\ \A n \in 1 .. Len(f) : run[n] = Exec(run[n - 1], f[n], t).db
  BY StepOf
<1> HIDE DEF run
<1>2. 0 \in T
  BY <1>1
<1>3. ASSUME NEW n \in Nat, n \in T
      PROVE  n + 1 \in T
  <2> SUFFICES ASSUME n + 1 <= Len(f)
               PROVE  Good(run[n + 1])
    OBVIOUS
  <2>1. Good(run[n]) /\ f[n + 1] \in CmdType
    BY <1>3
  <2>2. run[n + 1] = Exec(run[n], f[n + 1], t).db
    BY <1>1
  <2>3. Spread(run[n], Exec(run[n], f[n + 1], t), f[n + 1], t)
    BY <2>1, ExecDone
  <2> QED
    BY <2>2, <2>3 DEF Spread
<1> HIDE DEF T
<1>4. \A n \in Nat : n \in T
  BY <1>2, <1>3, SetInduction
<1>5. Good(run[Len(f)])
  BY <1>4 DEF T
<1> QED
  BY <1>1, <1>5

LEMMA ReplayGood ==
    ASSUME NEW f \in Seq(CmdType), NEW t \in Times
    PROVE  Good(Replay(f, t))
BY RunGood, EmptyGood DEF Replay

\* The lines of a rewrite.
LEMMA EntityLines ==
    ASSUME NEW s, Good(s), NEW k \in Keys
    PROVE  EntityToCmd(s, k) \in Seq(CmdType)
<1> DEFINE x == s.data[k]
           z == x.zset
           members == SetToSeq(DOMAIN z)
<1>1. x \in Entities
  BY DbParts
<1> HIDE DEF x
<1>2. CASE x = Nil
  BY <1>2 DEF EntityToCmd, x
<1>3. CASE x # Nil /\ IsStr(x)
  <2>1. x.str \in Values
    BY <1>1, <1>3, EntityIs
  <2>2. Line("set", k, x.str, 0) \in CmdType
    BY <2>1, LinesAre DEF LineOf
  <2> QED
    BY <1>3, <2>2, OneLine DEF EntityToCmd, x
<1>4. CASE x # Nil /\ ~IsStr(x)
  <2> DEFINE n == Cardinality(DOMAIN z)
             ls == [i \in 1 .. n |-> Line("zadd", k, members[i], z[members[i]])]
  <2>1. DOMAIN z \in SUBSET Members /\ z \in [DOMAIN z -> Nat]
    BY <1>1, <1>4, EntityIs
  <2>2. IsFiniteSet(DOMAIN z)
    BY <2>1, SetsAssumption, FS_Subset
  <2>3. members \in [1 .. n -> DOMAIN z] /\ n \in Nat
    BY <2>2, SetToSeqIs
  <2>4. DOMAIN members = 1 .. n
    BY <2>3
  <2>5. EntityToCmd(s, k) = ls
    BY <1>4, <2>4 DEF EntityToCmd, x
  <2> HIDE DEF members, z, n
  <2>6. ASSUME NEW i \in 1 .. n
        PROVE  Line("zadd", k, members[i], z[members[i]]) \in CmdType
    <3>1. members[i] \in Members /\ z[members[i]] \in Nat
      BY <2>1, <2>3
    <3> QED
      BY <3>1, LinesAre DEF LineOf
  <2>7. ls \in Seq(CmdType)
    BY <2>3, <2>6
  <2> QED
    BY <2>5, <2>7
<1> QED
  BY <1>2, <1>3, <1>4

\* The lines of one key.
TtlLine(d, k) == IF d.data[k] = Nil \/ d.ttl[k] = Never THEN <<>>
              ELSE <<Line("pexpireat", k, <<>>, d.ttl[k])>>
Piece(d, k) == EntityToCmd(d, k) \o TtlLine(d, k)

LEMMA PieceIs ==
    ASSUME NEW d, Good(d), NEW k \in Keys
    PROVE  /\ TtlLine(d, k) \in Seq(CmdType) /\ EntityToCmd(d, k) \in Seq(CmdType)
           /\ Piece(d, k) \in Seq(CmdType)
<1>1. CASE d.data[k] = Nil \/ d.ttl[k] = Never
  BY <1>1, EntityLines, ConcatProperties DEF TtlLine, Piece
<1>2. CASE ~(d.data[k] = Nil \/ d.ttl[k] = Never)
  <2> DEFINE at == d.ttl[k]
  <2>1. at \in Nat /\ at < Never
    BY <1>2, DbParts, NeverIs DEF Deadlines
  <2> HIDE DEF at
  <2>2. Line("pexpireat", k, <<>>, at) \in CmdType
    BY <2>1, LinesAre DEF LineOf
  <2>3. <<Line("pexpireat", k, <<>>, at)>> \in Seq(CmdType)
    BY <2>2, OneLine
  <2>4. TtlLine(d, k) \in Seq(CmdType)
    BY <1>2, <2>3 DEF at, TtlLine
  <2> QED
    BY <2>4, EntityLines, ConcatProperties DEF Piece
<1> QED
  BY <1>1, <1>2

LEMMA DumpIs ==
    ASSUME NEW s, Good(s)
    PROVE  Dump(s) \in Seq(CmdType)
<1> DEFINE n == Cardinality(Keys)
           ss == [i \in 1 .. n |-> Piece(s, SetToSeq(Keys)[i])]
<1>1. SetToSeq(Keys) \in [1 .. n -> Keys] /\ n \in Nat
  BY SetsAssumption, SetToSeqIs
<1>2. Dump(s) = FlattenSeq(ss)
  BY DEF Dump, Piece, TtlLine
<1>3. \A i \in 1 .. n : Piece(s, SetToSeq(Keys)[i]) \in Seq(CmdType)
  BY <1>1, PieceIs
<1> HIDE DEF n
<1>4. ss \in Seq(Seq(CmdType))
  BY <1>1, <1>3
<1> QED
  BY <1>2, <1>4, FlattenType

-------------------------------------------------------------------------------
(* The invariant *)

Moments == {Broken} \cup Deadlines

IInv ==
    /\ Good(db)
    /\ file \in Seq(CmdType)
    /\ now \in Times
    /\ sure \in [Keys -> Moments]
    /\ lapsed \in SUBSET Keys

LEMMA LateIs == ASSUME NEW s, NEW t PROVE Late(s, t) \in SUBSET Keys
BY DEF Late

\* The earliest of some moments is one of them.
LEMMA MinIs ==
    ASSUME NEW T \in SUBSET Moments, T # {}
    PROVE  Min(T) \in Moments /\ \A y \in T : Min(T) <= y
<1>1. T \subseteq Int /\ \A x \in T : x = Broken \/ x \in Nat
  BY NeverIs DEF Moments, Deadlines, Broken
<1>2. \E x \in T : \A y \in T : x <= y
  <2>1. CASE Broken \in T
    BY <1>1, <2>1 DEF Broken
  <2>2. CASE Broken \notin T
    <3>1. T \in SUBSET Nat
      BY <1>1, <2>2
    <3>2. PICK x \in T : \A y \in T : ~(y < x)
      BY <3>1, LeastNumber
    <3>3. \A y \in T : x <= y
      BY <3>1, <3>2
    <3> QED
      BY <3>3
  <2> QED
    BY <2>1, <2>2
<1>3. Min(T) \in T /\ \A y \in T : Min(T) <= y
  BY <1>2 DEF Min
<1> QED
  BY <1>3

LEMMA SureIs ==
    ASSUME IInv, NEW c \in CmdType, NEW lines
    PROVE  SureAfter(c, lines) \in [Keys -> Moments]
<1> DEFINE touched == Named(c) \cup UNION {Aliases(db, k) : k \in Named(c)}
           looked == Look(db, touched, now)
           times == UNION {{sure[k], looked.ttl[k]} : k \in touched}
           earliest == Min(times)
           sooner == [k \in Keys |-> IF k \in touched THEN earliest ELSE sure[k]]
           broken == [k \in Keys |-> IF k \in touched THEN Broken ELSE sure[k]]
           reset == [k \in Keys |-> IF k \in Reset(c) THEN Never ELSE sure[k]]
           counted == [sure EXCEPT ![Key(c)] = now]
<1>1. sure \in [Keys -> Moments] /\ Never \in Moments /\ Broken \in Moments /\ now \in Moments
  BY ClockAssumption, NeverIs DEF IInv, Moments, Times, Deadlines
<1>2. touched \in SUBSET Keys
  <2>1. Named(c) \in SUBSET Keys
    BY KeysAre DEF Named
  <2>2. \A k \in Named(c) : Aliases(db, k) \subseteq Keys
    BY DEF Aliases
  <2> QED
    BY <2>1, <2>2
<1> HIDE DEF touched
<1>3. Good(looked)
  BY <1>2, LookIs DEF IInv, LookedAt, Near
<1> HIDE DEF looked
<1>4. \A k \in touched : sure[k] \in Moments /\ looked.ttl[k] \in Moments
  BY <1>1, <1>2, <1>3, DbParts DEF Moments
<1>5. ASSUME NEW k \in touched PROVE earliest \in Moments
  <2>1. times \in SUBSET Moments /\ sure[k] \in times
    BY <1>4
  <2> HIDE DEF times
  <2> QED
    BY <2>1, MinIs
<1> HIDE DEF earliest
<1>6. /\ sooner \in [Keys -> Moments] /\ broken \in [Keys -> Moments]
      /\ reset \in [Keys -> Moments] /\ counted \in [Keys -> Moments]
  BY <1>1, <1>5
<1> HIDE DEF sooner, broken, reset, counted
<1>7. SureAfter(c, lines) \in {sure, sooner, broken, reset, counted}
  <2>1. SureAfter(c, lines) =
            IF lines = <<>> /\ c.op \notin Gaps THEN sure
            ELSE IF Reset(c) # {} THEN reset
            ELSE IF c.op = "setex" THEN counted
            ELSE IF \/ c.op \in Gaps \/ SeesExpired(c) \cap lapsed # {}
                    \/ Spills(Look(db, KeysOf(c), now), c)
                 THEN broken
            ELSE sooner
    BY DEF SureAfter, sooner, broken, reset, counted, earliest, times, looked, touched
  <2> QED
    BY ONLY <2>1
<1> QED
  BY <1>1, <1>6, <1>7

LEMMA InitInv == Init => IInv
<1> SUFFICES ASSUME Init PROVE IInv
  OBVIOUS
<1>1. file \in Seq(CmdType) /\ now \in Times /\ 0 \in Times
  BY FileAssumption, ClockAssumption DEF Init, Times
<1>2. Good(db)
  BY <1>1, ReplayGood DEF Init
<1>3. sure \in [Keys -> Moments] /\ lapsed \in SUBSET Keys
  BY NeverIs DEF Init, Moments
<1> QED
  BY <1>1, <1>2, <1>3 DEF IInv

LEMMA DoStep ==
    ASSUME IInv, NEW c \in Cmds, Do(c)
    PROVE  IInv'
<1> DEFINE r == Exec(db, c, now)
<1>1. c \in CmdType
  BY CmdAssumption
<1>2. Spread(db, r, c, now)
  BY <1>1, ExecDone DEF IInv
<1>3. /\ db' = r.db /\ file' = file \o r.lines /\ sure' = SureAfter(c, r.lines)
      /\ lapsed' = (lapsed \ Reset(c)) \cup Late(r.db, now) /\ now' = now
  BY DEF Do
<1> HIDE DEF r
<1>4. Good(db')
  BY <1>2, <1>3 DEF Spread
<1>5. file' \in Seq(CmdType)
  BY <1>2, <1>3, ConcatProperties DEF Spread, IInv
<1>6. sure' \in [Keys -> Moments]
  BY <1>1, <1>3, SureIs
<1>7. lapsed' \in SUBSET Keys
  BY <1>3, LateIs DEF IInv
<1> QED
  BY <1>3, <1>4, <1>5, <1>6, <1>7 DEF IInv

LEMMA TickStep ==
    ASSUME IInv, Tick
    PROVE  IInv'
<1>1. now' \in Times
  BY ClockAssumption DEF IInv, Tick, Times
<1>2. lapsed' \in SUBSET Keys
  BY LateIs DEF IInv, Tick
<1> QED
  BY <1>1, <1>2 DEF IInv, Tick

\* A database without one of its jobs.
LEMMA JobDone ==
    ASSUME NEW s, Good(s), NEW k
    PROVE  Good([s EXCEPT !.jobs = @ \ {k}])
<1> DEFINE jj == s.jobs \ {k}
           e == [data |-> s.data, ttl |-> s.ttl, jobs |-> jj, shares |-> s.shares,
                 cap |-> s.cap]
<1>1. [s EXCEPT !.jobs = @ \ {k}] = e
  <2>1. [s EXCEPT !.jobs = @ \ {k}] = [s EXCEPT !.jobs = jj]
    OBVIOUS
  <2> HIDE DEF jj
  <2> QED
    BY <2>1 DEF Good, DbType
<1>2. e \in DbType /\ \A j \in e.jobs : e.ttl[j] # Never
  BY DbParts DEF DbType
<1>3. Sharing(e)
  <2>1. e.data = s.data /\ e.shares = s.shares
    OBVIOUS
  <2> HIDE DEF e
  <2> QED
    BY <2>1, SharingOf DEF Good
<1>4. Good(e)
  BY <1>2, <1>3 DEF Good
<1> QED
  BY <1>1, <1>4

LEMMA ExpireJobStep ==
    ASSUME IInv, NEW k \in Keys, ExpireJob(k)
    PROVE  IInv'
<1>1. Good(RemoveKey(db, k))
  <2>1. {k} \in SUBSET Keys
    OBVIOUS
  <2> QED
    BY <2>1, RemovesIs DEF RemoveKey, RemovedFrom, IInv
<1>2. Good([db EXCEPT !.jobs = @ \ {k}])
  BY JobDone DEF IInv
<1>3. Good(db')
  BY <1>1, <1>2 DEF ExpireJob
<1> QED
  BY <1>3 DEF IInv, ExpireJob

LEMMA RewriteStep ==
    ASSUME IInv, Rewrite
    PROVE  IInv'
<1>1. file' \in Seq(CmdType)
  <2>1. Good(Replay(file, now))
    BY ReplayGood DEF IInv
  <2> QED
    BY <2>1, DumpIs DEF Rewrite
<1>2. sure' \in [Keys -> Moments]
  BY DEF IInv, Rewrite, Moments
<1> QED
  BY <1>1, <1>2 DEF IInv, Rewrite

LEMMA RestartStep ==
    ASSUME IInv, Restart
    PROVE  IInv'
<1>1. Good(db')
  BY ReplayGood DEF IInv, Restart
<1>2. lapsed' \in SUBSET Keys
  BY LateIs DEF IInv, Restart
<1> QED
  BY <1>1, <1>2 DEF IInv, Restart

LEMMA NextInv == IInv /\ [Next]_vars => IInv'
<1>1. ASSUME IInv, Next PROVE IInv'
  BY <1>1, DoStep, TickStep, ExpireJobStep, RewriteStep, RestartStep DEF Next
<1>2. ASSUME IInv, UNCHANGED vars PROVE IInv'
  BY <1>2 DEF IInv, vars
<1> QED
  BY <1>1, <1>2

LEMMA Invariant == Spec => []IInv
BY InitInv, NextInv, PTL DEF Spec

LEMMA InvType == IInv => TypeOK
<1> SUFFICES ASSUME IInv PROVE TypeOK
  OBVIOUS
<1>1. ASSUME NEW k \in Keys
      PROVE  /\ \/ db.data[k] \in {Nil} \cup Strings
                \/ IsZSet(db.data[k]) /\ DOMAIN db.data[k].zset \subseteq Members
             /\ db.ttl[k] \in 0 .. Never
  <2> DEFINE x == db.data[k]
  <2>1. x \in Entities /\ db.ttl[k] \in 0 .. Never
    BY DbParts DEF IInv, Deadlines
  <2> HIDE DEF x
  <2>2. x \in {Nil} \cup Strings \/ x \in ZSets
    BY <2>1 DEF Entities
  <2>3. x \in ZSets /\ x # Nil => IsZSet(x)
    BY DEF ZSets, ZSet, IsZSet
  <2>4. IsZSet(x) => DOMAIN x.zset \subseteq Members
    BY <2>1, EntityIs
  <2> QED
    BY <2>1, <2>2, <2>3, <2>4 DEF x
<1>2. \A k \in db.jobs : db.ttl[k] # Never
  BY DbParts DEF IInv
<1>3. \A p \in db.shares : \A j, k \in p : OneObject(db.data[j], db.data[k])
  BY DEF IInv, Good, Sharing
<1> QED
  BY <1>1, <1>2, <1>3 DEF TypeOK, IInv, Times, Moments, Deadlines

\* Keys hold strings or sorted sets of members, jobs are for keys with a deadline, and keys
\* that share one have the same sorted set, or strings that are the same up to the shorter
\* one's end - after any commands, replays and rewrites.
THEOREM TypeCorrect == Spec => []TypeOK
BY Invariant, InvType, PTL

-------------------------------------------------------------------------------
(* Locks *)

LEMMA Covered ==
    ASSUME NEW s, Good(s), NEW c \in CmdType, c.op \notin Unlocked, NEW t \in Times, NEW k \in Keys
    PROVE  \/ SameKey(s, Exec(s, c, t).db, k, t)
           \/ k \in WriteKeys(c)
           \/ c.op \in {"rename", "renamenx"} /\ k = Key(c)
           \/ \E j \in WriteKeys(c) : Reaches(s, Exec(s, c, t).db, c, j, k, t)
<1>1. Asked(s, c, t)
  BY DEF Asked, Unlocked, Flushes
<1>2. CASE c.op \in {"rename", "renamenx"}
  <2>1. WriteKeys(c) = {c.keys[2]} /\ KeysOf(c) = {Key(c), c.keys[2]} /\ c.op \in Pairs
    BY <1>2, KeysAre DEF WriteKeys, Unlocked, Pairs
  <2>2. \A j \in Keys \ KeysOf(c) : SameKey(s, Exec(s, c, t).db, j, t)
    <3>1. c.op = "rename" => Exec(s, c, t) = ExecRename(s, c, t)
      BY DEF Exec
    <3>2. c.op = "renamenx" => Exec(s, c, t) = ExecRenameNx(s, c, t)
      BY DEF Exec
    <3> QED
      BY <1>1, <1>2, <2>1, <3>1, <3>2, RenameDone, RenameNxDone
  <2> QED
    BY <1>2, <2>1, <2>2
<1>3. CASE c.op \notin {"rename", "renamenx"}
  <2>1. WriteKeys(c) = KeysOf(c) /\ Touched(c) = KeysOf(c)
    BY <1>3 DEF WriteKeys, Touched, Unlocked, Flushes
  <2>2. Spread(s, Exec(s, c, t), c, t)
    BY ExecDone
  <2> QED
    BY <2>1, <2>2 DEF Spread
<1> QED
  BY <1>2, <1>3

LEMMA InvLocks == IInv => LocksCover
<1> SUFFICES ASSUME IInv, NEW c \in {d \in Cmds : d.op \notin Unlocked}, NEW k \in Keys
             PROVE  \/ SameKey(db, Exec(db, c, now).db, k, now)
                    \/ k \in WriteKeys(c)
                    \/ c.op \in {"rename", "renamenx"} /\ k = Key(c)
                    \/ \E j \in WriteKeys(c) : Reaches(db, Exec(db, c, now).db, c, j, k, now)
  BY DEF LocksCover
<1>1. c \in CmdType /\ c.op \notin Unlocked
  BY CmdAssumption
<1> QED
  BY <1>1, Covered DEF IInv

\* A command changes what its prepare function has locked for writing, and nothing else but
\* the source of a RENAME and, if it writes in place, keys that COPY made share the sorted set
\* or the array of a locked one; these stay, and keep their deadline, and APPEND changes only
\* those that are longer.
THEOREM ChangesAreLocked == Spec => []LocksCover
BY Invariant, InvLocks, PTL

-------------------------------------------------------------------------------
(* Undo logs *)

\* A removal leaves no array.
LEMMA RemovesCap ==
    ASSUME NEW s, Good(s), NEW ks \in SUBSET Keys
    PROVE  Removes(s, ks).cap = [k \in Keys |-> IF k \in ks THEN Room(Nil) ELSE s.cap[k]]
<1> DEFINE cp == [k \in Keys |-> IF k \in ks THEN Room(Nil) ELSE s.cap[k]]
           d == PutEntities(s, ks, Nil)
<1>1. d.cap = cp
  <2> DEFINE dd == [k \in Keys |-> IF k \in ks THEN Nil ELSE s.data[k]]
             sh == {p \in s.shares : p \cap ks = {}}
  <2>1. d = [s EXCEPT !.data = dd, !.shares = sh, !.cap = cp]
    BY DEF PutEntities
  <2> HIDE DEF dd, sh, cp, d
  <2> QED
    BY <2>1 DEF Good, DbType
<1>2. Removes(s, ks).cap = d.cap
  <2>1. Nil \in Entities
    BY DEF Entities
  <2>2. PutInto(s, ks, Nil, d)
    BY <2>1, PutIs
  <2> DEFINE tt == [k \in Keys |-> IF k \in ks THEN Never ELSE s.ttl[k]]
  <2>3. Removes(s, ks) = [d EXCEPT !.ttl = tt, !.jobs = @ \ ks]
    BY DEF Removes
  <2> HIDE DEF d, tt
  <2> QED
    BY <2>2, <2>3 DEF PutInto, Good, DbType
<1> QED
  BY <1>1, <1>2

\* Nothing happens to keys that are not past their deadline.
LEMMA LookFresh ==
    ASSUME NEW s, Good(s), NEW ks \in SUBSET Keys, NEW t, \A k \in ks : ~Expired(s, k, t)
    PROVE  Look(s, ks, t) = s
<1> DEFINE e == Removes(s, {})
<1>1. Look(s, ks, t) = e
  <2>1. {k \in ks : Expired(s, k, t)} = {}
    OBVIOUS
  <2> QED
    BY <2>1 DEF Look
<1>2. RemovedFrom(s, {}, e) /\ e.cap = s.cap
  <2>1. [k \in Keys |-> IF k \in {} THEN Room(Nil) ELSE s.cap[k]] = s.cap
    BY DbParts
  <2> QED
    BY <2>1, RemovesIs, RemovesCap
<1> HIDE DEF e
<1>3. Apart(s.shares, {}) = s.shares
  BY DEF Apart
<1>4. e.jobs = s.jobs /\ e.shares = s.shares
  BY <1>2, <1>3 DEF RemovedFrom
<1>5. e.data = s.data /\ e.ttl = s.ttl
  <2>1. \A k \in Keys : e.data[k] = s.data[k] /\ e.ttl[k] = s.ttl[k]
    BY <1>2 DEF RemovedFrom
  <2>2. /\ s.data \in [Keys -> Entities] /\ s.ttl \in [Keys -> Deadlines]
        /\ e.data \in [Keys -> Entities] /\ e.ttl \in [Keys -> Deadlines]
    BY <1>2, DbParts DEF RemovedFrom
  <2> QED
    BY <2>1, <2>2
<1>6. e = [data |-> e.data, ttl |-> e.ttl, jobs |-> e.jobs, shares |-> e.shares, cap |-> e.cap]
  BY <1>2, DbParts DEF RemovedFrom
<1>7. s = [data |-> s.data, ttl |-> s.ttl, jobs |-> s.jobs, shares |-> s.shares, cap |-> s.cap]
  BY DbParts
<1> QED
  BY <1>1, <1>2, <1>4, <1>5, <1>6, <1>7

\* The line that deletes a key.
DelLine(k) == Line("del", k, <<>>, 0)

LEMMA DelIs ==
    ASSUME NEW s, Good(s), NEW t \in Times, NEW k \in Keys, NEW r, r = Exec(s, DelLine(k), t).db
    PROVE  /\ Good(r) /\ Visible(r, k, t) = Nil
           /\ \A j \in Keys : j # k => SameKey(s, r, j, t)
           /\ \A j \in Keys : Visible(s, j, t) = Nil => Visible(r, j, t) = Nil
<1> DEFINE l == DelLine(k)
           e == Look(s, {k}, t)
           found == {j \in {k} : e.data[j] # Nil}
<1>1. l \in CmdType /\ l.op = "del" /\ KeysOf(l) = {k}
  BY LinesAre DEF LineOf, DelLine
<1>2. r = Removes(e, found)
  <2>1. Exec(s, l, t) = ExecDel(s, l, t)
    BY <1>1 DEF Exec
  <2> QED
    BY <1>1, <2>1 DEF ExecDel, Ok
<1>3. Near(s, e, t) /\ Good(e)
  <2>1. {k} \in SUBSET Keys
    OBVIOUS
  <2> QED
    BY <2>1, LookIs DEF LookedAt, Near
<1>4. found \in SUBSET Keys /\ \A j \in Keys : j \in found <=> j = k /\ e.data[k] # Nil
  OBVIOUS
<1> HIDE DEF e, found
<1>5. RemovedFrom(e, found, r)
  BY <1>2, <1>3, <1>4, RemovesIs
<1>6. Visible(r, k, t) = Nil
  BY <1>4, <1>5 DEF RemovedFrom, Visible
<1>7. ASSUME NEW j \in Keys, j # k
      PROVE  SameKey(s, r, j, t)
  <2>1. r.data[j] = e.data[j] /\ r.ttl[j] = e.ttl[j]
    BY <1>4, <1>5, <1>7 DEF RemovedFrom
  <2>2. SameKey(s, e, j, t)
    BY <1>3 DEF Near
  <2>3. SameKey(e, r, j, t)
    BY <2>1, SameOf
  <2> QED
    BY <2>2, <2>3, SameTwice
<1>8. \A j \in Keys : Visible(s, j, t) = Nil => Visible(r, j, t) = Nil
  BY <1>6, <1>7 DEF SameKey
<1> QED
  BY <1>5, <1>6, <1>7, <1>8 DEF RemovedFrom

DelLines == {DelLine(k) : k \in Keys}

\* Several of them: a key that was not there, or that one of them names, is not there.
LEMMA DelsAre ==
    ASSUME NEW s, Good(s), NEW t \in Times, NEW f \in Seq(DelLines), NEW k \in Keys,
           Visible(s, k, t) = Nil \/ \E i \in 1 .. Len(f) : f[i] = DelLine(k)
    PROVE  Visible(RunLines(s, f, t), k, t) = Nil
<1> DEFINE run == Steps(s, f, t)
           gone(n) == Visible(run[n], k, t) = Nil
           T == {n \in Nat : n <= Len(f) =>
                   /\ Good(run[n])
                   /\ Visible(s, k, t) = Nil \/ (\E i \in 1 .. n : f[i] = DelLine(k)) => gone(n)}
<1>1. /\ run[0] = s /\ RunLines(s, f, t) = run[Len(f)]
      /\ \A n \in 1 .. Len(f) : run[n] = Exec(run[n - 1], f[n], t).db
  BY StepOf
<1> HIDE DEF run
<1>2. 0 \in T
  BY <1>1
<1>3. ASSUME NEW n \in Nat, n \in T
      PROVE  n + 1 \in T
  <2> SUFFICES ASSUME n + 1 <= Len(f)
               PROVE  /\ Good(run[n + 1])
                      /\ Visible(s, k, t) = Nil \/ (\E i \in 1 .. n + 1 : f[i] = DelLine(k))
                            => gone(n + 1)
    OBVIOUS
  <2>1. Good(run[n]) /\ (Visible(s, k, t) = Nil \/ (\E i \in 1 .. n : f[i] = DelLine(k)) => gone(n))
    BY <1>3
  <2>2. PICK j \in Keys : f[n + 1] = DelLine(j)
    BY DEF DelLines
  <2>3. run[n + 1] = Exec(run[n], DelLine(j), t).db
    BY <1>1, <2>2
  <2>4. Good(run[n + 1]) /\ Visible(run[n + 1], j, t) = Nil /\ (gone(n) => gone(n + 1))
    BY <2>1, <2>3, DelIs
  <2>5. f[n + 1] = DelLine(k) => j = k
    <3>1. Key(DelLine(j)) = j /\ Key(DelLine(k)) = k
      BY LinesAre DEF LineOf, DelLine
    <3> QED
      BY <2>2, <3>1
  <2>6. \A i \in 1 .. n + 1 : i \in 1 .. n \/ i = n + 1
    OBVIOUS
  <2> QED
    BY <2>1, <2>4, <2>5, <2>6
<1> HIDE DEF T
<1>4. \A n \in Nat : n \in T
  BY <1>2, <1>3, SetInduction
<1>5. gone(Len(f))
  BY <1>4 DEF T
<1> QED
  BY <1>1, <1>5

\* FlattenSeq has what the sequences have.
Has(f, x) == \E m \in 1 .. Len(f) : f[m] = x

LEMMA FlattenHas ==
    ASSUME NEW S, NEW ss \in Seq(Seq(S)), NEW i \in 1 .. Len(ss), NEW j \in 1 .. Len(ss[i])
    PROVE  Has(FlattenSeq(ss), ss[i][j])
<1> DEFINE g == Flats(ss)
           has(n) == \E m \in 1 .. Len(g[n]) : g[n][m] = ss[i][j]
           T == {n \in Nat : n \in i .. Len(ss) => has(n)}
<1>1. Len(ss) \in Nat \ {0} /\ ss # <<>> /\ \A n \in 1 .. Len(ss) : ss[n] \in Seq(S)
  OBVIOUS
<1>2. /\ g[1] = ss[1] /\ FlattenSeq(ss) = g[Len(ss)]
      /\ \A n \in 1 .. Len(ss) - 1 : g[n + 1] = g[n] \o ss[n + 1]
  BY <1>1, FlattenSteps
<1>3. \A n \in 1 .. Len(ss) : g[n] \in Seq(S)
  BY <1>1, FlatsType
<1> HIDE DEF g
<1>4. 1 \in T
  BY <1>2
<1>5. ASSUME NEW n \in Nat \ {0}, n \in T
      PROVE  n + 1 \in T
  <2> SUFFICES ASSUME n + 1 \in i .. Len(ss)
               PROVE  has(n + 1)
    <3> HIDE DEF has
    <3> QED
      OBVIOUS
  <2> DEFINE a == g[n]
             b == ss[n + 1]
  <2>1. a \in Seq(S) /\ b \in Seq(S) /\ g[n + 1] = a \o b
    <3>1. n \in 1 .. Len(ss) - 1 /\ n \in 1 .. Len(ss) /\ n + 1 \in 1 .. Len(ss)
      BY <1>1
    <3> QED
      BY <1>1, <1>2, <1>3, <3>1
  <2>2. CASE n + 1 = i
    <3>1. j \in 1 .. Len(b) /\ b[j] = ss[i][j]
      BY <2>2
    <3> HIDE DEF a, b
    <3>2. Len(a) + j \in 1 .. Len(a \o b) /\ (a \o b)[Len(a) + j] = b[j]
      BY <2>1, <3>1
    <3> QED
      BY <2>1, <3>1, <3>2
  <2>3. CASE n + 1 # i
    <3>1. n \in i .. Len(ss)
      BY <2>3
    <3>2. PICK m \in 1 .. Len(a) : a[m] = ss[i][j]
      BY <1>5, <3>1
    <3> HIDE DEF a, b
    <3>3. m \in 1 .. Len(a \o b) /\ (a \o b)[m] = a[m]
      BY <2>1
    <3> QED
      BY <2>1, <3>2, <3>3
  <2> QED
    BY <2>2, <2>3
<1> HIDE DEF T
<1>6. \A n \in Nat \ {0} : n \in T
  BY <1>4, <1>5, SetInductionFrom1
<1>7. has(Len(ss))
  BY <1>1, <1>6 DEF T
<1> QED
  BY <1>2, <1>7 DEF Has

LEMMA RollbackIs ==
    ASSUME NEW s, NEW c \in CmdType, NEW t
    PROVE  /\ RollbackGivenKeys(s, c, t) \in Seq(DelLines)
           /\ \A k \in KeysOf(c) : Visible(s, k, t) = Nil =>
                  \E m \in 1 .. Len(RollbackGivenKeys(s, c, t)) :
                      RollbackGivenKeys(s, c, t)[m] = DelLine(k)
<1> DEFINE q == c.keys
           piece(k) == IF Visible(s, k, t) = Nil THEN <<DelLine(k)>> ELSE <<>>
           ss == [i \in 1 .. Len(q) |-> piece(q[i])]
           f == FlattenSeq(ss)
<1>1. q \in Seq(Keys)
  BY CmdIs DEF CmdParts
<1>2. RollbackGivenKeys(s, c, t) = f
  <2>1. DOMAIN q = 1 .. Len(q)
    BY <1>1
  <2> QED
    BY <2>1 DEF RollbackGivenKeys, DelLine
<1>3. \A k \in KeysOf(c) : \E i \in 1 .. Len(q) : k = q[i]
  BY <1>1 DEF KeysOf, ToSet
<1> HIDE DEF q
<1>4. \A k \in Keys : piece(k) \in Seq(DelLines)
  <2>1. \A k \in Keys : DelLine(k) \in DelLines
    BY DEF DelLines
  <2>2. \A x \in DelLines : <<x>> \in Seq(DelLines)
    OBVIOUS
  <2>3. <<>> \in Seq(DelLines)
    OBVIOUS
  <2> QED
    BY <2>1, <2>2, <2>3
<1>5. ss \in Seq(Seq(DelLines)) /\ Len(ss) = Len(q)
  <2> HIDE DEF piece
  <2> QED
    BY <1>1, <1>4
<1>6. f \in Seq(DelLines)
  <2> HIDE DEF ss
  <2> QED
    BY <1>5, FlattenType
<1>7. ASSUME NEW k \in KeysOf(c), Visible(s, k, t) = Nil
      PROVE  \E m \in 1 .. Len(f) : f[m] = DelLine(k)
  <2>1. PICK i \in 1 .. Len(q) : k = q[i]
    BY <1>3
  <2>2. ss[i] = <<DelLine(k)>>
    BY <1>7, <2>1
  <2> HIDE DEF ss
  <2>3. i \in 1 .. Len(ss) /\ 1 \in 1 .. Len(ss[i]) /\ ss[i][1] = DelLine(k)
    BY <1>5, <2>2
  <2>4. Has(f, ss[i][1])
    BY ONLY <1>5, <2>3, FlattenHas
  <2> HIDE DEF f
  <2> QED
    BY <2>3, <2>4 DEF Has
<1> HIDE DEF f
<1> QED
  BY <1>2, <1>6, <1>7

\* The same but for the deadline of a key.
Retimed(e, f, k) ==
    Good(f) /\ f.data = e.data /\ \A j \in Keys : j # k => f.ttl[j] = e.ttl[j]

LEMMA ExpireShape ==
    ASSUME NEW s, NEW c, NEW t, Asked(s, c, t), c.op \in ExpireOps
    PROVE  Retimed(Look(s, KeysOf(c), t), Exec(s, c, t).db, Key(c))
<1> DEFINE e == Look(s, KeysOf(c), t)
           k == Key(c)
           at == ExpireAt(c, t)
<1>1. Good(e) /\ k \in Keys
  BY AskedLook
<1> HIDE DEF e, k
<1>2. Retimed(e, e, k)
  BY <1>1 DEF Retimed
<1>3. Retimed(e, Persist(e, k), k)
  BY <1>1, PersistIs DEF Deadlined, Retimed
<1>4. CASE c.op = "persist"
  <2>1. Exec(s, c, t).db \in {e, Persist(e, k)}
    BY <1>4 DEF Exec, ExecPersist, Ok, e, k
  <2> QED
    BY <1>2, <1>3, <2>1 DEF e, k
<1>5. CASE c.op \in {"expire", "pexpireat"}
  <2>1. at \in Deadlines /\ at # Never
    BY <1>5, ExpireAtIs DEF Asked
  <2>2. Exec(s, c, t).db \in {e, Expire(e, k, at, t)}
    <3>1. Exec(s, c, t) = ExecExpire(s, c, t)
      BY <1>5 DEF Exec
    <3> QED
      BY <3>1 DEF ExecExpire, Ok, e, k, ExpireAt
  <2> HIDE DEF at
  <2>3. Retimed(e, Expire(e, k, at, t), k)
    BY <1>1, <2>1, ExpireIs DEF Deadlined, Retimed
  <2> QED
    BY <1>2, <2>2, <2>3 DEF e, k
<1> QED
  BY <1>4, <1>5 DEF ExpireOps

\* The line that gives a key its old deadline.
DeadlineLine(k, old) ==
    IF old = Never THEN Line("persist", k, <<>>, 0) ELSE Line("pexpireat", k, <<>>, old)

LEMMA DeadlineBack ==
    ASSUME NEW s, Good(s), NEW k \in Keys, NEW old \in Deadlines, NEW t \in Times,
           NEW g, g = Look(s, {k}, t), NEW u, u = Exec(s, DeadlineLine(k, old), t).db
    PROVE  Retimed(g, u, k) /\ (g.data[k] # Nil => u.ttl[k] = old)
<1> DEFINE l == DeadlineLine(k, old)
<1>1. Good(g)
  <2>1. {k} \in SUBSET Keys
    OBVIOUS
  <2> QED
    BY <2>1, LookIs DEF LookedAt, Near
<1>2. CASE old = Never
  <2>1. l.op = "persist" /\ Key(l) = k /\ KeysOf(l) = {k}
    BY <1>2, LinesAre DEF LineOf, DeadlineLine
  <2>2. u = IF g.data[k] = Nil \/ g.ttl[k] = Never THEN g ELSE Persist(g, k)
    <3>1. Exec(s, l, t) = ExecPersist(s, l, t)
      BY <2>1 DEF Exec
    <3> QED
      BY <2>1, <3>1 DEF ExecPersist, Ok
  <2>3. Deadlined(g, k, Never, Persist(g, k))
    BY <1>1, PersistIs
  <2> QED
    BY <1>1, <1>2, <2>2, <2>3 DEF Deadlined, Retimed
<1>3. CASE old # Never
  <2>1. old \in Nat /\ old < Never
    BY <1>3, NeverIs DEF Deadlines
  <2>2. l.op = "pexpireat" /\ Key(l) = k /\ KeysOf(l) = {k} /\ l.n = old
    BY <1>3, <2>1, LinesAre DEF LineOf, DeadlineLine
  <2>3. u = IF g.data[k] = Nil THEN g ELSE Expire(g, k, old, t)
    <3>1. Exec(s, l, t) = ExecExpire(s, l, t)
      BY <2>2 DEF Exec
    <3> QED
      BY <2>2, <3>1 DEF ExecExpire, Ok
  <2>4. Deadlined(g, k, old, Expire(g, k, old, t))
    BY <1>1, <1>3, ExpireIs
  <2> QED
    BY <1>1, <2>3, <2>4 DEF Deadlined, Retimed
<1> QED
  BY <1>2, <1>3

\* Undone: a key is what it was, unless the command itself put it past its deadline.
LEMMA DeadlineUndone ==
    ASSUME NEW s, NEW c, NEW t, Asked(s, c, t), c.op \in ExpireOps, NEW k \in Keys,
           NEW a, a = Exec(s, c, t).db, NEW u, u = RunLines(a, UndoLog(s, c, t), t)
    PROVE  SameKey(s, u, k, t) \/ (k \in Late(a, t) /\ Visible(s, k, t) # Nil)
<1> DEFINE e == Look(s, KeysOf(c), t)
           key == Key(c)
           g == Look(a, {key}, t)
           old == s.ttl[key]
<1>1. Retimed(e, a, key)
  BY ExpireShape
<1>2. LookedAt(s, KeysOf(c), t, e) /\ key \in Keys /\ key \in KeysOf(c) /\ Good(e)
  <2>1. KeysOf(c) \in SUBSET Keys
    BY AskedLook
  <2> QED
    BY <2>1, AskedLook, LookIs DEF Asked
<1>3. old \in Deadlines
  BY <1>2, DbParts DEF Asked
<1>4. u = Exec(a, DeadlineLine(key, old), t).db
  <2>1. UndoLog(s, c, t) = UndoExpire(s, c)
    BY DEF UndoLog, Unlocked, ZSetOps, ExpireOps
  <2>2. UndoExpire(s, c) = <<DeadlineLine(key, old)>>
    BY DEF UndoExpire, DeadlineLine
  <2> QED
    BY <2>1, <2>2, RunOne
<1>5. LookedAt(a, {key}, t, g)
  <2>1. {key} \in SUBSET Keys
    BY <1>2
  <2> QED
    BY <1>1, <2>1, LookIs DEF Retimed
<1>6. Retimed(g, u, key) /\ (g.data[key] # Nil => u.ttl[key] = old)
  <2>1. Good(a) /\ t \in Times /\ key \in Keys
    BY <1>1, <1>2 DEF Retimed, Asked
  <2> HIDE DEF key, old
  <2>2. g = Look(a, {key}, t)
    OBVIOUS
  <2> HIDE DEF g
  <2> QED
    BY ONLY <1>3, <1>4, <2>1, <2>2, DeadlineBack
<1> HIDE DEF e, key, old
<1>7. SameKey(s, e, k, t)
  BY <1>2 DEF LookedAt, Near
<1>8. CASE k # key
  <2>1. SameKey(e, a, k, t)
    BY <1>1, <1>8, SameOf DEF Retimed
  <2>2. SameKey(a, g, k, t)
    BY <1>5 DEF LookedAt, Near
  <2> HIDE DEF g
  <2>3. SameKey(g, u, k, t)
    BY <1>6, <1>8, SameOf DEF Retimed
  <2> QED
    BY <1>7, <2>1, <2>2, <2>3, SameTwice
<1>9. CASE k = key /\ Expired(a, k, t)
  <2>1. k \in Late(a, t)
    <3>1. t > a.ttl[k] /\ a.ttl[k] \in Deadlines /\ t \in Int
      BY <1>1, <1>9, DbParts DEF Expired, Retimed, Asked, Times
    <3> QED
      BY <3>1, NeverIs DEF Late, Deadlines
  <2>2. Visible(s, k, t) # Nil
    <3>1. a.data[k] # Nil /\ a.data[k] = e.data[k]
      BY <1>1, <1>9 DEF Expired, Retimed
    <3> QED
      BY <1>2, <1>9, <3>1 DEF LookedAt
  <2> QED
    BY <2>1, <2>2
<1>10. CASE k = key /\ ~Expired(a, k, t)
  <2>1. g = a
    <3>1. {key} \in SUBSET Keys /\ \A j \in {key} : ~Expired(a, j, t)
      BY <1>2, <1>10
    <3> QED
      BY <1>1, <3>1, LookFresh DEF Retimed
  <2> HIDE DEF g
  <2>2. u.data[k] = e.data[k] /\ (e.data[k] # Nil => u.ttl[k] = s.ttl[k])
    BY <1>1, <1>6, <1>10, <2>1 DEF Retimed, old
  <2>3. CASE e.data[k] = Nil
    <3>1. SameKey(e, u, k, t)
      BY <2>2, <2>3 DEF SameKey, Visible, Expired
    <3> QED
      BY <1>7, <3>1, SameTwice
  <2>4. CASE e.data[k] # Nil
    <3>1. e.ttl[k] = s.ttl[k]
      BY <1>2, <2>4 DEF LookedAt
    <3>2. SameKey(e, u, k, t)
      BY <2>2, <2>4, <3>1, SameOf
    <3> QED
      BY <1>7, <3>2, SameTwice
  <2> QED
    BY <2>3, <2>4
<1> QED
  BY <1>8, <1>9, <1>10

\* Scores that are set and put back.
LEMMA ScoresBack ==
    ASSUME NEW D \in SUBSET Members, NEW z \in [D -> Nat], NEW m \in Members, NEW i \in Nat
    PROVE  /\ m \notin D => Without(SetScore(z, m, i), m) = z
           /\ m \in D => SetScore(SetScore(z, m, i), m, z[m]) = z
           /\ m \in D => SetScore(Without(z, m), m, z[m]) = z
<1> DEFINE y == SetScore(z, m, i)
           rest == Without(z, m)
<1>1. Scored(D, z, m, i, y)
  BY ScoredIs
<1> HIDE DEF y
<1>2. ASSUME m \notin D PROVE Without(y, m) = z
  BY <1>1, <1>2 DEF Scored, Without
<1>3. ASSUME m \in D PROVE SetScore(y, m, z[m]) = z
  <2>1. y \in [D -> Nat] /\ z[m] \in Nat /\ D \cup {m} = D
    BY <1>1, <1>3 DEF Scored
  <2> DEFINE w == SetScore(y, m, z[m])
  <2>2. Scored(D, y, m, z[m], w)
    BY <2>1, ScoredIs
  <2> HIDE DEF w
  <2>3. w \in [D -> Nat] /\ \A j \in D : w[j] = z[j]
    BY <1>1, <2>1, <2>2 DEF Scored
  <2>4. w = z
    BY <2>3
  <2> QED
    BY <2>4 DEF w
<1>4. ASSUME m \in D PROVE SetScore(rest, m, z[m]) = z
  <2>1. rest \in [D \ {m} -> Nat] /\ z[m] \in Nat /\ (D \ {m}) \cup {m} = D
        /\ D \ {m} \in SUBSET Members /\ \A j \in D \ {m} : rest[j] = z[j]
    BY <1>4 DEF Without
  <2> HIDE DEF rest
  <2> DEFINE w == SetScore(rest, m, z[m])
  <2>2. Scored(D \ {m}, rest, m, z[m], w)
    BY <2>1, ScoredIs
  <2> HIDE DEF w
  <2>3. w \in [D -> Nat] /\ \A j \in D : w[j] = z[j]
    BY <2>1, <2>2 DEF Scored
  <2>4. w = z
    BY <2>3
  <2> QED
    BY <2>4 DEF w
<1> QED
  BY <1>2, <1>3, <1>4 DEF y

\* A sorted set that is put back.
LEMMA WriteBack ==
    ASSUME NEW e, Good(e), NEW k \in Keys, NEW x \in Entities, e.data[k] = x, IsZSet(x),
           NEW y \in Entities, IsZSet(y), NEW t, ~Expired(e, k, t), NEW a, a = Write(e, k, y)
    PROVE  /\ Good(a) /\ a.data[k] = y /\ Look(a, {k}, t) = a
           /\ \A j \in Keys : SameKey(e, Write(a, k, x), j, t)
<1> DEFINE u == Write(a, k, x)
<1>1. WrittenTo(e, k, y, a)
  BY WriteIs
<1>2. Good(a) /\ a.data[k] = y /\ a.ttl = e.ttl
  BY <1>1 DEF WrittenTo
<1>3. WrittenTo(a, k, x, u)
  BY <1>2, WriteIs
<1>4. Look(a, {k}, t) = a
  <2>1. ~Expired(a, k, t)
    <3>1. x # Nil
      BY DEF IsZSet
    <3> QED
      BY <1>2, <3>1 DEF Expired
  <2>2. {k} \in SUBSET Keys /\ \A j \in {k} : ~Expired(a, j, t)
    BY <2>1
  <2> QED
    BY <1>2, <2>2, LookFresh
<1>5. \A j \in Keys : j \in Aliases(a, k) <=> j \in Aliases(e, k)
  BY <1>1 DEF WrittenTo, Aliases
<1> HIDE DEF u
<1>6. ASSUME NEW j \in Keys
      PROVE  SameKey(e, u, j, t)
  <2>1. j \in Aliases(e, k) => e.data[j] = x
    BY SharedSame DEF Aliases
  <2>2. ~IsStr(x) /\ ~IsStr(y)
    BY DEF IsStr, IsZSet
  <2>3. \A z : InPlace(z, x) = x /\ InPlace(z, y) = y
    BY <2>2 DEF InPlace
  <2>4. u.data[j] = e.data[j] /\ u.ttl[j] = e.ttl[j]
    BY <1>1, <1>3, <1>5, <2>1, <2>3 DEF WrittenTo
  <2> QED
    BY <2>4, SameOf
<1> QED
  BY <1>2, <1>4, <1>6 DEF u

\* ZADD, ZINCRBY and ZREM of a sorted set.
LEMMA ZAddIs ==
    ASSUME NEW s, NEW c, NEW t, Asked(s, c, t), c.op \in {"zadd", "zincrby"},
           NEW e, e = Look(s, KeysOf(c), t), NEW x, x = e.data[Key(c)], IsZSet(x)
    PROVE  \E i \in Nat : /\ c.op = "zadd" => i = c.n
                          /\ Exec(s, c, t).db = Write(e, Key(c), ZSet(SetScore(x.zset, c.val, i)))
<1> DEFINE z == x.zset
           score == IF c.op = "zincrby" /\ c.val \in DOMAIN z THEN z[c.val] + c.n ELSE c.n
<1>1. x \in Entities
  BY AskedLook
<1>2. z \in [DOMAIN z -> Nat] /\ ~IsStr(x) /\ x # Nil /\ Scores(x) = z
  BY <1>1, EntityIs DEF IsZSet, Scores
<1>3. c.n \in Nat
  BY CmdIs DEF Asked, CmdParts
<1> HIDE DEF z
<1>4. score \in Nat /\ (c.op = "zadd" => score = c.n)
  BY <1>2, <1>3
<1>5. Exec(s, c, t).db = Write(e, Key(c), ZSet(SetScore(z, c.val, score)))
  <2>1. Exec(s, c, t) = ExecZAdd(s, c, t)
    BY DEF Exec
  <2> QED
    BY <1>2, <2>1 DEF ExecZAdd, Ok
<1> HIDE DEF score
<1> QED
  BY <1>4, <1>5 DEF z

LEMMA ZRemIs ==
    ASSUME NEW s, NEW c, NEW t, Asked(s, c, t), c.op = "zrem",
           NEW e, e = Look(s, KeysOf(c), t), NEW x, x = e.data[Key(c)], IsZSet(x)
    PROVE  Exec(s, c, t).db =
               IF c.val \in DOMAIN x.zset
               THEN Write(e, Key(c), ZSet(Without(x.zset, c.val)))
               ELSE e
<1> DEFINE z == x.zset
           left == DOMAIN z \ Doomed(z, c)
<1>1. x \in Entities
  BY AskedLook
<1>2. ~IsStr(x) /\ x # Nil /\ Scores(x) = z
  BY <1>1, EntityIs DEF IsZSet, Scores
<1> HIDE DEF z
<1>3. left = DOMAIN z \ {c.val}
  BY DEF Doomed
<1>4. ExecZRem(s, c, t) = IF left = DOMAIN z THEN Ok(e, <<>>)
                          ELSE Ok(Write(e, Key(c), ZSet([j \in left |-> z[j]])), <<c>>)
  BY <1>2 DEF ExecZRem
<1>5. left = DOMAIN z <=> c.val \notin DOMAIN z
  BY <1>3
<1> HIDE DEF left
<1>6. Exec(s, c, t).db = IF left = DOMAIN z THEN e
                         ELSE Write(e, Key(c), ZSet([j \in left |-> z[j]]))
  <2>1. Exec(s, c, t) = ExecZRem(s, c, t)
    BY DEF Exec
  <2>2. Ok(e, <<>>).db = e /\ \A d : Ok(d, <<c>>).db = d
    BY DEF Ok
  <2> QED
    BY <1>4, <2>1, <2>2
<1> QED
  BY <1>3, <1>5, <1>6 DEF z, Without

\* Undone: a key is what it was.
LEMMA ScoresUndone ==
    ASSUME NEW s, NEW c, NEW t, Asked(s, c, t), c.op \in ZSetOps, NEW k \in Keys,
           NEW a, a = Exec(s, c, t).db, NEW u, u = RunLines(a, UndoLog(s, c, t), t)
    PROVE  SameKey(s, u, k, t)
<1> DEFINE e == Look(s, KeysOf(c), t)
           key == Key(c)
           m == c.val
           x == e.data[key]
           z == x.zset
<1>1. /\ LookedAt(s, KeysOf(c), t, e) /\ key \in Keys /\ key \in KeysOf(c) /\ Good(e)
      /\ x \in Entities /\ x = Visible(s, key, t) /\ t \in Times /\ KeysOf(c) \in SUBSET Keys
  <2>1. KeysOf(c) \in SUBSET Keys
    BY AskedLook
  <2> QED
    BY <2>1, AskedLook, LookIs DEF Asked
<1>2. m \in Members /\ c.op \in {"zadd", "zincrby", "zrem"}
  BY CmdIs DEF Asked, CmdParts, ZOps, ZSetOps
<1>3. UndoLog(s, c, t) = RollbackZSetFields(s, c, t)
  BY DEF UndoLog, Unlocked, ZSetOps, ExpireOps
<1>4. \A j \in Keys : SameKey(s, e, j, t)
  BY <1>1 DEF LookedAt, Near
<1>5. ~Expired(e, key, t)
  BY <1>1 DEF LookedAt
<1>6. Good(a)
  <2>1. c \in CmdType /\ t \in Times /\ Good(s)
    BY DEF Asked
  <2> QED
    BY <2>1, ExecDone DEF Spread
<1>7. c.op \in {"zadd", "zincrby"} => Exec(s, c, t) = ExecZAdd(s, c, t)
  BY DEF Exec
<1>8. c.op = "zrem" => Exec(s, c, t) = ExecZRem(s, c, t)
  BY DEF Exec
<1>9. CASE x = Nil
  <2>1. u = Exec(a, DelLine(key), t).db
    <3>1. UndoLog(s, c, t) = <<DelLine(key)>>
      BY <1>1, <1>3, <1>9 DEF RollbackZSetFields, DelLine
    <3> QED
      BY <3>1, RunOne
  <2>2. /\ Visible(u, key, t) = Nil
        /\ \A j \in Keys : j # key => SameKey(a, u, j, t)
    BY <1>1, <1>6, <2>1, DelIs
  <2>3. \A j \in Keys : j # key => a.data[j] = e.data[j] /\ a.ttl[j] = e.ttl[j]
    <3>1. CASE c.op \in {"zadd", "zincrby"}
      <4>1. PICK y : a = PutEntity(e, key, y) /\ y \in Entities
        <5> DEFINE w == Scores(x)
                   score == IF c.op = "zincrby" /\ c.val \in DOMAIN w THEN w[c.val] + c.n ELSE c.n
                   y == ZSet(SetScore(w, c.val, score))
        <5>1. ~IsStr(x)
          BY <1>9 DEF IsStr
        <5>2. DOMAIN w \in SUBSET Members /\ w \in [DOMAIN w -> Nat]
          <6> HIDE DEF x
          <6> QED
            BY <1>1, <5>1, ScoresAre
        <5>3. a = PutEntity(e, key, y)
          BY <1>7, <1>9, <3>1, <5>1 DEF ExecZAdd, Ok
        <5>4. c.n \in Nat
          BY CmdIs DEF Asked, CmdParts
        <5> HIDE DEF w
        <5>5. score \in Nat
          BY <5>2, <5>4
        <5> HIDE DEF score
        <5>6. y \in Entities
          BY <1>2, <5>2, <5>5, ScoredIs
        <5> QED
          BY <5>3, <5>6
      <4>2. {key} \in SUBSET Keys
        BY <1>1
      <4>3. PutInto(e, {key}, y, a)
        BY <1>1, <4>1, <4>2, PutIs DEF PutEntity
      <4> QED
        BY <4>3 DEF PutInto
    <3>2. CASE c.op = "zrem"
      BY <1>8, <1>9, <3>2 DEF ExecZRem, Ok
    <3> QED
      BY <1>2, <3>1, <3>2
  <2>4. CASE k = key
    BY <1>1, <1>9, <2>2, <2>4 DEF SameKey
  <2>5. CASE k # key
    <3> HIDE DEF e, key
    <3>1. SameKey(e, a, k, t)
      BY <2>3, <2>5, SameOf
    <3> QED
      BY <1>4, <2>2, <2>5, <3>1, SameTwice
  <2> QED
    BY <2>4, <2>5
<1>10. CASE IsStr(x)
  <2>1. x # Nil /\ ~IsZSet(x)
    BY <1>1, <1>10, EntityIs DEF IsStr
  <2>2. UndoLog(s, c, t) = <<>>
    BY <1>1, <1>3, <1>10, <2>1 DEF RollbackZSetFields
  <2>3. a = e
    <3>1. c.op \in {"zadd", "zincrby"} => a = e
      BY <1>7, <1>10 DEF ExecZAdd, Err
    <3>2. c.op = "zrem" => a = e
      BY <1>8, <1>10, <2>1 DEF ExecZRem, Err
    <3> QED
      BY <1>2, <3>1, <3>2
  <2>4. u = e
    BY <2>2, <2>3, RunNothing
  <2> QED
    BY <1>4, <2>4
<1>11. CASE x # Nil /\ IsZSet(x)
  <2> DEFINE D == DOMAIN z
             dl == Line("zrem", key, m, 0)
             al == Line("zadd", key, m, z[m])
  <2>1. D \in SUBSET Members /\ z \in [D -> Nat] /\ x = ZSet(z) /\ ~IsStr(x)
    BY <1>1, <1>11, EntityIs
  <2>2. UndoLog(s, c, t) = IF m \notin D THEN <<dl>> ELSE <<al>>
    BY <1>1, <1>3, <1>11, <2>1 DEF RollbackZSetFields
  <2>3. Asked(a, dl, t) /\ dl.op = "zrem" /\ Key(dl) = key /\ KeysOf(dl) = {key} /\ dl.val = m
    <3>1. LineOf(dl, "zrem", key, m, 0)
      BY <1>1, <1>2, LinesAre, ZeroIs
    <3> QED
      BY <1>1, <1>6, <3>1 DEF LineOf, Asked, Flushes
  <2>4. m \in D => Asked(a, al, t) /\ al.op = "zadd" /\ Key(al) = key /\ KeysOf(al) = {key}
                   /\ al.val = m /\ al.n = z[m]
    <3>1. m \in D => LineOf(al, "zadd", key, m, z[m])
      BY <1>1, <1>2, <2>1, LinesAre
    <3> QED
      BY <1>1, <1>6, <3>1 DEF LineOf, Asked, Flushes
  <2>5. u = IF m \notin D THEN Exec(a, dl, t).db ELSE Exec(a, al, t).db
    BY <2>2, RunOne
  \* What the command wrote, if it wrote; and that the line writes it back.
  <2>6. ASSUME NEW E \in SUBSET Members, NEW y \in [E -> Nat], a = Write(e, key, ZSet(y)),
               m \notin D => m \in E /\ Without(y, m) = z,
               m \in D => SetScore(y, m, z[m]) = z
        PROVE  SameKey(s, u, k, t)
    <3>1. ZSet(y) \in Entities /\ IsZSet(ZSet(y)) /\ ZSet(y).zset = y /\ DOMAIN y = E
      BY <2>6, NotNil
    <3>2. /\ Good(a) /\ a.data[key] = ZSet(y) /\ Look(a, {key}, t) = a
          /\ \A j \in Keys : SameKey(e, Write(a, key, x), j, t)
      <4> HIDE DEF e, key, x
      <4>1. x = e.data[key]
        BY DEF x
      <4> QED
        BY <1>1, <1>5, <1>11, <2>6, <3>1, <4>1, WriteBack
    <3>3. u = Write(a, key, ZSet(z))
      <4>1. CASE m \notin D
        <5>1. Exec(a, dl, t).db = Write(a, key, ZSet(Without(y, m)))
          <6> DEFINE w == ZSet(y)
          <6>1. a = Look(a, KeysOf(dl), t) /\ w = a.data[Key(dl)]
            BY <2>3, <3>2
          <6>2. IsZSet(w) /\ w.zset = y /\ m \in DOMAIN y
            BY <2>6, <3>1, <4>1
          <6> HIDE DEF dl, w
          <6> QED
            BY ONLY <2>3, <6>1, <6>2, ZRemIs, SMTT(20)
        <5> QED
          BY <2>5, <2>6, <4>1, <5>1
      <4>2. CASE m \in D
        <5>1. \E i \in Nat : i = z[m] /\ Exec(a, al, t).db = Write(a, key, ZSet(SetScore(y, m, i)))
          <6> DEFINE w == ZSet(y)
          <6>1. a = Look(a, KeysOf(al), t) /\ w = a.data[Key(al)]
            BY <2>4, <3>2, <4>2
          <6>2. IsZSet(w) /\ w.zset = y
            BY <3>1
          <6>3. Asked(a, al, t) /\ al.op = "zadd" /\ Key(al) = key /\ al.val = m /\ al.n = z[m]
            BY <2>4, <4>2
          <6> HIDE DEF al, w
          <6>4. \E i \in Nat : /\ al.op = "zadd" => i = al.n
                               /\ Exec(a, al, t).db
                                      = Write(a, Key(al), ZSet(SetScore(w.zset, al.val, i)))
            BY ONLY <6>1, <6>2, <6>3, ZAddIs, SMTT(20)
          <6> QED
            BY <6>2, <6>3, <6>4
        <5> QED
          BY <2>5, <2>6, <4>2, <5>1
      <4> QED
        BY <4>1, <4>2
    <3>4. SameKey(e, u, k, t)
      BY <2>1, <3>2, <3>3
    <3> QED
      BY <1>4, <3>4, SameTwice
  <2>7. CASE c.op \in {"zadd", "zincrby"}
    <3>1. PICK i \in Nat : a = Write(e, key, ZSet(SetScore(z, m, i)))
      BY <1>11, <2>7, ZAddIs
    <3> DEFINE y == SetScore(z, m, i)
    <3>2. y \in [D \cup {m} -> Nat] /\ D \cup {m} \in SUBSET Members
      <4>1. Scored(D, z, m, i, y)
        BY <1>2, <2>1, ScoredIs
      <4> QED
        BY <1>2, <2>1, <4>1 DEF Scored
    <3>3. m \notin D => Without(y, m) = z
      BY <1>2, <2>1, ScoresBack
    <3>4. m \in D => SetScore(y, m, z[m]) = z
      BY <1>2, <2>1, ScoresBack
    <3> HIDE DEF y
    <3> QED
      BY <2>6, <3>1, <3>2, <3>3, <3>4 DEF y
  <2>8. CASE c.op = "zrem"
    <3>1. CASE m \in D
      <4> DEFINE y == Without(z, m)
      <4>1. a = Write(e, key, ZSet(y))
        BY <1>11, <2>8, <3>1, ZRemIs
      <4>2. y \in [D \ {m} -> Nat] /\ D \ {m} \in SUBSET Members
        BY <2>1 DEF Without
      <4>3. SetScore(y, m, z[m]) = z
        BY <1>2, <2>1, <3>1, ScoresBack
      <4> HIDE DEF y
      <4> QED
        BY <2>6, <3>1, <4>1, <4>2, <4>3
    <3>2. CASE m \notin D
      <4>1. a = e
        BY <1>11, <2>8, <3>2, ZRemIs
      <4>2. Look(a, {key}, t) = a
        <5>1. {key} \in SUBSET Keys /\ \A j \in {key} : ~Expired(a, j, t)
          BY <1>1, <1>5, <4>1
        <5> QED
          BY <1>6, <5>1, LookFresh
      <4>3. Exec(a, dl, t).db = a
        BY <1>11, <2>3, <3>2, <4>1, <4>2, ZRemIs
      <4> QED
        BY <1>4, <2>5, <3>2, <4>1, <4>3
    <3> QED
      BY <3>1, <3>2
  <2> QED
    BY <1>2, <2>7, <2>8
<1> QED
  BY <1>1, <1>9, <1>10, <1>11, EntityIs

\* Undone: a key that was not there is not there.
LEMMA MadeIsUndone ==
    ASSUME NEW s, NEW c, NEW t, Asked(s, c, t), c.op \notin Unlocked \cup ZSetOps \cup ExpireOps,
           NEW k \in Keys, Visible(s, k, t) = Nil,
           NEW a, a = Exec(s, c, t).db, NEW u, u = RunLines(a, UndoLog(s, c, t), t)
    PROVE  Visible(u, k, t) = Nil
<1> DEFINE f == RollbackGivenKeys(s, c, t)
<1>1. UndoLog(s, c, t) = f
  BY DEF UndoLog, Unlocked, ZSetOps, ExpireOps
<1>2. c \in CmdType /\ t \in Times /\ Touched(c) = KeysOf(c) /\ Good(s)
  BY DEF Asked, Touched
<1>3. Spread(s, Exec(s, c, t), c, t)
  BY <1>2, ExecDone
<1>4. f \in Seq(DelLines) /\ (k \in KeysOf(c) => \E i \in 1 .. Len(f) : f[i] = DelLine(k))
  BY <1>2, RollbackIs
<1> HIDE DEF f
<1>5. k \notin KeysOf(c) => Visible(a, k, t) = Nil
  BY <1>2, <1>3 DEF Spread, SameKey, Reaches
<1>6. Good(a)
  BY <1>3 DEF Spread
<1>7. Visible(RunLines(a, f, t), k, t) = Nil
  BY <1>2, <1>4, <1>5, <1>6, DelsAre
<1> QED
  BY <1>1, <1>7

LEMMA InvUndo == IInv => UndoRestores
<1> SUFFICES ASSUME IInv, NEW c \in {d \in Cmds : d.op \notin Unlocked}, NEW k \in Keys,
                    NEW a, a = Exec(db, c, now).db,
                    NEW u, u = RunLines(a, UndoLog(db, c, now), now)
             PROVE  /\ Visible(db, k, now) = Nil => Visible(u, k, now) = Nil
                    /\ c.op \in ZSetOps \cup ExpireOps =>
                           SameKey(db, u, k, now) \/ k \in Late(a, now)
  BY DEF UndoRestores
<1>1. Asked(db, c, now) /\ c.op \notin Unlocked
  BY CmdAssumption DEF IInv, Asked, Unlocked, Flushes
<1>2. CASE c.op \in ExpireOps
  <2>1. SameKey(db, u, k, now) \/ (k \in Late(a, now) /\ Visible(db, k, now) # Nil)
    BY <1>1, <1>2, DeadlineUndone
  <2> QED
    BY <2>1 DEF SameKey
<1>3. CASE c.op \in ZSetOps
  <2>1. SameKey(db, u, k, now)
    BY <1>1, <1>3, ScoresUndone
  <2> QED
    BY <2>1 DEF SameKey
<1>4. CASE c.op \notin ZSetOps \cup ExpireOps
  BY <1>1, <1>4, MadeIsUndone
<1> QED
  BY <1>2, <1>3, <1>4

\* Undo logs remove what a command made; those of the sorted sets and of the deadlines
\* restore every key, but one that the command itself put past its deadline.
THEOREM LogsUndo == Spec => []UndoRestores
BY Invariant, InvUndo, PTL

-------------------------------------------------------------------------------
(* What a replay brings back.  First the primitives once more, with the keys *)
(* that share an entity: two keys are tied.                                  *)

Tie(s, i, j) == {i, j} \in s.shares

\* Ties go both ways, and on to the ties of the other key.
LEMMA TieIs ==
    ASSUME NEW s, Good(s)
    PROVE  /\ \A i, j \in Keys : Tie(s, i, j) => /\ Tie(s, j, i) /\ i # j
                                                 /\ s.data[i] = Nil <=> s.data[j] = Nil
           /\ \A i, j, k \in Keys : Tie(s, i, j) /\ Tie(s, j, k) /\ i # k => Tie(s, i, k)
           /\ \A j, k \in Keys : j \in Aliases(s, k) <=> Tie(s, j, k)
<1>1. ASSUME NEW i \in Keys, NEW j \in Keys, Tie(s, i, j)
      PROVE  Tie(s, j, i) /\ i # j /\ (s.data[i] = Nil <=> s.data[j] = Nil)
  <2>1. {i, j} = {j, i}
    OBVIOUS
  <2>2. \E a, b \in Keys : a # b /\ {i, j} = {a, b}
    BY <1>1 DEF Tie, Good, Sharing
  <2>3. i # j
    BY <2>2
  <2> QED
    BY <1>1, <2>1, <2>3, SharedSame DEF Tie
<1>2. \A i, j, k \in Keys : Tie(s, i, j) /\ Tie(s, j, k) /\ i # k => Tie(s, i, k)
  BY DEF Tie, Good, Sharing
<1> QED
  BY <1>1, <1>2 DEF Tie, Aliases

\* The primitives, each with the ties it leaves.
LEMMA ApartTie ==
    ASSUME NEW s, NEW e, NEW ks, e.shares = Apart(s.shares, ks), NEW i, NEW j
    PROVE  Tie(e, i, j) <=> Tie(s, i, j) /\ i \notin ks /\ j \notin ks
BY DEF Tie, Apart

PutTo(s, ks, x, e) ==
    /\ Good(e)
    /\ \A k \in Keys : e.data[k] = (IF k \in ks THEN x ELSE s.data[k]) /\ e.ttl[k] = s.ttl[k]
    /\ \A i, j \in Keys : Tie(e, i, j) <=> Tie(s, i, j) /\ i \notin ks /\ j \notin ks

LEMMA PutTies ==
    ASSUME NEW s, Good(s), NEW ks \in SUBSET Keys, NEW x, NEW e, PutInto(s, ks, x, e)
    PROVE  PutTo(s, ks, x, e)
BY ApartTie DEF PutInto, PutTo

LEMMA PutTie ==
    ASSUME NEW s, Good(s), NEW ks \in SUBSET Keys, NEW x \in Entities
    PROVE  PutTo(s, ks, x, PutEntities(s, ks, x))
<1>1. PutInto(s, ks, x, PutEntities(s, ks, x))
  BY PutIs
<1> QED
  BY <1>1, PutTies

RemTo(s, ks, e) ==
    /\ Good(e)
    /\ \A k \in Keys : /\ e.data[k] = IF k \in ks THEN Nil ELSE s.data[k]
                       /\ e.ttl[k] = IF k \in ks THEN Never ELSE s.ttl[k]
    /\ \A i, j \in Keys : Tie(e, i, j) <=> Tie(s, i, j) /\ i \notin ks /\ j \notin ks

LEMMA RemTie ==
    ASSUME NEW s, Good(s), NEW ks \in SUBSET Keys
    PROVE  RemTo(s, ks, Removes(s, ks))
BY RemovesIs, ApartTie DEF RemovedFrom, RemTo

WriteTo(s, k, x, e) ==
    /\ Good(e)
    /\ \A j \in Keys : /\ e.data[j] = IF j = k THEN x
                                      ELSE IF Tie(s, j, k) THEN InPlace(s.data[j], x)
                                      ELSE s.data[j]
                       /\ e.ttl[j] = s.ttl[j]
    /\ \A i, j \in Keys : Tie(e, i, j) <=> Tie(s, i, j)

LEMMA WriteTies ==
    ASSUME NEW s, Good(s), NEW k \in Keys, NEW x, NEW e, WrittenTo(s, k, x, e)
    PROVE  WriteTo(s, k, x, e)
<1>1. \A j \in Keys : j \in Aliases(s, k) <=> Tie(s, j, k)
  BY TieIs
<1> QED
  BY <1>1 DEF WrittenTo, WriteTo, Tie

LEMMA WriteTie ==
    ASSUME NEW s, Good(s), NEW k \in Keys, NEW x \in Entities
    PROVE  WriteTo(s, k, x, Write(s, k, x))
<1>1. WrittenTo(s, k, x, Write(s, k, x))
  BY WriteIs
<1> QED
  BY <1>1, WriteTies

RetimeTo(s, k, at, e) ==
    /\ Good(e)
    /\ \A j \in Keys : /\ e.data[j] = s.data[j]
                       /\ e.ttl[j] = IF j = k THEN at ELSE s.ttl[j]
    /\ \A i, j \in Keys : Tie(e, i, j) <=> Tie(s, i, j)

LEMMA RetimeTie ==
    ASSUME NEW s, Good(s), NEW k \in Keys
    PROVE  /\ RetimeTo(s, k, Never, Persist(s, k))
           /\ \A t : \A at \in Deadlines : at # Never => RetimeTo(s, k, at, Expire(s, k, at, t))
<1>1. RetimeTo(s, k, Never, Persist(s, k))
  BY PersistIs DEF Deadlined, RetimeTo, Tie
<1>2. ASSUME NEW at \in Deadlines, NEW t, at # Never
      PROVE  RetimeTo(s, k, at, Expire(s, k, at, t))
  BY <1>2, ExpireIs DEF Deadlined, RetimeTo, Tie
<1> QED
  BY <1>1, <1>2

ShareTo(s, j, k, e) ==
    /\ Good(e)
    /\ \A i \in Keys : e.data[i] = (IF i = k THEN s.data[j] ELSE s.data[i])
                       /\ e.ttl[i] = s.ttl[i]
    /\ \A i, l \in Keys : Tie(e, i, l) <=>
          IF i = k THEN l # k /\ (l = j \/ Tie(s, l, j))
          ELSE IF l = k THEN i = j \/ Tie(s, i, j)
          ELSE Tie(s, i, l)

LEMMA ShareTie ==
    ASSUME NEW s, Good(s), NEW j \in Keys, NEW k \in Keys, j # k
    PROVE  ShareTo(s, j, k, Share(s, j, k))
<1> DEFINE e == Share(s, j, k)
           d == PutEntity(s, k, s.data[j])
           peers == ({j} \cup Aliases(s, j)) \ {k}
           new == {{i, k} : i \in peers}
<1>1. SharedTo(s, j, k, e)
  BY ShareIs
<1>2. e.shares = d.shares \cup new
  <2>1. e = [d EXCEPT !.shares = @ \cup new, !.cap[k] = s.cap[j]]
    BY DEF Share
  <2>2. PutInto(s, {k}, s.data[j], d)
    BY PutIs, DbParts DEF PutEntity
  <2>3. d = [data |-> d.data, ttl |-> d.ttl, jobs |-> d.jobs, shares |-> d.shares, cap |-> d.cap]
    BY <2>2, DbParts DEF PutInto
  <2> HIDE DEF d, new, e
  <2> QED
    BY <2>1, <2>3
<1>3. \A i, l \in Keys : {i, l} \in d.shares <=> Tie(s, i, l) /\ i # k /\ l # k
  <2>1. PutTo(s, {k}, s.data[j], d)
    BY PutTie, DbParts DEF PutEntity
  <2> QED
    BY <2>1 DEF PutTo, Tie
<1>4. \A i, l \in Keys : {i, l} \in new <=>
          (i = k /\ l # k /\ (l = j \/ Tie(s, l, j))) \/ (l = k /\ i # k /\ (i = j \/ Tie(s, i, j)))
  <2>1. \A i \in Keys : i \in peers <=> i # k /\ (i = j \/ Tie(s, i, j))
    BY DEF Tie, Aliases
  <2>2. k \notin peers /\ peers \subseteq Keys
    BY DEF Aliases
  <2>3. \A q : q \in new <=> \E p \in peers : q = {p, k}
    OBVIOUS
  <2> HIDE DEF peers, new
  <2>4. ASSUME NEW i \in Keys, NEW l \in Keys
        PROVE  {i, l} \in new <=> (i = k /\ l \in peers) \/ (l = k /\ i \in peers)
    <3>1. ASSUME NEW p \in peers, {i, l} = {p, k}
          PROVE  (i = k /\ l = p) \/ (l = k /\ i = p)
      <4>1. k \in {i, l} /\ p \in {i, l} /\ i \in {p, k} /\ l \in {p, k}
        BY <3>1
      <4> QED
        BY <2>2, <4>1
    <3>2. ASSUME i = k, l \in peers
          PROVE  {i, l} = {l, k}
      BY <3>2
    <3>3. ASSUME l = k, i \in peers
          PROVE  {i, l} = {i, k}
      BY <3>3
    <3> DEFINE q == {i, l}
    <3>4. q \in new <=> \E p \in peers : q = {p, k}
      BY <2>3
    <3> QED
      BY <3>1, <3>2, <3>3, <3>4
  <2> QED
    BY <2>1, <2>4
<1>5. \A i, l \in Keys : Tie(e, i, l) <=> {i, l} \in d.shares \/ {i, l} \in new
  BY <1>2 DEF Tie
<1>6. ~Tie(s, k, k)
  BY TieIs
<1> HIDE DEF e, d, new
<1> QED
  BY <1>1, <1>3, <1>4, <1>5, <1>6 DEF SharedTo, ShareTo, e

\* No two keys share the lack of an entity.
Filled(s) == \A i, j \in Keys : Tie(s, i, j) => s.data[i] # Nil

\* The other keys that a command may write to when it names ns: they share an entity
\* with one of ns that is not past its deadline.
Linked(s, ns, t) == {k \in Keys \ ns : \E q \in ns : Tie(s, k, q) /\ ~Expired(s, q, t)}

\* What is written to k stays inside ns and the keys linked.
Clear(s, k, ns, linked) == \A j \in Keys : Tie(s, j, k) => j \in ns \cup linked

\* What a command that names ns leaves alone on its way from s to e.
Keeps(s, e, ns, linked, t) ==
    /\ Good(e) /\ Filled(e)
    /\ \A k \in Keys \ ns : /\ e.ttl[k] = s.ttl[k]
                            /\ e.data[k] = Nil <=> s.data[k] = Nil
                            /\ k \notin linked => e.data[k] = s.data[k]
                            /\ \A j \in Keys \ ns : Tie(e, j, k) <=> Tie(s, j, k)
    /\ \A k \in ns : Clear(e, k, ns, linked) \/ Expired(e, k, t)
    /\ \A k \in ns : e.data[k] = Nil /\ e.ttl[k] # Never =>
                         e.ttl[k] = s.ttl[k] /\ ~Expired(s, k, t)

\* Every primitive keeps to this if it is for keys of ns that are clear.
LEMMA KeepsSelf ==
    ASSUME NEW s, Good(s), Filled(s), NEW ns \in SUBSET Keys, NEW t
    PROVE  Keeps(s, s, ns, Linked(s, ns, t), t)
<1>1. \A k \in ns : Clear(s, k, ns, Linked(s, ns, t)) \/ Expired(s, k, t)
  BY DEF Clear, Linked
<1>2. \A k \in ns : s.data[k] = Nil => ~Expired(s, k, t)
  BY DEF Expired
<1> QED
  BY <1>1, <1>2 DEF Keeps

LEMMA KeepsPut ==
    ASSUME NEW s, NEW e, NEW ns \in SUBSET Keys, NEW linked, NEW t, Keeps(s, e, ns, linked, t),
           NEW ks \in SUBSET ns, NEW x, x # Nil, NEW f, PutTo(e, ks, x, f)
    PROVE  /\ Keeps(s, f, ns, linked, t)
           /\ \A k \in ks : Clear(f, k, ns, linked)
<1>1. Good(f) /\ Filled(f)
  BY DEF Keeps, PutTo, Filled
<1>2. \A k \in ks : Clear(f, k, ns, linked)
  BY DEF Clear, PutTo
<1>3. \A k \in ns : Clear(f, k, ns, linked) \/ Expired(f, k, t)
  BY <1>2 DEF Clear, PutTo, Keeps, Expired
<1>4. \A k \in ns : f.data[k] = Nil /\ f.ttl[k] # Never =>
                         f.ttl[k] = s.ttl[k] /\ ~Expired(s, k, t)
  BY DEF PutTo, Keeps
<1>5. \A k \in Keys \ ns : /\ f.ttl[k] = e.ttl[k] /\ f.data[k] = e.data[k]
                           /\ \A j \in Keys \ ns : Tie(f, j, k) <=> Tie(e, j, k)
  BY DEF PutTo
<1> QED
  BY <1>1, <1>2, <1>3, <1>4, <1>5 DEF Keeps

LEMMA KeepsRem ==
    ASSUME NEW s, NEW e, NEW ns \in SUBSET Keys, NEW linked, NEW t, Keeps(s, e, ns, linked, t),
           NEW ks \in SUBSET ns, NEW f, RemTo(e, ks, f)
    PROVE  /\ Keeps(s, f, ns, linked, t)
           /\ \A k \in ks : Clear(f, k, ns, linked)
<1>1. Good(f) /\ Filled(f)
  BY DEF Keeps, RemTo, Filled
<1>2. \A k \in ks : Clear(f, k, ns, linked)
  BY DEF Clear, RemTo
<1>3. \A k \in ns : Clear(f, k, ns, linked) \/ Expired(f, k, t)
  BY <1>2 DEF Clear, RemTo, Keeps, Expired
<1>4. \A k \in ns : f.data[k] = Nil /\ f.ttl[k] # Never =>
                         f.ttl[k] = s.ttl[k] /\ ~Expired(s, k, t)
  BY DEF RemTo, Keeps
<1>5. \A k \in Keys \ ns : /\ f.ttl[k] = e.ttl[k] /\ f.data[k] = e.data[k]
                           /\ \A j \in Keys \ ns : Tie(f, j, k) <=> Tie(e, j, k)
  BY DEF RemTo
<1> QED
  BY <1>1, <1>2, <1>3, <1>4, <1>5 DEF Keeps

LEMMA KeepsWrite ==
    ASSUME NEW s, NEW e, NEW ns \in SUBSET Keys, NEW linked, NEW t, Keeps(s, e, ns, linked, t),
           NEW k \in ns, Clear(e, k, ns, linked), e.data[k] # Nil,
           NEW x \in Entities, x # Nil, NEW f, WriteTo(e, k, x, f)
    PROVE  Keeps(s, f, ns, linked, t)
<1>0. /\ Good(e)
      /\ \A j \in Keys : Tie(e, j, k) => e.data[j] # Nil /\ InPlace(e.data[j], x) # Nil
  BY TieIs, DbParts, InPlaceIs DEF Keeps
<1>1. \A j \in Keys : f.ttl[j] = e.ttl[j] /\ (f.data[j] = Nil <=> e.data[j] = Nil)
  BY <1>0 DEF WriteTo
<1>2. Good(f) /\ Filled(f)
  BY <1>1 DEF Keeps, WriteTo, Filled
<1>3. \A j \in ns : Clear(f, j, ns, linked) \/ Expired(f, j, t)
  BY <1>1 DEF Clear, WriteTo, Keeps, Expired
<1>4. \A j \in ns : f.data[j] = Nil /\ f.ttl[j] # Never =>
                         f.ttl[j] = s.ttl[j] /\ ~Expired(s, j, t)
  BY <1>1 DEF Keeps
<1>5. \A j \in Keys \ ns : /\ j \notin linked => f.data[j] = e.data[j]
                           /\ \A i \in Keys \ ns : Tie(f, i, j) <=> Tie(e, i, j)
  BY DEF WriteTo, Clear
<1> QED
  BY <1>1, <1>2, <1>3, <1>4, <1>5 DEF Keeps

LEMMA KeepsRetime ==
    ASSUME NEW s, NEW e, NEW ns \in SUBSET Keys, NEW linked, NEW t, Keeps(s, e, ns, linked, t),
           NEW k \in ns, Clear(e, k, ns, linked), NEW at,
           \/ at = Never
           \/ e.data[k] # Nil
           \/ at = s.ttl[k] /\ ~Expired(s, k, t),
           NEW f, RetimeTo(e, k, at, f)
    PROVE  Keeps(s, f, ns, linked, t)
<1>1. \A j \in Keys : f.data[j] = e.data[j] /\ (j # k => f.ttl[j] = e.ttl[j])
  BY DEF RetimeTo
<1>2. Good(f) /\ Filled(f)
  BY <1>1 DEF Keeps, RetimeTo, Filled
<1>3. \A j \in ns : Clear(f, j, ns, linked) \/ Expired(f, j, t)
  BY <1>1 DEF Clear, RetimeTo, Keeps, Expired
<1>4. \A j \in ns : f.data[j] = Nil /\ f.ttl[j] # Never =>
                         f.ttl[j] = s.ttl[j] /\ ~Expired(s, j, t)
  BY <1>1 DEF Keeps, RetimeTo
<1>5. \A j \in Keys \ ns : /\ f.ttl[j] = e.ttl[j]
                           /\ \A i \in Keys \ ns : Tie(f, i, j) <=> Tie(e, i, j)
  BY <1>1 DEF RetimeTo
<1> QED
  BY <1>1, <1>2, <1>3, <1>4, <1>5 DEF Keeps

LEMMA KeepsShare ==
    ASSUME NEW s, NEW e, NEW ns \in SUBSET Keys, NEW linked, NEW t, Keeps(s, e, ns, linked, t),
           NEW j \in ns, NEW k \in ns, j # k, Clear(e, j, ns, linked), e.data[j] # Nil,
           NEW f, ShareTo(e, j, k, f)
    PROVE  /\ Keeps(s, f, ns, linked, t)
           /\ Clear(f, j, ns, linked) /\ Clear(f, k, ns, linked)
<1>0. /\ Good(e)
      /\ \A i, l \in Keys : Tie(e, i, l) => Tie(e, l, i) /\ (e.data[i] = Nil <=> e.data[l] = Nil)
  BY TieIs DEF Keeps
<1>1. \A i \in Keys : /\ f.ttl[i] = e.ttl[i]
                      /\ i # k => f.data[i] = e.data[i]
  BY DEF ShareTo
<1>2. f.data[k] = e.data[j] /\ Good(f)
  BY DEF ShareTo
<1>3. Filled(f)
  <2> SUFFICES ASSUME NEW i \in Keys, NEW l \in Keys, Tie(f, i, l)
               PROVE  f.data[i] # Nil
    BY DEF Filled
  <2>1. CASE i = k
    BY <1>2, <2>1
  <2>2. CASE i # k /\ l # k
    BY <1>1, <2>2 DEF ShareTo, Keeps, Filled
  <2>3. CASE i # k /\ l = k
    <3>1. i = j \/ Tie(e, i, j)
      BY <2>3 DEF ShareTo
    <3> QED
      BY <1>0, <1>1, <2>3, <3>1
  <2> QED
    BY <2>1, <2>2, <2>3
<1>4. Clear(f, j, ns, linked) /\ Clear(f, k, ns, linked)
  BY DEF Clear, ShareTo
<1>5. \A i \in ns : Clear(f, i, ns, linked) \/ Expired(f, i, t)
  <2> SUFFICES ASSUME NEW i \in ns, i # k, ~Expired(f, i, t)
               PROVE  Clear(f, i, ns, linked)
    BY <1>4
  <2>1. Clear(e, i, ns, linked)
    BY <1>1 DEF Keeps, Expired
  <2> QED
    BY <2>1 DEF Clear, ShareTo
<1>6. \A i \in ns : f.data[i] = Nil /\ f.ttl[i] # Never =>
                         f.ttl[i] = s.ttl[i] /\ ~Expired(s, i, t)
  BY <1>1, <1>2 DEF Keeps
<1>7. \A i \in Keys \ ns : \A l \in Keys \ ns : Tie(f, l, i) <=> Tie(e, l, i)
  BY DEF ShareTo
<1> QED
  BY <1>1, <1>2, <1>3, <1>4, <1>5, <1>6, <1>7 DEF Keeps

\* After a look the keys looked at are not past their deadline.
LEMMA KeepsLook ==
    ASSUME NEW s, NEW e, NEW ns \in SUBSET Keys, NEW linked, NEW t, Keeps(s, e, ns, linked, t),
           NEW ks \in SUBSET ns, NEW f, f = Look(e, ks, t)
    PROVE  /\ Keeps(s, f, ns, linked, t)
           /\ \A k \in ks : Clear(f, k, ns, linked) /\ ~Expired(f, k, t)
<1> DEFINE gone == {k \in ks : Expired(e, k, t)}
<1>1. RemTo(e, gone, f)
  BY RemTie DEF Look, Keeps
<1>2. Keeps(s, f, ns, linked, t)
  BY <1>1, KeepsRem
<1>3. \A k \in ks : ~Expired(f, k, t)
  BY <1>1 DEF RemTo, Expired
<1> QED
  BY <1>2, <1>3 DEF Keeps

\* What command c leaves alone on the way from s to f, and where what is written to j goes.
Kept(s, f, c, t) == Keeps(s, f, KeysOf(c), Linked(s, KeysOf(c), t), t)
Free(s, f, j, c, t) == Clear(f, j, KeysOf(c), Linked(s, KeysOf(c), t))

\* A command leaves alone what it does not name; a line is for the same keys; and without
\* a line the command has only looked, if the history does not know better.
Runs(s, r, c, t) ==
    /\ Kept(s, r.db, c, t)
    /\ \/ /\ r.lines = <<>>
          /\ c.op \in Gaps \/ \E ks \in SUBSET KeysOf(c) : r.db = Look(s, ks, t)
       \/ \E l : r.lines = <<l>> /\ l.keys = c.keys /\ (l = c \/ l.op \notin Flushes)

\* The primitives of the executors, for a key of the command.
LEMMA KeptBy ==
    ASSUME NEW s, NEW c \in CmdType, c.op \notin Flushes, NEW t, NEW f, Kept(s, f, c, t),
           NEW k \in KeysOf(c)
    PROVE  /\ \A x \in Entities \ {Nil} :
                /\ Kept(s, PutEntity(f, k, x), c, t)
                /\ Kept(s, Persist(PutEntity(f, k, x), k), c, t)
                /\ \A at \in Deadlines \ {Never} :
                      Kept(s, Expire(PutEntity(f, k, x), k, at, t), c, t)
           /\ Free(s, f, k, c, t) => Kept(s, Persist(f, k), c, t)
           /\ Free(s, f, k, c, t) /\ f.data[k] # Nil =>
                /\ \A at \in Deadlines \ {Never} : Kept(s, Expire(f, k, at, t), c, t)
                /\ \A x \in Entities \ {Nil} : Kept(s, Write(f, k, x), c, t)
<1> DEFINE ns == KeysOf(c)
           linked == Linked(s, ns, t)
<1>1. ns \in SUBSET Keys /\ k \in Keys /\ {k} \in SUBSET ns /\ {k} \in SUBSET Keys
  BY KeysAre
<1>2. Keeps(s, f, ns, linked, t) /\ Good(f)
  BY DEF Kept, Keeps
<1>3. ASSUME NEW x \in Entities \ {Nil}, NEW p, p = PutEntity(f, k, x)
      PROVE  /\ Kept(s, p, c, t)
             /\ Kept(s, Persist(p, k), c, t)
             /\ \A at \in Deadlines \ {Never} : Kept(s, Expire(p, k, at, t), c, t)
  <2>1. PutTo(f, {k}, x, p)
    BY <1>1, <1>2, <1>3, PutTie DEF PutEntity
  <2> HIDE DEF ns, linked
  <2>2. Keeps(s, p, ns, linked, t) /\ Clear(p, k, ns, linked)
    BY <1>1, <1>2, <2>1, KeepsPut
  <2>3. Good(p) /\ p.data[k] # Nil
    BY <1>1, <2>1 DEF PutTo
  <2>4. Keeps(s, Persist(p, k), ns, linked, t)
    BY <1>1, <2>2, <2>3, KeepsRetime, RetimeTie
  <2>5. \A at \in Deadlines \ {Never} : Keeps(s, Expire(p, k, at, t), ns, linked, t)
    BY <1>1, <2>2, <2>3, KeepsRetime, RetimeTie
  <2> QED
    BY <2>2, <2>4, <2>5 DEF Kept, ns, linked
<1>4. ASSUME Free(s, f, k, c, t)
      PROVE  Kept(s, Persist(f, k), c, t)
  <2>1. Clear(f, k, ns, linked)
    BY <1>4 DEF Free
  <2> HIDE DEF ns, linked
  <2>2. Keeps(s, Persist(f, k), ns, linked, t)
    BY <1>1, <1>2, <2>1, KeepsRetime, RetimeTie
  <2> QED
    BY <2>2 DEF Kept, ns, linked
<1>5. ASSUME Free(s, f, k, c, t), f.data[k] # Nil
      PROVE  /\ \A at \in Deadlines \ {Never} : Kept(s, Expire(f, k, at, t), c, t)
             /\ \A x \in Entities \ {Nil} : Kept(s, Write(f, k, x), c, t)
  <2>1. Clear(f, k, ns, linked)
    BY <1>5 DEF Free
  <2> HIDE DEF ns, linked
  <2>2. \A at \in Deadlines \ {Never} : Keeps(s, Expire(f, k, at, t), ns, linked, t)
    BY <1>1, <1>2, <1>5, <2>1, KeepsRetime, RetimeTie
  <2>3. ASSUME NEW x \in Entities \ {Nil}
        PROVE  Keeps(s, Write(f, k, x), ns, linked, t)
    <3>1. WriteTo(f, k, x, Write(f, k, x))
      BY <1>1, <1>2, WriteTie
    <3> QED
      BY <1>1, <1>2, <1>5, <2>1, <3>1, KeepsWrite
  <2> QED
    BY <2>2, <2>3 DEF Kept, ns, linked
<1> QED
  BY <1>3, <1>4, <1>5

\* The same for bytes.
LEMMA KeptBytes ==
    ASSUME NEW s, NEW c \in CmdType, c.op \notin Flushes, NEW t, NEW f, Kept(s, f, c, t),
           NEW k \in KeysOf(c), Free(s, f, k, c, t),
           NEW x \in Entities \ {Nil}, NEW g, BytesPut(f, k, x, g)
    PROVE  Kept(s, g, c, t)
<1> DEFINE ns == KeysOf(c)
           linked == Linked(s, ns, t)
<1>1. ns \in SUBSET Keys /\ k \in Keys /\ k \in ns /\ {k} \in SUBSET ns /\ {k} \in SUBSET Keys
  BY KeysAre
<1>2. Keeps(s, f, ns, linked, t) /\ Good(f)
  BY DEF Kept, Keeps
<1>3. Clear(f, k, ns, linked)
  BY DEF Free
<1> HIDE DEF ns, linked
<1>4. ASSUME NEW d, WrittenTo(f, k, x, d), f.data[k] # Nil
      PROVE  Keeps(s, d, ns, linked, t) /\ Good(d)
  <2>1. WriteTo(f, k, x, d)
    BY <1>1, <1>2, <1>4, WriteTies
  <2>2. Keeps(s, d, ns, linked, t)
    BY <1>1, <1>2, <1>3, <1>4, <2>1, KeepsWrite
  <2> QED
    BY <1>4, <2>2 DEF WrittenTo
<1>5. ASSUME NEW d, Keeps(s, d, ns, linked, t), Good(d), PutInto(d, {k}, x, g)
      PROVE  Keeps(s, g, ns, linked, t)
  <2>1. PutTo(d, {k}, x, g)
    BY <1>1, <1>5, PutTies
  <2> QED
    BY <1>1, <1>5, <2>1, KeepsPut
<1>6. Keeps(s, g, ns, linked, t)
  BY <1>2, <1>4, <1>5 DEF BytesPut
<1> QED
  BY <1>6 DEF Kept, ns, linked

LEMMA KeptLook ==
    ASSUME NEW s, NEW c \in CmdType, c.op \notin Flushes, NEW t, NEW f, Kept(s, f, c, t),
           NEW ks \in SUBSET KeysOf(c)
    PROVE  /\ Kept(s, Look(f, ks, t), c, t) /\ Good(Look(f, ks, t))
           /\ \A k \in ks : /\ Free(s, Look(f, ks, t), k, c, t)
                            /\ ~Expired(Look(f, ks, t), k, t)
           /\ Kept(s, Removes(f, ks), c, t)
           /\ \A k \in ks : Free(s, Removes(f, ks), k, c, t)
<1> DEFINE ns == KeysOf(c)
           linked == Linked(s, ns, t)
           e == Look(f, ks, t)
           r == Removes(f, ks)
<1>1. ns \in SUBSET Keys
  BY KeysAre
<1>2. Keeps(s, f, ns, linked, t) /\ Good(f)
  BY DEF Kept, Keeps
<1>3. RemTo(f, ks, r)
  BY <1>1, <1>2, RemTie
<1> HIDE DEF r, linked
<1>4. Keeps(s, e, ns, linked, t) /\ \A k \in ks : Clear(e, k, ns, linked) /\ ~Expired(e, k, t)
  BY <1>1, <1>2, KeepsLook
<1>5. Keeps(s, r, ns, linked, t) /\ \A k \in ks : Clear(r, k, ns, linked)
  BY <1>1, <1>2, <1>3, KeepsRem
<1> QED
  BY <1>4, <1>5 DEF Kept, Free, Keeps, linked, r

\* Where the executors begin, and the ends without a line.
LEMMA RunsBase ==
    ASSUME NEW s, NEW c, NEW t, Asked(s, c, t), Filled(s)
    PROVE  /\ Key(c) \in KeysOf(c) /\ KeysOf(c) \in SUBSET Keys /\ c \in CmdType
           /\ c.op \notin Flushes /\ Kept(s, s, c, t)
           /\ Kept(s, Look(s, KeysOf(c), t), c, t) /\ Good(Look(s, KeysOf(c), t))
           /\ \A k \in KeysOf(c) : /\ Free(s, Look(s, KeysOf(c), t), k, c, t)
                                   /\ ~Expired(Look(s, KeysOf(c), t), k, t)
           /\ \A k \in Keys : Look(s, KeysOf(c), t).data[k] \in Entities
           /\ \A ks \in SUBSET KeysOf(c) :
                 /\ Runs(s, Ok(Look(s, ks, t), <<>>), c, t)
                 /\ Runs(s, Err(Look(s, ks, t)), c, t)
           /\ Runs(s, Ok(s, <<>>), c, t) /\ Runs(s, Err(s), c, t)
<1>1. /\ c \in CmdType /\ c.op \notin Flushes /\ Good(s)
      /\ Key(c) \in KeysOf(c) /\ KeysOf(c) \in SUBSET Keys
  BY KeysAre DEF Asked
<1>2. Kept(s, s, c, t)
  BY <1>1, KeepsSelf DEF Kept
<1>3. ASSUME NEW ks \in SUBSET KeysOf(c)
      PROVE  Runs(s, Ok(Look(s, ks, t), <<>>), c, t) /\ Runs(s, Err(Look(s, ks, t)), c, t)
  <2>1. Kept(s, Look(s, ks, t), c, t)
    BY <1>1, <1>2, KeptLook
  <2> DEFINE e == Look(s, ks, t)
  <2>2. \E is \in SUBSET KeysOf(c) : e = Look(s, is, t)
    OBVIOUS
  <2> HIDE DEF e
  <2>3. Ok(e, <<>>).db = e /\ Err(e).db = e /\ Ok(e, <<>>).lines = <<>> /\ Err(e).lines = <<>>
    BY DEF Ok, Err
  <2> QED
    BY <2>1, <2>2, <2>3 DEF Runs, e
<1>4. Look(s, {}, t) = s
  BY <1>1, LookFresh
<1>5. Runs(s, Ok(s, <<>>), c, t) /\ Runs(s, Err(s), c, t)
  BY <1>3, <1>4
<1>6. \A k \in Keys : Look(s, KeysOf(c), t).data[k] \in Entities
  BY AskedLook
<1> QED
  BY <1>1, <1>2, <1>3, <1>5, <1>6, KeptLook

LEMMA RunsLine ==
    ASSUME NEW s, NEW c, NEW t, NEW f, Kept(s, f, c, t)
    PROVE  /\ \A l : l.keys = c.keys /\ l.op \notin Flushes => Runs(s, Ok(f, <<l>>), c, t)
           /\ Runs(s, Ok(f, <<c>>), c, t)
           /\ c.op \in Gaps => Runs(s, Ok(f, <<>>), c, t)
BY DEF Runs, Ok

\* The executors one after another: those that read, persist or remove a key, ...
LEMMA RunsSimple ==
    ASSUME NEW s, NEW c, NEW t, Asked(s, c, t), Filled(s)
    PROVE  /\ Runs(s, ExecRead(s, c, t), c, t)
           /\ Runs(s, ExecGetEX(s, c, t), c, t)
           /\ Runs(s, ExecPersist(s, c, t), c, t)
           /\ Runs(s, ExecGetDel(s, c, t), c, t)
           /\ Runs(s, ExecDel(s, c, t), c, t)
<1> DEFINE e == Look(s, KeysOf(c), t)
           k == Key(c)
           found == {j \in KeysOf(c) : e.data[j] # Nil}
           l == [c EXCEPT !.op = "persist"]
<1>1. /\ k \in KeysOf(c) /\ c \in CmdType /\ c.op \notin Flushes /\ Kept(s, e, c, t)
      /\ Free(s, e, k, c, t) /\ Runs(s, Ok(e, <<>>), c, t) /\ Runs(s, Err(e), c, t)
  BY RunsBase
<1>2. l.keys = c.keys /\ l.op \notin Flushes
  BY CmdIs DEF CmdParts, Asked, Flushes
<1>3. found \in SUBSET KeysOf(c) /\ {k} \in SUBSET KeysOf(c)
  BY <1>1
<1> HIDE DEF e, l, k
<1>4. Kept(s, Persist(e, k), c, t)
  BY <1>1, KeptBy
<1>5. Kept(s, RemoveKey(e, k), c, t) /\ Kept(s, Removes(e, found), c, t)
  <2> HIDE DEF found
  <2> QED
    BY <1>1, <1>3, KeptLook DEF RemoveKey
<1>6. /\ Runs(s, Ok(Persist(e, k), <<l>>), c, t) /\ Runs(s, Ok(Persist(e, k), <<c>>), c, t)
      /\ Runs(s, Ok(RemoveKey(e, k), <<c>>), c, t)
      /\ Runs(s, Ok(Removes(e, found), <<c>>), c, t)
  BY <1>2, <1>4, <1>5, RunsLine
<1>7. found = {} => Removes(e, found) = e
  <2> SUFFICES ASSUME found = {}
               PROVE  Removes(e, {}) = e
    OBVIOUS
  <2>1. Good(e)
    BY <1>1 DEF Kept, Keeps
  <2>2. Look(e, {}, t) = e
    BY <2>1, LookFresh
  <2>3. {j \in {} : Expired(e, j, t)} = {}
    OBVIOUS
  <2> QED
    BY <2>2, <2>3 DEF Look
<1>8. Runs(s, ExecDel(s, c, t), c, t)
  BY <1>1, <1>6, <1>7 DEF ExecDel, e
<1> QED
  BY <1>1, <1>6, <1>8 DEF ExecRead, ExecGetEX, ExecPersist, ExecGetDel, e, k, l

\* ... those that put a string in its place, ...
LEMMA RunsPut ==
    ASSUME NEW s, NEW c, NEW t, Asked(s, c, t), Filled(s), c.op \notin ZOps
    PROVE  /\ Runs(s, ExecSet(s, c, t), c, t)
           /\ Runs(s, ExecSetNX(s, c, t), c, t)
           /\ Runs(s, ExecGetSet(s, c, t), c, t)
<1> DEFINE e == Look(s, KeysOf(c), t)
           k == Key(c)
<1>1. /\ k \in KeysOf(c) /\ c \in CmdType /\ c.op \notin Flushes /\ Kept(s, e, c, t)
      /\ Kept(s, s, c, t) /\ Runs(s, Ok(e, <<>>), c, t) /\ Runs(s, Err(e), c, t)
      /\ Runs(s, Ok(s, <<>>), c, t)
  BY RunsBase
<1>2. Str(c.val) \in Entities \ {Nil}
  BY ValIs, StrIs DEF Asked
<1> HIDE DEF e, k
<1>3. /\ Kept(s, PutEntity(s, k, Str(c.val)), c, t)
      /\ Kept(s, Persist(PutEntity(s, k, Str(c.val)), k), c, t)
      /\ Kept(s, Persist(PutEntity(e, k, Str(c.val)), k), c, t)
  BY <1>1, <1>2, KeptBy
<1>4. /\ Runs(s, Ok(PutEntity(s, k, Str(c.val)), <<c>>), c, t)
      /\ Runs(s, Ok(s, <<c>>), c, t)
      /\ Runs(s, Ok(Persist(PutEntity(s, k, Str(c.val)), k), <<c>>), c, t)
      /\ Runs(s, Ok(Persist(PutEntity(e, k, Str(c.val)), k), <<c>>), c, t)
  BY <1>1, <1>3, RunsLine
<1> QED
  BY <1>1, <1>4 DEF ExecSet, ExecSetNX, ExecGetSet, e, k

\* ... with a deadline, ...
LEMMA RunsSetEX ==
    ASSUME NEW s, NEW c, NEW t, Asked(s, c, t), Filled(s), c.op \in {"setex", "psetex"}
    PROVE  /\ c.op = "setex" => Runs(s, ExecSetEX(s, c, t), c, t)
           /\ Runs(s, ExecPSetEX(s, c, t), c, t)
<1> DEFINE k == Key(c)
           p == PutEntity(s, k, Str(c.val))
           l == [c EXCEPT !.op = "setex"]
<1>1. /\ k \in KeysOf(c) /\ c \in CmdType /\ c.op \notin Flushes /\ Kept(s, s, c, t)
      /\ Runs(s, Err(s), c, t)
  BY RunsBase
<1>2. Str(c.val) \in Entities \ {Nil}
  BY ValIs, StrIs DEF Asked, ZOps
<1>3. t + c.n * Second \in Deadlines \ {Never} /\ t + c.n \in Deadlines \ {Never}
  <2> DEFINE m == c.n * Second
  <2>0. CmdParts(c)
    BY <1>1, CmdIs
  <2>1. m \in Nat /\ m >= c.n
    BY <2>0, ClockAssumption DEF CmdParts
  <2>2. MaxTime + m < Never /\ c.n \in Nat
    BY <2>0 DEF CmdParts
  <2> HIDE DEF m
  <2>3. t + m \in Deadlines \ {Never} /\ t + c.n \in Deadlines \ {Never}
    BY <2>1, <2>2, ClockAssumption, NeverIs DEF Asked, Times, Deadlines
  <2> QED
    BY <2>3 DEF m
<1>4. l.keys = c.keys /\ l.op \notin Flushes
  BY CmdIs DEF CmdParts, Asked, Flushes
<1> HIDE DEF k, l
<1>5. /\ Kept(s, Expire(p, k, t + c.n * Second, t), c, t)
      /\ Kept(s, Expire(p, k, t + c.n, t), c, t)
  BY <1>1, <1>2, <1>3, KeptBy
<1>6. /\ Runs(s, Ok(Expire(p, k, t + c.n * Second, t), <<c>>), c, t)
      /\ Runs(s, Ok(Expire(p, k, t + c.n, t), <<l>>), c, t)
  BY <1>4, <1>5, RunsLine
<1> QED
  BY <1>1, <1>6 DEF ExecSetEX, ExecPSetEX, k, l, p

\* ... for several keys at once, ...
LEMMA RunsMSet ==
    ASSUME NEW s, NEW c, NEW t, Asked(s, c, t), Filled(s), c.op \notin ZOps
    PROVE  /\ Runs(s, ExecMSet(s, c, t), c, t)
           /\ Runs(s, ExecMSetNX(s, c, t), c, t)
<1> DEFINE Found(i) == Visible(s, c.keys[i], t) # Nil
           seen == {i \in DOMAIN c.keys : \A j \in 1 .. i - 1 : ~Found(j)}
           ks == {c.keys[i] : i \in seen}
           e == Look(s, ks, t)
           ns == KeysOf(c)
           linked == Linked(s, ns, t)
<1>1. ks \in SUBSET KeysOf(c)
  BY DEF KeysOf, ToSet
<1>2. /\ KeysOf(c) \in SUBSET Keys /\ c \in CmdType /\ c.op \notin Flushes /\ Kept(s, s, c, t)
      /\ Runs(s, Ok(e, <<>>), c, t) /\ Kept(s, e, c, t)
  <2> HIDE DEF ks
  <2> QED
    BY <1>1, RunsBase, KeptLook
<1>3. Str(c.val) \in Entities \ {Nil}
  BY ValIs, StrIs DEF Asked
<1> HIDE DEF e, linked
<1>4. ASSUME NEW f, Kept(s, f, c, t)
      PROVE  Kept(s, PutAll(f, c), c, t)
  <2>1. Keeps(s, f, ns, linked, t)
    BY <1>4 DEF Kept, linked
  <2>2. PutTo(f, ns, Str(c.val), PutAll(f, c))
    BY <1>2, <1>3, <2>1, PutTie DEF PutAll, Keeps
  <2>3. Keeps(s, PutAll(f, c), ns, linked, t)
    BY <1>2, <1>3, <2>1, <2>2, KeepsPut
  <2> QED
    BY <2>3 DEF Kept, linked
<1>5. Runs(s, Ok(PutAll(s, c), <<c>>), c, t) /\ Runs(s, Ok(PutAll(e, c), <<c>>), c, t)
  BY <1>2, <1>4, RunsLine
<1> QED
  BY <1>2, <1>5 DEF ExecMSet, ExecMSetNX, e, ks, Found, seen

\* ... numbers, ...
LEMMA RunsIncr ==
    ASSUME NEW s, NEW c, NEW t, Asked(s, c, t), Filled(s)
    PROVE  Runs(s, ExecIncr(s, c, t), c, t)
<1> DEFINE e == Look(s, KeysOf(c), t)
           k == Key(c)
           x == e.data[k]
           l == [c EXCEPT !.op = IF @ = "incrbyfloat" THEN "incrfloat" ELSE @]
           Put(i) == Ok(PutEntity(e, k, Str(<<i>>)), <<l>>)
<1>1. /\ k \in KeysOf(c) /\ k \in Keys /\ c \in CmdType /\ c.op \notin Flushes
      /\ Kept(s, e, c, t) /\ Runs(s, Ok(e, <<>>), c, t) /\ Runs(s, Err(e), c, t)
      /\ x \in Entities
  BY RunsBase
<1>2. l.keys = c.keys /\ l.op \notin Flushes
  BY CmdIs DEF CmdParts, Asked, Flushes
<1>3. ExecIncr(s, c, t) = IF x = Nil THEN Put(1 % IntMod)
                          ELSE IF ~IsNumber(x) THEN Err(e)
                          ELSE Put((x.str[1] + 1) % IntMod)
  BY DEF ExecIncr
<1> HIDE DEF e, k, x, l
<1>4. \A i \in Pieces : Runs(s, Put(i), c, t)
  <2> SUFFICES ASSUME NEW i \in Pieces PROVE Runs(s, Put(i), c, t)
    OBVIOUS
  <2>1. <<i>> \in Values
    BY DEF Values
  <2>2. Kept(s, PutEntity(e, k, Str(<<i>>)), c, t)
    BY <1>1, <2>1, StrIs, KeptBy
  <2> QED
    BY <1>2, <2>2, RunsLine
<1> HIDE DEF Put
<1> QED
  BY <1>1, <1>3, <1>4, NumbersAre DEF NumberIs

\* ... bytes in place, ...
LEMMA RunsAppend ==
    ASSUME NEW s, NEW c, NEW t, Asked(s, c, t), Filled(s), c.op \notin ZOps
    PROVE  Runs(s, ExecAppend(s, c, t), c, t)
<1> DEFINE e == Look(s, KeysOf(c), t)
           k == Key(c)
           x == e.data[k]
           y == Appended(x, c)
           f == PutBytes(e, k, y, FALSE)
<1>1. /\ k \in KeysOf(c) /\ k \in Keys /\ c \in CmdType /\ c.op \notin Flushes /\ Good(e)
      /\ Kept(s, e, c, t) /\ Free(s, e, k, c, t) /\ Runs(s, Err(e), c, t) /\ x \in Entities
  BY RunsBase
<1>2. ExecAppend(s, c, t) = IF IsZSet(x) THEN Err(e) ELSE Ok(f, <<c>>)
  BY DEF ExecAppend, Appended
<1> HIDE DEF e, k
<1>3. ASSUME ~IsZSet(x)
      PROVE  Kept(s, f, c, t)
  <2> HIDE DEF x
  <2>1. y \in Entities /\ IsStr(y)
    BY <1>1, <1>3, WrittenIs
  <2> HIDE DEF y
  <2>2. y # Nil
    BY <2>1 DEF IsStr
  <2>3. BytesPut(e, k, y, f)
    BY <1>1, <2>1, PutBytesIs
  <2> HIDE DEF f
  <2> QED
    BY <1>1, <2>1, <2>2, <2>3, KeptBytes
<1> HIDE DEF f, x
<1>4. Kept(s, f, c, t) => Runs(s, Ok(f, <<c>>), c, t)
  BY RunsLine
<1> QED
  BY <1>1, <1>2, <1>3, <1>4

LEMMA RunsSetRange ==
    ASSUME NEW s, NEW c, NEW t, Asked(s, c, t), Filled(s), c.op \in {"setrange", "setbit"}
    PROVE  Runs(s, ExecSetRange(s, c, t), c, t)
<1> DEFINE e == Look(s, KeysOf(c), t)
           k == Key(c)
           x == e.data[k]
           y == Overwritten(x, c)
           begun == c.op = "setrange" /\ x # Nil /\ c.n <= e.cap[k]
           f == PutBytes(e, k, y, begun)
           lines == IF c.op = "setbit" THEN <<>> ELSE <<c>>
<1>1. /\ k \in KeysOf(c) /\ k \in Keys /\ c \in CmdType /\ c.op \notin Flushes /\ Good(e)
      /\ Kept(s, e, c, t) /\ Free(s, e, k, c, t) /\ Runs(s, Err(e), c, t) /\ x \in Entities
  BY RunsBase
<1>2. ExecSetRange(s, c, t) = IF IsZSet(x) THEN Err(e) ELSE Ok(f, lines)
  BY DEF ExecSetRange, Overwritten
<1>5. c.op \notin ZOps
  BY DEF ZOps
<1> HIDE DEF e, k
<1>3. ASSUME ~IsZSet(x)
      PROVE  Kept(s, f, c, t)
  <2>0. begun \in BOOLEAN /\ (begun => x # Nil)
    OBVIOUS
  <2> HIDE DEF begun
  <2>1. y \in Entities /\ IsStr(y)
    <3> HIDE DEF x
    <3> QED
      BY <1>1, <1>3, <1>5, WrittenIs
  <2> HIDE DEF y
  <2>2. y # Nil
    BY <2>1 DEF IsStr
  <2>3. BytesPut(e, k, y, f)
    BY <1>1, <2>0, <2>1, PutBytesIs
  <2> HIDE DEF f, x
  <2> QED
    BY <1>1, <2>1, <2>2, <2>3, KeptBytes
<1> HIDE DEF f, x
<1>4. Kept(s, f, c, t) => Runs(s, Ok(f, lines), c, t)
  BY RunsLine DEF Gaps
<1> HIDE DEF lines
<1> QED
  BY <1>1, <1>2, <1>3, <1>4

\* ... deadlines, ...
LEMMA RunsExpire ==
    ASSUME NEW s, NEW c, NEW t, Asked(s, c, t), Filled(s), c.op \in {"expire", "pexpireat"}
    PROVE  Runs(s, ExecExpire(s, c, t), c, t)
<1> DEFINE e == Look(s, KeysOf(c), t)
           k == Key(c)
           at == ExpireAt(c, t)
           l == [c EXCEPT !.op = "pexpireat", !.n = at]
<1>1. /\ k \in KeysOf(c) /\ c \in CmdType /\ c.op \notin Flushes
      /\ Kept(s, e, c, t) /\ Free(s, e, k, c, t) /\ Runs(s, Ok(e, <<>>), c, t)
  BY RunsBase
<1>2. at \in Deadlines \ {Never}
  BY ExpireAtIs DEF Asked
<1>3. l.keys = c.keys /\ l.op \notin Flushes
  BY CmdIs DEF CmdParts, Asked, Flushes
<1>4. ExecExpire(s, c, t) = IF e.data[k] = Nil THEN Ok(e, <<>>)
                            ELSE Ok(Expire(e, k, at, t), <<l>>)
  BY DEF ExecExpire, ExpireAt
<1> HIDE DEF e, k, at, l
<1>5. e.data[k] # Nil => Kept(s, Expire(e, k, at, t), c, t)
  BY <1>1, <1>2, KeptBy
<1>6. e.data[k] # Nil => Runs(s, Ok(Expire(e, k, at, t), <<l>>), c, t)
  BY <1>3, <1>5, RunsLine
<1> QED
  BY <1>1, <1>4, <1>6

\* ... and sorted sets.
LEMMA RunsZAdd ==
    ASSUME NEW s, NEW c, NEW t, Asked(s, c, t), Filled(s), c.op \in {"zadd", "zincrby"}
    PROVE  Runs(s, ExecZAdd(s, c, t), c, t)
<1> DEFINE e == Look(s, KeysOf(c), t)
           k == Key(c)
           x == e.data[k]
           z == Scores(x)
           score == IF c.op = "zincrby" /\ c.val \in DOMAIN z THEN z[c.val] + c.n ELSE c.n
           y == ZSet(SetScore(z, c.val, score))
<1>1. /\ k \in KeysOf(c) /\ k \in Keys /\ c \in CmdType /\ c.op \notin Flushes
      /\ Kept(s, e, c, t) /\ Free(s, e, k, c, t) /\ Runs(s, Err(e), c, t)
      /\ x \in Entities
  BY RunsBase
<1>2. c.val \in Members /\ c.n \in Nat
  BY CmdIs DEF Asked, CmdParts, ZOps
<1>3. ExecZAdd(s, c, t) = IF IsStr(x) THEN Err(e)
                          ELSE Ok(IF x = Nil THEN PutEntity(e, k, y) ELSE Write(e, k, y), <<c>>)
  BY DEF ExecZAdd
<1> HIDE DEF e, k
<1>4. CASE ~IsStr(x)
  <2>1. DOMAIN z \in SUBSET Members /\ z \in [DOMAIN z -> Nat]
    <3> HIDE DEF x
    <3> QED
      BY <1>1, <1>4, ScoresAre
  <2> HIDE DEF z
  <2>2. score \in Nat
    BY <1>2, <2>1
  <2> HIDE DEF score
  <2>3. y \in Entities \ {Nil}
    <3>1. Scored(DOMAIN z, z, c.val, score, SetScore(z, c.val, score)) /\ y \in Entities
      BY <1>2, <2>1, <2>2, ScoredIs
    <3>2. DOMAIN z \cup {c.val} \in SUBSET Members
      BY <1>2, <2>1
    <3> QED
      BY <3>1, <3>2, NotNil DEF Scored
  <2> HIDE DEF y
  <2>4. Kept(s, PutEntity(e, k, y), c, t) /\ (x # Nil => Kept(s, Write(e, k, y), c, t))
    BY <1>1, <2>3, KeptBy
  <2> QED
    BY <1>3, <1>4, <2>4, RunsLine
<1> QED
  BY <1>1, <1>3, <1>4

LEMMA RunsZRem ==
    ASSUME NEW s, NEW c, NEW t, Asked(s, c, t), Filled(s)
    PROVE  Runs(s, ExecZRem(s, c, t), c, t)
<1> DEFINE e == Look(s, KeysOf(c), t)
           k == Key(c)
           x == e.data[k]
           z == Scores(x)
           left == DOMAIN z \ Doomed(z, c)
           rest == [m \in left |-> z[m]]
<1>1. /\ k \in KeysOf(c) /\ k \in Keys /\ c \in CmdType /\ c.op \notin Flushes
      /\ Kept(s, e, c, t) /\ Free(s, e, k, c, t) /\ Runs(s, Err(e), c, t)
      /\ Runs(s, Ok(e, <<>>), c, t) /\ x \in Entities
  BY RunsBase
<1>2. ExecZRem(s, c, t) = IF x = Nil THEN Ok(e, <<>>)
                          ELSE IF IsStr(x) THEN Err(e)
                          ELSE IF left = DOMAIN z THEN Ok(e, <<>>)
                          ELSE Ok(Write(e, k, ZSet(rest)), <<c>>)
  BY DEF ExecZRem
<1> HIDE DEF e, k
<1>3. CASE x # Nil /\ ~IsStr(x)
  <2>1. DOMAIN z \in SUBSET Members /\ z \in [DOMAIN z -> Nat]
    <3> HIDE DEF x
    <3> QED
      BY <1>1, <1>3, ScoresAre
  <2>2. left \in SUBSET Members /\ left \subseteq DOMAIN z
    BY <2>1
  <2> HIDE DEF z, left
  <2>4. rest \in [left -> Nat]
    BY <2>1, <2>2
  <2> HIDE DEF rest
  <2>5. ZSet(rest) \in Entities \ {Nil}
    BY <2>2, <2>4, NotNil
  <2>6. Kept(s, Write(e, k, ZSet(rest)), c, t)
    BY <1>1, <1>3, <2>5, KeptBy
  <2>7. Runs(s, Ok(Write(e, k, ZSet(rest)), <<c>>), c, t)
    BY <2>6, RunsLine
  <2> QED
    BY <1>1, <1>2, <1>3, <2>7
<1> QED
  BY <1>1, <1>2, <1>3

\* Two looks are one.
LEMMA LookTwice ==
    ASSUME NEW s, Good(s), NEW ks \in SUBSET Keys, NEW js \in SUBSET Keys, NEW t
    PROVE  Look(Look(s, ks, t), js, t) = Look(s, ks \cup js, t)
<1> DEFINE X == {k \in ks : Expired(s, k, t)}
           d == Removes(s, X)
           Y == {k \in js : Expired(d, k, t)}
           e == Removes(d, Y)
           Z == {k \in ks \cup js : Expired(s, k, t)}
           f == Removes(s, Z)
<1>1. Look(Look(s, ks, t), js, t) = e /\ Look(s, ks \cup js, t) = f
  BY DEF Look
<1>2. X \in SUBSET Keys /\ Y \in SUBSET Keys /\ Z \in SUBSET Keys
  OBVIOUS
<1>3. RemovedFrom(s, X, d) /\ RemovedFrom(s, Z, f)
  <2> HIDE DEF X, Z
  <2> QED
    BY <1>2, RemovesIs
<1>4. Z = X \cup Y
  <2>1. \A k \in js : k \in Y <=> Expired(s, k, t) /\ k \notin X
    BY <1>3 DEF RemovedFrom, Expired
  <2>2. \A k \in ks : k \in X <=> Expired(s, k, t)
    OBVIOUS
  <2>3. Y \subseteq js /\ X \subseteq ks
    OBVIOUS
  <2>4. \A k : k \in Z <=> (k \in ks \/ k \in js) /\ Expired(s, k, t)
    OBVIOUS
  <2> HIDE DEF X, Y, Z
  <2> QED
    BY <2>1, <2>2, <2>3, <2>4
<1>5. RemovedFrom(d, Y, e)
  <2> HIDE DEF Y, d
  <2> QED
    BY <1>2, <1>3, RemovesIs DEF RemovedFrom
<1> HIDE DEF X, Y, Z, d, e, f
<1>6. e.data = f.data
  <2>1. e.data \in [Keys -> Entities] /\ f.data \in [Keys -> Entities]
    BY <1>3, <1>5, DbParts DEF RemovedFrom
  <2>2. \A k \in Keys : e.data[k] = f.data[k]
    BY <1>3, <1>4, <1>5 DEF RemovedFrom
  <2> QED
    BY <2>1, <2>2
<1>7. e.ttl = f.ttl
  <2>1. e.ttl \in [Keys -> Deadlines] /\ f.ttl \in [Keys -> Deadlines]
    BY <1>3, <1>5, DbParts DEF RemovedFrom
  <2>2. \A k \in Keys : e.ttl[k] = f.ttl[k]
    BY <1>3, <1>4, <1>5 DEF RemovedFrom
  <2> QED
    BY <2>1, <2>2
<1>8. e.jobs = f.jobs
  BY <1>3, <1>4, <1>5 DEF RemovedFrom
<1>9. e.shares = f.shares
  BY <1>3, <1>4, <1>5 DEF RemovedFrom, Apart
<1>10. /\ e = [data |-> e.data, ttl |-> e.ttl, jobs |-> e.jobs, shares |-> e.shares, cap |-> e.cap]
       /\ f = [data |-> f.data, ttl |-> f.ttl, jobs |-> f.jobs, shares |-> f.shares, cap |-> f.cap]
  BY <1>3, <1>5, DbParts DEF RemovedFrom
<1>11. e.cap = f.cap
  <2>1. /\ d.cap = [k \in Keys |-> IF k \in X THEN Room(Nil) ELSE s.cap[k]]
        /\ e.cap = [k \in Keys |-> IF k \in Y THEN Room(Nil) ELSE d.cap[k]]
        /\ f.cap = [k \in Keys |-> IF k \in Z THEN Room(Nil) ELSE s.cap[k]]
    BY <1>2, <1>3, RemovesCap DEF RemovedFrom, d, e, f
  <2> QED
    BY <1>4, <2>1
<1> QED
  BY <1>1, <1>6, <1>7, <1>8, <1>9, <1>10, <1>11

\* A removal and a deadline open no way out of ns.
LEMMA ClearRest ==
    ASSUME NEW f, NEW g, NEW ns, NEW linked, NEW k \in Keys, Clear(f, k, ns, linked)
    PROVE  /\ \A ks : RemTo(f, ks, g) => Clear(g, k, ns, linked)
           /\ \A j, at : RetimeTo(f, j, at, g) => Clear(g, k, ns, linked)
BY DEF Clear, RemTo, RetimeTo

\* RENAME, RENAMENX and COPY: an entity goes from one key of the command to the other.
LEMMA KeptMove ==
    ASSUME NEW s, NEW c \in CmdType, c.op \notin Flushes, NEW t, NEW e, Kept(s, e, c, t),
           NEW src \in KeysOf(c), NEW dest \in KeysOf(c),
           Free(s, e, src, c, t), e.data[src] # Nil,
           e.ttl[src] = s.ttl[src], ~Expired(s, src, t)
    PROVE  Kept(s, Move(e, src, dest, t), c, t)
<1> DEFINE ns == KeysOf(c)
           linked == Linked(s, ns, t)
           f == Share(e, src, dest)
           m == RemoveKey(f, src)
           p == Persist(m, dest)
           at == e.ttl[src]
<1>1. ns \in SUBSET Keys /\ src \in Keys /\ dest \in Keys /\ {src} \in SUBSET ns
      /\ {src} \in SUBSET Keys /\ src \in ns /\ dest \in ns
  BY KeysAre
<1>2. Keeps(s, e, ns, linked, t) /\ Good(e) /\ Clear(e, src, ns, linked)
  BY DEF Kept, Keeps, Free
<1>3. at \in Deadlines
  BY <1>1, <1>2, DbParts
<1>4. Move(e, src, dest, t) = IF at = Never THEN m ELSE Expire(p, dest, at, t)
  BY DEF Move
<1> HIDE DEF ns, linked, at, p, m
<1>5. /\ Keeps(s, f, ns, linked, t) /\ Good(f)
      /\ src = dest \/ (Clear(f, dest, ns, linked) /\ f.data[dest] # Nil)
  <2>1. CASE src = dest
    BY <1>2, <2>1 DEF Share
  <2>2. CASE src # dest
    <3>1. ShareTo(e, src, dest, f)
      BY <1>1, <1>2, <2>2, ShareTie
    <3> HIDE DEF f
    <3>2. Keeps(s, f, ns, linked, t) /\ Clear(f, dest, ns, linked)
      BY <1>1, <1>2, <2>2, <3>1, KeepsShare
    <3> QED
      BY <1>1, <3>1, <3>2 DEF ShareTo
  <2> QED
    BY <2>1, <2>2
<1> HIDE DEF f
<1>6. /\ Keeps(s, m, ns, linked, t) /\ Good(m) /\ Clear(m, dest, ns, linked)
      /\ src = dest \/ m.data[dest] # Nil
  <2>1. RemTo(f, {src}, m)
    BY <1>1, <1>5, RemTie DEF m, RemoveKey
  <2>2. Keeps(s, m, ns, linked, t) /\ \A k \in {src} : Clear(m, k, ns, linked)
    BY <1>1, <1>5, <2>1, KeepsRem
  <2>3. src # dest => Clear(m, dest, ns, linked)
    BY <1>1, <1>5, <2>1, ClearRest
  <2> QED
    BY <1>1, <1>5, <2>1, <2>2, <2>3 DEF RemTo
<1>7. /\ Keeps(s, p, ns, linked, t) /\ Good(p) /\ Clear(p, dest, ns, linked)
      /\ src = dest \/ p.data[dest] # Nil
  <2>1. RetimeTo(m, dest, Never, p)
    BY <1>1, <1>6, RetimeTie DEF p
  <2>2. Keeps(s, p, ns, linked, t)
    BY <1>1, <1>6, <2>1, KeepsRetime
  <2>3. Clear(p, dest, ns, linked)
    BY <1>1, <1>6, <2>1, ClearRest
  <2> QED
    BY <1>1, <1>6, <2>1, <2>2, <2>3 DEF RetimeTo
<1>8. at # Never => Keeps(s, Expire(p, dest, at, t), ns, linked, t)
  <2> SUFFICES ASSUME at # Never PROVE Keeps(s, Expire(p, dest, at, t), ns, linked, t)
    OBVIOUS
  <2>1. RetimeTo(p, dest, at, Expire(p, dest, at, t))
    BY <1>1, <1>3, <1>7, RetimeTie
  <2>2. src = dest => at = s.ttl[dest] /\ ~Expired(s, dest, t)
    BY DEF at
  <2> QED
    BY <1>1, <1>7, <2>1, <2>2, KeepsRetime
<1> QED
  BY <1>4, <1>6, <1>8 DEF Kept, ns, linked

\* A key that is there after a look.
LEMMA LookKeeps ==
    ASSUME NEW s, Good(s), NEW ks \in SUBSET Keys, NEW t, NEW k \in Keys,
           Look(s, ks, t).data[k] # Nil
    PROVE  /\ Look(s, ks, t).ttl[k] = s.ttl[k] /\ Look(s, ks, t).data[k] = s.data[k]
           /\ k \in ks => ~Expired(s, k, t)
<1>1. LookedAt(s, ks, t, Look(s, ks, t))
  BY LookIs
<1> QED
  BY <1>1 DEF LookedAt, Expired

LEMMA RunsRename ==
    ASSUME NEW s, NEW c, NEW t, Asked(s, c, t), Filled(s), c.op \in Pairs
    PROVE  /\ Runs(s, ExecRename(s, c, t), c, t)
           /\ Runs(s, ExecRenameNx(s, c, t), c, t)
<1> DEFINE src == Key(c)
           dest == c.keys[2]
           ns == KeysOf(c)
<1>1. /\ src \in ns /\ dest \in ns /\ src \in Keys /\ dest \in Keys /\ ns \in SUBSET Keys
      /\ c \in CmdType /\ c.op \notin Flushes /\ Good(s) /\ Kept(s, s, c, t)
      /\ ns = {src, dest}
  BY RunsBase, KeysAre DEF Asked
<1> HIDE DEF src, dest
<1>2. ASSUME NEW ks \in SUBSET ns, src \in ks, NEW e, e = Look(s, ks, t), e.data[src] # Nil
      PROVE  Runs(s, Ok(Move(e, src, dest, t), <<c>>), c, t)
  <2>1. Kept(s, e, c, t) /\ Free(s, e, src, c, t)
    BY <1>1, <1>2, KeptLook
  <2>2. e.ttl[src] = s.ttl[src] /\ ~Expired(s, src, t)
    BY <1>1, <1>2, LookKeeps
  <2>3. Kept(s, Move(e, src, dest, t), c, t)
    BY <1>1, <1>2, <2>1, <2>2, KeptMove
  <2> QED
    BY <2>3, RunsLine
<1>3. ASSUME NEW ks \in SUBSET ns, NEW e, e = Look(s, ks, t)
      PROVE  Runs(s, Ok(e, <<>>), c, t) /\ Runs(s, Err(e), c, t)
  BY <1>3, RunsBase
<1>4. Runs(s, ExecRename(s, c, t), c, t)
  <2> DEFINE e == Look(s, {src}, t)
  <2>1. {src} \in SUBSET ns
    BY <1>1
  <2>2. ExecRename(s, c, t) = IF e.data[src] = Nil THEN Err(e)
                              ELSE Ok(Move(e, src, dest, t), <<c>>)
    BY DEF ExecRename, src, dest
  <2>3. Runs(s, Err(e), c, t)
    BY <1>3, <2>1
  <2>4. e.data[src] # Nil => Runs(s, Ok(Move(e, src, dest, t), <<c>>), c, t)
    BY <1>2, <2>1
  <2> QED
    BY <2>2, <2>3, <2>4
<1>5. Runs(s, ExecRenameNx(s, c, t), c, t)
  <2> DEFINE d == Look(s, {dest}, t)
             e == Look(d, {src}, t)
  <2>1. {dest} \in SUBSET ns /\ ns \in SUBSET ns
    BY <1>1
  <2>2. ExecRenameNx(s, c, t) = IF d.data[dest] # Nil THEN Ok(d, <<>>)
                                ELSE IF e.data[src] = Nil THEN Err(e)
                                ELSE Ok(Move(e, src, dest, t), <<c>>)
    BY DEF ExecRenameNx, src, dest
  <2>3. e = Look(s, ns, t)
    <3>1. e = Look(s, {dest} \cup {src}, t)
      BY <1>1, LookTwice
    <3>2. {dest} \cup {src} = ns
      BY <1>1
    <3> QED
      BY <3>1, <3>2
  <2>4. Runs(s, Ok(d, <<>>), c, t)
    BY <1>3, <2>1
  <2> HIDE DEF e, d
  <2>5. Runs(s, Err(e), c, t)
    BY <1>3, <2>1, <2>3
  <2>6. e.data[src] # Nil => Runs(s, Ok(Move(e, src, dest, t), <<c>>), c, t)
    BY <1>1, <1>2, <2>1, <2>3
  <2> QED
    BY <2>2, <2>4, <2>5, <2>6
<1> QED
  BY <1>4, <1>5

LEMMA RunsCopy ==
    ASSUME NEW s, NEW c, NEW t, Asked(s, c, t), Filled(s), c.op \in Pairs
    PROVE  Runs(s, ExecCopy(s, c, t), c, t)
<1> DEFINE src == Key(c)
           dest == c.keys[2]
           ns == KeysOf(c)
           linked == Linked(s, ns, t)
           d == Look(s, {src}, t)
           e == Look(d, {dest}, t)
           copied == Share(e, src, dest)
           at == e.ttl[src]
           f == IF at = Never THEN copied ELSE Expire(copied, dest, at, t)
<1>1. /\ src \in ns /\ dest \in ns /\ src \in Keys /\ dest \in Keys /\ ns \in SUBSET Keys
      /\ c \in CmdType /\ c.op \notin Flushes /\ Good(s) /\ Kept(s, s, c, t)
      /\ ns = {src, dest} /\ Runs(s, Err(s), c, t)
  BY RunsBase, KeysAre DEF Asked
<1>2. ExecCopy(s, c, t) = IF src = dest THEN Err(s)
                          ELSE IF d.data[src] = Nil THEN Ok(d, <<>>)
                          ELSE IF e.data[dest] # Nil /\ c.op = "copy" THEN Ok(e, <<>>)
                          ELSE Ok(f, <<c>>)
  BY DEF ExecCopy
<1>3. {src} \in SUBSET ns /\ ns \in SUBSET ns /\ {src} \in SUBSET Keys /\ {dest} \in SUBSET Keys
  BY <1>1
<1>4. Runs(s, Ok(d, <<>>), c, t) /\ Good(d)
  BY <1>1, <1>3, RunsBase, KeptLook
<1>5. e = Look(s, ns, t)
  <2> HIDE DEF src, dest
  <2>1. e = Look(s, {src} \cup {dest}, t)
    BY <1>1, LookTwice
  <2>2. {src} \cup {dest} = ns
    BY <1>1
  <2> QED
    BY <2>1, <2>2
<1> HIDE DEF src, dest
<1>6. d.data[src] # Nil /\ src # dest => e.data[src] # Nil
  <2>1. LookedAt(d, {dest}, t, e)
    BY <1>3, <1>4, LookIs
  <2> QED
    BY <1>1, <2>1 DEF LookedAt
<1> HIDE DEF d, e, ns
<1>7. Kept(s, e, c, t) /\ Free(s, e, src, c, t) /\ Good(e)
  BY <1>1, <1>3, <1>5, KeptLook DEF ns
<1>8. Runs(s, Ok(e, <<>>), c, t)
  BY <1>3, <1>5, RunsBase DEF ns
<1>9. at \in Deadlines
  BY <1>1, <1>7, DbParts
<1>10. ASSUME e.data[src] # Nil, src # dest
       PROVE  Kept(s, f, c, t)
  <2> HIDE DEF linked, at
  <2>1. Keeps(s, e, ns, linked, t) /\ Clear(e, src, ns, linked)
    BY <1>7 DEF Kept, Free, ns, linked
  <2>2. ShareTo(e, src, dest, copied)
    BY <1>1, <1>7, <1>10, ShareTie
  <2> HIDE DEF copied
  <2>3. /\ Keeps(s, copied, ns, linked, t) /\ Clear(copied, dest, ns, linked)
        /\ copied.data[dest] # Nil /\ Good(copied)
    BY <1>1, <1>10, <2>1, <2>2, KeepsShare DEF ShareTo
  <2>4. at # Never => Keeps(s, Expire(copied, dest, at, t), ns, linked, t)
    BY <1>1, <1>9, <2>3, RetimeTie, KeepsRetime
  <2> QED
    BY <2>3, <2>4 DEF Kept, ns, linked
<1> HIDE DEF f
<1>11. e.data[src] # Nil /\ src # dest => Runs(s, Ok(f, <<c>>), c, t)
  BY <1>10, RunsLine
<1> QED
  BY <1>1, <1>2, <1>4, <1>6, <1>8, <1>11

\* Every command leaves alone what it does not name.
LEMMA ExecRuns ==
    ASSUME NEW s, NEW c, NEW t, Asked(s, c, t), Filled(s)
    PROVE  Runs(s, Exec(s, c, t), c, t) /\ Exec(s, c, t).lines \in Seq(CmdType)
<1> DEFINE OK == Runs(s, Exec(s, c, t), c, t)
<1>1. c.op \in {"get", "getex persist", "persist", "getdel", "del"} => OK
  BY RunsSimple DEF Exec
<1>2. c.op \in {"set", "set nx", "set xx", "setnx", "getset"} => OK
  BY RunsPut DEF Exec, ZOps
<1>3. c.op \in {"setex", "psetex"} => OK
  BY RunsSetEX DEF Exec
<1>4. c.op \in {"mset", "msetnx"} => OK
  BY RunsMSet DEF Exec, ZOps
<1>5. c.op \in {"incr", "incrbyfloat"} => OK
  BY RunsIncr DEF Exec
<1>6. /\ c.op \in {"setrange", "setbit"} => OK
      /\ c.op = "append" => OK
  <2>1. c.op \in {"setrange", "setbit"} => OK
    BY RunsSetRange DEF Exec
  <2>2. c.op = "append" => OK
    BY RunsAppend DEF Exec, ZOps
  <2> QED
    BY <2>1, <2>2
<1>7. c.op \in {"expire", "pexpireat"} => OK
  BY RunsExpire DEF Exec
<1>8. c.op \in {"rename", "renamenx"} => OK
  BY RunsRename DEF Exec, Pairs
<1>9. c.op \in {"copy", "copy replace"} => OK
  BY RunsCopy DEF Exec, Pairs
<1>10. c.op \in {"zadd", "zincrby"} => OK
  BY RunsZAdd DEF Exec
<1>11. c.op \in {"zrem", "zpopmin", "zremrangebyscore"} => OK
  BY RunsZRem DEF Exec
<1>12. c.op = "incrfloat" => OK
  <2>1. c.op = "incrfloat" => Exec(s, c, t) = Err(s)
    BY DEF Exec
  <2> QED
    BY <2>1, RunsBase
<1>13. c.op \in Ops /\ c.op \notin Flushes
  BY CmdIs DEF CmdParts, Asked
<1> HIDE DEF OK
<1>14. OK
  BY <1>1, <1>2, <1>3, <1>4, <1>5, <1>6, <1>7, <1>8, <1>9, <1>10, <1>11, <1>12, <1>13
     DEF Ops, Flushes
<1>15. Exec(s, c, t).lines \in Seq(CmdType)
  BY ExecDone DEF Asked, Spread
<1> QED
  BY <1>14, <1>15 DEF OK

\* Two databases agree on the keys K: values, deadlines and what is shared among them.
Agree(s, e, K) ==
    /\ Good(s) /\ Good(e)
    /\ \A k \in K : s.data[k] = e.data[k] /\ s.ttl[k] = e.ttl[k]
    /\ \A j, k \in K : Tie(s, j, k) <=> Tie(e, j, k)

\* They still agree after the same primitive, for keys of K.
LEMMA AgreeBy ==
    ASSUME NEW K \in SUBSET Keys, NEW s, NEW e, Agree(s, e, K), NEW k \in K
    PROVE  /\ \A x \in Entities : /\ Agree(PutEntity(s, k, x), PutEntity(e, k, x), K)
                                  /\ Agree(Write(s, k, x), Write(e, k, x), K)
           /\ Agree(Persist(s, k), Persist(e, k), K)
           /\ s.ttl[k] = Never => Agree(s, Persist(e, k), K) /\ Agree(Persist(s, k), e, K)
           /\ \A at \in Deadlines \ {Never} : \A p, t :
                  Agree(Expire(s, k, at, p), Expire(e, k, at, t), K)
           /\ \A j \in K : Agree(Share(s, j, k), Share(e, j, k), K)
<1>1. k \in Keys /\ {k} \in SUBSET Keys /\ Good(s) /\ Good(e)
  BY DEF Agree
<1>2. ASSUME NEW x \in Entities
      PROVE  Agree(PutEntity(s, k, x), PutEntity(e, k, x), K)
  <2>1. PutTo(s, {k}, x, PutEntity(s, k, x)) /\ PutTo(e, {k}, x, PutEntity(e, k, x))
    BY <1>1, PutTie DEF PutEntity
  <2> QED
    BY <2>1 DEF Agree, PutTo
<1>3. ASSUME NEW x \in Entities
      PROVE  Agree(Write(s, k, x), Write(e, k, x), K)
  <2>1. WriteTo(s, k, x, Write(s, k, x)) /\ WriteTo(e, k, x, Write(e, k, x))
    BY <1>1, WriteTie
  <2> QED
    BY <2>1 DEF Agree, WriteTo
<1>4. /\ Agree(Persist(s, k), Persist(e, k), K)
      /\ s.ttl[k] = Never => Agree(s, Persist(e, k), K) /\ Agree(Persist(s, k), e, K)
  <2>1. RetimeTo(s, k, Never, Persist(s, k)) /\ RetimeTo(e, k, Never, Persist(e, k))
    BY <1>1, RetimeTie
  <2> QED
    BY <2>1 DEF Agree, RetimeTo
<1>5. ASSUME NEW at \in Deadlines \ {Never}, NEW p, NEW t
      PROVE  Agree(Expire(s, k, at, p), Expire(e, k, at, t), K)
  <2>1. RetimeTo(s, k, at, Expire(s, k, at, p)) /\ RetimeTo(e, k, at, Expire(e, k, at, t))
    BY <1>1, RetimeTie
  <2> QED
    BY <2>1 DEF Agree, RetimeTo
<1>6. ASSUME NEW j \in K
      PROVE  Agree(Share(s, j, k), Share(e, j, k), K)
  <2>1. CASE j = k
    BY <2>1 DEF Share
  <2>2. CASE j # k
    <3>1. ShareTo(s, j, k, Share(s, j, k)) /\ ShareTo(e, j, k, Share(e, j, k))
      BY <1>1, <2>2, ShareTie
    <3> DEFINE f == Share(s, j, k)
               g == Share(e, j, k)
    <3> HIDE DEF f, g
    <3>2. ShareTo(s, j, k, f) /\ ShareTo(e, j, k, g)
      BY <3>1 DEF f, g
    <3>3. \A i \in K : f.data[i] = g.data[i] /\ f.ttl[i] = g.ttl[i]
      BY <3>2 DEF Agree, ShareTo
    <3>4. \A i, l \in K : Tie(f, i, l) <=> Tie(g, i, l)
      BY <3>2 DEF Agree, ShareTo
    <3>5. Good(f) /\ Good(g)
      BY <3>2 DEF ShareTo
    <3> QED
      BY <3>3, <3>4, <3>5 DEF Agree, f, g
  <2> QED
    BY <2>1, <2>2
<1> QED
  BY <1>2, <1>3, <1>4, <1>5, <1>6

LEMMA AgreeRest ==
    ASSUME NEW K \in SUBSET Keys, NEW s, NEW e, Agree(s, e, K), NEW ks \in SUBSET K
    PROVE  /\ \A x \in Entities : Agree(PutEntities(s, ks, x), PutEntities(e, ks, x), K)
           /\ Agree(Removes(s, ks), Removes(e, ks), K)
<1>1. ks \in SUBSET Keys /\ Good(s) /\ Good(e)
  BY DEF Agree
<1>2. ASSUME NEW x \in Entities
      PROVE  Agree(PutEntities(s, ks, x), PutEntities(e, ks, x), K)
  <2>1. PutTo(s, ks, x, PutEntities(s, ks, x)) /\ PutTo(e, ks, x, PutEntities(e, ks, x))
    BY <1>1, PutTie
  <2> QED
    BY <2>1 DEF Agree, PutTo
<1>3. RemTo(s, ks, Removes(s, ks)) /\ RemTo(e, ks, Removes(e, ks))
  BY <1>1, RemTie
<1>4. Agree(Removes(s, ks), Removes(e, ks), K)
  BY <1>3 DEF Agree, RemTo
<1> QED
  BY <1>2, <1>4

\* The same for bytes: what else has the array is outside K, or its bytes are written alike.
LEMMA AgreeBytes ==
    ASSUME NEW K \in SUBSET Keys, NEW s, NEW e, Agree(s, e, K), NEW k \in K,
           NEW x \in Entities, IsStr(x), NEW b \in BOOLEAN, NEW d \in BOOLEAN,
           b \/ d => s.data[k] # Nil,
           \/ s.data[k] = Nil
           \/ Len(x.str) = Len(s.data[k].str)
           \/ \A j \in K : ~Tie(s, j, k)
    PROVE  Agree(PutBytes(s, k, x, b), PutBytes(e, k, x, d), K)
<1> DEFINE f == PutBytes(s, k, x, b)
           g == PutBytes(e, k, x, d)
<1>1. /\ k \in Keys /\ {k} \in SUBSET Keys /\ Good(s) /\ Good(e) /\ e.data[k] = s.data[k]
      /\ \A j \in K : j \in Keys
  BY DEF Agree
<1>2. BytesPut(s, k, x, f) /\ BytesPut(e, k, x, g)
  BY <1>1, PutBytesIs
<1>3. CASE s.data[k] = Nil
  <2> HIDE DEF f, g
  <2>1. PutInto(s, {k}, x, f) /\ PutInto(e, {k}, x, g)
    BY <1>1, <1>2, <1>3 DEF BytesPut
  <2>2. PutTo(s, {k}, x, f) /\ PutTo(e, {k}, x, g)
    BY <1>1, <2>1, PutTies
  <2> QED
    BY <2>2 DEF Agree, PutTo, f, g
<1>4. CASE s.data[k] # Nil /\ Len(x.str) = Len(s.data[k].str)
  <2>1. f = Write(s, k, x) /\ g = Write(e, k, x)
    BY <1>1, <1>4 DEF PutBytes
  <2> HIDE DEF f, g
  <2> QED
    BY <2>1, AgreeBy DEF f, g
<1>5. CASE \A j \in K : ~Tie(s, j, k)
  <2>1. \A j \in K : ~Tie(e, j, k) /\ ~Tie(e, k, j) /\ ~Tie(s, j, k) /\ ~Tie(s, k, j)
    <3>1. \A j \in K : ~Tie(s, j, k) /\ ~Tie(e, j, k)
      BY <1>5 DEF Agree
    <3> QED
      BY <1>1, <3>1, TieIs
  <2>2. \A j \in K : j \notin Aliases(s, k) /\ j \notin Aliases(e, k)
    BY <1>1, <2>1, TieIs
  <2> HIDE DEF f, g
  <2>3. BytesIn(s, k, x, f) /\ BytesIn(e, k, x, g)
    BY <1>1, <1>2, BytesParts
  <2>4. Good(f) /\ Good(g)
    BY <2>3 DEF BytesIn
  <2>5. \A j \in K : f.data[j] = g.data[j] /\ f.ttl[j] = g.ttl[j]
    <3> SUFFICES ASSUME NEW j \in K
                 PROVE  f.data[j] = g.data[j] /\ f.ttl[j] = g.ttl[j]
      OBVIOUS
    <3>1. f.ttl = s.ttl /\ g.ttl = e.ttl /\ f.data[k] = x /\ g.data[k] = x
      BY <2>3 DEF BytesIn
    <3>2. j # k => f.data[j] = s.data[j] /\ g.data[j] = e.data[j]
      BY <1>1, <2>2, <2>3 DEF BytesIn
    <3> QED
      BY <3>1, <3>2 DEF Agree
  <2>6. \A i, j \in K : /\ Tie(f, i, j) <=> Tie(s, i, j)
                        /\ Tie(g, i, j) <=> Tie(e, i, j)
    <3>1. /\ f.shares = s.shares \/ f.shares = Apart(s.shares, {k})
          /\ g.shares = e.shares \/ g.shares = Apart(e.shares, {k})
      BY <2>3 DEF BytesIn
    <3>2. \A i, j \in K : i = k \/ j = k => ~Tie(s, i, j) /\ ~Tie(e, i, j)
      BY <2>1
    <3>3. \A i, j \in K : /\ f.shares = s.shares => (Tie(f, i, j) <=> Tie(s, i, j))
                          /\ g.shares = e.shares => (Tie(g, i, j) <=> Tie(e, i, j))
      BY DEF Tie
    <3>4. /\ f.shares = Apart(s.shares, {k}) =>
                \A i, j \in K : Tie(f, i, j) <=> Tie(s, i, j) /\ i \notin {k} /\ j \notin {k}
          /\ g.shares = Apart(e.shares, {k}) =>
                \A i, j \in K : Tie(g, i, j) <=> Tie(e, i, j) /\ i \notin {k} /\ j \notin {k}
      BY DEF Tie, Apart
    <3> QED
      BY <3>1, <3>2, <3>3, <3>4
  <2> QED
    BY <2>4, <2>5, <2>6 DEF Agree, f, g
<1> QED
  BY <1>3, <1>4, <1>5

LEMMA AgreeMove ==
    ASSUME NEW K \in SUBSET Keys, NEW s, NEW e, Agree(s, e, K), NEW src \in K, NEW dest \in K,
           NEW p, NEW t
    PROVE  Agree(Move(s, src, dest, p), Move(e, src, dest, t), K)
<1> DEFINE moved(d) == RemoveKey(Share(d, src, dest), src)
           at == s.ttl[src]
<1>1. at = e.ttl[src] /\ at \in Deadlines
  BY DbParts DEF Agree
<1>2. /\ Move(s, src, dest, p) = IF at = Never THEN moved(s)
                                 ELSE Expire(Persist(moved(s), dest), dest, at, p)
      /\ Move(e, src, dest, t) = IF at = Never THEN moved(e)
                                 ELSE Expire(Persist(moved(e), dest), dest, at, t)
  BY <1>1 DEF Move
<1> HIDE DEF at
<1>3. Agree(Share(s, src, dest), Share(e, src, dest), K)
  BY AgreeBy
<1>4. Agree(moved(s), moved(e), K)
  BY <1>3, AgreeRest DEF RemoveKey
<1> HIDE DEF moved
<1>5. Agree(Persist(moved(s), dest), Persist(moved(e), dest), K)
  BY <1>4, AgreeBy
<1>6. at # Never => Agree(Expire(Persist(moved(s), dest), dest, at, p),
                          Expire(Persist(moved(e), dest), dest, at, t), K)
  BY <1>1, <1>5, AgreeBy
<1> QED
  BY <1>2, <1>4, <1>6

\* The same command on databases that agree on K, its keys among them, at two moments.
Matched(s, e, c, K, p, t) ==
    /\ Asked(s, c, p) /\ Asked(e, c, t)
    /\ K \in SUBSET Keys /\ KeysOf(c) \subseteq K
    /\ Agree(Look(s, KeysOf(c), p), Look(e, KeysOf(c), t), K)
    /\ \A k \in SeesExpired(c) : ~Expired(s, k, p) /\ ~Expired(e, k, t)
    /\ ~Spills(Look(s, KeysOf(c), p), c)

\* If the command has a line, it is the command, and the databases agree after it.
Alike(r, q, c, K) == r.lines # <<>> => r.lines = <<c>> /\ Agree(r.db, q.db, K)

\* After the look they agree, and the command finds the same under its keys.
LEMMA MatchedBase ==
    ASSUME NEW s, NEW e, NEW c, NEW K, NEW p, NEW t, Matched(s, e, c, K, p, t),
           NEW u, u = Look(s, KeysOf(c), p), NEW v, v = Look(e, KeysOf(c), t)
    PROVE  /\ Key(c) \in KeysOf(c) /\ Key(c) \in K /\ KeysOf(c) \in SUBSET K /\ K \in SUBSET Keys
           /\ KeysOf(c) \in SUBSET Keys
           /\ Agree(u, v, K)
           /\ v.data[Key(c)] = u.data[Key(c)] /\ u.data[Key(c)] \in Entities
           /\ \A k \in KeysOf(c) : u.data[k] = v.data[k] /\ u.data[k] = Visible(s, k, p)
                                   /\ v.data[k] = Visible(e, k, t)
           /\ SeesExpired(c) = KeysOf(c) => u = s /\ v = e
           /\ c \in CmdType
<1>1. /\ Key(c) \in KeysOf(c) /\ KeysOf(c) \in SUBSET Keys /\ c \in CmdType
      /\ \A k \in Keys : u.data[k] \in Entities
      /\ \A k \in KeysOf(c) : u.data[k] = Visible(s, k, p) /\ v.data[k] = Visible(e, k, t)
  BY AskedLook DEF Matched, Asked
<1>2. SeesExpired(c) = KeysOf(c) => u = s /\ v = e
  BY <1>1, LookFresh DEF Matched, Asked
<1> QED
  BY <1>1, <1>2 DEF Matched, Agree

LEMMA ResultIs ==
    /\ \A f, ls : Ok(f, ls).db = f /\ Ok(f, ls).lines = ls
    /\ \A f : Err(f).db = f /\ Err(f).lines = <<>>
    /\ \A c : <<c>> # <<>>
BY DEF Ok, Err

LEMMA AlikeOf ==
    ASSUME NEW f, NEW g, NEW c, NEW K
    PROVE  /\ Agree(f, g, K) => \A ls : Alike(Ok(f, <<c>>), Ok(g, ls), c, K)
           /\ \A q : Alike(Ok(f, <<>>), q, c, K) /\ Alike(Err(f), q, c, K)
BY ResultIs DEF Alike

\* The executors: those of one string, ...
LEMMA PutAlike ==
    ASSUME NEW s, NEW e, NEW c, NEW K, NEW p, NEW t, Matched(s, e, c, K, p, t), c.op \notin ZOps
    PROVE  /\ SeesExpired(c) = KeysOf(c) =>
                 /\ c.op # "set" => Alike(ExecSet(s, c, p), ExecSet(e, c, t), c, K)
                 /\ Alike(ExecSetNX(s, c, p), ExecSetNX(e, c, t), c, K)
                 /\ Alike(ExecMSet(s, c, p), ExecMSet(e, c, t), c, K)
           /\ Alike(ExecGetSet(s, c, p), ExecGetSet(e, c, t), c, K)
           /\ Alike(ExecGetDel(s, c, p), ExecGetDel(e, c, t), c, K)
<1> DEFINE u == Look(s, KeysOf(c), p)
           v == Look(e, KeysOf(c), t)
           k == Key(c)
           x == u.data[k]
           y == Str(c.val)
<1>1. /\ k \in K /\ KeysOf(c) \in SUBSET K /\ K \in SUBSET Keys /\ Agree(u, v, K)
      /\ v.data[k] = x /\ (SeesExpired(c) = KeysOf(c) => u = s /\ v = e)
  BY MatchedBase
<1>2. y \in Entities
  BY ValIs DEF Matched, Asked
<1>3. /\ ExecGetSet(s, c, p) = IF IsZSet(x) THEN Err(u) ELSE Ok(Persist(PutEntity(u, k, y), k), <<c>>)
      /\ ExecGetSet(e, c, t) = IF IsZSet(x) THEN Err(v) ELSE Ok(Persist(PutEntity(v, k, y), k), <<c>>)
  BY <1>1 DEF ExecGetSet
<1>4. /\ ExecGetDel(s, c, p) = IF x = Nil THEN Ok(u, <<>>)
                               ELSE IF ~IsStr(x) THEN Err(u) ELSE Ok(RemoveKey(u, k), <<c>>)
      /\ ExecGetDel(e, c, t) = IF x = Nil THEN Ok(v, <<>>)
                               ELSE IF ~IsStr(x) THEN Err(v) ELSE Ok(RemoveKey(v, k), <<c>>)
  BY <1>1 DEF ExecGetDel
<1>5. SeesExpired(c) = KeysOf(c) =>
         /\ ExecSet(s, c, p) = IF \/ c.op = "set nx" /\ x # Nil
                                  \/ c.op = "set xx" /\ x = Nil
                               THEN Ok(u, <<>>) ELSE Ok(Persist(PutEntity(u, k, y), k), <<c>>)
         /\ ExecSet(e, c, t) = IF \/ c.op = "set nx" /\ x # Nil
                                  \/ c.op = "set xx" /\ x = Nil
                               THEN Ok(v, <<>>) ELSE Ok(Persist(PutEntity(v, k, y), k), <<c>>)
         /\ ExecSetNX(s, c, p) = Ok(IF x = Nil THEN PutEntity(u, k, y) ELSE u, <<c>>)
         /\ ExecSetNX(e, c, t) = Ok(IF x = Nil THEN PutEntity(v, k, y) ELSE v, <<c>>)
         /\ ExecMSet(s, c, p) = Ok(PutEntities(u, KeysOf(c), y), <<c>>)
         /\ ExecMSet(e, c, t) = Ok(PutEntities(v, KeysOf(c), y), <<c>>)
  BY <1>1 DEF ExecSet, ExecSetNX, ExecMSet, PutAll
<1> HIDE DEF u, v, k, x, y
<1>6. /\ Agree(PutEntity(u, k, y), PutEntity(v, k, y), K)
      /\ Agree(PutEntities(u, KeysOf(c), y), PutEntities(v, KeysOf(c), y), K)
  BY <1>1, <1>2, AgreeBy, AgreeRest
<1>7. Agree(RemoveKey(u, k), RemoveKey(v, k), K)
  <2>1. {k} \in SUBSET K
    BY <1>1
  <2> QED
    BY <1>1, <2>1, AgreeRest DEF RemoveKey
<1>8. Agree(Persist(PutEntity(u, k, y), k), Persist(PutEntity(v, k, y), k), K)
  BY <1>1, <1>6, AgreeBy
<1>9. SeesExpired(c) = KeysOf(c) =>
                 /\ Alike(ExecSet(s, c, p), ExecSet(e, c, t), c, K)
                 /\ Alike(ExecSetNX(s, c, p), ExecSetNX(e, c, t), c, K)
                 /\ Alike(ExecMSet(s, c, p), ExecMSet(e, c, t), c, K)
  <2> SUFFICES ASSUME SeesExpired(c) = KeysOf(c)
               PROVE  /\ Alike(ExecSet(s, c, p), ExecSet(e, c, t), c, K)
                      /\ Alike(ExecSetNX(s, c, p), ExecSetNX(e, c, t), c, K)
                      /\ Alike(ExecMSet(s, c, p), ExecMSet(e, c, t), c, K)
    OBVIOUS
  <2>1. Alike(ExecSet(s, c, p), ExecSet(e, c, t), c, K)
    BY <1>5, <1>8, AlikeOf
  <2>2. Alike(ExecSetNX(s, c, p), ExecSetNX(e, c, t), c, K)
    BY <1>1, <1>5, <1>6, AlikeOf
  <2>3. Alike(ExecMSet(s, c, p), ExecMSet(e, c, t), c, K)
    BY <1>5, <1>6, AlikeOf
  <2> QED
    BY <2>1, <2>2, <2>3
<1>10. Alike(ExecGetSet(s, c, p), ExecGetSet(e, c, t), c, K)
  BY <1>3, <1>8, AlikeOf
<1>11. Alike(ExecGetDel(s, c, p), ExecGetDel(e, c, t), c, K)
  BY <1>4, <1>7, AlikeOf
<1> QED
  BY <1>9, <1>10, <1>11

LEMMA BytesAlike ==
    ASSUME NEW s, NEW e, NEW c, NEW K, NEW p, NEW t, Matched(s, e, c, K, p, t), c.op \notin ZOps
    PROVE  /\ c.op = "append" => Alike(ExecAppend(s, c, p), ExecAppend(e, c, t), c, K)
           /\ c.op = "setrange" => Alike(ExecSetRange(s, c, p), ExecSetRange(e, c, t), c, K)
<1> DEFINE u == Look(s, KeysOf(c), p)
           v == Look(e, KeysOf(c), t)
           k == Key(c)
           x == u.data[k]
           y == Appended(x, c)
           w == Overwritten(x, c)
           b == c.op = "setrange" /\ x # Nil /\ c.n <= u.cap[k]
           d == c.op = "setrange" /\ x # Nil /\ c.n <= v.cap[k]
<1>1. /\ k \in K /\ k \in Keys /\ K \in SUBSET Keys /\ Agree(u, v, K) /\ v.data[k] = x
      /\ x \in Entities /\ c \in CmdType /\ Good(u)
  BY MatchedBase DEF Agree
<1>2. /\ ExecAppend(s, c, p) = IF IsZSet(x) THEN Err(u) ELSE Ok(PutBytes(u, k, y, FALSE), <<c>>)
      /\ ExecAppend(e, c, t) = IF IsZSet(x) THEN Err(v) ELSE Ok(PutBytes(v, k, y, FALSE), <<c>>)
  BY <1>1 DEF ExecAppend, Appended
<1>3. c.op = "setrange" =>
         /\ ExecSetRange(s, c, p) = IF IsZSet(x) THEN Err(u) ELSE Ok(PutBytes(u, k, w, b), <<c>>)
         /\ ExecSetRange(e, c, t) = IF IsZSet(x) THEN Err(v) ELSE Ok(PutBytes(v, k, w, d), <<c>>)
  BY <1>1 DEF ExecSetRange, Overwritten
<1>4. /\ b \in BOOLEAN /\ d \in BOOLEAN /\ FALSE \in BOOLEAN /\ (b \/ d => x # Nil)
      /\ ~(FALSE \/ FALSE)
  OBVIOUS
<1>5. ~Spills(u, c)
  BY DEF Matched
<1> HIDE DEF u, v, b, d
<1>6. u.data[k] = x
  OBVIOUS
<1>7. \/ Aliases(u, k) = {}
      \/ c.op = "setrange" /\ ~(c.n + Len(c.val) > Len(x.str))
      \/ c.op \notin {"append", "setrange"}
  <2>1. ~(/\ c.op \in {"append", "setrange"} /\ Aliases(u, k) # {}
          /\ c.op = "setrange" => c.n + Len(c.val) > Len(x.str))
    BY <1>5 DEF Spills
  <2> QED
    BY <2>1
<1> HIDE DEF x
<1>8. Aliases(u, k) = {} => \A j \in K : ~Tie(u, j, k)
  BY <1>1, TieIs
<1>9. ASSUME ~IsZSet(x)
      PROVE  /\ c.op = "append" => Agree(PutBytes(u, k, y, FALSE), PutBytes(v, k, y, FALSE), K)
             /\ c.op = "setrange" => Agree(PutBytes(u, k, w, b), PutBytes(v, k, w, d), K)
  <2>1. y \in Entities /\ IsStr(y) /\ w \in Entities /\ IsStr(w)
    BY <1>1, <1>9, WrittenIs
  <2>2. x # Nil /\ c.op = "setrange" /\ ~(c.n + Len(c.val) > Len(x.str)) => Len(w.str) = Len(x.str)
    <3> SUFFICES ASSUME x # Nil, ~(c.n + Len(c.val) > Len(x.str))
                 PROVE  Len(w.str) = Len(x.str)
      OBVIOUS
    <3>1. x.str \in Values /\ c.val \in Values /\ c.n \in Nat /\ Bytes(x) = x.str
      BY <1>1, <1>9, EntityIs, ValIs, CmdIs DEF CmdParts, Bytes
    <3>2. Len(x.str) \in Nat /\ Len(c.val) \in Nat
      BY <3>1 DEF Values
    <3>3. DOMAIN w.str = 1 .. Len(x.str)
      BY <3>1, <3>2 DEF Overwritten, Spliced, Str
    <3>4. w.str \in Seq(Pieces)
      BY <2>1, KindIs DEF Values
    <3> QED
      BY <3>2, <3>3, <3>4, LenProperties
  <2>3. c.op = "append" => u.data[k] = Nil \/ \A j \in K : ~Tie(u, j, k)
    BY <1>7, <1>8
  <2>4. c.op = "setrange" => \/ u.data[k] = Nil
                             \/ Len(w.str) = Len(u.data[k].str)
                             \/ \A j \in K : ~Tie(u, j, k)
    BY <1>6, <1>7, <1>8, <2>2
  <2>5. c.op = "append" => Agree(PutBytes(u, k, y, FALSE), PutBytes(v, k, y, FALSE), K)
    BY <1>1, <1>4, <2>1, <2>3, AgreeBytes
  <2>6. c.op = "setrange" => Agree(PutBytes(u, k, w, b), PutBytes(v, k, w, d), K)
    BY <1>1, <1>4, <1>6, <2>1, <2>4, AgreeBytes
  <2> QED
    BY <2>5, <2>6
<1> HIDE DEF y, w
<1> QED
  BY <1>2, <1>3, <1>9, AlikeOf

\* MSETNX finds a key that exists, or it has looked at all of them.
LEMMA MSetNXIs ==
    ASSUME NEW s, NEW c, NEW t, Asked(s, c, t)
    PROVE  IF \E k \in KeysOf(c) : Visible(s, k, t) # Nil
           THEN ExecMSetNX(s, c, t).lines = <<>>
           ELSE ExecMSetNX(s, c, t) = Ok(PutAll(Look(s, KeysOf(c), t), c), <<c>>)
<1> DEFINE Found(i) == Visible(s, c.keys[i], t) # Nil
           seen == {i \in DOMAIN c.keys : \A j \in 1 .. i - 1 : ~Found(j)}
           ks == {c.keys[i] : i \in seen}
           e == Look(s, ks, t)
           n == Len(c.keys)
<1>1. n \in Nat /\ DOMAIN c.keys = 1 .. n /\ KeysOf(c) = {c.keys[i] : i \in 1 .. n}
  BY CmdIs DEF Asked, CmdParts, KeysOf, ToSet
<1>2. ExecMSetNX(s, c, t) = IF \E i \in seen : Found(i) THEN Ok(e, <<>>)
                            ELSE Ok(PutAll(e, c), <<c>>)
  BY DEF ExecMSetNX
<1>3. seen = {i \in 1 .. n : \A j \in 1 .. i - 1 : ~Found(j)}
  BY <1>1
<1> HIDE DEF Found, e, n
<1>4. CASE \E k \in KeysOf(c) : Visible(s, k, t) # Nil
  <2> DEFINE T == {i \in 1 .. n : Found(i)}
  <2>1. T \in SUBSET Nat /\ T # {}
    BY <1>1, <1>4 DEF Found
  <2>2. PICK i \in T : \A j \in T : ~(j < i)
    <3> HIDE DEF T
    <3> QED
      BY <2>1, LeastNumber
  <2>3. i \in seen /\ Found(i)
    BY <1>1, <1>3, <2>2
  <2> HIDE DEF seen
  <2>4. ExecMSetNX(s, c, t) = Ok(e, <<>>)
    BY <1>2, <2>3
  <2> QED
    BY <1>4, <2>4, ResultIs
<1>5. CASE ~ \E k \in KeysOf(c) : Visible(s, k, t) # Nil
  <2>1. \A i \in 1 .. n : ~Found(i)
    BY <1>1, <1>5 DEF Found
  <2>2. seen = 1 .. n
    <3>1. \A i \in 1 .. n : \A j \in 1 .. i - 1 : j \in 1 .. n
      BY <1>1
    <3> QED
      BY <1>3, <2>1, <3>1
  <2>3. ks = KeysOf(c)
    BY <1>1, <2>2
  <2> HIDE DEF seen, ks
  <2>4. ExecMSetNX(s, c, t) = Ok(PutAll(e, c), <<c>>)
    BY <1>2, <2>1, <2>2
  <2> QED
    BY <1>5, <2>3, <2>4 DEF e
<1> QED
  BY <1>4, <1>5

\* ... of several keys, ...
LEMMA ListAlike ==
    ASSUME NEW s, NEW e, NEW c, NEW K, NEW p, NEW t, Matched(s, e, c, K, p, t)
    PROVE  /\ c.op \notin ZOps => Alike(ExecMSetNX(s, c, p), ExecMSetNX(e, c, t), c, K)
           /\ Alike(ExecDel(s, c, p), ExecDel(e, c, t), c, K)
           /\ Alike(ExecPersist(s, c, p), ExecPersist(e, c, t), c, K)
<1> DEFINE u == Look(s, KeysOf(c), p)
           v == Look(e, KeysOf(c), t)
           k == Key(c)
           found == {j \in KeysOf(c) : u.data[j] # Nil}
           found2 == {j \in KeysOf(c) : v.data[j] # Nil}
<1>1. /\ k \in K /\ KeysOf(c) \in SUBSET K /\ K \in SUBSET Keys /\ Agree(u, v, K)
      /\ \A j \in KeysOf(c) : /\ u.data[j] = v.data[j] /\ u.data[j] = Visible(s, j, p)
                              /\ v.data[j] = Visible(e, j, t)
      /\ v.data[k] = u.data[k] /\ u.ttl[k] = v.ttl[k]
  BY MatchedBase DEF Agree
<1>2. found = found2 /\ found \in SUBSET K
  BY <1>1
<1>3. /\ ExecDel(s, c, p) = Ok(Removes(u, found), IF found = {} THEN <<>> ELSE <<c>>)
      /\ ExecDel(e, c, t) = Ok(Removes(v, found), IF found = {} THEN <<>> ELSE <<c>>)
  <2>1. /\ ExecDel(s, c, p) = Ok(Removes(u, found), IF found = {} THEN <<>> ELSE <<c>>)
        /\ ExecDel(e, c, t) = Ok(Removes(v, found2), IF found2 = {} THEN <<>> ELSE <<c>>)
    BY DEF ExecDel
  <2> QED
    BY <1>2, <2>1
<1>4. /\ ExecPersist(s, c, p) = IF u.data[k] = Nil \/ u.ttl[k] = Never THEN Ok(u, <<>>)
                                ELSE Ok(Persist(u, k), <<c>>)
      /\ ExecPersist(e, c, t) = IF u.data[k] = Nil \/ u.ttl[k] = Never THEN Ok(v, <<>>)
                                ELSE Ok(Persist(v, k), <<c>>)
  BY <1>1 DEF ExecPersist
<1> HIDE DEF u, v, k, found, found2
<1>5. Agree(Removes(u, found), Removes(v, found), K) /\ Agree(Persist(u, k), Persist(v, k), K)
  BY <1>1, <1>2, AgreeBy, AgreeRest
<1>6. Alike(ExecDel(s, c, p), ExecDel(e, c, t), c, K)
  BY <1>3, <1>5, AlikeOf
<1>7. Alike(ExecPersist(s, c, p), ExecPersist(e, c, t), c, K)
  BY <1>4, <1>5, AlikeOf
<1>8. ASSUME c.op \notin ZOps
      PROVE  Alike(ExecMSetNX(s, c, p), ExecMSetNX(e, c, t), c, K)
  <2>1. CASE \E j \in KeysOf(c) : Visible(s, j, p) # Nil
    BY <2>1, MSetNXIs DEF Alike, Matched
  <2>2. CASE ~ \E j \in KeysOf(c) : Visible(s, j, p) # Nil
    <3>1. ~ \E j \in KeysOf(c) : Visible(e, j, t) # Nil
      BY <1>1, <2>2
    <3>2. /\ ExecMSetNX(s, c, p) = Ok(PutAll(u, c), <<c>>)
          /\ ExecMSetNX(e, c, t) = Ok(PutAll(v, c), <<c>>)
      BY <2>2, <3>1, MSetNXIs DEF Matched, u, v
    <3>3. Str(c.val) \in Entities
      BY <1>8, ValIs DEF Matched, Asked
    <3>4. Agree(PutAll(u, c), PutAll(v, c), K)
      BY <1>1, <3>3, AgreeRest DEF PutAll
    <3> QED
      BY <3>2, <3>4, AlikeOf
  <2> QED
    BY <2>1, <2>2
<1> QED
  BY <1>6, <1>7, <1>8

\* ... of a number, ...
LEMMA IncrAlike ==
    ASSUME NEW s, NEW e, NEW c, NEW K, NEW p, NEW t, Matched(s, e, c, K, p, t), c.op = "incr"
    PROVE  Alike(ExecIncr(s, c, p), ExecIncr(e, c, t), c, K)
<1> DEFINE u == Look(s, KeysOf(c), p)
           v == Look(e, KeysOf(c), t)
           k == Key(c)
           x == u.data[k]
           n == IF x = Nil THEN 1 % IntMod ELSE (x.str[1] + 1) % IntMod
<1>1. /\ k \in K /\ K \in SUBSET Keys /\ Agree(u, v, K) /\ v.data[k] = x /\ x \in Entities
      /\ c \in CmdType
  BY MatchedBase
<1>2. [c EXCEPT !.op = IF @ = "incrbyfloat" THEN "incrfloat" ELSE @] = c
  BY <1>1, CmdIs DEF CmdParts
<1>3. /\ ExecIncr(s, c, p) = IF x # Nil /\ ~IsNumber(x) THEN Err(u)
                             ELSE Ok(PutEntity(u, k, Str(<<n>>)), <<c>>)
      /\ ExecIncr(e, c, t) = IF x # Nil /\ ~IsNumber(x) THEN Err(v)
                             ELSE Ok(PutEntity(v, k, Str(<<n>>)), <<c>>)
  BY <1>1, <1>2 DEF ExecIncr
<1> HIDE DEF u, v, k, x
<1>4. ~(x # Nil /\ ~IsNumber(x)) => Str(<<n>>) \in Entities
  <2>1. x = Nil \/ IsNumber(x) => n \in Pieces
    BY <1>1, NumbersAre DEF NumberIs
  <2>2. n \in Pieces => <<n>> \in Values
    BY DEF Values
  <2> QED
    BY <2>1, <2>2, StrIs
<1> HIDE DEF n
<1>5. Str(<<n>>) \in Entities => Agree(PutEntity(u, k, Str(<<n>>)), PutEntity(v, k, Str(<<n>>)), K)
  BY <1>1, AgreeBy
<1> QED
  BY <1>3, <1>4, <1>5, AlikeOf

\* ... and of a sorted set.
LEMMA ZSetAlike ==
    ASSUME NEW s, NEW e, NEW c, NEW K, NEW p, NEW t, Matched(s, e, c, K, p, t)
    PROVE  /\ c.op \in {"zadd", "zincrby"} => Alike(ExecZAdd(s, c, p), ExecZAdd(e, c, t), c, K)
           /\ Alike(ExecZRem(s, c, p), ExecZRem(e, c, t), c, K)
<1> DEFINE u == Look(s, KeysOf(c), p)
           v == Look(e, KeysOf(c), t)
           k == Key(c)
           x == u.data[k]
           z == Scores(x)
           score == IF c.op = "zincrby" /\ c.val \in DOMAIN z THEN z[c.val] + c.n ELSE c.n
           y == ZSet(SetScore(z, c.val, score))
           left == DOMAIN z \ Doomed(z, c)
           rest == [m \in left |-> z[m]]
<1>1. /\ k \in K /\ K \in SUBSET Keys /\ Agree(u, v, K) /\ v.data[k] = x /\ x \in Entities
  BY MatchedBase
<1>2. /\ ExecZAdd(s, c, p) = IF IsStr(x) THEN Err(u)
                             ELSE Ok(IF x = Nil THEN PutEntity(u, k, y) ELSE Write(u, k, y), <<c>>)
      /\ ExecZAdd(e, c, t) = IF IsStr(x) THEN Err(v)
                             ELSE Ok(IF x = Nil THEN PutEntity(v, k, y) ELSE Write(v, k, y), <<c>>)
  BY <1>1 DEF ExecZAdd
<1>3. /\ ExecZRem(s, c, p) = IF x = Nil THEN Ok(u, <<>>)
                             ELSE IF IsStr(x) THEN Err(u)
                             ELSE IF left = DOMAIN z THEN Ok(u, <<>>)
                             ELSE Ok(Write(u, k, ZSet(rest)), <<c>>)
      /\ ExecZRem(e, c, t) = IF x = Nil THEN Ok(v, <<>>)
                             ELSE IF IsStr(x) THEN Err(v)
                             ELSE IF left = DOMAIN z THEN Ok(v, <<>>)
                             ELSE Ok(Write(v, k, ZSet(rest)), <<c>>)
  BY <1>1 DEF ExecZRem
<1> HIDE DEF u, v, k, x
<1>4. ~IsStr(x) => DOMAIN z \in SUBSET Members /\ z \in [DOMAIN z -> Nat]
  BY <1>1, ScoresAre
<1> HIDE DEF z
<1>5. ASSUME ~IsStr(x), c.op \in {"zadd", "zincrby"}
      PROVE  y \in Entities
  <2>1. c.val \in Members /\ c.n \in Nat
    BY <1>5, CmdIs DEF Matched, Asked, CmdParts, ZOps
  <2>2. score \in Nat
    BY <1>4, <1>5, <2>1
  <2> HIDE DEF score
  <2> QED
    BY <1>4, <1>5, <2>1, <2>2, ScoredIs
<1>6. ASSUME ~IsStr(x)
      PROVE  ZSet(rest) \in Entities
  <2>1. left \in SUBSET Members /\ left \subseteq DOMAIN z
    BY <1>4, <1>6
  <2> HIDE DEF left
  <2>2. rest \in [left -> Nat]
    BY <1>4, <1>6, <2>1
  <2> HIDE DEF rest
  <2> QED
    BY <2>1, <2>2, EntityIs
<1> HIDE DEF y, rest, left
<1>7. y \in Entities => /\ Agree(PutEntity(u, k, y), PutEntity(v, k, y), K)
                        /\ Agree(Write(u, k, y), Write(v, k, y), K)
  BY <1>1, AgreeBy
<1>8. ZSet(rest) \in Entities => Agree(Write(u, k, ZSet(rest)), Write(v, k, ZSet(rest)), K)
  BY <1>1, AgreeBy
<1>9. c.op \in {"zadd", "zincrby"} => Alike(ExecZAdd(s, c, p), ExecZAdd(e, c, t), c, K)
  BY <1>2, <1>5, <1>7, AlikeOf
<1>10. Alike(ExecZRem(s, c, p), ExecZRem(e, c, t), c, K)
  BY <1>3, <1>6, <1>8, AlikeOf
<1> QED
  BY <1>9, <1>10

\* RENAME, RENAMENX and COPY.
LEMMA PairAlike ==
    ASSUME NEW s, NEW e, NEW c, NEW K, NEW p, NEW t, Matched(s, e, c, K, p, t), c.op \in Pairs
    PROVE  /\ c.op = "rename" => Alike(ExecRename(s, c, p), ExecRename(e, c, t), c, K)
           /\ Alike(ExecRenameNx(s, c, p), ExecRenameNx(e, c, t), c, K)
           /\ Alike(ExecCopy(s, c, p), ExecCopy(e, c, t), c, K)
<1> DEFINE ns == KeysOf(c)
           u == Look(s, ns, p)
           v == Look(e, ns, t)
           src == Key(c)
           dest == c.keys[2]
<1>1. /\ src \in K /\ dest \in K /\ K \in SUBSET Keys /\ Agree(u, v, K)
      /\ \A j \in ns : u.data[j] = v.data[j] /\ u.data[j] = Visible(s, j, p)
                       /\ v.data[j] = Visible(e, j, t)
      /\ ns = {src, dest} /\ src \in Keys /\ dest \in Keys /\ Good(s) /\ Good(e)
      /\ {src} \in SUBSET Keys /\ {dest} \in SUBSET Keys /\ ns \in SUBSET Keys
  <2>1. ns = {src, dest} /\ src \in Keys /\ dest \in Keys
    BY KeysAre DEF Matched, Asked
  <2>2. /\ ns \in SUBSET K /\ K \in SUBSET Keys /\ Agree(u, v, K)
        /\ \A j \in ns : u.data[j] = v.data[j] /\ u.data[j] = Visible(s, j, p)
                         /\ v.data[j] = Visible(e, j, t)
    BY MatchedBase
  <2>3. Good(s) /\ Good(e)
    BY DEF Matched, Asked
  <2> HIDE DEF u, v, src, dest, ns
  <2>4. src \in K /\ dest \in K
    BY <2>1, <2>2
  <2>5. {src} \in SUBSET Keys /\ {dest} \in SUBSET Keys /\ ns \in SUBSET Keys
    BY <2>1
  <2> QED
    BY <2>1, <2>2, <2>3, <2>4, <2>5
<1>2. \* A look at both keys, one after the other.
      \A d, m : Good(d) => /\ Look(Look(d, {src}, m), {dest}, m) = Look(d, ns, m)
                           /\ Look(Look(d, {dest}, m), {src}, m) = Look(d, ns, m)
  <2>1. {src} \cup {dest} = ns /\ {dest} \cup {src} = ns
    BY <1>1
  <2> HIDE DEF src, dest, ns
  <2> QED
    BY <1>1, <2>1, LookTwice
<1>3. \* A look at one of them.
      \A d, m : \A j \in {src, dest} : Good(d) => Look(d, {j}, m).data[j] = Visible(d, j, m)
  <2> SUFFICES ASSUME NEW d, NEW m, NEW j \in {src, dest}, Good(d)
               PROVE  Look(d, {j}, m).data[j] = Visible(d, j, m)
    OBVIOUS
  <2>1. {j} \in SUBSET Keys
    BY <1>1
  <2>2. LookedAt(d, {j}, m, Look(d, {j}, m))
    BY <2>1, LookIs
  <2> QED
    BY <2>2 DEF LookedAt
<1> HIDE DEF src, dest, ns
<1>4. Agree(Move(u, src, dest, p), Move(v, src, dest, t), K)
  BY <1>1, AgreeMove
<1>5. ASSUME c.op = "rename"
      PROVE  Alike(ExecRename(s, c, p), ExecRename(e, c, t), c, K)
  <2>1. \A d, m : Good(d) /\ ~Expired(d, dest, m) => Look(d, {src}, m) = Look(d, ns, m)
    <3> SUFFICES ASSUME NEW d, NEW m, Good(d), ~Expired(d, dest, m)
                 PROVE  Look(d, {src}, m) = Look(d, ns, m)
      OBVIOUS
    <3> DEFINE f == Look(d, {src}, m)
    <3>1. LookedAt(d, {src}, m, f)
      BY <1>1, LookIs
    <3>2. Good(f)
      BY <3>1 DEF LookedAt, Near
    <3>3. ~Expired(f, dest, m)
      BY <1>1, <3>1 DEF LookedAt, Expired
    <3>4. Look(f, {dest}, m) = f
      <4> HIDE DEF f
      <4> QED
        BY <1>1, <3>2, <3>3, LookFresh
    <3> QED
      BY <1>2, <3>4
  <2>2. dest \in SeesExpired(c)
    BY <1>5 DEF SeesExpired, dest
  <2>3. Look(s, {src}, p) = u /\ Look(e, {src}, t) = v
    BY <1>1, <2>1, <2>2 DEF Matched
  <2>4. /\ ExecRename(s, c, p) = IF u.data[src] = Nil THEN Err(u)
                                 ELSE Ok(Move(u, src, dest, p), <<c>>)
        /\ ExecRename(e, c, t) = IF v.data[src] = Nil THEN Err(v)
                                 ELSE Ok(Move(v, src, dest, t), <<c>>)
    BY <2>3 DEF ExecRename, src, dest
  <2>5. u.data[src] = v.data[src]
    BY <1>1
  <2> HIDE DEF u, v
  <2> QED
    BY <1>4, <2>4, <2>5, AlikeOf
<1>6. Alike(ExecRenameNx(s, c, p), ExecRenameNx(e, c, t), c, K)
  <2> DEFINE d == Look(s, {dest}, p)
             g == Look(e, {dest}, t)
  <2>1. Look(d, {src}, p) = u /\ Look(g, {src}, t) = v
    BY <1>1, <1>2
  <2>2. /\ ExecRenameNx(s, c, p) = IF d.data[dest] # Nil THEN Ok(d, <<>>)
                                   ELSE IF u.data[src] = Nil THEN Err(u)
                                   ELSE Ok(Move(u, src, dest, p), <<c>>)
        /\ ExecRenameNx(e, c, t) = IF g.data[dest] # Nil THEN Ok(g, <<>>)
                                   ELSE IF v.data[src] = Nil THEN Err(v)
                                   ELSE Ok(Move(v, src, dest, t), <<c>>)
    BY <2>1 DEF ExecRenameNx, src, dest
  <2>3. d.data[dest] = Visible(s, dest, p) /\ g.data[dest] = Visible(e, dest, t)
    BY <1>1, <1>3
  <2>4. Visible(s, dest, p) = Visible(e, dest, t) /\ u.data[src] = v.data[src]
    <3> HIDE DEF u, v
    <3> QED
      BY <1>1
  <2> HIDE DEF u, v, d, g
  <2> QED
    BY <1>4, <2>2, <2>3, <2>4, AlikeOf
<1>7. Alike(ExecCopy(s, c, p), ExecCopy(e, c, t), c, K)
  <2> DEFINE d == Look(s, {src}, p)
             g == Look(e, {src}, t)
             at == u.ttl[src]
             fu == IF at = Never THEN Share(u, src, dest)
                   ELSE Expire(Share(u, src, dest), dest, at, p)
             fv == IF at = Never THEN Share(v, src, dest)
                   ELSE Expire(Share(v, src, dest), dest, at, t)
  <2>1. Look(d, {dest}, p) = u /\ Look(g, {dest}, t) = v
    BY <1>1, <1>2
  <2>2. at = v.ttl[src] /\ at \in Deadlines
    BY <1>1, DbParts DEF Agree
  <2>8. ExecCopy(s, c, p) = IF src = dest THEN Err(s)
                            ELSE IF d.data[src] = Nil THEN Ok(d, <<>>)
                            ELSE IF u.data[dest] # Nil /\ c.op = "copy" THEN Ok(u, <<>>)
                            ELSE Ok(fu, <<c>>)
    BY <2>1 DEF ExecCopy, src, dest
  <2>9. ExecCopy(e, c, t) = IF src = dest THEN Err(e)
                            ELSE IF g.data[src] = Nil THEN Ok(g, <<>>)
                            ELSE IF v.data[dest] # Nil /\ c.op = "copy" THEN Ok(v, <<>>)
                            ELSE Ok(fv, <<c>>)
    <3> DEFINE av == v.ttl[src]
    <3>1. ExecCopy(e, c, t) = IF src = dest THEN Err(e)
                            ELSE IF g.data[src] = Nil THEN Ok(g, <<>>)
                            ELSE IF v.data[dest] # Nil /\ c.op = "copy" THEN Ok(v, <<>>)
                            ELSE Ok(IF av = Never THEN Share(v, src, dest)
                                    ELSE Expire(Share(v, src, dest), dest, av, t), <<c>>)
      BY <2>1 DEF ExecCopy, src, dest
    <3>2. av = at
      BY <2>2
    <3> HIDE DEF av, at, u, v, d, g
    <3> QED
      BY <3>1, <3>2
  <2>3. d.data[src] = Visible(s, src, p) /\ g.data[src] = Visible(e, src, t)
    <3> HIDE DEF u, v, at, fu, fv
    <3> QED
      BY <1>1, <1>3
  <2>4. Visible(s, src, p) = Visible(e, src, t) /\ u.data[dest] = v.data[dest]
    <3> HIDE DEF u, v, d, g, at
    <3> QED
      BY <1>1
  <2> HIDE DEF u, v, d, g, at
  <2>5. Agree(Share(u, src, dest), Share(v, src, dest), K)
    BY <1>1, AgreeBy
  <2>6. at # Never => Agree(Expire(Share(u, src, dest), dest, at, p),
                            Expire(Share(v, src, dest), dest, at, t), K)
    BY <1>1, <2>2, <2>5, AgreeBy
  <2>7. Agree(fu, fv, K)
    BY <2>5, <2>6
  <2> HIDE DEF fu, fv
  <2> QED
    BY <2>8, <2>9, <2>3, <2>4, <2>7, AlikeOf
<1> QED
  BY <1>5, <1>6, <1>7

\* The line of EXPIRE has the deadline, that of GETEX PERSIST is a PERSIST.
LEMMA TimedAlike ==
    ASSUME NEW s, NEW e, NEW c, NEW K, NEW p, NEW t, Matched(s, e, c, K, p, t), NEW l
    PROVE  /\ c.op \in {"expire", "pexpireat"} /\ ExecExpire(s, c, p).lines = <<l>> =>
                  l.op = "pexpireat" /\ Agree(ExecExpire(s, c, p).db, ExecExpire(e, l, t).db, K)
           /\ ExecGetEX(s, c, p).lines = <<l>> =>
                  l.op = "persist" /\ Agree(ExecGetEX(s, c, p).db, ExecPersist(e, l, t).db, K)
<1> DEFINE u == Look(s, KeysOf(c), p)
           v == Look(e, KeysOf(c), t)
           k == Key(c)
           at == ExpireAt(c, p)
           r == Recode(c, "pexpireat", at)
           q == Renamed(c, "persist")
<1>1. /\ k \in K /\ K \in SUBSET Keys /\ Agree(u, v, K) /\ v.data[k] = u.data[k]
      /\ u.ttl[k] = v.ttl[k] /\ c \in CmdType
  BY MatchedBase DEF Agree
<1>2. /\ KeysOf(r) = KeysOf(c) /\ Key(r) = k /\ r.op = "pexpireat" /\ r.n = at
      /\ KeysOf(q) = KeysOf(c) /\ Key(q) = k /\ q.op = "persist"
  BY <1>1, ExceptIs DEF KeysOf, Key
<1>3. \A a, b : <<a>> = <<b>> => a = b
  OBVIOUS
<1>4. ASSUME c.op \in {"expire", "pexpireat"}, ExecExpire(s, c, p).lines = <<l>>
      PROVE  l.op = "pexpireat" /\ Agree(ExecExpire(s, c, p).db, ExecExpire(e, l, t).db, K)
  <2>1. ExecExpire(s, c, p) = IF u.data[k] = Nil THEN Ok(u, <<>>)
                              ELSE Ok(Expire(u, k, at, p), <<r>>)
    BY DEF ExecExpire, ExpireAt, Recode
  <2>2. ExecExpire(e, r, t) = IF v.data[k] = Nil THEN Ok(v, <<>>)
                              ELSE Ok(Expire(v, k, at, t), <<[r EXCEPT !.op = "pexpireat", !.n = at]>>)
    <3>1. r.op # "expire"
      BY <1>2
    <3> HIDE DEF r
    <3> QED
      BY <1>2, <3>1 DEF ExecExpire
  <2>3. at \in Deadlines \ {Never}
    BY <1>1, <1>4, ExpireAtIs DEF Matched, Asked
  <2> HIDE DEF u, v, k, at, r
  <2>4. u.data[k] # Nil /\ l = r
    BY <1>3, <1>4, <2>1, ResultIs
  <2>5. /\ ExecExpire(s, c, p).db = Expire(u, k, at, p)
        /\ ExecExpire(e, l, t).db = Expire(v, k, at, t)
    BY <1>1, <2>1, <2>2, <2>4, ResultIs
  <2>6. Agree(Expire(u, k, at, p), Expire(v, k, at, t), K)
    BY <1>1, <2>3, AgreeBy
  <2> QED
    BY <1>2, <2>4, <2>5, <2>6
<1>5. ASSUME ExecGetEX(s, c, p).lines = <<l>>
      PROVE  l.op = "persist" /\ Agree(ExecGetEX(s, c, p).db, ExecPersist(e, l, t).db, K)
  <2>1. ExecGetEX(s, c, p) = IF u.data[k] = Nil THEN Ok(u, <<>>)
                             ELSE IF ~IsStr(u.data[k]) THEN Err(u)
                             ELSE Ok(Persist(u, k), <<q>>)
    BY DEF ExecGetEX, Renamed
  <2>2. ExecPersist(e, q, t) = IF v.data[k] = Nil \/ v.ttl[k] = Never THEN Ok(v, <<>>)
                               ELSE Ok(Persist(v, k), <<q>>)
    <3> HIDE DEF q
    <3> QED
      BY <1>2 DEF ExecPersist
  <2> HIDE DEF u, v, k, q
  <2>3. u.data[k] # Nil /\ l = q
    BY <1>3, <1>5, <2>1, ResultIs
  <2>8. ExecGetEX(s, c, p) = Ok(Persist(u, k), <<q>>)
    BY <1>3, <1>5, <2>1, <2>3, ResultIs
  <2>9. ExecPersist(e, l, t) = IF v.ttl[k] = Never THEN Ok(v, <<>>) ELSE Ok(Persist(v, k), <<q>>)
    BY <1>1, <2>2, <2>3
  <2>4. /\ ExecGetEX(s, c, p).db = Persist(u, k)
        /\ ExecPersist(e, l, t).db = IF v.ttl[k] = Never THEN v ELSE Persist(v, k)
    BY <2>8, <2>9, ResultIs
  <2>5. Agree(Persist(u, k), Persist(v, k), K) /\ (v.ttl[k] = Never => Agree(Persist(u, k), v, K))
    BY <1>1, AgreeBy
  <2> QED
    BY <1>2, <2>3, <2>4, <2>5
<1> QED
  BY <1>4, <1>5

\* The command table, for the commands with a line that says the same.
LEMMA ExecutorIs ==
    ASSUME NEW s, NEW c, NEW t
    PROVE  /\ c.op \in {"set nx", "set xx"} => Exec(s, c, t) = ExecSet(s, c, t)
           /\ c.op = "setnx" => Exec(s, c, t) = ExecSetNX(s, c, t)
           /\ c.op = "mset" => Exec(s, c, t) = ExecMSet(s, c, t)
           /\ c.op = "msetnx" => Exec(s, c, t) = ExecMSetNX(s, c, t)
           /\ c.op = "getset" => Exec(s, c, t) = ExecGetSet(s, c, t)
           /\ c.op = "getdel" => Exec(s, c, t) = ExecGetDel(s, c, t)
           /\ c.op = "append" => Exec(s, c, t) = ExecAppend(s, c, t)
           /\ c.op = "setrange" => Exec(s, c, t) = ExecSetRange(s, c, t)
           /\ c.op = "del" => Exec(s, c, t) = ExecDel(s, c, t)
           /\ c.op = "persist" => Exec(s, c, t) = ExecPersist(s, c, t)
           /\ c.op = "rename" => Exec(s, c, t) = ExecRename(s, c, t)
           /\ c.op = "renamenx" => Exec(s, c, t) = ExecRenameNx(s, c, t)
           /\ c.op \in {"copy", "copy replace"} => Exec(s, c, t) = ExecCopy(s, c, t)
           /\ c.op \in {"zadd", "zincrby"} => Exec(s, c, t) = ExecZAdd(s, c, t)
           /\ c.op \in {"zrem", "zpopmin", "zremrangebyscore"} => Exec(s, c, t) = ExecZRem(s, c, t)
BY DEF Exec

\* What the line of a command does to a database that agrees is what the command has done.
LEMMA ExecAlike ==
    ASSUME NEW s, NEW e, NEW c, NEW K, NEW p, NEW t, Matched(s, e, c, K, p, t),
           c.op \notin Gaps \cup {"set", "setex"}, NEW l, Exec(s, c, p).lines = <<l>>
    PROVE  Agree(Exec(s, c, p).db, Exec(e, l, t).db, K)
<1> DEFINE OK == Agree(Exec(s, c, p).db, Exec(e, l, t).db, K)
           R(r, q) == Exec(s, c, p) = r /\ Exec(e, c, t) = q /\ Alike(r, q, c, K)
<1>0. c.op \in Ops /\ c.op \notin Flushes
  BY CmdIs DEF CmdParts, Matched, Asked
<1>1. \A a, b : <<a>> = <<b>> => a = b
  OBVIOUS
<1>2. \A r, q : R(r, q) => OK
  BY <1>1, ResultIs DEF Alike
<1>3. ~(c.op \in {"get", "incrfloat"})
  <2>1. c.op = "get" => Exec(s, c, p).lines = <<>>
    BY ResultIs DEF Exec, ExecRead
  <2>2. c.op = "incrfloat" => Exec(s, c, p).lines = <<>>
    <3>1. c.op = "incrfloat" => Exec(s, c, p) = Err(s)
      BY DEF Exec
    <3> QED
      BY <3>1, ResultIs
  <2> QED
    BY <2>1, <2>2, ResultIs
<1>4. c.op \in {"set nx", "set xx"} => R(ExecSet(s, c, p), ExecSet(e, c, t))
  <2>1. c.op \in {"set nx", "set xx"} => SeesExpired(c) = KeysOf(c)
    BY DEF SeesExpired
  <2> QED
    BY <2>1, ExecutorIs, PutAlike DEF ZOps
<1>5. c.op = "setnx" => R(ExecSetNX(s, c, p), ExecSetNX(e, c, t))
  <2>1. c.op = "setnx" => SeesExpired(c) = KeysOf(c)
    BY DEF SeesExpired
  <2> QED
    BY <2>1, ExecutorIs, PutAlike DEF ZOps
<1>6. c.op = "mset" => R(ExecMSet(s, c, p), ExecMSet(e, c, t))
  <2>1. c.op = "mset" => SeesExpired(c) = KeysOf(c)
    BY DEF SeesExpired
  <2> QED
    BY <2>1, ExecutorIs, PutAlike DEF ZOps
<1>7. /\ c.op = "getset" => R(ExecGetSet(s, c, p), ExecGetSet(e, c, t))
      /\ c.op = "getdel" => R(ExecGetDel(s, c, p), ExecGetDel(e, c, t))
      /\ c.op = "append" => R(ExecAppend(s, c, p), ExecAppend(e, c, t))
      /\ c.op = "setrange" => R(ExecSetRange(s, c, p), ExecSetRange(e, c, t))
  BY ExecutorIs, PutAlike, BytesAlike DEF ZOps
<1>8. /\ c.op = "msetnx" => R(ExecMSetNX(s, c, p), ExecMSetNX(e, c, t))
      /\ c.op = "del" => R(ExecDel(s, c, p), ExecDel(e, c, t))
      /\ c.op = "persist" => R(ExecPersist(s, c, p), ExecPersist(e, c, t))
  BY ExecutorIs, ListAlike DEF ZOps
<1>9. c.op = "incr" => R(ExecIncr(s, c, p), ExecIncr(e, c, t))
  BY IncrAlike DEF Exec
<1>10. /\ c.op = "rename" => R(ExecRename(s, c, p), ExecRename(e, c, t))
       /\ c.op = "renamenx" => R(ExecRenameNx(s, c, p), ExecRenameNx(e, c, t))
       /\ c.op \in {"copy", "copy replace"} => R(ExecCopy(s, c, p), ExecCopy(e, c, t))
  BY ExecutorIs, PairAlike DEF Pairs
<1>11. /\ c.op \in {"zadd", "zincrby"} => R(ExecZAdd(s, c, p), ExecZAdd(e, c, t))
       /\ c.op \in {"zrem", "zpopmin", "zremrangebyscore"} =>
              R(ExecZRem(s, c, p), ExecZRem(e, c, t))
  BY ExecutorIs, ZSetAlike
<1>12. c.op \in {"expire", "pexpireat"} => OK
  <2> SUFFICES ASSUME c.op \in {"expire", "pexpireat"}
               PROVE  OK
    OBVIOUS
  <2>1. Exec(s, c, p) = ExecExpire(s, c, p)
    BY DEF Exec
  <2>2. l.op = "pexpireat" /\ Agree(ExecExpire(s, c, p).db, ExecExpire(e, l, t).db, K)
    BY <2>1, TimedAlike
  <2>3. Exec(e, l, t) = ExecExpire(e, l, t)
    BY <2>2 DEF Exec
  <2> QED
    BY <2>1, <2>2, <2>3
<1>13. c.op = "getex persist" => OK
  <2> SUFFICES ASSUME c.op = "getex persist"
               PROVE  OK
    OBVIOUS
  <2>1. Exec(s, c, p) = ExecGetEX(s, c, p)
    BY DEF Exec
  <2>2. l.op = "persist" /\ Agree(ExecGetEX(s, c, p).db, ExecPersist(e, l, t).db, K)
    BY <2>1, TimedAlike
  <2>3. Exec(e, l, t) = ExecPersist(e, l, t)
    BY <2>2 DEF Exec
  <2> QED
    BY <2>1, <2>2, <2>3
<1> HIDE DEF OK, R
<1>14. OK
  BY <1>0, <1>2, <1>3, <1>4, <1>5, <1>6, <1>7, <1>8, <1>9, <1>10, <1>11, <1>12, <1>13
     DEF Ops, Gaps, Flushes
<1> QED
  BY <1>14 DEF OK

-------------------------------------------------------------------------------
(* Replays, line after line *)

\* Steps of a file do not depend on what comes after them.
LEMMA StepsPrefix ==
    ASSUME NEW s, NEW t, NEW f \in Seq(CmdType), NEW g \in Seq(CmdType)
    PROVE  Steps(s, f \o g, t)[Len(f)] = RunLines(s, f, t)
<1> DEFINE h == f \o g
           a == Steps(s, f, t)
           b == Steps(s, h, t)
           T == {n \in Nat : n <= Len(f) => b[n] = a[n]}
<1>1. /\ Len(f) \in Nat /\ Len(g) \in Nat /\ Len(h) = Len(f) + Len(g)
      /\ \A n \in 1 .. Len(f) : h[n] = f[n]
  OBVIOUS
<1>2. /\ a[0] = s /\ RunLines(s, f, t) = a[Len(f)]
      /\ \A n \in 1 .. Len(f) : a[n] = Exec(a[n - 1], f[n], t).db
  BY <1>1, StepOf
<1>3. /\ b[0] = s /\ \A n \in 1 .. Len(h) : b[n] = Exec(b[n - 1], h[n], t).db
  <2> HIDE DEF h
  <2>1. Len(h) \in Nat
    BY <1>1
  <2> QED
    BY ONLY <2>1, StepOf DEF b
<1> HIDE DEF h, a, b
<1>4. 0 \in T
  BY <1>2, <1>3
<1>5. ASSUME NEW n \in Nat, n \in T
      PROVE  n + 1 \in T
  <2> SUFFICES ASSUME n + 1 <= Len(f)
               PROVE  b[n + 1] = a[n + 1]
    OBVIOUS
  <2>1. /\ n + 1 \in 1 .. Len(f) /\ n + 1 \in 1 .. Len(h) /\ (n + 1) - 1 = n /\ b[n] = a[n]
    BY <1>1, <1>5
  <2>2. a[n + 1] = Exec(a[n], f[n + 1], t).db /\ b[n + 1] = Exec(b[n], h[n + 1], t).db
    BY <1>2, <1>3, <2>1
  <2> QED
    BY <1>1, <2>1, <2>2
<1> HIDE DEF T
<1>6. \A n \in Nat : n \in T
  BY <1>4, <1>5, SetInduction
<1>7. b[Len(f)] = a[Len(f)]
  BY <1>1, <1>6 DEF T
<1> QED
  BY <1>2, <1>7 DEF b, h

\* One file after another.
LEMMA RunConcat ==
    ASSUME NEW s, NEW t, NEW f \in Seq(CmdType), NEW g \in Seq(CmdType)
    PROVE  RunLines(s, f \o g, t) = RunLines(RunLines(s, f, t), g, t)
<1> DEFINE h == f \o g
           d == RunLines(s, f, t)
           a == Steps(d, g, t)
           b == Steps(s, h, t)
           m == Len(f)
           T == {n \in Nat : n <= Len(g) => b[m + n] = a[n]}
<1>1. /\ m \in Nat /\ Len(g) \in Nat /\ Len(h) = m + Len(g)
      /\ \A n \in 1 .. Len(g) : h[m + n] = g[n]
  OBVIOUS
<1>2. /\ a[0] = d /\ RunLines(d, g, t) = a[Len(g)]
      /\ \A n \in 1 .. Len(g) : a[n] = Exec(a[n - 1], g[n], t).db
  <2> HIDE DEF d
  <2> QED
    BY <1>1, StepOf
<1>3. /\ RunLines(s, h, t) = b[Len(h)]
      /\ \A n \in 1 .. Len(h) : b[n] = Exec(b[n - 1], h[n], t).db
  <2> HIDE DEF h, m
  <2> QED
    BY <1>1, StepOf
<1>4. b[m] = d
  BY StepsPrefix
<1> HIDE DEF h, d, a, b, m
<1>5. 0 \in T
  <2>1. m + 0 = m
    BY <1>1
  <2> QED
    BY <1>2, <1>4, <2>1
<1>6. ASSUME NEW n \in Nat, n \in T
      PROVE  n + 1 \in T
  <2> SUFFICES ASSUME n + 1 <= Len(g)
               PROVE  b[m + (n + 1)] = a[n + 1]
    OBVIOUS
  <2>1. /\ n + 1 \in 1 .. Len(g) /\ m + (n + 1) \in 1 .. Len(h)
        /\ (n + 1) - 1 = n /\ (m + (n + 1)) - 1 = m + n
    BY <1>1
  <2>4. b[m + n] = a[n]
    BY <1>1, <1>6
  <2>2. a[n + 1] = Exec(a[n], g[n + 1], t).db
    BY <1>2, <2>1
  <2>3. b[m + (n + 1)] = Exec(b[m + n], h[m + (n + 1)], t).db
    BY <1>3, <2>1
  <2> QED
    BY <1>1, <2>1, <2>2, <2>3, <2>4
<1> HIDE DEF T
<1>7. \A n \in Nat : n \in T
  BY <1>5, <1>6, SetInduction
<1>8. b[m + Len(g)] = a[Len(g)]
  BY <1>1, <1>7 DEF T
<1> QED
  BY <1>1, <1>2, <1>3, <1>8 DEF h, d

\* What a command writes to the file is replayed after the rest.
LEMMA ReplayMore ==
    ASSUME NEW f \in Seq(CmdType), NEW t
    PROVE  /\ Replay(f \o <<>>, t) = Replay(f, t)
           /\ \A l \in CmdType : Replay(f \o <<l>>, t) = Exec(Replay(f, t), l, t).db
<1>1. Replay(f \o <<>>, t) = Replay(f, t)
  <2>1. f \o <<>> = f
    OBVIOUS
  <2> QED
    BY <2>1
<1>2. ASSUME NEW l \in CmdType
      PROVE  Replay(f \o <<l>>, t) = Exec(Replay(f, t), l, t).db
  <2>1. <<l>> \in Seq(CmdType)
    BY OneLine
  <2>2. RunLines(Empty, f \o <<l>>, t) = RunLines(RunLines(Empty, f, t), <<l>>, t)
    BY <2>1, RunConcat
  <2> QED
    BY <2>2, RunOne DEF Replay
<1> QED
  BY <1>1, <1>2

\* A replay leaves no two keys that share the lack of an entity.
LEMMA EmptyIs ==
    /\ \A k \in Keys : Empty.data[k] = Nil /\ Empty.ttl[k] = Never
    /\ \A i, j : ~Tie(Empty, i, j)
    /\ Filled(Empty) /\ Good(Empty)
BY EmptyGood DEF Empty, Tie, Filled

LEMMA ExecFilled ==
    ASSUME NEW s, Good(s), Filled(s), NEW c \in CmdType, NEW t \in Times
    PROVE  Good(Exec(s, c, t).db) /\ Filled(Exec(s, c, t).db)
<1>1. CASE c.op \in Flushes
  <2>1. Exec(s, c, t) = ExecFlush(s, c, t)
    BY <1>1 DEF Exec, Flushes
  <2>2. Exec(s, c, t).db = Empty
    BY <2>1, ResultIs DEF ExecFlush
  <2> QED
    BY <2>2, EmptyIs
<1>2. CASE c.op \notin Flushes
  BY <1>2, ExecRuns DEF Asked, Runs, Kept, Keeps
<1> QED
  BY <1>1, <1>2

LEMMA ReplayFilled ==
    ASSUME NEW f \in Seq(CmdType), NEW t \in Times
    PROVE  Good(Replay(f, t)) /\ Filled(Replay(f, t))
<1> DEFINE run == Steps(Empty, f, t)
           T == {n \in Nat : n <= Len(f) => Good(run[n]) /\ Filled(run[n])}
<1>1. /\ run[0] = Empty /\ Replay(f, t) = run[Len(f)]
      /\ \A n \in 1 .. Len(f) : run[n] = Exec(run[n - 1], f[n], t).db
  BY StepOf DEF Replay
<1> HIDE DEF run
<1>2. 0 \in T
  BY <1>1, EmptyIs
<1>3. ASSUME NEW n \in Nat, n \in T
      PROVE  n + 1 \in T
  <2> SUFFICES ASSUME n + 1 <= Len(f)
               PROVE  Good(run[n + 1]) /\ Filled(run[n + 1])
    OBVIOUS
  <2>1. Good(run[n]) /\ Filled(run[n]) /\ f[n + 1] \in CmdType
    BY <1>3
  <2>2. run[n + 1] = Exec(run[n], f[n + 1], t).db
    BY <1>1
  <2> QED
    BY <2>1, <2>2, ExecFilled
<1> HIDE DEF T
<1>4. \A n \in Nat : n \in T
  BY <1>2, <1>3, SetInduction
<1>5. Good(run[Len(f)]) /\ Filled(run[Len(f)])
  BY <1>4 DEF T
<1> QED
  BY <1>1, <1>5

-------------------------------------------------------------------------------
(* What a replay has to do with the database *)

\* What a key is for clients at t: the entity and the deadline.
Norm(s, k, t) == IF Expired(s, k, t) THEN <<Nil, Never>> ELSE <<s.data[k], s.ttl[k]>>

\* The replay e has key k as the database s has it, at t, and shares its entity among the
\* keys sure, as s does.  A key that never was past its deadline is so in e if it is in s.
Found(s, e, sures, late, t, k) ==
    /\ Norm(s, k, t) = Norm(e, k, t)
    /\ k \notin late => (Expired(s, k, t) <=> Expired(e, k, t))
    /\ \A p \in Keys : Tie(e, k, p) /\ ~Expired(e, k, t) /\ ~Expired(e, p, t)
                           => p \in sures /\ Tie(s, k, p)
    /\ \A p \in sures : Tie(s, k, p) /\ ~Expired(s, k, t) /\ ~Expired(s, p, t) => Tie(e, k, p)

Brings(s, e, sures, late, t) ==
    /\ Good(s) /\ Filled(s) /\ Good(e) /\ Filled(e)
    /\ sures \in SUBSET Keys
    /\ \A k \in sures : Found(s, e, sures, late, t, k)

\* Norm at a later moment, and what a tie says.
LEMMA NormIs ==
    ASSUME NEW s, NEW e, NEW k, NEW t, Norm(s, k, t) = Norm(e, k, t)
    PROVE  /\ ~Expired(s, k, t) /\ s.data[k] # Nil =>
                  ~Expired(e, k, t) /\ e.data[k] = s.data[k] /\ e.ttl[k] = s.ttl[k]
           /\ ~Expired(e, k, t) /\ e.data[k] # Nil =>
                  ~Expired(s, k, t) /\ e.data[k] = s.data[k] /\ e.ttl[k] = s.ttl[k]
           /\ ~Expired(s, k, t) /\ ~Expired(e, k, t) =>
                  e.data[k] = s.data[k] /\ e.ttl[k] = s.ttl[k]
<1>1. \A a, b, c, d : <<a, b>> = <<c, d>> => a = c /\ b = d
  OBVIOUS
<1>2. Expired(s, k, t) => Norm(s, k, t) = <<Nil, Never>>
  BY DEF Norm
<1>3. Expired(e, k, t) => Norm(e, k, t) = <<Nil, Never>>
  BY DEF Norm
<1>4. ~Expired(s, k, t) => Norm(s, k, t) = <<s.data[k], s.ttl[k]>>
  BY DEF Norm
<1>5. ~Expired(e, k, t) => Norm(e, k, t) = <<e.data[k], e.ttl[k]>>
  BY DEF Norm
<1> QED
  BY <1>1, <1>2, <1>3, <1>4, <1>5

\* A key that is past its deadline stays so.
LEMMA LaterIs ==
    ASSUME NEW s, Good(s), NEW k \in Keys, NEW m \in Times, NEW t \in Times, m <= t
    PROVE  Expired(s, k, m) => Expired(s, k, t)
<1>1. s.ttl[k] \in Int /\ m \in Int /\ t \in Int
  BY DbParts, NeverIs DEF Deadlines, Times
<1> QED
  BY <1>1 DEF Expired

LEMMA NormLater ==
    ASSUME NEW s, Good(s), NEW e, Good(e), NEW k \in Keys, NEW m \in Times, NEW t \in Times,
           m <= t, Norm(s, k, m) = Norm(e, k, m)
    PROVE  Norm(s, k, t) = Norm(e, k, t)
<1>1. Expired(s, k, m) => Expired(s, k, t)
  BY LaterIs
<1>2. Expired(e, k, m) => Expired(e, k, t)
  BY LaterIs
<1>3. CASE ~Expired(s, k, m) /\ ~Expired(e, k, m)
  BY <1>3, NormIs DEF Norm, Expired
<1>4. CASE Expired(s, k, m) /\ Expired(e, k, m)
  BY <1>1, <1>2, <1>4 DEF Norm
<1>5. ASSUME NEW a, NEW b, Expired(a, k, m), ~Expired(b, k, m), Norm(a, k, m) = Norm(b, k, m),
             Expired(a, k, m) => Expired(a, k, t)
      PROVE  Norm(a, k, t) = Norm(b, k, t)
  <2>1. <<Nil, Never>> = <<b.data[k], b.ttl[k]>>
    BY <1>5 DEF Norm
  <2>2. b.data[k] = Nil /\ b.ttl[k] = Never
    BY <2>1
  <2> QED
    BY <1>5, <2>2 DEF Norm, Expired
<1> QED
  BY <1>1, <1>2, <1>3, <1>4, <1>5

\* The keys that are named, or share an entity with one that is.
Reached(s, ns) == ns \cup {k \in Keys : \E q \in ns : Tie(s, k, q)}

LEMMA ReachedIs ==
    ASSUME NEW s, Good(s), NEW ns \in SUBSET Keys, NEW t
    PROVE  /\ Reached(s, ns) \in SUBSET Keys /\ ns \subseteq Reached(s, ns)
           /\ ns \cup Linked(s, ns, t) \subseteq Reached(s, ns)
           /\ \A k \in Keys \ ns : \A p \in Reached(s, ns) : Tie(s, k, p) => k \in Reached(s, ns)
           /\ ns \cup UNION {Aliases(s, k) : k \in ns} = Reached(s, ns)
<1>1. Reached(s, ns) \in SUBSET Keys
  BY DEF Reached
<1>2. ns \cup Linked(s, ns, t) \subseteq Reached(s, ns)
  BY DEF Reached, Linked
<1>3. ASSUME NEW k \in Keys \ ns, NEW p \in Reached(s, ns), Tie(s, k, p)
      PROVE  k \in Reached(s, ns)
  <2>1. CASE p \in ns
    BY <1>3, <2>1 DEF Reached
  <2>2. CASE p \notin ns
    <3>1. PICK q \in ns : Tie(s, p, q)
      BY <2>2 DEF Reached
    <3>2. Tie(s, k, q)
      BY <1>1, <1>3, <3>1, TieIs
    <3> QED
      BY <3>2 DEF Reached
  <2> QED
    BY <2>1, <2>2
<1>4. ns \cup UNION {Aliases(s, k) : k \in ns} = Reached(s, ns)
  <2>1. \A j : \A k \in ns : j \in Aliases(s, k) <=> j \in Keys /\ Tie(s, j, k)
    BY DEF Aliases, Tie
  <2> QED
    BY <2>1 DEF Reached
<1> QED
  BY <1>1, <1>2, <1>3, <1>4 DEF Reached

\* What a command does not name stays as it is for a replay, too.
Rests(s, f, ns, t) ==
    \A k \in Keys \ ns : /\ f.ttl[k] = s.ttl[k] /\ (f.data[k] = Nil <=> s.data[k] = Nil)
                         /\ \A m : Expired(f, k, m) <=> Expired(s, k, m)
                         /\ k \notin Linked(s, ns, t) => f.data[k] = s.data[k]
                         /\ k \notin Linked(s, ns, t) => \A m : Norm(f, k, m) = Norm(s, k, m)
                         /\ \A j \in Keys \ ns : Tie(f, k, j) <=> Tie(s, k, j)

LEMMA RestsIs ==
    ASSUME NEW s, Good(s), NEW f, NEW ns \in SUBSET Keys, NEW t, Keeps(s, f, ns, Linked(s, ns, t), t)
    PROVE  Rests(s, f, ns, t)
<1> SUFFICES ASSUME NEW k \in Keys \ ns
             PROVE  /\ f.ttl[k] = s.ttl[k] /\ (f.data[k] = Nil <=> s.data[k] = Nil)
                    /\ \A m : Expired(f, k, m) <=> Expired(s, k, m)
                    /\ k \notin Linked(s, ns, t) => f.data[k] = s.data[k]
                    /\ k \notin Linked(s, ns, t) => \A m : Norm(f, k, m) = Norm(s, k, m)
                    /\ \A j \in Keys \ ns : Tie(f, k, j) <=> Tie(s, k, j)
  BY DEF Rests
<1>1. /\ f.ttl[k] = s.ttl[k] /\ (f.data[k] = Nil <=> s.data[k] = Nil)
      /\ k \notin Linked(s, ns, t) => f.data[k] = s.data[k]
      /\ \A j \in Keys \ ns : Tie(f, j, k) <=> Tie(s, j, k)
      /\ Good(f)
  BY DEF Keeps
<1>2. \A m : Expired(f, k, m) <=> Expired(s, k, m)
  BY <1>1 DEF Expired
<1>3. k \notin Linked(s, ns, t) => \A m : Norm(f, k, m) = Norm(s, k, m)
  BY <1>1, <1>2 DEF Norm
<1>4. \A j \in Keys \ ns : Tie(f, k, j) <=> Tie(s, k, j)
  BY <1>1, TieIs
<1> QED
  BY <1>1, <1>2, <1>3, <1>4

\* Keys that share their entity with none that a command names: the replay still has them.
LEMMA Outside ==
    ASSUME NEW s, NEW e, NEW T, NEW late, NEW p \in Times, NEW t \in Times, p <= t,
           Brings(s, e, T, late, t), NEW ns \in SUBSET Keys,
           NEW f, Keeps(s, f, ns, Linked(s, ns, p), p),
           NEW g, Keeps(e, g, ns, Linked(e, ns, t), t),
           NEW sures, sures \ Reached(s, ns) = T \ Reached(s, ns),
           NEW after, late \subseteq after \cup Reached(s, ns),
           NEW k \in sures \ Reached(s, ns)
    PROVE  Found(f, g, sures, after, t, k)
<1> DEFINE touched == Reached(s, ns)
<1>1. Good(s) /\ Good(e) /\ Good(f) /\ Good(g) /\ Filled(s) /\ Filled(e)
  BY DEF Brings, Keeps
<1>2. /\ touched \in SUBSET Keys /\ ns \subseteq touched /\ Linked(s, ns, p) \subseteq touched
      /\ \A j \in Keys \ ns : \A i \in touched : Tie(s, j, i) => j \in touched
  BY <1>1, ReachedIs
<1>3. k \in T /\ k \in Keys /\ k \notin ns /\ T \in SUBSET Keys /\ Found(s, e, T, late, t, k)
  BY <1>2 DEF Brings
<1>4. Rests(s, f, ns, p) /\ Rests(e, g, ns, t)
  BY <1>1, RestsIs
<1>5. k \notin Linked(s, ns, p) /\ Norm(f, k, t) = Norm(s, k, t)
  BY <1>2, <1>3, <1>4 DEF Rests
<1>6. \* In the replay it is not linked with a key that is named either.
      ASSUME ~Expired(e, k, t)
      PROVE  k \notin Linked(e, ns, t)
  <2> SUFFICES ASSUME NEW q \in ns, Tie(e, k, q), ~Expired(e, q, t)
               PROVE  FALSE
    BY DEF Linked
  <2>1. Tie(s, k, q)
    BY <1>3, <1>6 DEF Found
  <2> QED
    BY <1>2, <1>3, <2>1
<1>7. Expired(g, k, t) <=> Expired(e, k, t)
  BY <1>3, <1>4 DEF Rests
<1>8. Norm(f, k, t) = Norm(g, k, t)
  <2>1. Norm(g, k, t) = Norm(e, k, t)
    <3>1. CASE Expired(e, k, t)
      BY <1>7, <3>1 DEF Norm
    <3>2. CASE ~Expired(e, k, t)
      BY <1>3, <1>4, <1>6, <3>2 DEF Rests
    <3> QED
      BY <3>1, <3>2
  <2> QED
    BY <1>3, <1>5, <2>1 DEF Found
<1>9. k \notin after => (Expired(f, k, t) <=> Expired(g, k, t))
  BY <1>3, <1>4, <1>7 DEF Found, Rests
<1>10. ASSUME NEW j \in Keys, Tie(g, k, j), ~Expired(g, k, t), ~Expired(g, j, t)
       PROVE  j \in sures /\ Tie(f, k, j)
  <2>1. j \notin ns
    <3> SUFFICES ASSUME j \in ns PROVE FALSE
      OBVIOUS
    <3>1. Clear(g, j, ns, Linked(e, ns, t))
      BY <1>10 DEF Keeps
    <3> QED
      BY <1>3, <1>6, <1>7, <1>10, <3>1 DEF Clear
  <2>2. Tie(e, k, j) /\ ~Expired(e, j, t) /\ ~Expired(e, k, t)
    BY <1>3, <1>4, <1>7, <1>10, <2>1 DEF Rests
  <2>3. j \in T /\ Tie(s, k, j)
    BY <1>3, <2>2 DEF Found
  <2>4. j \notin touched
    BY <1>2, <1>3, <2>3
  <2> QED
    BY <1>3, <1>4, <2>1, <2>3, <2>4 DEF Rests
<1>11. ASSUME NEW j \in sures, Tie(f, k, j), ~Expired(f, k, t), ~Expired(f, j, t)
       PROVE  Tie(g, k, j)
  <2>1. j \in Keys
    BY <1>2, <1>3
  <2>2. j \notin ns
    <3> SUFFICES ASSUME j \in ns PROVE FALSE
      OBVIOUS
    <3>1. ~Expired(f, j, p)
      BY <1>1, <1>11, <2>1, LaterIs
    <3>2. Clear(f, j, ns, Linked(s, ns, p))
      BY <3>1 DEF Keeps
    <3> QED
      BY <1>3, <1>5, <1>11, <3>2 DEF Clear
  <2>3. Tie(s, k, j) /\ ~Expired(s, j, t) /\ ~Expired(s, k, t)
    BY <1>3, <1>4, <1>11, <2>1, <2>2 DEF Rests
  <2>4. j \in T
    BY <1>2, <1>3, <2>3
  <2>5. Tie(e, k, j)
    BY <1>3, <2>3, <2>4 DEF Found
  <2> QED
    BY <1>3, <1>4, <2>1, <2>2, <2>5 DEF Rests
<1> QED
  BY <1>8, <1>9, <1>10, <1>11 DEF Found

\* Keys that are past their deadline, and were known to be, are removed.
LEMMA Forgets ==
    ASSUME NEW s, NEW e, NEW T, NEW late, NEW t, Brings(s, e, T, late, t),
           NEW gone \in SUBSET late, gone \subseteq Keys, \A k \in gone \cap T : Expired(s, k, t),
           NEW f, RemTo(s, gone, f), NEW after, late \subseteq after
    PROVE  Brings(f, e, T, after, t)
<1>1. /\ Good(s) /\ Filled(s) /\ Good(e) /\ Filled(e) /\ T \in SUBSET Keys
      /\ \A k \in T : Found(s, e, T, late, t, k)
  BY DEF Brings
<1>2. Good(f) /\ Filled(f)
  BY <1>1 DEF RemTo, Filled
<1>3. \A k \in Keys : /\ k \in gone => f.data[k] = Nil /\ f.ttl[k] = Never /\ ~Expired(f, k, t)
                                       /\ Norm(f, k, t) = <<Nil, Never>>
                      /\ k \notin gone => /\ Expired(f, k, t) <=> Expired(s, k, t)
                                          /\ Norm(f, k, t) = Norm(s, k, t)
  BY DEF RemTo, Norm, Expired
<1>4. ASSUME NEW k \in T
      PROVE  Found(f, e, T, after, t, k)
  <2>1. Found(s, e, T, late, t, k) /\ k \in Keys
    BY <1>1
  <2>2. Norm(f, k, t) = Norm(e, k, t)
    <3>1. k \in gone => Norm(s, k, t) = <<Nil, Never>>
      BY <2>1 DEF Norm
    <3> QED
      BY <1>3, <2>1, <3>1 DEF Found
  <2>3. k \notin after => (Expired(f, k, t) <=> Expired(e, k, t))
    BY <1>3, <2>1 DEF Found
  <2>4. ASSUME NEW p \in Keys, Tie(e, k, p), ~Expired(e, k, t), ~Expired(e, p, t)
        PROVE  p \in T /\ Tie(f, k, p)
    <3>1. p \in T /\ Tie(s, k, p) /\ Tie(e, p, k)
      BY <1>1, <2>1, <2>4, TieIs DEF Found
    <3>2. e.data[k] # Nil /\ e.data[p] # Nil
      BY <1>1, <2>1, <2>4, <3>1 DEF Filled
    <3>3. Norm(s, k, t) = Norm(e, k, t) /\ Norm(s, p, t) = Norm(e, p, t)
      BY <1>1, <2>1, <3>1 DEF Found
    <3>4. ~Expired(s, k, t) /\ ~Expired(s, p, t)
      BY <2>4, <3>2, <3>3, NormIs
    <3> QED
      BY <2>1, <3>1, <3>4 DEF RemTo
  <2>5. ASSUME NEW p \in T, Tie(f, k, p), ~Expired(f, k, t), ~Expired(f, p, t)
        PROVE  Tie(e, k, p)
    <3>1. p \in Keys
      BY <1>1
    <3>2. Tie(s, k, p) /\ k \notin gone /\ p \notin gone
      BY <2>1, <2>5, <3>1 DEF RemTo
    <3> QED
      BY <1>3, <2>1, <2>5, <3>1, <3>2 DEF Found
  <2> QED
    BY <2>2, <2>3, <2>4, <2>5 DEF Found
<1> QED
  BY <1>1, <1>2, <1>4 DEF Brings

\* Key k gets a new entity and a deadline.
NewKey(s, k, x, at, f) ==
    /\ Good(f)
    /\ f.data[k] = x /\ f.ttl[k] = at
    /\ \A j \in Keys \ {k} : f.data[j] = s.data[j] /\ f.ttl[j] = s.ttl[j]
    /\ \A i, j \in Keys : Tie(f, i, j) <=> Tie(s, i, j) /\ i # k /\ j # k

LEMMA NewIs ==
    ASSUME NEW s, Good(s), NEW k \in Keys, NEW x \in Entities
    PROVE  /\ NewKey(s, k, x, Never, Persist(PutEntity(s, k, x), k))
           /\ \A t : \A at \in Deadlines : at # Never =>
                  NewKey(s, k, x, at, Expire(PutEntity(s, k, x), k, at, t))
<1> DEFINE f == PutEntity(s, k, x)
<1>1. PutTo(s, {k}, x, f)
  BY PutTie DEF PutEntity
<1>2. Good(f)
  BY <1>1 DEF PutTo
<1> HIDE DEF f
<1>3. ASSUME NEW at, NEW g, RetimeTo(f, k, at, g)
      PROVE  NewKey(s, k, x, at, g)
  BY <1>1, <1>3 DEF PutTo, RetimeTo, NewKey
<1>4. RetimeTo(f, k, Never, Persist(f, k))
  BY <1>2, RetimeTie
<1>5. \A t : \A at \in Deadlines : at # Never => RetimeTo(f, k, at, Expire(f, k, at, t))
  BY <1>2, RetimeTie
<1> QED
  BY <1>3, <1>4, <1>5 DEF f

\* SET and SETEX: the key is new on both sides.
LEMMA Fresh ==
    ASSUME NEW s, NEW e, NEW T, NEW late, NEW t, Brings(s, e, T, late, t),
           NEW k \in Keys, NEW x, x # Nil, NEW at, NEW to,
           NEW f, NewKey(s, k, x, at, f), NEW g, NewKey(e, k, x, to, g),
           NEW sures \in SUBSET Keys, sures \ {k} = T \ {k}, k \in sures => at = to,
           NEW after, late \subseteq after \cup {k}
    PROVE  Brings(f, g, sures, after, t)
<1>1. /\ Good(s) /\ Filled(s) /\ Good(e) /\ Filled(e) /\ T \in SUBSET Keys
      /\ \A j \in T : Found(s, e, T, late, t, j)
  BY DEF Brings
<1>2. Good(f) /\ Filled(f) /\ Good(g) /\ Filled(g)
  BY <1>1 DEF NewKey, Filled
<1>3. \A j \in Keys \ {k} : /\ Expired(f, j, t) <=> Expired(s, j, t)
                            /\ Expired(g, j, t) <=> Expired(e, j, t)
                            /\ Norm(f, j, t) = Norm(s, j, t) /\ Norm(g, j, t) = Norm(e, j, t)
  BY DEF NewKey, Norm, Expired
<1>4. k \in sures => Found(f, g, sures, after, t, k)
  <2>1. k \in sures => f.data[k] = g.data[k] /\ f.ttl[k] = g.ttl[k]
    BY DEF NewKey
  <2>2. \A p \in Keys : ~Tie(f, k, p) /\ ~Tie(g, k, p)
    BY DEF NewKey
  <2> QED
    BY <2>1, <2>2 DEF Found, Norm, Expired
<1>5. ASSUME NEW j \in sures \ {k}
      PROVE  Found(f, g, sures, after, t, j)
  <2>1. j \in T /\ j \in Keys \ {k} /\ Found(s, e, T, late, t, j)
    BY <1>1
  <2>2. /\ Norm(f, j, t) = Norm(g, j, t)
        /\ j \notin after => (Expired(f, j, t) <=> Expired(g, j, t))
    BY <1>3, <2>1 DEF Found
  <2>3. ASSUME NEW p \in Keys, Tie(g, j, p), ~Expired(g, j, t), ~Expired(g, p, t)
        PROVE  p \in sures /\ Tie(f, j, p)
    <3>1. Tie(e, j, p) /\ p # k
      BY <2>1, <2>3 DEF NewKey
    <3>2. p \in T /\ Tie(s, j, p)
      BY <1>3, <2>1, <2>3, <3>1 DEF Found
    <3> QED
      BY <2>1, <3>1, <3>2 DEF NewKey
  <2>4. ASSUME NEW p \in sures, Tie(f, j, p), ~Expired(f, j, t), ~Expired(f, p, t)
        PROVE  Tie(g, j, p)
    <3>1. Tie(s, j, p) /\ p # k /\ p \in T /\ p \in Keys
      BY <2>1, <2>4 DEF NewKey
    <3>2. Tie(e, j, p)
      BY <1>3, <2>1, <2>4, <3>1 DEF Found
    <3> QED
      BY <2>1, <3>1, <3>2 DEF NewKey
  <2> QED
    BY <2>2, <2>3, <2>4 DEF Found
<1> QED
  BY <1>2, <1>4, <1>5 DEF Brings

\* Both databases are empty.
LEMMA BothEmpty ==
    ASSUME NEW T \in SUBSET Keys, NEW late, NEW t
    PROVE  Brings(Empty, Empty, T, late, t)
BY EmptyIs DEF Brings, Found

\* The keys that are reached and that neither side finds past their deadline.
Inner(s, e, ns, p, t) ==
    ns \cup {k \in Reached(s, ns) : ~Expired(s, k, p) /\ ~Expired(e, k, t)}

\* No deadline of the keys reached has passed between the command and the replay.
Timely(s, ns, p, t) == \A k \in Reached(s, ns) : Expired(s, k, t) => Expired(s, k, p)

\* There a replay that brings back the keys agrees, after the look.
LEMMA InnerAgrees ==
    ASSUME NEW s, NEW e, NEW T, NEW late, NEW p \in Times, NEW t \in Times, p <= t,
           Brings(s, e, T, late, t), NEW ns \in SUBSET Keys, Reached(s, ns) \subseteq T,
           Timely(s, ns, p, t)
    PROVE  Agree(Look(s, ns, p), Look(e, ns, t), Inner(s, e, ns, p, t))
<1> DEFINE touched == Reached(s, ns)
           K == Inner(s, e, ns, p, t)
           u == Look(s, ns, p)
           v == Look(e, ns, t)
           ks == {k \in ns : Expired(s, k, p)}
           es == {k \in ns : Expired(e, k, t)}
<1>1. /\ Good(s) /\ Filled(s) /\ Good(e) /\ Filled(e) /\ T \in SUBSET Keys
      /\ \A k \in T : Found(s, e, T, late, t, k)
  BY DEF Brings
<1>2. touched \in SUBSET Keys /\ ns \subseteq touched /\ K \subseteq touched /\ touched \subseteq T
  BY <1>1, ReachedIs DEF Inner
<1>3. RemTo(s, ks, u) /\ RemTo(e, es, v)
  BY <1>1, RemTie DEF Look
<1>4. \A k \in touched : Expired(s, k, t) <=> Expired(s, k, p)
  BY <1>1, <1>2, LaterIs DEF Timely
<1>5. \A k \in K : k \notin ns => ~Expired(s, k, p) /\ ~Expired(e, k, t)
  BY DEF Inner
<1> HIDE DEF touched, K, u, v
<1>6. ASSUME NEW k \in K
      PROVE  u.data[k] = v.data[k] /\ u.ttl[k] = v.ttl[k]
  <2>1. k \in Keys /\ k \in T /\ k \in touched
    BY <1>2
  <2>2. Norm(s, k, t) = Norm(e, k, t)
    BY <1>1, <2>1 DEF Found
  <2>3. /\ u.data[k] = IF Expired(s, k, p) THEN Nil ELSE s.data[k]
        /\ u.ttl[k] = IF Expired(s, k, p) THEN Never ELSE s.ttl[k]
    BY <1>3, <1>5, <2>1 DEF RemTo
  <2>4. /\ v.data[k] = IF Expired(e, k, t) THEN Nil ELSE e.data[k]
        /\ v.ttl[k] = IF Expired(e, k, t) THEN Never ELSE e.ttl[k]
    BY <1>3, <1>5, <2>1 DEF RemTo
  <2>5. <<u.data[k], u.ttl[k]>> = Norm(s, k, t) /\ <<v.data[k], v.ttl[k]>> = Norm(e, k, t)
    BY <1>4, <2>1, <2>3, <2>4 DEF Norm
  <2> QED
    BY <2>2, <2>5
<1>7. ASSUME NEW j \in K, NEW k \in K
      PROVE  Tie(u, j, k) <=> Tie(v, j, k)
  <2>1. /\ j \in Keys /\ j \in T /\ j \in touched /\ k \in Keys /\ k \in T /\ k \in touched
    BY <1>2
  <2>2. /\ Tie(u, j, k) <=> Tie(s, j, k) /\ ~Expired(s, j, p) /\ ~Expired(s, k, p)
        /\ Tie(v, j, k) <=> Tie(e, j, k) /\ ~Expired(e, j, t) /\ ~Expired(e, k, t)
    BY <1>3, <1>5, <2>1 DEF RemTo
  <2>3. Norm(s, j, t) = Norm(e, j, t) /\ Norm(s, k, t) = Norm(e, k, t)
    BY <1>1, <2>1 DEF Found
  <2>4. ASSUME Tie(s, j, k), ~Expired(s, j, p), ~Expired(s, k, p)
        PROVE  Tie(e, j, k) /\ ~Expired(e, j, t) /\ ~Expired(e, k, t)
    <3>1. ~Expired(s, j, t) /\ ~Expired(s, k, t)
      BY <1>4, <2>1, <2>4
    <3>2. s.data[j] # Nil /\ s.data[k] # Nil
      BY <1>1, <2>1, <2>4, TieIs DEF Filled
    <3>3. Tie(e, j, k)
      BY <1>1, <2>1, <2>4, <3>1 DEF Found
    <3> QED
      BY <2>3, <3>1, <3>2, <3>3, NormIs
  <2>5. ASSUME Tie(e, j, k), ~Expired(e, j, t), ~Expired(e, k, t)
        PROVE  Tie(s, j, k) /\ ~Expired(s, j, p) /\ ~Expired(s, k, p)
    <3>1. e.data[j] # Nil /\ e.data[k] # Nil
      BY <1>1, <2>1, <2>5, TieIs DEF Filled
    <3>2. ~Expired(s, j, t) /\ ~Expired(s, k, t)
      BY <2>3, <2>5, <3>1, NormIs
    <3>3. Tie(s, j, k)
      BY <1>1, <2>1, <2>5 DEF Found
    <3> QED
      BY <1>4, <2>1, <3>2, <3>3
  <2> QED
    BY <2>2, <2>4, <2>5
<1>8. Good(u) /\ Good(v)
  BY <1>3 DEF RemTo
<1> QED
  BY <1>6, <1>7, <1>8 DEF Agree, K, u, v

\* The command and its line meet the same.
LEMMA InnerMatched ==
    ASSUME NEW s, NEW e, NEW T, NEW late, NEW p \in Times, NEW t \in Times, p <= t,
           Brings(s, e, T, late, t), NEW c, Asked(s, c, p),
           Reached(s, KeysOf(c)) \subseteq T, Timely(s, KeysOf(c), p, t),
           Late(s, p) \subseteq late, SeesExpired(c) \cap late = {},
           ~Spills(Look(s, KeysOf(c), p), c)
    PROVE  Matched(s, e, c, Inner(s, e, KeysOf(c), p, t), p, t)
<1> DEFINE ns == KeysOf(c)
           K == Inner(s, e, ns, p, t)
<1>1. Good(s) /\ Good(e) /\ ns \in SUBSET Keys /\ c \in CmdType /\ c.op \notin Flushes
  BY KeysAre DEF Brings, Asked
<1>2. Agree(Look(s, ns, p), Look(e, ns, t), K)
  BY <1>1, InnerAgrees
<1>3. K \in SUBSET Keys /\ ns \subseteq K /\ ns \subseteq Reached(s, ns)
  <2> HIDE DEF ns
  <2>1. ns \subseteq Reached(s, ns) /\ Reached(s, ns) \in SUBSET Keys
    BY <1>1, ReachedIs
  <2>2. K \in SUBSET Keys /\ ns \subseteq K
    BY <1>1, <2>1, Zenon DEF Inner
  <2> QED
    BY ONLY <2>1, <2>2
<1>4. SeesExpired(c) \subseteq ns
  BY <1>1, KeysAre DEF SeesExpired, Pairs
<1>5. ASSUME NEW k \in SeesExpired(c)
      PROVE  ~Expired(s, k, p) /\ ~Expired(e, k, t)
  <2>1. k \notin late /\ k \in Reached(s, ns) /\ k \in T /\ k \in Keys
    BY <1>1, <1>3, <1>4
  <2>2. k \notin Late(s, p)
    BY <2>1
  <2>3. ~Expired(s, k, p)
    BY <2>1, <2>2, <1>1, DbParts, NeverIs DEF Expired, Late, Times, Deadlines
  <2>4. ~Expired(s, k, t)
    BY <2>1, <2>3 DEF Timely
  <2> QED
    BY <2>1, <2>3, <2>4 DEF Brings, Found
<1>6. Asked(s, c, p) /\ Asked(e, c, t)
  BY <1>1 DEF Asked
<1>7. ~Spills(Look(s, ns, p), c)
  OBVIOUS
<1> HIDE DEF K, ns
<1> QED
  BY <1>2, <1>3, <1>5, <1>6, <1>7 DEF Matched, K, ns

\* The keys that a command and its line leave with the same are what they should be, and
\* the others that are reached were gone on both sides.
LEMMA Inside ==
    ASSUME NEW s, NEW e, NEW T, NEW late, NEW p \in Times, NEW t \in Times, p <= t,
           Brings(s, e, T, late, t), NEW ns \in SUBSET Keys,
           Reached(s, ns) \subseteq T, Timely(s, ns, p, t),
           NEW f, Keeps(s, f, ns, Linked(s, ns, p), p),
           NEW g, Keeps(e, g, ns, Linked(e, ns, t), t),
           Agree(f, g, Inner(s, e, ns, p, t)),
           NEW sures \in SUBSET Keys, Reached(s, ns) \subseteq sures,
           NEW after, late \subseteq after,
           NEW k \in Reached(s, ns)
    PROVE  Found(f, g, sures, after, t, k)
<1> DEFINE touched == Reached(s, ns)
           K == Inner(s, e, ns, p, t)
<1>1. /\ Good(s) /\ Good(e) /\ Good(f) /\ Good(g)
      /\ Filled(s) /\ Filled(e) /\ Filled(f) /\ Filled(g)
      /\ \A j \in touched : Found(s, e, T, late, t, j) /\ j \in T /\ j \in sures
  BY DEF Brings, Keeps
<1>2. /\ touched \in SUBSET Keys /\ ns \subseteq touched /\ Linked(s, ns, p) \subseteq touched
      /\ \A j \in Keys \ ns : \A i \in touched : Tie(s, j, i) => j \in touched
      /\ K \subseteq touched /\ ns \subseteq K
  BY <1>1, ReachedIs DEF Inner
<1>3. Rests(s, f, ns, p) /\ Rests(e, g, ns, t)
  BY <1>1, RestsIs
<1>4. \A j \in touched : Expired(s, j, t) <=> Expired(s, j, p)
  BY <1>1, <1>2, LaterIs DEF Timely
<1>5. \* Outside of K nothing is there at t.
      ASSUME NEW j \in touched \ K
      PROVE  /\ j \notin ns /\ j \in Keys
             /\ Norm(f, j, t) = Norm(g, j, t)
             /\ f.data[j] = Nil \/ Expired(f, j, t)
             /\ g.data[j] = Nil \/ Expired(g, j, t)
             /\ Expired(f, j, t) <=> Expired(s, j, t)
             /\ Expired(g, j, t) <=> Expired(e, j, t)
  <2>1. j \notin ns /\ j \in Keys /\ (Expired(s, j, t) \/ Expired(e, j, t))
    BY <1>2, <1>4 DEF Inner
  <2>2. Norm(s, j, t) = Norm(e, j, t)
    BY <1>1 DEF Found
  <2>3. /\ Expired(f, j, t) <=> Expired(s, j, t)
        /\ Expired(g, j, t) <=> Expired(e, j, t)
        /\ f.ttl[j] = s.ttl[j] /\ g.ttl[j] = e.ttl[j]
        /\ (f.data[j] = Nil <=> s.data[j] = Nil) /\ (g.data[j] = Nil <=> e.data[j] = Nil)
    BY <1>3, <2>1 DEF Rests
  <2>4. /\ ~Expired(s, j, t) => s.data[j] = Nil /\ s.ttl[j] = Never
        /\ ~Expired(e, j, t) => e.data[j] = Nil /\ e.ttl[j] = Never
    <3>1. ASSUME NEW a, NEW b, Norm(a, j, t) = Norm(b, j, t), ~Expired(a, j, t), Expired(b, j, t)
          PROVE  a.data[j] = Nil /\ a.ttl[j] = Never
      <4>1. <<a.data[j], a.ttl[j]>> = <<Nil, Never>>
        BY <3>1 DEF Norm
      <4> QED
        BY <4>1
    <3> QED
      BY <2>1, <2>2, <3>1
  <2>5. Norm(f, j, t) = <<Nil, Never>>
    BY <2>3, <2>4 DEF Norm
  <2>6. Norm(g, j, t) = <<Nil, Never>>
    BY <2>3, <2>4 DEF Norm
  <2> QED
    BY <2>1, <2>3, <2>4, <2>5, <2>6
<1>6. \* The entities of K stay inside the keys that are reached, in f
      ASSUME NEW i \in touched, NEW j \in Keys, Tie(f, i, j), ~Expired(f, i, t), ~Expired(f, j, t)
      PROVE  j \in touched
  <2> SUFFICES ASSUME j \notin touched PROVE FALSE
    OBVIOUS
  <2>1. j \notin ns /\ i \in Keys /\ Tie(f, j, i)
    BY <1>1, <1>2, <1>6, TieIs
  <2>2. CASE i \in ns
    <3>1. ~Expired(f, i, p)
      BY <1>1, <1>6, <2>1, LaterIs
    <3>2. Clear(f, i, ns, Linked(s, ns, p))
      BY <2>2, <3>1 DEF Keeps
    <3> QED
      BY <1>2, <2>1, <3>2 DEF Clear
  <2>3. CASE i \notin ns
    <3>1. Tie(s, j, i)
      BY <1>3, <2>1, <2>3 DEF Rests
    <3> QED
      BY <1>2, <2>1, <3>1
  <2> QED
    BY <2>2, <2>3
<1>7. \* and in g.
      ASSUME NEW i \in touched, NEW j \in Keys, Tie(g, i, j), ~Expired(g, i, t), ~Expired(g, j, t)
      PROVE  j \in touched
  <2> SUFFICES ASSUME j \notin touched PROVE FALSE
    OBVIOUS
  <2>1. j \notin ns /\ i \in Keys /\ Tie(g, j, i)
    BY <1>1, <1>2, <1>7, TieIs
  <2>2. ~Expired(e, j, t)
    BY <1>3, <1>7, <2>1 DEF Rests
  <2>3. \* A tie with a key reached is one of s, too.
        ASSUME NEW q \in touched, Tie(e, q, j), ~Expired(e, q, t)
        PROVE  FALSE
    <3>1. Tie(s, q, j)
      BY <1>1, <2>2, <2>3 DEF Found
    <3>2. Tie(s, j, q)
      BY <1>1, <1>2, <3>1, TieIs
    <3> QED
      BY <1>2, <2>1, <3>2
  <2>4. CASE i \in ns
    <3>1. Clear(g, i, ns, Linked(e, ns, t))
      BY <1>7, <2>4 DEF Keeps
    <3>2. j \in Linked(e, ns, t)
      BY <2>1, <3>1 DEF Clear
    <3>3. PICK q \in ns : Tie(e, j, q) /\ ~Expired(e, q, t)
      BY <3>2 DEF Linked
    <3>4. Tie(e, q, j)
      BY <1>1, <1>2, <3>3, TieIs
    <3> QED
      BY <1>2, <2>3, <3>3, <3>4
  <2>5. CASE i \notin ns
    <3>1. Tie(e, i, j) /\ ~Expired(e, i, t)
      BY <1>3, <1>7, <2>1, <2>5 DEF Rests
    <3> QED
      BY <2>3, <3>1
  <2> QED
    BY <2>4, <2>5
<1>8. \* Keys with a tie are in K.
      /\ \A i, j \in touched : Tie(f, i, j) /\ ~Expired(f, i, t) => i \in K
      /\ \A i, j \in touched : Tie(g, i, j) /\ ~Expired(g, i, t) => i \in K
  BY <1>1, <1>2, <1>5 DEF Filled
<1>9. \A i, j \in K : /\ Tie(f, i, j) <=> Tie(g, i, j)
                      /\ f.data[i] = g.data[i] /\ f.ttl[i] = g.ttl[i]
  BY DEF Agree
<1> HIDE DEF K, touched
<1>10. Norm(f, k, t) = Norm(g, k, t)
  BY <1>5, <1>9 DEF Norm, Expired, touched
<1>11. k \notin after => (Expired(f, k, t) <=> Expired(g, k, t))
  <2>1. CASE k \in K
    BY <1>9, <2>1 DEF Expired
  <2>2. CASE k \notin K
    BY <1>1, <1>5, <2>2 DEF Found, touched
  <2> QED
    BY <2>1, <2>2
<1>12. ASSUME NEW j \in Keys, Tie(g, k, j), ~Expired(g, k, t), ~Expired(g, j, t)
       PROVE  j \in sures /\ Tie(f, k, j)
  <2>1. k \in touched /\ k \in Keys /\ j \in touched /\ Tie(g, j, k)
    BY <1>1, <1>2, <1>7, <1>12, TieIs DEF touched
  <2>2. k \in K /\ j \in K
    BY <1>8, <1>12, <2>1
  <2> QED
    BY <1>1, <1>9, <1>12, <2>1, <2>2
<1>13. ASSUME NEW j \in sures, Tie(f, k, j), ~Expired(f, k, t), ~Expired(f, j, t)
       PROVE  Tie(g, k, j)
  <2>1. k \in touched /\ k \in Keys /\ j \in touched /\ Tie(f, j, k)
    BY <1>1, <1>2, <1>6, <1>13, TieIs DEF touched
  <2>2. k \in K /\ j \in K
    BY <1>8, <1>13, <2>1
  <2> QED
    BY <1>9, <1>13, <2>2
<1> QED
  BY <1>10, <1>11, <1>12, <1>13 DEF Found

\* The line of a command names the keys of the command.
LEMMA LineKeeps ==
    ASSUME NEW s, NEW c, NEW p, Asked(s, c, p), Filled(s), NEW e, Good(e), Filled(e),
           NEW t \in Times, NEW l, Exec(s, c, p).lines = <<l>>
    PROVE  /\ l \in CmdType /\ l.op \notin Flushes /\ KeysOf(l) = KeysOf(c)
           /\ Keeps(e, Exec(e, l, t).db, KeysOf(c), Linked(e, KeysOf(c), t), t)
<1>1. \A a, b : <<a>> = <<b>> => a = b
  OBVIOUS
<1>2. Runs(s, Exec(s, c, p), c, p) /\ Exec(s, c, p).lines \in Seq(CmdType)
  BY ExecRuns
<1>3. l.keys = c.keys /\ (l = c \/ l.op \notin Flushes)
  BY <1>1, <1>2, ResultIs DEF Runs
<1>4. l \in CmdType
  <2> DEFINE ls == <<l>>
  <2>1. ls \in Seq(CmdType)
    BY <1>2
  <2>2. 1 \in 1 .. Len(ls) /\ ls[1] = l
    OBVIOUS
  <2> HIDE DEF ls
  <2>3. ls[1] \in CmdType
    BY <2>1, <2>2, ElementOfSeq
  <2> QED
    BY <2>2, <2>3
<1>5. l.op \notin Flushes /\ KeysOf(l) = KeysOf(c)
  BY <1>3 DEF Asked, KeysOf
<1>6. Runs(e, Exec(e, l, t), l, t)
  BY <1>4, <1>5, ExecRuns DEF Asked
<1> QED
  BY <1>4, <1>5, <1>6 DEF Runs, Kept

\* Commands with a line, or one of those whose line is missing: the keys reached are found
\* again if they are still sure.
LEMMA Answered ==
    ASSUME NEW s, NEW e, NEW T, NEW late, NEW p \in Times, NEW t \in Times, p <= t,
           Brings(s, e, T, late, t), NEW c, Asked(s, c, p), Late(s, p) \subseteq late,
           c.op \notin {"set", "setex"},
           NEW g, \/ Exec(s, c, p).lines = <<>> /\ c.op \in Gaps /\ g = e
                  \/ \E l : Exec(s, c, p).lines = <<l>> /\ g = Exec(e, l, t).db,
           NEW sures \in SUBSET Keys,
           sures \ Reached(s, KeysOf(c)) = T \ Reached(s, KeysOf(c)),
           \/ sures \cap Reached(s, KeysOf(c)) = {}
           \/ /\ c.op \notin Gaps /\ SeesExpired(c) \cap late = {}
              /\ ~Spills(Look(s, KeysOf(c), p), c)
              /\ Reached(s, KeysOf(c)) \subseteq T \cap sures
              /\ Timely(s, KeysOf(c), p, t),
           NEW after, late \subseteq after
    PROVE  Brings(Exec(s, c, p).db, g, sures, after, t)
<1> DEFINE ns == KeysOf(c)
           touched == Reached(s, ns)
           f == Exec(s, c, p).db
<1>1. /\ Good(s) /\ Filled(s) /\ Good(e) /\ Filled(e) /\ T \in SUBSET Keys
      /\ ns \in SUBSET Keys
  BY KeysAre DEF Brings, Asked
<1>2. Keeps(s, f, ns, Linked(s, ns, p), p)
  BY <1>1, ExecRuns DEF Runs, Kept
<1>3. Keeps(e, g, ns, Linked(e, ns, t), t)
  <2>1. CASE g = e
    BY <1>1, <2>1, KeepsSelf
  <2>2. CASE \E l : Exec(s, c, p).lines = <<l>> /\ g = Exec(e, l, t).db
    BY <1>1, <2>2, LineKeeps
  <2> QED
    BY <2>1, <2>2
<1>4. ASSUME NEW k \in sures \ touched
      PROVE  Found(f, g, sures, after, t, k)
  BY <1>1, <1>2, <1>3, Outside
<1>5. ASSUME NEW k \in sures \cap touched
      PROVE  Found(f, g, sures, after, t, k)
  <2> DEFINE K == Inner(s, e, ns, p, t)
  <2>1. /\ c.op \notin Gaps /\ SeesExpired(c) \cap late = {} /\ ~Spills(Look(s, ns, p), c)
        /\ touched \subseteq T /\ touched \subseteq sures /\ Timely(s, ns, p, t)
    BY <1>5
  <2>2. PICK l : Exec(s, c, p).lines = <<l>> /\ g = Exec(e, l, t).db
    BY <2>1
  <2>3. Matched(s, e, c, K, p, t)
    BY <2>1, InnerMatched
  <2>4. Agree(f, g, K)
    BY <2>1, <2>2, <2>3, ExecAlike
  <2> QED
    BY <1>1, <1>2, <1>3, <1>5, <2>1, <2>4, Inside
<1>6. Good(f) /\ Filled(f) /\ Good(g) /\ Filled(g)
  BY <1>2, <1>3 DEF Keeps
<1> QED
  BY <1>4, <1>5, <1>6 DEF Brings

-------------------------------------------------------------------------------
(* The history *)

\* Commands whose lines do not say enough.
Breaks(c) == \/ c.op \in Gaps \/ SeesExpired(c) \cap lapsed # {}
             \/ Spills(Look(db, KeysOf(c), now), c)

\* What SureAfter does to the keys.
LEMMA SureCases ==
    ASSUME IInv, NEW c \in CmdType, NEW lines, NEW to, to = SureAfter(c, lines),
           NEW touched, touched = Reached(db, Named(c))
    PROVE  /\ lines = <<>> /\ c.op \notin Gaps => to = sure
           /\ ~(lines = <<>> /\ c.op \notin Gaps) =>
              /\ Reset(c) # {} => \A k \in Keys : to[k] = IF k \in Reset(c) THEN Never ELSE sure[k]
              /\ Reset(c) = {} /\ c.op = "setex" =>
                     \A k \in Keys : to[k] = IF k = Key(c) THEN now ELSE sure[k]
              /\ Reset(c) = {} /\ c.op # "setex" =>
                     /\ \A k \in Keys \ touched : to[k] = sure[k]
                     /\ Breaks(c) =>
                            \A k \in touched : to[k] = Broken
                     /\ ~Breaks(c) =>
                            /\ \A j, k \in touched : to[j] = to[k] /\ to[j] <= sure[k]
                            /\ \A j, k \in touched : ~Expired(db, k, now) => to[j] <= db.ttl[k]
<1> DEFINE all == Named(c) \cup UNION {Aliases(db, k) : k \in Named(c)}
           looked == Look(db, all, now)
           times == UNION {{sure[k], looked.ttl[k]} : k \in all}
           earliest == Min(times)
<1>1. /\ Good(db) /\ sure \in [Keys -> Moments] /\ Named(c) \in SUBSET Keys
  BY KeysAre DEF IInv, Named
<1>2. all = touched /\ touched \in SUBSET Keys
  BY <1>1, ReachedIs
<1>3. to = IF lines = <<>> /\ c.op \notin Gaps THEN sure
           ELSE IF Reset(c) # {} THEN [k \in Keys |-> IF k \in Reset(c) THEN Never ELSE sure[k]]
           ELSE IF c.op = "setex" THEN [sure EXCEPT ![Key(c)] = now]
           ELSE IF Breaks(c)
                THEN [k \in Keys |-> IF k \in all THEN Broken ELSE sure[k]]
           ELSE [k \in Keys |-> IF k \in all THEN earliest ELSE sure[k]]
  BY DEF SureAfter, Breaks
<1> HIDE DEF all
<1>4. LookedAt(db, all, now, looked)
  BY <1>1, <1>2, LookIs
<1> HIDE DEF looked
<1>5. \A k \in touched : sure[k] \in Moments /\ looked.ttl[k] \in Moments
  <2>1. Good(looked)
    BY <1>4 DEF LookedAt, Near
  <2> QED
    BY <1>1, <1>2, <2>1, DbParts DEF Moments
<1>6. ASSUME NEW k \in touched
      PROVE  earliest <= sure[k] /\ earliest <= looked.ttl[k]
  <2>1. times \in SUBSET Moments /\ sure[k] \in times /\ looked.ttl[k] \in times
    BY <1>2, <1>5
  <2> HIDE DEF times
  <2> QED
    BY <2>1, MinIs
<1> HIDE DEF earliest
<1>7. \A k \in touched : ~Expired(db, k, now) => looked.ttl[k] = db.ttl[k]
  BY <1>2, <1>4 DEF LookedAt
<1>8. CASE lines = <<>> /\ c.op \notin Gaps
  BY <1>3, <1>8
<1>9. CASE ~(lines = <<>> /\ c.op \notin Gaps) /\ Reset(c) # {}
  BY <1>3, <1>9
<1>10. CASE ~(lines = <<>> /\ c.op \notin Gaps) /\ Reset(c) = {} /\ c.op = "setex"
  BY <1>1, <1>3, <1>10
<1>11. CASE /\ ~(lines = <<>> /\ c.op \notin Gaps) /\ Reset(c) = {} /\ c.op # "setex"
            /\ Breaks(c)
  <2>1. to = [k \in Keys |-> IF k \in touched THEN Broken ELSE sure[k]]
    BY <1>2, <1>3, <1>11
  <2> QED
    BY <1>2, <1>11, <2>1
<1>12. CASE /\ ~(lines = <<>> /\ c.op \notin Gaps) /\ Reset(c) = {} /\ c.op # "setex"
            /\ ~Breaks(c)
  <2>1. to = [k \in Keys |-> IF k \in touched THEN earliest ELSE sure[k]]
    BY <1>2, <1>3, <1>12
  <2>2. \A k \in touched : to[k] = earliest
    BY <1>2, <2>1
  <2>3. \A k \in Keys \ touched : to[k] = sure[k]
    BY <2>1
  <2> QED
    BY <1>6, <1>7, <1>12, <2>2, <2>3
<1> QED
  BY <1>8, <1>9, <1>10, <1>11, <1>12

\* Until when the file brings back the keys, for each moment to come.
Until(to, t) == {k \in Keys : t <= to[k]}

\* A deadline that is left behind without an entity is not one the history has forgotten.
Leftovers ==
    \A k \in Keys : now <= sure[k] /\ db.data[k] = Nil =>
                        db.ttl[k] = Never \/ sure[k] <= db.ttl[k]

RInv ==
    /\ IInv
    /\ Late(db, now) \subseteq lapsed
    /\ Leftovers
    /\ \A t \in now .. MaxTime : Brings(db, Replay(file, t), Until(sure, t), lapsed, t)

LEMMA UntilIs ==
    ASSUME NEW to \in [Keys -> Moments], NEW k \in Keys, NEW t \in Times
    PROVE  /\ Until(to, t) \in SUBSET Keys
           /\ k \in Until(to, t) <=> t <= to[k]
           /\ to[k] = Never => k \in Until(to, t)
           /\ to[k] = Broken => k \notin Until(to, t)
<1>1. t <= Never /\ ~(t <= Broken)
  BY ClockAssumption, NeverIs DEF Times, Broken
<1> QED
  BY <1>1 DEF Until

\* The flushes.
LEMMA FlushBrings ==
    ASSUME NEW s, NEW e, NEW T, NEW late, NEW p \in Times, NEW t \in Times,
           Brings(s, e, T, late, t), NEW c \in CmdType, c.op \in Flushes,
           NEW g, \/ Exec(s, c, p).lines = <<>> /\ g = e
                  \/ \E l : Exec(s, c, p).lines = <<l>> /\ g = Exec(e, l, t).db,
           NEW sures \in SUBSET Keys, c.op = "flushdb" => sures = {}, NEW after
    PROVE  Brings(Exec(s, c, p).db, g, sures, after, t)
<1>1. Exec(s, c, p) = ExecFlush(s, c, p) /\ Exec(e, c, t) = ExecFlush(e, c, t)
  BY DEF Exec, Flushes
<1>2. /\ Exec(s, c, p).db = Empty /\ Exec(e, c, t).db = Empty
      /\ Exec(s, c, p).lines = IF c.op = "flushall" THEN <<c>> ELSE <<>>
  BY <1>1, ResultIs DEF ExecFlush
<1>3. CASE c.op = "flushall"
  <2>1. \A a, b : <<a>> = <<b>> => a = b
    OBVIOUS
  <2>2. g = Empty
    BY <1>2, <1>3, <2>1, ResultIs
  <2> QED
    BY <1>2, <2>2, BothEmpty
<1>4. CASE c.op = "flushdb"
  <2>1. g = e
    BY <1>2, <1>4, ResultIs
  <2>2. sures = {}
    BY <1>4
  <2> QED
    BY <1>2, <2>1, <2>2, EmptyIs DEF Brings
<1> QED
  BY <1>3, <1>4 DEF Flushes

\* What SET and SETEX do at a moment, unless the time to live is 0.
Sets(c) == c.op = "set" \/ (c.op = "setex" /\ c.n # 0)

LEMMA SetsNot == \A c : c.op = "set" => Sets(c)
BY DEF Sets

LEMMA ZeroSetEX ==
    ASSUME NEW s, NEW c, NEW t, c.op = "setex", ~Sets(c)
    PROVE  Exec(s, c, t).lines = <<>> /\ c.op \notin Gaps
<1>1. Exec(s, c, t) = ExecSetEX(s, c, t)
  BY DEF Exec
<1> QED
  BY <1>1, ResultIs DEF ExecSetEX, Sets, Gaps

LEMMA SetIs ==
    ASSUME NEW s, Good(s), NEW p \in Times, NEW c \in CmdType, Sets(c),
           NEW k, k = Key(c), NEW x, x = Str(c.val), NEW f, f = Exec(s, c, p).db,
           NEW at, at = IF c.op = "set" THEN Never ELSE p + c.n * Second
    PROVE  /\ k \in Keys /\ x # Nil /\ Exec(s, c, p).lines = <<c>>
           /\ NewKey(s, k, x, at, f)
<1>1. k \in Keys /\ x \in Entities /\ x # Nil
  <2>1. c.op \notin Flushes \cup ZOps
    BY DEF Sets, Flushes, ZOps
  <2> QED
    BY <2>1, KeysAre, ValIs, StrIs
<1>2. CASE c.op = "set"
  <2>1. Exec(s, c, p) = Ok(Persist(PutEntity(s, k, x), k), <<c>>)
    BY <1>2 DEF Exec, ExecSet
  <2>2. NewKey(s, k, x, Never, f)
    BY <1>1, <2>1, ResultIs, NewIs
  <2> QED
    BY <1>1, <1>2, <2>1, <2>2, ResultIs
<1>3. CASE c.op = "setex" /\ c.n # 0
  <2>1. Exec(s, c, p) = Ok(Expire(PutEntity(s, k, x), k, p + c.n * Second, p), <<c>>)
    BY <1>3 DEF Exec, ExecSetEX
  <2>2. at = p + c.n * Second
    BY <1>3
  <2>3. at \in Deadlines /\ at # Never
    <3> DEFINE m == c.n * Second
    <3>1. CmdParts(c)
      BY CmdIs
    <3>2. m \in Nat /\ MaxTime + m < Never
      BY <1>3, <3>1, ClockAssumption DEF CmdParts
    <3> HIDE DEF m
    <3>3. p + m \in Deadlines /\ p + m # Never
      BY <3>2, ClockAssumption, NeverIs DEF Times, Deadlines
    <3> QED
      BY <2>2, <3>3 DEF m
  <2>4. NewKey(s, k, x, at, f)
    <3>1. Exec(s, c, p) = Ok(Expire(PutEntity(s, k, x), k, at, p), <<c>>)
      BY <2>1, <2>2
    <3> QED
      BY <1>1, <2>3, <3>1, ResultIs, NewIs
  <2> QED
    BY <1>1, <2>1, <2>4, ResultIs
<1> QED
  BY <1>2, <1>3 DEF Sets

LEMMA SetBrings ==
    ASSUME NEW s, NEW e, NEW T, NEW late, NEW p \in Times, NEW t \in Times,
           Brings(s, e, T, late, t), NEW c \in CmdType, Sets(c),
           NEW sures \in SUBSET Keys, sures \ {Key(c)} = T \ {Key(c)},
           c.op = "setex" /\ Key(c) \in sures => p = t,
           NEW after, late \subseteq after \cup {Key(c)}
    PROVE  Brings(Exec(s, c, p).db, Exec(e, c, t).db, sures, after, t)
<1> DEFINE k == Key(c)
           x == Str(c.val)
           at == IF c.op = "set" THEN Never ELSE p + c.n * Second
           to == IF c.op = "set" THEN Never ELSE t + c.n * Second
           f == Exec(s, c, p).db
           g == Exec(e, c, t).db
<1>1. Good(s) /\ Good(e)
  BY DEF Brings
<1>2. /\ k \in Keys /\ x # Nil
      /\ NewKey(s, k, x, at, f) /\ NewKey(e, k, x, to, g)
  BY <1>1, SetIs
<1>3. k \in sures => at = to
  BY DEF Sets
<1> HIDE DEF f, g, at, to, x
<1> QED
  BY <1>2, <1>3, Fresh DEF f, g

LEMMA SetLeaves ==
    ASSUME NEW s, Good(s), NEW p \in Times, NEW c \in CmdType, Sets(c),
           NEW f, f = Exec(s, c, p).db
    PROVE  /\ f.data[Key(c)] # Nil /\ Exec(s, c, p).lines = <<c>>
           /\ \A j \in Keys \ {Key(c)} : f.data[j] = s.data[j] /\ f.ttl[j] = s.ttl[j]
<1> DEFINE at == IF c.op = "set" THEN Never ELSE p + c.n * Second
<1>1. /\ Key(c) \in Keys /\ Str(c.val) # Nil /\ Exec(s, c, p).lines = <<c>>
      /\ NewKey(s, Key(c), Str(c.val), at, f)
  BY SetIs
<1> QED
  BY <1>1 DEF NewKey

\* Commands that have only looked.
LEMMA IdleBrings ==
    ASSUME NEW s, NEW e, NEW T, NEW late, NEW p \in Times, NEW t \in Times, p <= t,
           Brings(s, e, T, late, t), NEW c, Asked(s, c, p), Late(s, p) \subseteq late,
           Exec(s, c, p).lines = <<>>, c.op \notin Gaps, NEW after, late \subseteq after
    PROVE  Brings(Exec(s, c, p).db, e, T, after, t)
<1>1. Good(s) /\ Filled(s) /\ T \in SUBSET Keys /\ KeysOf(c) \in SUBSET Keys
  BY KeysAre DEF Brings, Asked
<1>2. PICK ks \in SUBSET KeysOf(c) : Exec(s, c, p).db = Look(s, ks, p)
  BY <1>1, ExecRuns, ResultIs DEF Runs
<1> DEFINE gone == {k \in ks : Expired(s, k, p)}
           f == Look(s, ks, p)
<1>3. RemTo(s, gone, f)
  BY <1>1, <1>2, RemTie DEF Look
<1>4. gone \in SUBSET late
  BY <1>1, DbParts, NeverIs DEF Expired, Late, Times, Deadlines
<1>5. \A k \in gone \cap T : Expired(s, k, t)
  BY <1>1, LaterIs
<1>6. gone \subseteq Keys
  BY <1>1
<1> HIDE DEF f, gone
<1>7. Brings(f, e, T, after, t)
  BY <1>3, <1>4, <1>5, <1>6, Forgets
<1> QED
  BY <1>2, <1>7 DEF f

LEMMA IdleLeaves ==
    ASSUME NEW s, NEW c, NEW p, Asked(s, c, p), Filled(s), Exec(s, c, p).lines = <<>>,
           c.op \notin Gaps, NEW f, f = Exec(s, c, p).db, NEW k \in Keys
    PROVE  (f.data[k] = s.data[k] /\ f.ttl[k] = s.ttl[k]) \/ f.ttl[k] = Never
<1>1. Good(s) /\ KeysOf(c) \in SUBSET Keys
  BY KeysAre DEF Asked
<1>2. PICK ks \in SUBSET KeysOf(c) : f = Look(s, ks, p)
  BY <1>1, ExecRuns, ResultIs DEF Runs
<1>3. RemTo(s, {j \in ks : Expired(s, j, p)}, f)
  BY <1>1, <1>2, RemTie DEF Look
<1> QED
  BY <1>3 DEF RemTo

\* The lines of a command, and what a replay makes of them.
LEMMA LinesOf ==
    ASSUME RInv, NEW c \in CmdType, NEW t \in now .. MaxTime,
           NEW e, e = Replay(file, t), NEW r, r = Exec(db, c, now),
           NEW g, g = Replay(file \o r.lines, t)
    PROVE  \/ r.lines = <<>> /\ g = e
           \/ \E l : r.lines = <<l>> /\ g = Exec(e, l, t).db
<1>1. Good(db) /\ Filled(db) /\ file \in Seq(CmdType) /\ now \in Times
  <2>1. now \in now .. MaxTime
    BY ClockAssumption DEF RInv, IInv, Times
  <2> QED
    BY <2>1 DEF RInv, IInv, Brings
<1>2. CASE c.op \in Flushes
  <2>1. r.lines = IF c.op = "flushall" THEN <<c>> ELSE <<>>
    BY <1>2, ResultIs DEF Exec, ExecFlush, Flushes
  <2>2. Replay(file \o <<>>, t) = e /\ Replay(file \o <<c>>, t) = Exec(e, c, t).db
    BY <1>1, ReplayMore
  <2>3. CASE c.op = "flushall"
    BY <2>1, <2>2, <2>3
  <2>4. CASE c.op # "flushall"
    BY <2>1, <2>2, <2>4
  <2> QED
    BY <2>3, <2>4
<1>3. CASE c.op \notin Flushes
  <2>1. Asked(db, c, now)
    BY <1>1, <1>3 DEF Asked
  <2>2. Runs(db, r, c, now)
    BY <1>1, <2>1, ExecRuns
  <2>3. CASE r.lines = <<>>
    BY <1>1, <2>3, ReplayMore
  <2>4. ASSUME NEW l, r.lines = <<l>>
        PROVE  g = Exec(e, l, t).db
    <3>1. l \in CmdType
      BY <1>1, <2>1, <2>4, LineKeeps
    <3> QED
      BY <1>1, <2>4, <3>1, ReplayMore
  <2> QED
    BY <2>2, <2>3, <2>4 DEF Runs
<1> QED
  BY <1>2, <1>3

\* Where a command leaves the keys that are no longer sure.
LEMMA DoSure ==
    ASSUME RInv, NEW c \in CmdType, c.op \notin Flushes \cup {"set", "setex"}, NEW lines,
           ~(lines = <<>> /\ c.op \notin Gaps),
           NEW to \in [Keys -> Moments], to = SureAfter(c, lines), NEW t \in now .. MaxTime,
           NEW ns, ns = KeysOf(c)
    PROVE  LET touched == Reached(db, ns)
               T == Until(sure, t)
               sures == Until(to, t)
           IN  /\ sures \ touched = T \ touched
               /\ \/ sures \cap touched = {}
                  \/ /\ ~Breaks(c)
                     /\ touched \subseteq T \cap sures /\ Timely(db, ns, now, t)
<1> DEFINE touched == Reached(db, ns)
           T == Until(sure, t)
           sures == Until(to, t)
<1>1. ns = Named(c) /\ Reset(c) = {} /\ c.op # "setex" /\ ns \in SUBSET Keys
  BY KeysAre DEF Named, Reset, Flushes
<1>2. /\ IInv /\ Good(db) /\ now \in Times /\ t \in Times /\ now <= t
      /\ sure \in [Keys -> Moments] /\ touched \in SUBSET Keys
  <2>1. IInv /\ Good(db) /\ now \in Times /\ sure \in [Keys -> Moments]
    BY DEF RInv, IInv
  <2>2. t \in Times /\ now <= t
    BY <2>1, ClockAssumption DEF Times
  <2> QED
    BY <1>1, <2>1, <2>2, ReachedIs
<1>3. /\ \A k \in Keys \ touched : to[k] = sure[k]
      /\ Breaks(c) => \A k \in touched : to[k] = Broken
      /\ ~Breaks(c) =>
              /\ \A j, k \in touched : to[j] = to[k] /\ to[j] <= sure[k]
              /\ \A j, k \in touched : ~Expired(db, k, now) => to[j] <= db.ttl[k]
  BY <1>1, <1>2, SureCases
<1>4. sures \in SUBSET Keys /\ T \in SUBSET Keys
      /\ \A k \in Keys : (k \in sures <=> t <= to[k]) /\ (k \in T <=> t <= sure[k])
  BY DEF Until
<1> HIDE DEF touched, T, sures
<1>5. sures \ touched = T \ touched
  BY <1>3, <1>4
<1>6. CASE Breaks(c)
  <2>1. \A k \in touched : ~(t <= to[k])
    BY <1>2, <1>3, <1>6 DEF Broken, Times
  <2> QED
    BY <1>4, <1>5, <2>1 DEF touched, T, sures
<1>7. CASE ~Breaks(c)
  <2>1. CASE sures \cap touched = {}
    BY <1>5, <2>1 DEF touched, T, sures
  <2>2. CASE sures \cap touched # {}
    <3>1. PICK j \in touched : t <= to[j]
      BY <1>2, <1>4, <2>2
    <3>2. t \in Int /\ to[j] \in Int /\ \A k \in touched : to[k] \in Int /\ sure[k] \in Int
                                                          /\ db.ttl[k] \in Int
      <4>1. \A m \in Moments : m \in Int
        BY NeverIs DEF Moments, Broken, Deadlines
      <4>2. t \in Int
        BY <1>2 DEF Times
      <4>3. \A k \in Keys : db.ttl[k] \in Moments
        BY <1>2, DbParts DEF Moments
      <4> QED
        BY <1>2, <3>1, <4>1, <4>2, <4>3
    <3>3. ASSUME NEW k \in touched
          PROVE  k \in sures /\ k \in T /\ (Expired(db, k, t) => Expired(db, k, now))
      <4>1. to[k] = to[j] /\ to[j] <= sure[k] /\ (~Expired(db, k, now) => to[j] <= db.ttl[k])
        BY <1>3, <1>7, <3>1
      <4>2. t <= to[k] /\ t <= sure[k] /\ (~Expired(db, k, now) => t <= db.ttl[k])
        BY <3>1, <3>2, <4>1
      <4>3. k \in sures /\ k \in T
        BY <1>2, <1>4, <4>2
      <4>4. ~Expired(db, k, now) => ~Expired(db, k, t)
        BY <3>2, <4>2 DEF Expired
      <4> QED
        BY <4>3, <4>4
    <3>4. Timely(db, ns, now, t)
      BY <3>3 DEF Timely, touched
    <3> QED
      BY <1>5, <1>7, <3>3, <3>4 DEF touched, T, sures
  <2> QED
    BY <2>1, <2>2
<1> QED
  BY <1>6, <1>7

\* A command: what it has done is what its line will do.
LEMMA DoBrings ==
    ASSUME RInv, NEW c \in Cmds, Do(c), NEW t \in now .. MaxTime
    PROVE  Brings(db', Replay(file', t), Until(sure', t), lapsed', t)
<1> DEFINE r == Exec(db, c, now)
           e == Replay(file, t)
           g == Replay(file', t)
           T == Until(sure, t)
           to == SureAfter(c, r.lines)
           sures == Until(to, t)
           after == (lapsed \ Reset(c)) \cup Late(r.db, now)
           ns == KeysOf(c)
           touched == Reached(db, Named(c))
<1>1. /\ db' = r.db /\ file' = file \o r.lines /\ sure' = to /\ lapsed' = after
  BY DEF Do
<1>2. /\ IInv /\ Good(db) /\ sure \in [Keys -> Moments] /\ now \in Times /\ t \in Times /\ now <= t
      /\ Brings(db, e, T, lapsed, t) /\ Late(db, now) \subseteq lapsed /\ lapsed \in SUBSET Keys
      /\ c \in CmdType
  BY ClockAssumption, CmdAssumption DEF RInv, IInv, Times
<1>3. to \in [Keys -> Moments]
  BY <1>2, SureIs
<1>4. \/ r.lines = <<>> /\ g = e
      \/ \E l : r.lines = <<l>> /\ g = Exec(e, l, t).db
  <2> DEFINE d == Replay(file \o r.lines, t)
  <2>1. g = d
    BY <1>1
  <2>2. \/ r.lines = <<>> /\ d = e
        \/ \E l : r.lines = <<l>> /\ d = Exec(e, l, t).db
    BY <1>2, LinesOf
  <2> HIDE DEF r, e, g, d
  <2> QED
    BY <2>1, <2>2
<1>5. sures \in SUBSET Keys /\ \A k \in Keys : k \in sures <=> t <= to[k]
  BY DEF Until
<1> HIDE DEF g, to, sures, e, T
<1>6. Brings(r.db, g, sures, after, t)
  <2>1. CASE c.op \in Flushes
    <3>1. c.op = "flushdb" => sures = {}
      <4> SUFFICES ASSUME c.op = "flushdb", NEW k \in Keys
                   PROVE  k \notin sures
        BY <1>5
      <4>1. Reset(c) = {} /\ c.op # "setex" /\ c.op \in Gaps /\ Breaks(c)
        BY DEF Reset, Gaps, Breaks
      <4>2. k \in touched
        BY <2>1 DEF Named, Reached
      <4>3. to[k] = Broken
        BY <1>2, <4>1, <4>2, SureCases DEF to
      <4> QED
        BY <1>2, <1>5, <4>3 DEF Broken, Times
    <3> QED
      BY <1>2, <1>4, <1>5, <2>1, <3>1, FlushBrings
  <2>2. CASE Sets(c)
    <3> DEFINE k == Key(c)
    <3>1. ns = {k} /\ k \in Keys /\ Named(c) = ns
      <4>1. CmdParts(c) /\ Len(c.keys) = 1
        BY <1>2, <2>2, CmdIs DEF CmdParts, Lists, Pairs, Flushes, Sets
      <4>2. ns = {k}
        BY <4>1 DEF KeysOf, ToSet, Key, CmdParts
      <4> QED
        BY <1>2, <2>2, <4>2, KeysAre DEF Named, Flushes, Sets
    <3>2. Reset(c) = IF c.op = "set" THEN {k} ELSE {}
      BY <2>2, <3>1 DEF Reset, Sets
    <3>3. lapsed \subseteq after \cup {k}
      BY <3>2
    <3>4. r.lines # <<>>
      <4>1. r.lines = <<c>>
        BY <1>2, <2>2, SetLeaves
      <4>2. \A x : <<x>> # <<>>
        OBVIOUS
      <4> HIDE DEF r
      <4> QED
        BY <4>1, <4>2
    <3>5. sures \ {k} = T \ {k} /\ (c.op = "setex" /\ k \in sures => now = t)
      <4>1. CASE c.op = "set"
        <5>1. \A j \in Keys : to[j] = IF j = k THEN Never ELSE sure[j]
          BY <1>2, <3>2, <3>4, <4>1, SureCases DEF to
        <5> QED
          BY <1>5, <4>1, <5>1 DEF T, Until
      <4>2. CASE c.op = "setex"
        <5>1. \A j \in Keys : to[j] = IF j = k THEN now ELSE sure[j]
          BY <1>2, <3>2, <3>4, <4>2, SureCases DEF to
        <5>2. t <= now => now = t
          BY <1>2 DEF Times
        <5> QED
          BY <1>5, <3>1, <5>1, <5>2 DEF T, Until
      <4> QED
        BY <2>2, <4>1, <4>2 DEF Sets
    <3>6. r.lines = <<c>> /\ Brings(r.db, Exec(e, c, t).db, sures, after, t)
      <4>1. c.op = "setex" /\ Key(c) \in sures => now = t
        BY <3>5
      <4>2. sures \ {Key(c)} = T \ {Key(c)} /\ lapsed \subseteq after \cup {Key(c)}
        BY <3>3, <3>5
      <4>3. r.lines = <<c>>
        BY <1>2, <2>2, SetLeaves
      <4> HIDE DEF after, k
      <4> QED
        BY <1>2, <1>5, <2>2, <4>1, <4>2, <4>3, SetBrings
    <3>7. g = Exec(e, c, t).db
      <4>1. \A a, b : <<a>> = <<b>> => a = b
        OBVIOUS
      <4> QED
        BY <1>4, <3>4, <3>6, <4>1
    <3> QED
      BY <3>6, <3>7
  <2>3. CASE c.op \notin Flushes /\ ~Sets(c)
    <3>1. Asked(db, c, now) /\ Reset(c) = {} /\ ns = Named(c)
      BY <1>2, <2>3, SetsNot DEF Asked, Reset, Named, Flushes
    <3>2. lapsed \subseteq after
      BY <3>1
    <3>3. CASE r.lines = <<>> /\ c.op \notin Gaps
      <4>1. to = sure
        BY <1>2, <3>3, SureCases DEF to
      <4>2. g = e /\ sures = T
        BY <1>4, <3>3, <4>1, ResultIs DEF sures, T
      <4> QED
        BY <1>2, <3>1, <3>2, <3>3, <4>2, IdleBrings
    <3>4. CASE ~(r.lines = <<>> /\ c.op \notin Gaps)
      <4>0. c.op \notin {"set", "setex"}
        <5>1. c.op = "setex" => r.lines = <<>> /\ c.op \notin Gaps
          BY <2>3, ZeroSetEX
        <5> HIDE DEF r
        <5> QED
          BY <2>3, <3>4, <5>1, SetsNot
      <4>1. /\ sures \ Reached(db, ns) = T \ Reached(db, ns)
            /\ \/ sures \cap Reached(db, ns) = {}
               \/ /\ c.op \notin Gaps /\ SeesExpired(c) \cap lapsed = {}
                  /\ ~Spills(Look(db, ns, now), c)
                  /\ Reached(db, ns) \subseteq T \cap sures /\ Timely(db, ns, now, t)
        BY <1>2, <1>3, <2>3, <3>4, <4>0, DoSure DEF to, sures, T, Breaks
      <4>2. \/ r.lines = <<>> /\ c.op \in Gaps /\ g = e
            \/ \E l : r.lines = <<l>> /\ g = Exec(e, l, t).db
        BY <1>4, <3>4
      <4> HIDE DEF r, after, ns
      <4> QED
        BY <1>2, <1>5, <2>3, <3>1, <3>2, <4>0, <4>1, <4>2, Answered DEF r, ns
    <3> QED
      BY <3>3, <3>4
  <2> QED
    BY <2>1, <2>2, <2>3
<1> QED
  BY <1>1, <1>6 DEF g, sures

\* The invariant at the present moment.
LEMMA NowIs ==
    ASSUME RInv
    PROVE  /\ IInv /\ Good(db) /\ Filled(db) /\ now \in Times /\ sure \in [Keys -> Moments]
           /\ now \in now .. MaxTime /\ lapsed \in SUBSET Keys /\ file \in Seq(CmdType)
           /\ Brings(db, Replay(file, now), Until(sure, now), lapsed, now)
           /\ \A t \in now .. MaxTime : t \in Times /\ now <= t
<1>1. /\ IInv /\ Good(db) /\ now \in Times /\ sure \in [Keys -> Moments]
      /\ lapsed \in SUBSET Keys /\ file \in Seq(CmdType)
  BY DEF RInv, IInv
<1>2. now \in now .. MaxTime /\ \A t \in now .. MaxTime : t \in Times /\ now <= t
  BY <1>1, ClockAssumption DEF Times
<1>3. Brings(db, Replay(file, now), Until(sure, now), lapsed, now)
  BY <1>2 DEF RInv
<1> QED
  BY <1>1, <1>2, <1>3 DEF Brings

LEMMA DoLeftovers ==
    ASSUME RInv, NEW c \in Cmds, Do(c), NEW k \in Keys, now <= sure'[k], db'.data[k] = Nil
    PROVE  db'.ttl[k] = Never \/ sure'[k] <= db'.ttl[k]
<1> DEFINE r == Exec(db, c, now)
           e == Replay(file, now)
           T == Until(sure, now)
           to == SureAfter(c, r.lines)
           ns == KeysOf(c)
           touched == Reached(db, Named(c))
<1>1. db' = r.db /\ sure' = to
  BY DEF Do
<1>2. /\ IInv /\ Good(db) /\ Filled(db) /\ now \in Times /\ Brings(db, e, T, lapsed, now)
      /\ c \in CmdType /\ now <= now /\ Late(db, now) \subseteq lapsed /\ lapsed \in SUBSET Keys
      /\ T \in SUBSET Keys
  BY NowIs, CmdAssumption DEF RInv, Times, Brings
<1>3. db.data[k] = Nil /\ now <= sure[k] => db.ttl[k] = Never \/ sure[k] <= db.ttl[k]
  BY DEF RInv, Leftovers
<1> HIDE DEF to, e, T
<1>4. CASE c.op \in Flushes
  <2>1. r.db = Empty
    BY <1>4, ResultIs DEF Exec, ExecFlush, Flushes
  <2> QED
    BY <1>1, <2>1, EmptyIs
<1>5. CASE Sets(c)
  <2>2. /\ r.lines = <<c>> /\ r.db.data[Key(c)] # Nil
        /\ \A j \in Keys \ {Key(c)} : r.db.data[j] = db.data[j] /\ r.db.ttl[j] = db.ttl[j]
    BY <1>2, <1>5, SetLeaves
  <2>3. k # Key(c) /\ db.data[k] = Nil /\ r.db.ttl[k] = db.ttl[k] /\ r.lines # <<>>
    BY <1>1, <2>2, ResultIs
  <2>4. to[k] = sure[k]
    <3>1. CASE Reset(c) = {}
      <4>1. c.op = "setex"
        <5>1. c.op = "set" => Reset(c) = ns /\ Key(c) \in ns
          BY <1>2, KeysAre DEF Reset, Named, Flushes
        <5> QED
          BY <1>5, <3>1, <5>1 DEF Sets
      <4> QED
        BY <1>2, <2>3, <3>1, <4>1, SureCases DEF to
    <3>2. CASE Reset(c) # {}
      <4>1. Reset(c) = {Key(c)}
        <5>1. CmdParts(c) /\ Len(c.keys) = 1 /\ Reset(c) = ns
          BY <1>2, <1>5, <3>2, CmdIs DEF CmdParts, Lists, Pairs, Flushes, Reset, Named, Sets
        <5> QED
          BY <5>1 DEF KeysOf, ToSet, Key, CmdParts
      <4> QED
        BY <1>2, <2>3, <3>2, <4>1, SureCases DEF to
    <3> QED
      BY <3>1, <3>2
  <2> QED
    BY <1>1, <1>3, <2>3, <2>4
<1>6. CASE c.op \notin Flushes /\ ~Sets(c)
  <2>1. Asked(db, c, now) /\ Reset(c) = {} /\ ns = Named(c) /\ ns \in SUBSET Keys
    BY <1>2, <1>6, SetsNot, KeysAre DEF Asked, Reset, Named, Flushes
  <2>2. CASE r.lines = <<>> /\ c.op \notin Gaps
    <3>1. to = sure
      BY <1>2, <2>2, SureCases DEF to
    <3>2. (r.db.data[k] = db.data[k] /\ r.db.ttl[k] = db.ttl[k]) \/ r.db.ttl[k] = Never
      BY <1>2, <2>1, <2>2, IdleLeaves
    <3> QED
      BY <1>1, <1>3, <3>1, <3>2
  <2>3. CASE ~(r.lines = <<>> /\ c.op \notin Gaps)
    <3>0. c.op \notin {"set", "setex"}
      <4>1. c.op = "setex" => r.lines = <<>> /\ c.op \notin Gaps
        BY <1>6, ZeroSetEX
      <4> HIDE DEF r
      <4> QED
        BY <1>6, <2>3, <4>1, SetsNot
    <3>1. Keeps(db, r.db, ns, Linked(db, ns, now), now)
      BY <1>2, <2>1, ExecRuns DEF Runs, Kept
    <3>2. Rests(db, r.db, ns, now)
      BY <1>2, <2>1, <3>1, RestsIs
    <3>3. CASE k \notin touched
      <4>1. k \notin ns
        BY <1>2, <2>1, <3>3, ReachedIs
      <4>2. to[k] = sure[k]
        BY <1>2, <1>6, <2>1, <2>3, <3>0, <3>3, SureCases DEF to
      <4>3. r.db.ttl[k] = db.ttl[k] /\ db.data[k] = Nil
        BY <1>1, <3>2, <4>1 DEF Rests
      <4> QED
        BY <1>1, <1>3, <4>2, <4>3
    <3>4. CASE k \in touched
      <4>1. ~Breaks(c)
        <5> SUFFICES ASSUME Breaks(c) PROVE FALSE
          OBVIOUS
        <5>1. to[k] = Broken
          BY <1>2, <1>6, <2>1, <2>3, <3>0, <3>4, SureCases DEF to
        <5> QED
          BY <1>1, <1>2, <5>1 DEF Broken, Times
      <4>2. ~Expired(db, k, now) => to[k] <= db.ttl[k]
        BY <1>2, <1>6, <2>1, <2>3, <3>0, <3>4, <4>1, SureCases DEF to
      <4>3. r.db.ttl[k] = Never \/ (r.db.ttl[k] = db.ttl[k] /\ ~Expired(db, k, now))
        <5>1. CASE k \in ns
          BY <1>1, <3>1, <5>1 DEF Keeps
        <5>2. CASE k \notin ns
          BY <1>1, <3>2, <5>2 DEF Rests, Expired
        <5> QED
          BY <5>1, <5>2
      <4> QED
        BY <1>1, <4>2, <4>3
    <3> QED
      BY <3>3, <3>4
  <2> QED
    BY <2>2, <2>3
<1> QED
  BY <1>4, <1>5, <1>6

LEMMA DoRInv ==
    ASSUME RInv, NEW c \in Cmds, Do(c)
    PROVE  RInv'
<1>1. IInv'
  BY DoStep DEF RInv
<1>2. now' = now /\ Late(db', now') \subseteq lapsed'
  BY DEF Do
<1>3. Leftovers'
  BY <1>2, DoLeftovers DEF Leftovers
<1>4. ASSUME NEW t \in now .. MaxTime
      PROVE  Brings(db', Replay(file', t), Until(sure', t), lapsed', t)
  BY DoBrings
<1> QED
  BY <1>1, <1>2, <1>3, <1>4 DEF RInv

LEMMA TickRInv ==
    ASSUME RInv, Tick
    PROVE  RInv'
<1>1. IInv'
  BY TickStep DEF RInv
<1>2. /\ db' = db /\ file' = file /\ sure' = sure /\ now' = now + 1
      /\ lapsed' = lapsed \cup Late(db, now + 1)
  BY DEF Tick
<1>3. now \in Times /\ Good(db) /\ sure \in [Keys -> Moments]
  BY NowIs
<1>4. Late(db', now') \subseteq lapsed'
  BY <1>2
<1>5. Leftovers'
  <2>1. \A k \in Keys : now + 1 <= sure[k] => now <= sure[k]
    <3>1. \A m \in Moments : m \in Int
      BY NeverIs DEF Moments, Deadlines, Broken
    <3> QED
      BY <1>3, <3>1 DEF Times
  <2> QED
    BY <1>2, <2>1 DEF RInv, Leftovers
<1>6. ASSUME NEW t \in now' .. MaxTime
      PROVE  Brings(db', Replay(file', t), Until(sure', t), lapsed', t)
  <2>1. t \in now .. MaxTime
    BY <1>2, <1>3, ClockAssumption DEF Times
  <2>2. Brings(db, Replay(file, t), Until(sure, t), lapsed, t)
    BY <2>1 DEF RInv
  <2>3. Brings(db, Replay(file, t), Until(sure, t), lapsed', t)
    BY <1>2, <2>2 DEF Brings, Found
  <2> QED
    BY <1>2, <2>3
<1> QED
  BY <1>1, <1>4, <1>5, <1>6 DEF RInv

\* Keys go, and everything that is asked of the rest still holds.
LEMMA GoneRInv ==
    ASSUME RInv, NEW gone \in SUBSET Keys, gone \subseteq Late(db, now), RemTo(db, gone, db'),
           now' = now, file' = file, sure' = sure, lapsed' = lapsed, IInv'
    PROVE  RInv'
<1>1. /\ Good(db) /\ now \in Times /\ gone \subseteq lapsed /\ Late(db, now) \subseteq lapsed
      /\ \A t \in now .. MaxTime : t \in Times /\ now <= t
  BY NowIs DEF RInv
<1>2. Late(db', now') \subseteq lapsed'
  <2>1. ~(Never < now)
    BY <1>1, ClockAssumption, NeverIs DEF Times
  <2> QED
    BY <1>1, <2>1 DEF RemTo, Late
<1>3. Leftovers'
  BY DEF RInv, Leftovers, RemTo
<1>4. ASSUME NEW t \in now' .. MaxTime
      PROVE  Brings(db', Replay(file', t), Until(sure', t), lapsed', t)
  <2> DEFINE T == Until(sure, t)
             e == Replay(file, t)
  <2>1. Brings(db, e, T, lapsed, t) /\ t \in Times /\ now <= t
    BY <1>1 DEF RInv
  <2>2. \A k \in gone \cap T : Expired(db, k, t)
    <3> SUFFICES ASSUME NEW k \in gone, t <= sure[k]
                 PROVE  Expired(db, k, t)
      BY DEF Until
    <3>1. now <= sure[k] /\ db.ttl[k] < now /\ db.ttl[k] # Never /\ ~(sure[k] <= db.ttl[k])
      <4>1. /\ sure[k] \in Int /\ db.ttl[k] \in Int /\ now \in Int /\ t \in Int /\ now < Never
        BY <1>1, <2>1, NowIs, DbParts, ClockAssumption, NeverIs
           DEF Moments, Deadlines, Broken, Times
      <4>2. db.ttl[k] < now
        BY DEF Late
      <4> QED
        BY <2>1, <4>1, <4>2, NeverIs
    <3>2. db.data[k] # Nil
      BY <3>1 DEF RInv, Leftovers
    <3>3. Expired(db, k, now)
      <4>1. db.ttl[k] \in Int /\ now \in Int
        BY <1>1, DbParts, NeverIs DEF Deadlines, Times
      <4> QED
        BY <3>1, <3>2, <4>1 DEF Expired
    <3> QED
      BY <1>1, <2>1, <3>3, LaterIs
  <2> HIDE DEF T, e
  <2>3. Brings(db', e, T, lapsed, t)
    BY <1>1, <2>1, <2>2, Forgets
  <2> QED
    BY <2>3 DEF T, e
<1> QED
  BY <1>2, <1>3, <1>4 DEF RInv

LEMMA JobRInv ==
    ASSUME RInv, NEW k \in Keys, ExpireJob(k)
    PROVE  RInv'
<1>1. /\ IInv' /\ now' = now /\ file' = file /\ sure' = sure /\ lapsed' = lapsed
      /\ db' = IF now > db.ttl[k] THEN RemoveKey(db, k) ELSE [db EXCEPT !.jobs = @ \ {k}]
  BY ExpireJobStep DEF RInv, ExpireJob
<1>2. Good(db) /\ now \in Times /\ db.ttl[k] \in Deadlines
  BY NowIs, DbParts
<1>3. CASE now > db.ttl[k]
  <2>1. {k} \in SUBSET Keys /\ {k} \subseteq Late(db, now)
    <3>1. db.ttl[k] < now
      BY <1>2, <1>3, NeverIs DEF Deadlines, Times
    <3> QED
      BY <3>1 DEF Late
  <2>2. RemTo(db, {k}, db')
    BY <1>1, <1>2, <1>3, <2>1, RemTie DEF RemoveKey
  <2> QED
    BY <1>1, <2>1, <2>2, GoneRInv
<1>4. CASE ~(now > db.ttl[k])
  <2> DEFINE f == [db EXCEPT !.jobs = @ \ {k}]
  <2>1. f.data = db.data /\ f.ttl = db.ttl /\ f.shares = db.shares
    BY <1>2 DEF Good, DbType
  <2>2. Good(f)
    BY <1>2, JobDone
  <2> HIDE DEF f
  <2>3. RemTo(db, {}, f)
    BY <2>1, <2>2 DEF RemTo, Tie
  <2>4. RemTo(db, {}, db')
    BY <1>1, <1>4, <2>3 DEF f
  <2> QED
    BY <1>1, <2>4, GoneRInv
<1> QED
  BY <1>3, <1>4

\* Two databases that the same replay brings back, one of them now.
LEMMA RestartBrings ==
    ASSUME NEW s, NEW d, NEW e, NEW now0 \in Times, NEW t \in Times, now0 <= t,
           NEW T, NEW U, NEW late, Brings(s, d, U, late, now0), Brings(s, e, T, late, t),
           T \subseteq U, NEW after, late \subseteq after, Late(d, now0) \subseteq after,
           Late(s, now0) \subseteq late
    PROVE  Brings(d, e, T, after, t)
<1>1. /\ Good(s) /\ Good(d) /\ Good(e) /\ Filled(s) /\ Filled(d) /\ Filled(e)
      /\ T \in SUBSET Keys /\ U \in SUBSET Keys
      /\ \A k \in T : Found(s, d, U, late, now0, k) /\ Found(s, e, T, late, t, k)
  BY DEF Brings
<1>2. \A k \in Keys : /\ Expired(s, k, now0) => k \in Late(s, now0) /\ Expired(s, k, t)
                      /\ Expired(d, k, now0) => k \in Late(d, now0) /\ Expired(d, k, t)
  <2>1. \A k \in Keys : s.ttl[k] \in Int /\ d.ttl[k] \in Int
    BY <1>1, DbParts, NeverIs DEF Deadlines
  <2>2. now0 \in Int /\ t \in Int
    BY DEF Times
  <2> QED
    BY <2>1, <2>2 DEF Expired, Late
<1>3. ASSUME NEW k \in T
      PROVE  Found(d, e, T, after, t, k)
  <2>1. k \in Keys /\ Found(s, d, U, late, now0, k) /\ Found(s, e, T, late, t, k)
    BY <1>1
  <2>2. Norm(d, k, t) = Norm(s, k, t)
    <3>1. Norm(s, k, now0) = Norm(d, k, now0)
      BY <2>1 DEF Found
    <3> QED
      BY <1>1, <2>1, <3>1, NormLater
  <2>3. Norm(d, k, t) = Norm(e, k, t)
    BY <2>1, <2>2 DEF Found
  <2>4. k \notin after => (Expired(d, k, t) <=> Expired(e, k, t))
    <3> SUFFICES ASSUME k \notin after
                 PROVE  Expired(d, k, t) <=> Expired(e, k, t)
      OBVIOUS
    <3>1. ~Expired(s, k, now0) /\ ~Expired(d, k, now0) /\ Norm(s, k, now0) = Norm(d, k, now0)
      BY <1>2, <2>1 DEF Found
    <3>2. d.data[k] = s.data[k] /\ d.ttl[k] = s.ttl[k]
      BY <3>1, NormIs
    <3> QED
      BY <2>1, <3>2 DEF Found, Expired
  <2>5. ASSUME NEW p \in Keys, Tie(e, k, p), ~Expired(e, k, t), ~Expired(e, p, t)
        PROVE  p \in T /\ Tie(d, k, p)
    <3>1. p \in T /\ Tie(s, k, p)
      BY <2>1, <2>5 DEF Found
    <3>2. e.data[k] # Nil /\ e.data[p] # Nil
      BY <1>1, <2>1, <2>5, TieIs DEF Filled
    <3>3. Norm(s, k, t) = Norm(e, k, t) /\ Norm(s, p, t) = Norm(e, p, t)
      BY <1>1, <2>1, <3>1 DEF Found
    <3>4. ~Expired(s, k, t) /\ ~Expired(s, p, t)
      BY <2>5, <3>2, <3>3, NormIs
    <3>5. ~Expired(s, k, now0) /\ ~Expired(s, p, now0)
      BY <1>2, <2>1, <2>5, <3>4
    <3> QED
      BY <2>1, <3>1, <3>5 DEF Found
  <2>6. ASSUME NEW p \in T, Tie(d, k, p), ~Expired(d, k, t), ~Expired(d, p, t)
        PROVE  Tie(e, k, p)
    <3>1. p \in Keys
      BY <1>1
    <3>2. ~Expired(d, k, now0) /\ ~Expired(d, p, now0)
      BY <1>2, <2>1, <2>6, <3>1
    <3>3. Tie(s, k, p)
      BY <2>1, <2>6, <3>1, <3>2 DEF Found
    <3>4. d.data[k] # Nil /\ d.data[p] # Nil
      BY <1>1, <2>1, <2>6, <3>1, TieIs DEF Filled
    <3>5. Norm(s, p, now0) = Norm(d, p, now0) /\ Norm(s, k, now0) = Norm(d, k, now0)
      BY <1>1, <2>1 DEF Found
    <3>6. Norm(s, p, t) = Norm(d, p, t)
      BY <1>1, <3>1, <3>5, NormLater
    <3>7. ~Expired(s, k, t) /\ ~Expired(s, p, t)
      BY <2>2, <2>6, <3>4, <3>6, NormIs
    <3> QED
      BY <2>1, <3>3, <3>7 DEF Found
  <2> QED
    BY <2>3, <2>4, <2>5, <2>6 DEF Found
<1> QED
  BY <1>1, <1>3 DEF Brings

LEMMA RestartRInv ==
    ASSUME RInv, Restart
    PROVE  RInv'
<1> DEFINE d == Replay(file, now)
<1>1. /\ IInv' /\ now' = now /\ file' = file /\ sure' = sure /\ db' = d
      /\ lapsed' = lapsed \cup Late(d, now)
  BY RestartStep DEF RInv, Restart
<1>2. /\ Good(db) /\ now \in Times /\ Late(db, now) \subseteq lapsed
      /\ \A t \in now .. MaxTime : t \in Times /\ now <= t
      /\ Brings(db, d, Until(sure, now), lapsed, now)
  BY NowIs DEF RInv
<1>3. sure \in [Keys -> Moments] /\ \A m \in Moments : m \in Int
  BY NowIs, NeverIs DEF Moments, Deadlines, Broken
<1> HIDE DEF d
<1>4. Leftovers'
  <2> SUFFICES ASSUME NEW k \in Keys, now <= sure[k], d.data[k] = Nil
               PROVE  d.ttl[k] = Never \/ sure[k] <= d.ttl[k]
    BY <1>1 DEF Leftovers
  <2>1. Found(db, d, Until(sure, now), lapsed, now, k)
    BY <1>2 DEF Brings, Until
  <2>2. /\ ~Expired(d, k, now) /\ Norm(db, k, now) = <<d.data[k], d.ttl[k]>>
        /\ Norm(db, k, now) = Norm(d, k, now)
    BY <2>1 DEF Found, Norm, Expired
  <2>3. CASE Expired(db, k, now)
    <3>1. <<Nil, Never>> = <<d.data[k], d.ttl[k]>>
      BY <2>2, <2>3 DEF Norm
    <3> QED
      BY <3>1
  <2>4. CASE ~Expired(db, k, now)
    <3>1. d.data[k] = db.data[k] /\ d.ttl[k] = db.ttl[k]
      BY <2>2, <2>4, NormIs
    <3> QED
      BY <3>1 DEF RInv, Leftovers
  <2> QED
    BY <2>3, <2>4
<1>5. ASSUME NEW t \in now' .. MaxTime
      PROVE  Brings(db', Replay(file', t), Until(sure', t), lapsed', t)
  <2>1. t \in now .. MaxTime /\ t \in Times /\ now <= t
    BY <1>1, <1>2
  <2>2. Brings(db, Replay(file, t), Until(sure, t), lapsed, t)
    BY <2>1 DEF RInv
  <2>3. Until(sure, t) \subseteq Until(sure, now)
    <3>1. t \in Int /\ now \in Int
      BY <1>2, <2>1 DEF Times
    <3> QED
      BY <1>3, <2>1, <3>1 DEF Until
  <2> DEFINE after == lapsed \cup Late(d, now)
             e == Replay(file, t)
             T == Until(sure, t)
             U == Until(sure, now)
  <2>4. lapsed \subseteq after /\ Late(d, now) \subseteq after
    OBVIOUS
  <2> HIDE DEF after, e, T, U
  <2>5. Brings(d, e, T, after, t)
    BY <1>2, <2>1, <2>2, <2>3, <2>4, RestartBrings DEF e, T, U
  <2> QED
    BY <1>1, <2>5 DEF e, T, after
<1> QED
  BY <1>1, <1>4, <1>5 DEF RInv

-------------------------------------------------------------------------------
(* What the file of a rewrite brings back.  No keys share an entity there. *)

Loose(s) == Good(s) /\ \A i, j \in Keys : ~Tie(s, i, j)

\* Key k is made, with an entity and a deadline.
Loads(s, k, x, at, f) ==
    /\ Loose(f)
    /\ f.data[k] = x /\ f.ttl[k] = at
    /\ \A j \in Keys \ {k} : f.data[j] = s.data[j] /\ f.ttl[j] = s.ttl[j]

LEMMA LoadsTwice ==
    ASSUME NEW s, NEW k, NEW x, NEW at, NEW f, Loads(s, k, x, at, f),
           NEW y, NEW to, NEW g, Loads(f, k, y, to, g)
    PROVE  Loads(s, k, y, to, g)
BY DEF Loads

\* The lines of a rewrite: of a string, of a member and of a deadline.
LEMMA LoadStr ==
    ASSUME NEW s, Loose(s), NEW k \in Keys, NEW v \in Values, NEW t \in Times
    PROVE  Loads(s, k, Str(v), Never, Exec(s, Line("set", k, v, 0), t).db)
<1> DEFINE c == Line("set", k, v, 0)
<1>1. c \in CmdType /\ c.op = "set" /\ Key(c) = k /\ c.val = v
  BY LinesAre DEF LineOf
<1>2. Str(v) \in Entities
  BY EntityIs
<1> HIDE DEF c
<1>3. Exec(s, c, t).db = Persist(PutEntity(s, k, Str(v)), k)
  <2>1. Exec(s, c, t) = ExecSet(s, c, t)
    BY <1>1 DEF Exec
  <2> QED
    BY <1>1, <2>1, ResultIs DEF ExecSet
<1>4. NewKey(s, k, Str(v), Never, Persist(PutEntity(s, k, Str(v)), k))
  BY <1>2, NewIs DEF Loose
<1>5. Loads(s, k, Str(v), Never, Exec(s, c, t).db)
  BY <1>3, <1>4 DEF Loads, Loose, NewKey
<1> QED
  BY <1>5 DEF c

LEMMA LoadLook ==
    ASSUME NEW s, Loose(s), NEW k \in Keys, s.ttl[k] = Never, NEW t \in Times
    PROVE  Look(s, {k}, t) = s
<1>1. ~Expired(s, k, t)
  <2>1. ~(t > Never)
    BY ClockAssumption, NeverIs DEF Times
  <2> QED
    BY <2>1 DEF Expired
<1>2. {k} \in SUBSET Keys /\ \A j \in {k} : ~Expired(s, j, t)
  BY <1>1
<1> QED
  BY <1>2, LookFresh DEF Loose

LEMMA LoadScore ==
    ASSUME NEW s, Loose(s), NEW k \in Keys, s.ttl[k] = Never, ~IsStr(s.data[k]),
           NEW m \in Members, NEW i \in Nat, NEW t \in Times
    PROVE  /\ Loads(s, k, ZSet(SetScore(Scores(s.data[k]), m, i)), Never,
                    Exec(s, Line("zadd", k, m, i), t).db)
           /\ ZSet(SetScore(Scores(s.data[k]), m, i)) \in Entities
<1> DEFINE c == Line("zadd", k, m, i)
           x == s.data[k]
           y == ZSet(SetScore(Scores(x), m, i))
           f == Exec(s, c, t).db
<1>1. c.op = "zadd" /\ Key(c) = k /\ KeysOf(c) = {k} /\ c.val = m /\ c.n = i
  BY LinesAre DEF LineOf
<1>2. x \in Entities /\ Good(s)
  BY DbParts DEF Loose
<1>3. Look(s, KeysOf(c), t) = s
  BY <1>1, LoadLook
<1> HIDE DEF c
<1>4. f = IF x = Nil THEN PutEntity(s, k, y) ELSE Write(s, k, y)
  <2>1. Exec(s, c, t) = ExecZAdd(s, c, t)
    BY <1>1 DEF Exec
  <2> QED
    BY <1>1, <1>3, <2>1, ResultIs DEF ExecZAdd
<1>5. y \in Entities
  <2> DEFINE z == Scores(x)
  <2>1. DOMAIN z \in SUBSET Members /\ z \in [DOMAIN z -> Nat]
    BY <1>2, ScoresAre
  <2> HIDE DEF z
  <2>2. ZSet(SetScore(z, m, i)) \in Entities
    BY <2>1, ScoredIs
  <2> QED
    BY <2>2 DEF z
<1> HIDE DEF x, y, f
<1>6. PutTo(s, {k}, y, PutEntity(s, k, y)) /\ WriteTo(s, k, y, Write(s, k, y))
  <2>1. {k} \in SUBSET Keys
    OBVIOUS
  <2> QED
    BY <1>2, <1>5, <2>1, PutTie, WriteTie DEF PutEntity
<1>7. Loads(s, k, y, Never, PutEntity(s, k, y))
  BY <1>6 DEF PutTo, Loads, Loose
<1>8. Loads(s, k, y, Never, Write(s, k, y))
  BY <1>6 DEF WriteTo, Loads, Loose
<1> QED
  BY <1>4, <1>5, <1>7, <1>8 DEF c, x, y, f

LEMMA LoadDeadline ==
    ASSUME NEW s, Loose(s), NEW k \in Keys, s.ttl[k] = Never, s.data[k] # Nil,
           NEW at \in Nat, at < Never, NEW t \in Times
    PROVE  Loads(s, k, s.data[k], at, Exec(s, Line("pexpireat", k, <<>>, at), t).db)
<1> DEFINE c == Line("pexpireat", k, <<>>, at)
           f == Exec(s, c, t).db
<1>1. c.op = "pexpireat" /\ Key(c) = k /\ KeysOf(c) = {k} /\ c.n = at
  BY LinesAre DEF LineOf
<1>2. Look(s, KeysOf(c), t) = s
  BY <1>1, LoadLook
<1>3. at \in Deadlines /\ at # Never
  BY NeverIs DEF Deadlines
<1> HIDE DEF c
<1>4. f = Expire(s, k, at, t)
  <2>1. Exec(s, c, t) = ExecExpire(s, c, t)
    BY <1>1 DEF Exec
  <2> QED
    BY <1>1, <1>2, <2>1, ResultIs DEF ExecExpire
<1>5. RetimeTo(s, k, at, Expire(s, k, at, t))
  BY <1>3, RetimeTie DEF Loose
<1> HIDE DEF f
<1>6. Loads(s, k, s.data[k], at, f)
  BY <1>4, <1>5 DEF RetimeTo, Loads, Loose
<1> QED
  BY <1>6 DEF c, f

\* The members of a sorted set, line after line.
LEMMA LoadScores ==
    ASSUME NEW s, Loose(s), NEW k \in Keys, s.ttl[k] = Never, s.data[k] = Nil,
           NEW D \in SUBSET Members, D # {}, NEW z \in [D -> Nat], NEW t \in Times,
           NEW ls, ls = [i \in DOMAIN SetToSeq(D) |-> Line("zadd", k, SetToSeq(D)[i], z[SetToSeq(D)[i]])]
    PROVE  Loads(s, k, ZSet(z), Never, RunLines(s, ls, t))
<1> DEFINE n == Cardinality(D)
           members == SetToSeq(D)
           First(i) == {members[j] : j \in 1 .. i}
           run == Steps(s, ls, t)
           Part(i) == /\ Loads(s, k, run[i].data[k], Never, run[i])
                      /\ ~IsStr(run[i].data[k])
                      /\ i > 0 => run[i].data[k] # Nil
                      /\ DOMAIN Scores(run[i].data[k]) = First(i)
                      /\ \A m \in First(i) : Scores(run[i].data[k])[m] = z[m]
           T == {i \in Nat : i <= n => Part(i)}
<1>1. IsFiniteSet(D)
  BY SetsAssumption, FS_Subset
<1>2. /\ members \in [1 .. n -> D] /\ n \in Nat
      /\ \A x \in D : \E i \in 1 .. n : members[i] = x
  BY <1>1, SetToSeqIs
<1>3. First(n) = D /\ n > 0
  BY <1>2
<1>4. Len(ls) = n /\ \A i \in 1 .. n : ls[i] = Line("zadd", k, members[i], z[members[i]])
  <2>1. ls = [i \in 1 .. n |-> Line("zadd", k, members[i], z[members[i]])]
    BY <1>2
  <2> QED
    BY <1>2, <2>1
<1>5. /\ run[0] = s /\ RunLines(s, ls, t) = run[n]
      /\ \A i \in 1 .. n : run[i] = Exec(run[i - 1], Line("zadd", k, members[i], z[members[i]]), t).db
  <2>1. /\ run[0] = s /\ RunLines(s, ls, t) = run[Len(ls)]
        /\ \A i \in 1 .. Len(ls) : run[i] = Exec(run[i - 1], ls[i], t).db
    <3>1. Len(ls) \in Nat
      BY <1>2, <1>4
    <3> QED
      BY ONLY <3>1, StepOf DEF run
  <2> HIDE DEF run, members, n
  <2> QED
    BY <1>4, <2>1
<1> HIDE DEF run, members, n
<1>6. 0 \in T
  <2> SUFFICES Part(0)
    OBVIOUS
  <2>1. ~IsStr(Nil) /\ Scores(Nil) = <<>> /\ DOMAIN <<>> = {}
    BY DEF IsStr, Scores
  <2>2. First(0) = {} /\ ~(0 > 0)
    OBVIOUS
  <2>3. Loads(s, k, s.data[k], Never, s)
    BY DEF Loads
  <2> HIDE DEF First
  <2> QED
    BY <1>5, <2>1, <2>2, <2>3
<1>7. ASSUME NEW i \in Nat, i \in T
      PROVE  i + 1 \in T
  <2> SUFFICES ASSUME i + 1 <= n
               PROVE  Part(i + 1)
    OBVIOUS
  <2> DEFINE d == run[i]
             x == d.data[k]
             m == members[i + 1]
             y == SetScore(Scores(x), m, z[m])
             f == run[i + 1]
  <2>1. Part(i) /\ i + 1 \in 1 .. n
    BY <1>2, <1>7
  <2>2. m \in D /\ m \in Members /\ z[m] \in Nat
    BY <1>2, <2>1
  <2>3. f = Exec(d, Line("zadd", k, m, z[m]), t).db
    BY <1>5, <2>1
  <2>4. Loose(d) /\ d.ttl[k] = Never /\ ~IsStr(x)
    BY <2>1 DEF Loads
  <2> HIDE DEF m, d, f
  <2>5. Loads(d, k, ZSet(y), Never, f) /\ ZSet(y) \in Entities
    BY <2>2, <2>3, <2>4, LoadScore
  <2>6. DOMAIN y = First(i + 1) /\ \A j \in First(i + 1) : y[j] = z[j]
    <3>1. First(i + 1) = First(i) \cup {m}
      <4>1. \A j \in 1 .. i + 1 : j \in 1 .. i \/ j = i + 1
        BY <1>7
      <4>2. \A j \in 1 .. i : j \in 1 .. i + 1
        BY <1>7
      <4>3. i + 1 \in 1 .. i + 1
        BY <1>7
      <4> QED
        BY <4>1, <4>2, <4>3 DEF m
    <3>2. DOMAIN Scores(x) = First(i) /\ \A j \in First(i) : Scores(x)[j] = z[j]
      BY <2>1 DEF d
    <3> HIDE DEF First, x
    <3> QED
      BY <3>1, <3>2 DEF SetScore
  <2>7. IsZSet(ZSet(y)) /\ ZSet(y) # Nil /\ ~IsStr(ZSet(y)) /\ Scores(ZSet(y)) = y
    <3> HIDE DEF y
    <3>1. ZSet(y) # Nil
      <4>1. \E E \in SUBSET Members : y \in [E -> Nat]
        <5>1. DOMAIN Scores(x) \in SUBSET Members /\ Scores(x) \in [DOMAIN Scores(x) -> Nat]
          BY <2>4, ScoresAre, DbParts DEF Loose
        <5>2. Scored(DOMAIN Scores(x), Scores(x), m, z[m], y)
          BY <2>2, <5>1, ScoredIs DEF y
        <5> QED
          BY <2>2, <5>1, <5>2 DEF Scored
      <4> QED
        BY <4>1, NilAssumption DEF ZSet
    <3>2. IsZSet(ZSet(y)) /\ ZSet(y).zset = y
      BY <3>1 DEF IsZSet, ZSet
    <3> QED
      BY <2>5, <3>1, <3>2, EntityIs DEF Scores
  <2>8. f.data[k] = ZSet(y)
    BY <2>5 DEF Loads
  <2>9. Loads(s, k, ZSet(y), Never, f)
    BY <2>1, <2>5, LoadsTwice DEF d
  <2> HIDE DEF y, First
  <2> QED
    BY <2>6, <2>7, <2>8, <2>9 DEF f
<1> HIDE DEF T
<1>8. n \in T
  BY <1>2, <1>6, <1>7, SetInduction
<1>9. Part(n)
  BY <1>2, <1>8 DEF T
<1> DEFINE x == run[n].data[k]
<1>10. x = ZSet(z)
  <2>1. ~IsStr(x) /\ x # Nil /\ DOMAIN Scores(x) = D /\ \A m \in D : Scores(x)[m] = z[m]
    BY <1>3, <1>9
  <2>2. x \in Entities
    BY <1>9, DbParts DEF Loads, Loose
  <2> HIDE DEF x
  <2>3. x = ZSet(x.zset) /\ Scores(x) = x.zset /\ x.zset \in [DOMAIN x.zset -> Nat]
    BY <2>1, <2>2, EntityIs DEF Scores
  <2>4. x.zset = z
    <3> DEFINE y == x.zset
    <3>1. DOMAIN y = D /\ y \in [DOMAIN y -> Nat] /\ \A m \in D : y[m] = z[m]
      BY <2>1, <2>3
    <3> HIDE DEF y
    <3>2. y = z
      BY <3>1
    <3> QED
      BY <3>2 DEF y
  <2> QED
    BY <2>3, <2>4
<1> QED
  BY <1>5, <1>9, <1>10

\* The deadline that a rewrite keeps.
KeptTtl(d, k) == IF d.data[k] = Nil THEN Never ELSE d.ttl[k]

\* What they do to a database without the key.
LEMMA LoadEntity ==
    ASSUME NEW d, Good(d), NEW k \in Keys, IsZSet(d.data[k]) => DOMAIN d.data[k].zset # {},
           NEW s, Loose(s), s.data[k] = Nil, s.ttl[k] = Never, NEW t \in Times
    PROVE  Loads(s, k, d.data[k], Never, RunLines(s, EntityToCmd(d, k), t))
<1> DEFINE x == d.data[k]
<1>1. x \in Entities
  BY DbParts
<1>2. CASE x = Nil
  <2>1. EntityToCmd(d, k) = <<>>
    BY <1>2 DEF EntityToCmd
  <2>2. Loads(s, k, Nil, Never, s)
    BY DEF Loads
  <2> QED
    BY <1>2, <2>1, <2>2, RunNothing
<1>3. CASE x # Nil /\ IsStr(x)
  <2>1. x.str \in Values /\ x = Str(x.str)
    <3> HIDE DEF x
    <3>1. x \notin ZSets
      BY <1>3 DEF ZSets, ZSet, IsStr
    <3>2. x \in Strings
      BY <1>1, <1>3, <3>1 DEF Entities
    <3> QED
      BY <3>2 DEF Strings, Str
  <2> DEFINE v == x.str
  <2>2. EntityToCmd(d, k) = <<Line("set", k, v, 0)>>
    BY <1>3 DEF EntityToCmd
  <2> HIDE DEF v, x
  <2>3. Loads(s, k, Str(v), Never, Exec(s, Line("set", k, v, 0), t).db)
    BY <2>1, LoadStr DEF v
  <2> QED
    BY <2>1, <2>2, <2>3, RunOne DEF v, x
<1>4. CASE x # Nil /\ ~IsStr(x)
  <2> DEFINE z == x.zset
             D == DOMAIN z
             ls == [i \in DOMAIN SetToSeq(D) |-> Line("zadd", k, SetToSeq(D)[i], z[SetToSeq(D)[i]])]
  <2>1. IsZSet(x) /\ x = ZSet(z) /\ D \in SUBSET Members /\ z \in [D -> Nat]
    <3> HIDE DEF x
    <3> QED
      BY <1>1, <1>4, EntityIs
  <2>2. D # {}
    BY <2>1
  <2>3. EntityToCmd(d, k) = ls
    BY <1>4 DEF EntityToCmd
  <2> HIDE DEF z, x, D
  <2>4. Loads(s, k, ZSet(z), Never, RunLines(s, ls, t))
    BY <2>1, <2>2, LoadScores
  <2> QED
    BY <2>1, <2>3, <2>4 DEF x
<1> QED
  BY <1>2, <1>3, <1>4

LEMMA LoadPiece ==
    ASSUME NEW d, Good(d), NEW k \in Keys, IsZSet(d.data[k]) => DOMAIN d.data[k].zset # {},
           NEW s, Loose(s), s.data[k] = Nil, s.ttl[k] = Never, NEW t \in Times
    PROVE  Loads(s, k, d.data[k], KeptTtl(d, k), RunLines(s, Piece(d, k), t))
<1> DEFINE f == RunLines(s, EntityToCmd(d, k), t)
           g == RunLines(f, TtlLine(d, k), t)
           x == d.data[k]
           at == d.ttl[k]
<1>1. Loads(s, k, x, Never, f)
  BY LoadEntity
<1>2. RunLines(s, Piece(d, k), t) = g
  BY PieceIs, RunConcat DEF Piece
<1> HIDE DEF f
<1>3. CASE x = Nil \/ at = Never
  <2>1. g = f
    BY <1>3, RunNothing DEF TtlLine
  <2>2. KeptTtl(d, k) = Never
    BY <1>3 DEF KeptTtl
  <2> QED
    BY <1>1, <1>2, <2>1, <2>2
<1>4. CASE ~(x = Nil \/ at = Never)
  <2>1. at \in Nat /\ at < Never
    BY <1>4, DbParts, NeverIs DEF Deadlines
  <2>2. g = Exec(f, Line("pexpireat", k, <<>>, at), t).db
    BY <1>4, RunOne DEF TtlLine
  <2>3. KeptTtl(d, k) = at
    BY <1>4 DEF KeptTtl
  <2>4. Loose(f) /\ f.ttl[k] = Never /\ f.data[k] = x /\ x # Nil
    BY <1>1, <1>4 DEF Loads
  <2> HIDE DEF at, x
  <2>5. Loads(f, k, x, at, g)
    BY <2>1, <2>2, <2>4, LoadDeadline
  <2> QED
    BY <1>1, <1>2, <2>3, <2>5, LoadsTwice DEF x
<1> QED
  BY <1>3, <1>4

\* All keys, one after another.
Loaded(d, g) ==
    /\ Loose(g)
    /\ \A k \in Keys : g.data[k] = d.data[k] /\ g.ttl[k] = KeptTtl(d, k)

LEMMA DumpLoads ==
    ASSUME NEW d, Good(d), \A k \in Keys : IsZSet(d.data[k]) => DOMAIN d.data[k].zset # {},
           NEW t \in Times
    PROVE  Loaded(d, Replay(Dump(d), t))
<1> DEFINE n == Cardinality(Keys)
           keys == SetToSeq(Keys)
           ss == [i \in 1 .. n |-> Piece(d, keys[i])]
           g(i) == RunLines(Empty, Flats(ss)[i], t)
           Part(i) == /\ Loose(g(i))
                      /\ \A j \in 1 .. i : /\ g(i).data[keys[j]] = d.data[keys[j]]
                                           /\ g(i).ttl[keys[j]] = KeptTtl(d, keys[j])
                      /\ \A j \in i + 1 .. n : g(i).data[keys[j]] = Nil /\ g(i).ttl[keys[j]] = Never
           T == {i \in Nat \ {0} : i <= n => Part(i)}
<1>1. /\ keys \in [1 .. n -> Keys] /\ n \in Nat
      /\ \A i, j \in 1 .. n : keys[i] = keys[j] => i = j
      /\ \A k \in Keys : \E i \in 1 .. n : keys[i] = k
  BY SetsAssumption, SetToSeqIs
<1>2. Dump(d) = FlattenSeq(ss)
  BY DEF Dump, Piece, TtlLine
<1>3. Loose(Empty) /\ \A k \in Keys : Empty.data[k] = Nil /\ Empty.ttl[k] = Never
  BY EmptyIs DEF Loose
<1> HIDE DEF keys, n
<1>4. Len(ss) = n /\ ss \in Seq(Seq(CmdType)) /\ \A i \in 1 .. n : ss[i] = Piece(d, keys[i])
  BY <1>1, PieceIs
<1>5. CASE n = 0
  <2>1. Keys = {}
    BY <1>1, <1>5
  <2>2. FlattenSeq(ss) = ss /\ ss = <<>>
    BY <1>4, <1>5, FlattenNothing
  <2>3. Replay(Dump(d), t) = Empty
    BY <1>2, <2>2, RunNothing DEF Replay
  <2> QED
    BY <1>3, <2>1, <2>3 DEF Loaded
<1>6. CASE n # 0
  <2>1. Len(ss) \in Nat \ {0} /\ ss # <<>>
    BY <1>1, <1>4, <1>6
  <2> HIDE DEF ss
  <2>2. /\ Flats(ss)[1] = ss[1] /\ FlattenSeq(ss) = Flats(ss)[n]
        /\ \A i \in 1 .. n - 1 : Flats(ss)[i + 1] = Flats(ss)[i] \o ss[i + 1]
        /\ \A i \in 1 .. n : Flats(ss)[i] \in Seq(CmdType) /\ ss[i] \in Seq(CmdType)
    <3>1. /\ Flats(ss)[1] = ss[1] /\ FlattenSeq(ss) = Flats(ss)[Len(ss)]
          /\ \A i \in 1 .. Len(ss) - 1 : Flats(ss)[i + 1] = Flats(ss)[i] \o ss[i + 1]
      BY <2>1, FlattenSteps
    <3>2. \A i \in 1 .. Len(ss) : Flats(ss)[i] \in Seq(CmdType)
      BY <1>4, <2>1, FlatsType
    <3>3. \A i \in 1 .. Len(ss) : ss[i] \in Seq(CmdType)
      BY <1>4
    <3>4. Len(ss) = n
      BY <1>4
    <3> HIDE DEF n
    <3> QED
      BY <3>1, <3>2, <3>3, <3>4
  <2>3. \* A piece is for one key, and the others stay.
        ASSUME NEW i \in 1 .. n, NEW s, Loose(s), NEW f, f = RunLines(s, ss[i], t),
               \A j \in i .. n : s.data[keys[j]] = Nil /\ s.ttl[keys[j]] = Never
        PROVE  /\ Loose(f)
               /\ f.data[keys[i]] = d.data[keys[i]] /\ f.ttl[keys[i]] = KeptTtl(d, keys[i])
               /\ \A j \in 1 .. n : j # i => /\ f.data[keys[j]] = s.data[keys[j]]
                                             /\ f.ttl[keys[j]] = s.ttl[keys[j]]
    <3> DEFINE k == keys[i]
    <3>1. k \in Keys /\ s.data[k] = Nil /\ s.ttl[k] = Never /\ f = RunLines(s, Piece(d, k), t)
      <4>1. i \in i .. n
        BY <1>1
      <4> QED
        BY <1>1, <1>4, <2>3, <4>1
    <3>2. \A j \in 1 .. n : j # i => keys[j] \in Keys \ {k}
      BY <1>1
    <3> HIDE DEF k
    <3>3. Loads(s, k, d.data[k], KeptTtl(d, k), f)
      BY <2>3, <3>1, LoadPiece
    <3> QED
      BY <3>2, <3>3 DEF Loads, k
  <2>4. 1 \in T
    <3> SUFFICES Part(1)
      OBVIOUS
    <3>1. 1 \in 1 .. n /\ \A j \in 1 .. n : keys[j] \in Keys
      BY <1>1, <1>6
    <3>2. g(1) = RunLines(Empty, ss[1], t)
      BY <2>2
    <3>3. \A j \in 1 .. n : Empty.data[keys[j]] = Nil /\ Empty.ttl[keys[j]] = Never
      BY <1>3, <3>1
    <3>4. \A j \in 1 .. 1 : j = 1
      OBVIOUS
    <3>5. \A j \in 1 + 1 .. n : j \in 1 .. n /\ j # 1
      BY <1>1
    <3> DEFINE f == g(1)
    <3>6. /\ Loose(f)
          /\ f.data[keys[1]] = d.data[keys[1]] /\ f.ttl[keys[1]] = KeptTtl(d, keys[1])
          /\ \A j \in 1 .. n : j # 1 => /\ f.data[keys[j]] = Empty.data[keys[j]]
                                        /\ f.ttl[keys[j]] = Empty.ttl[keys[j]]
      <4> HIDE DEF f
      <4> QED
        BY <1>3, <2>3, <3>1, <3>2, <3>3 DEF f
    <3> HIDE DEF f
    <3>7. /\ \A j \in 1 .. 1 : f.data[keys[j]] = d.data[keys[j]] /\ f.ttl[keys[j]] = KeptTtl(d, keys[j])
          /\ \A j \in 1 + 1 .. n : f.data[keys[j]] = Nil /\ f.ttl[keys[j]] = Never
      BY <3>3, <3>4, <3>5, <3>6
    <3> QED
      BY <3>6, <3>7 DEF f
  <2>5. ASSUME NEW i \in Nat \ {0}, i \in T
        PROVE  i + 1 \in T
    <3> SUFFICES ASSUME i + 1 <= n
                 PROVE  Part(i + 1)
      OBVIOUS
    <3>1. /\ Part(i) /\ i + 1 \in 1 .. n /\ i \in 1 .. n - 1 /\ i \in 1 .. n
      BY <1>1, <2>5
    <3> DEFINE s == g(i)
               f == g(i + 1)
    <3>2. f = RunLines(s, ss[i + 1], t)
      <4>1. Flats(ss)[i + 1] = Flats(ss)[i] \o ss[i + 1]
        BY <2>2, <3>1
      <4>2. Flats(ss)[i] \in Seq(CmdType) /\ ss[i + 1] \in Seq(CmdType)
        BY <2>2, <3>1
      <4> QED
        BY <4>1, <4>2, RunConcat
    <3>3. /\ Loose(s)
          /\ \A j \in 1 .. i : s.data[keys[j]] = d.data[keys[j]] /\ s.ttl[keys[j]] = KeptTtl(d, keys[j])
          /\ \A j \in i + 1 .. n : s.data[keys[j]] = Nil /\ s.ttl[keys[j]] = Never
      BY <3>1
    <3> HIDE DEF s, f, T
    <3>4. /\ Loose(f)
          /\ f.data[keys[i + 1]] = d.data[keys[i + 1]] /\ f.ttl[keys[i + 1]] = KeptTtl(d, keys[i + 1])
          /\ \A j \in 1 .. n : j # i + 1 => /\ f.data[keys[j]] = s.data[keys[j]]
                                            /\ f.ttl[keys[j]] = s.ttl[keys[j]]
      BY <2>3, <3>1, <3>2, <3>3
    <3>5. ASSUME NEW j \in 1 .. i + 1
          PROVE  f.data[keys[j]] = d.data[keys[j]] /\ f.ttl[keys[j]] = KeptTtl(d, keys[j])
      <4>1. j = i + 1 \/ (j # i + 1 /\ j \in 1 .. i /\ j \in 1 .. n)
        BY <1>1, <3>1
      <4> QED
        BY <3>3, <3>4, <4>1
    <3>6. ASSUME NEW j \in (i + 1) + 1 .. n
          PROVE  f.data[keys[j]] = Nil /\ f.ttl[keys[j]] = Never
      <4>1. j # i + 1 /\ j \in i + 1 .. n /\ j \in 1 .. n
        BY <1>1, <3>1
      <4> QED
        BY <3>3, <3>4, <4>1
    <3> QED
      BY <3>4, <3>5, <3>6 DEF f
  <2> HIDE DEF T
  <2>6. n \in T
    BY <1>1, <1>6, <2>4, <2>5, SetInductionFrom1
  <2>7. Part(n)
    BY <1>1, <2>6 DEF T
  <2>8. Replay(Dump(d), t) = g(n)
    BY <1>2, <2>2 DEF Replay
  <2> DEFINE f == g(n)
  <2>9. Loose(f) /\ \A j \in 1 .. n : /\ f.data[keys[j]] = d.data[keys[j]]
                                      /\ f.ttl[keys[j]] = KeptTtl(d, keys[j])
    BY <2>7
  <2> HIDE DEF f
  <2> QED
    BY <1>1, <2>8, <2>9 DEF Loaded, f
<1> QED
  BY <1>5, <1>6

\* A rewrite has the keys of which it knows everything.
LEMMA RewriteRInv ==
    ASSUME RInv, Rewrite
    PROVE  RInv'
<1> DEFINE d == Replay(file, now)
           U == Until(sure, now)
<1>1. /\ IInv' /\ now' = now /\ db' = db /\ lapsed' = lapsed /\ file' = Dump(d)
      /\ \A k \in Keys : IsZSet(d.data[k]) => DOMAIN d.data[k].zset # {}
      /\ sure' = [k \in Keys |-> IF \/ Aliases(db, k) # {}
                                    \/ (db.data[k] = Nil /\ db.ttl[k] # Never)
                                 THEN Broken ELSE sure[k]]
  BY RewriteStep DEF RInv, Rewrite
<1>2. /\ Good(db) /\ Filled(db) /\ now \in Times /\ Late(db, now) \subseteq lapsed
      /\ sure \in [Keys -> Moments] /\ Brings(db, d, U, lapsed, now)
      /\ \A t \in now .. MaxTime : t \in Times /\ now <= t
  BY NowIs DEF RInv
<1> HIDE DEF d, U
<1>3. ASSUME NEW k \in Keys, now <= sure'[k]
      PROVE  /\ sure'[k] = sure[k] /\ Aliases(db, k) = {}
             /\ db.data[k] = Nil => db.ttl[k] = Never
  <2>1. ~(now <= Broken)
    BY <1>2 DEF Times, Broken
  <2> QED
    BY <1>1, <1>3, <2>1
<1>4. Leftovers'
  BY <1>1, <1>3 DEF RInv, Leftovers
<1>5. ASSUME NEW t \in now .. MaxTime
      PROVE  Brings(db, Replay(Dump(d), t), Until(sure', t), lapsed, t)
  <2> DEFINE g == Replay(Dump(d), t)
             T == Until(sure', t)
  <2>1. t \in Times /\ now <= t
    BY <1>2
  <2>2. Good(d) /\ \A k \in U : Found(db, d, U, lapsed, now, k)
    BY <1>2 DEF Brings
  <2>3. Loaded(d, g)
    BY <1>1, <2>1, <2>2, DumpLoads
  <2> HIDE DEF g
  <2>4. Good(g) /\ Filled(g)
    BY <2>3 DEF Loaded, Loose, Filled
  <2>5. ASSUME NEW k \in T
        PROVE  Found(db, g, T, lapsed, t, k)
    <3>1. k \in Keys /\ t <= sure'[k] /\ now <= sure'[k]
      <4>1. k \in Keys /\ t <= sure'[k] /\ sure'[k] \in Moments
        BY <1>1 DEF Until, IInv
      <4>2. \A m \in Moments : m \in Int
        BY NeverIs DEF Moments, Deadlines, Broken
      <4> QED
        BY <1>2, <2>1, <4>1, <4>2 DEF Times
    <3>2. /\ k \in U /\ Aliases(db, k) = {}
          /\ db.data[k] = Nil => db.ttl[k] = Never
      BY <1>3, <3>1 DEF U, Until
    <3>3. /\ Norm(db, k, now) = Norm(d, k, now)
          /\ k \notin lapsed => (Expired(db, k, now) <=> Expired(d, k, now))
      BY <2>2, <3>2 DEF Found
    <3>4. d.data[k] = Nil => d.ttl[k] = Never
      <4> SUFFICES ASSUME d.data[k] = Nil PROVE d.ttl[k] = Never
        OBVIOUS
      <4>1. ~Expired(d, k, now) /\ Norm(d, k, now) = <<Nil, d.ttl[k]>>
        BY DEF Expired, Norm
      <4>2. CASE Expired(db, k, now)
        <5>1. <<Nil, Never>> = <<Nil, d.ttl[k]>>
          BY <3>3, <4>1, <4>2 DEF Norm
        <5> QED
          BY <5>1
      <4>3. CASE ~Expired(db, k, now)
        BY <3>2, <3>3, <4>1, <4>3, NormIs
      <4> QED
        BY <4>2, <4>3
    <3>5. g.data[k] = d.data[k] /\ g.ttl[k] = d.ttl[k]
      BY <2>3, <3>1, <3>4 DEF Loaded, KeptTtl
    <3>6. Norm(db, k, t) = Norm(g, k, t)
      <4>1. Norm(db, k, t) = Norm(d, k, t)
        BY <1>2, <2>1, <2>2, <3>1, <3>3, NormLater
      <4> QED
        BY <3>5, <4>1 DEF Norm, Expired
    <3>7. k \notin lapsed => (Expired(db, k, t) <=> Expired(g, k, t))
      <4> SUFFICES ASSUME k \notin lapsed
                   PROVE  Expired(db, k, t) <=> Expired(g, k, t)
        OBVIOUS
      <4>1. ~Expired(db, k, now)
        <5>1. now \in Int /\ db.ttl[k] \in Int
          BY <1>2, <3>1, DbParts, NeverIs DEF Deadlines, Times
        <5> QED
          BY <1>2, <3>1, <5>1 DEF Expired, Late
      <4>2. db.data[k] = d.data[k] /\ db.ttl[k] = d.ttl[k]
        BY <3>3, <4>1, NormIs
      <4> QED
        BY <3>5, <4>2 DEF Expired
    <3>8. \A p \in Keys : ~Tie(g, k, p)
      BY <2>3, <3>1 DEF Loaded, Loose
    <3>9. \A p \in Keys : ~Tie(db, k, p)
      BY <1>2, <3>1, <3>2, TieIs
    <3>10. T \subseteq Keys
      BY DEF Until
    <3> QED
      BY <3>6, <3>7, <3>8, <3>9, <3>10 DEF Found
  <2>6. T \in SUBSET Keys
    BY DEF Until
  <2> QED
    BY <1>2, <2>4, <2>5, <2>6 DEF Brings, g
<1> QED
  BY <1>1, <1>2, <1>4, <1>5 DEF RInv

LEMMA InitRInv == Init => RInv
<1> SUFFICES ASSUME Init PROVE RInv
  OBVIOUS
<1>1. IInv /\ file \in Files /\ db = Replay(file, 0) /\ now = 0 /\ lapsed = {}
      /\ sure = [k \in Keys |-> Never]
  BY InitInv DEF Init
<1>2. /\ \A k \in Keys : db.data[k] = Nil => db.ttl[k] = Never
      /\ \A t \in 0 .. MaxTime : /\ Replay(file, t).data = db.data /\ Replay(file, t).ttl = db.ttl
                                 /\ Replay(file, t).shares = db.shares
  <2>1. 0 \in 0 .. MaxTime
    BY ClockAssumption
  <2> QED
    BY <1>1, <2>1, StartAssumption
<1>3. Late(db, now) = {}
  <2>1. \A k \in Keys : ~(db.ttl[k] < 0)
    BY <1>1, DbParts, NeverIs DEF IInv, Deadlines
  <2> QED
    BY <1>1, <2>1 DEF Late
<1>4. Leftovers
  BY <1>2 DEF Leftovers
<1>5. ASSUME NEW t \in now .. MaxTime
      PROVE  Brings(db, Replay(file, t), Until(sure, t), lapsed, t)
  <2> DEFINE e == Replay(file, t)
  <2>1. t \in Times /\ 0 \in Times
    BY <1>1, ClockAssumption DEF Times
  <2>2. e.data = db.data /\ e.ttl = db.ttl /\ e.shares = db.shares
    BY <1>1, <1>2
  <2>3. Good(e) /\ Filled(e) /\ Good(db) /\ Filled(db)
    BY <1>1, <2>1, ReplayFilled DEF IInv
  <2> HIDE DEF e
  <2>4. Until(sure, t) = Keys
    <3>1. t <= Never
      BY <2>1, ClockAssumption, NeverIs DEF Times
    <3> QED
      BY <1>1, <3>1 DEF Until
  <2>5. \A k \in Keys : Found(db, e, Keys, lapsed, t, k)
    BY <2>2 DEF Found, Norm, Expired, Tie
  <2> QED
    BY <2>3, <2>4, <2>5 DEF Brings, e
<1> QED
  BY <1>1, <1>3, <1>4, <1>5 DEF RInv

LEMMA NextRInv == RInv /\ [Next]_vars => RInv'
<1>1. ASSUME RInv, Next PROVE RInv'
  BY <1>1, DoRInv, TickRInv, JobRInv, RewriteRInv, RestartRInv DEF Next
<1>2. ASSUME RInv, UNCHANGED vars PROVE RInv'
  <2>1. /\ db' = db /\ now' = now /\ file' = file /\ sure' = sure /\ lapsed' = lapsed
    BY <1>2 DEF vars
  <2> QED
    BY <1>2, <2>1 DEF RInv, IInv, Leftovers
<1> QED
  BY <1>1, <1>2

LEMMA InvExact == RInv => ReplayExact
<1> SUFFICES ASSUME RInv, NEW k \in Keys, now <= sure[k]
             PROVE  SameKey(db, Replay(file, now), k, now)
  BY DEF ReplayExact
<1> DEFINE e == Replay(file, now)
<1>1. Norm(db, k, now) = Norm(e, k, now)
  BY NowIs DEF Brings, Until, Found
<1> HIDE DEF e
<1>2. Visible(db, k, now) = Visible(e, k, now)
  BY <1>1, NormIs DEF Visible, Expired
<1>3. Visible(db, k, now) # Nil => db.ttl[k] = e.ttl[k]
  BY <1>1, NormIs DEF Visible
<1> QED
  BY <1>2, <1>3 DEF SameKey, e

\* LoadAof (aof.go) brings back, key by key, the value and the deadline that clients
\* would find, whatever commands, jobs of the time wheel, copies, renames, rewrites of the
\* file and restarts there have been: until the first deadline that commands have worked
\* on has passed, a shared array has been written to beyond the end of a string, or a rewrite
\* has separated what keys share.
THEOREM ReplayIsExact == Spec => []ReplayExact
<1>1. Spec => []RInv
  BY InitRInv, NextRInv, PTL DEF Spec
<1> QED
  BY <1>1, InvExact, PTL

===============================================================================
