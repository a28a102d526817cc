------------------------------ MODULE ExpiryProofs ------------------------------
(***************************************************************************)
(* KeysLiveOut, OnTime and TypeOK, for any keys, clients, delays and wheel. *)
(*                                                                         *)
(* A goroutine or a job that has seen a deadline pass removes the key in a  *)
(* later step.  What the deadline is by then is the invariant Overdue; the  *)
(* lock protects it, although it may be one for reading, against all who    *)
(* take a lock themselves, and the history of those COPY has overtaken says *)
(* for whom it does not.  That locks exclude each other is Locked.          *)
(*                                                                         *)
(* OnTime is the work of the wheel alone (Good): the rounds of a job are    *)
(* what is left until the tick it is due at, and one less as long as a scan *)
(* has still to come to it.  What a step of the wheel does to that is a     *)
(* lemma about values, which the handlers then use.                         *)
(***************************************************************************)
EXTENDS Expiry, TLAPS

Steps == {"idle", "expire", "add", "check", "remove", "forget", "cancel", "look", "put", "read"}

ClientType == [step : Steps, key : Keys \cup {Nil}, lock : {"write", "read", "none"},
               at : Int, src : Keys \cup {Nil}, dest : Keys \cup {Nil}]

\* Only COPY has no lock, and two keys.  Checks are made with a lock for reading or none,
\* deadlines set with one for writing or none.
Proper(r) ==
    r.step # "idle" =>
        /\ r.key \in Keys
        /\ IF r.lock = "none" THEN r.src \in Keys /\ r.dest \in Keys
                              ELSE r.src = Nil /\ r.dest = Nil
        /\ r.step \in {"check", "remove"} => r.lock # "write"
        /\ r.step \in {"expire", "add"} => r.lock # "read"
        /\ r.step \in {"look", "put", "read"} => r.lock = "none"

IInv ==
    /\ now \in Int
    /\ ttl \in [Keys -> Int]
    /\ client \in [Clients -> ClientType]
    /\ \A c \in Clients : Proper(client[c])
    /\ overtaken \subseteq Clients \cup Elements

\* What a command makes of the record of its goroutine: it begins, with the lock it has
\* asked for, it ends, or it goes on with the lock it has.
Moves(c, r) ==
    /\ client' = [client EXCEPT ![c] = r]
    /\ r \in ClientType /\ Proper(r)
    /\ \/ /\ Idle(c) /\ r.step # "remove"
          /\ r.lock = "write" => MayWrite(r.key)
          /\ r.lock = "read" => MayRead(r.key)
       \/ r.step = "idle"
       \/ /\ ~Idle(c) /\ r.lock = client[c].lock
          /\ r.lock # "none" => r.key = client[c].key
          /\ r.step = "remove" => /\ r.key = client[c].key /\ Past(r.key)
                                  /\ UNCHANGED <<data, ttl, now, overtaken>>

-------------------------------------------------------------------------------
(* Commands *)

LEMMA NeverIsInt == Never \in Int
BY BoundAssumption DEF Never

\* Goroutines at rest, and those that begin a command with one key.
LEMMA RestingType == Resting \in ClientType /\ Proper(Resting) /\ Resting.step = "idle"
BY DEF Resting, Command, ClientType, Proper, Steps

LEMMA CommandType ==
    ASSUME NEW s \in Steps, NEW k \in Keys, NEW l \in {"write", "read"}, NEW at \in Int
    PROVE  LET r == Command(s, k, l, at)
           IN  r \in ClientType /\ r.step = s /\ r.key = k /\ r.lock = l /\ r.src = Nil /\ r.dest = Nil
BY DEF Command, ClientType

LEMMA BeginMoves ==
    ASSUME NEW c \in Clients, NEW s \in {"expire", "check", "forget"}, NEW k \in Keys,
           NEW l \in {"write", "read"}, NEW at \in Int,
           Begin(c, Command(s, k, l, at)),
           l = "write" => MayWrite(k), l = "read" => MayRead(k),
           s = "check" => l = "read", s = "expire" => l = "write"
    PROVE  \E r : Moves(c, r) /\ r.step = s /\ r.key = k /\ r.lock = l
<1>1. PICK r : r = Command(s, k, l, at)
  OBVIOUS
<1>2. r \in ClientType /\ r.step = s /\ r.key = k /\ r.lock = l /\ r.src = Nil /\ r.dest = Nil
  BY <1>1, CommandType DEF Steps
<1>3. client' = [client EXCEPT ![c] = r] /\ Idle(c)
  BY <1>1 DEF Begin
<1>4. Proper(r)
  BY <1>2 DEF Proper
<1> QED BY <1>2, <1>3, <1>4 DEF Moves

LEMMA StepMoves ==
    ASSUME IInv, NEW c \in Clients, NEW s \in Steps, ~Idle(c), Step(c, s),
           s \in {"check", "remove"} => client[c].lock # "write",
           s \in {"expire", "add"} => client[c].lock # "read",
           s \in {"look", "put", "read"} => client[c].lock = "none",
           s = "remove" => Past(client[c].key) /\ UNCHANGED <<data, ttl, now, overtaken>>
    PROVE  \E r : Moves(c, r) /\ r.step = s /\ r.key = client[c].key
<1>0. client[c] \in ClientType /\ Proper(client[c]) /\ client[c].step # "idle"
  BY DEF IInv, Idle
<1>1. PICK r : r = [client[c] EXCEPT !.step = s]
  OBVIOUS
<1>2. client' = [client EXCEPT ![c] = r]
  BY <1>1 DEF Step
<1>3. /\ r \in ClientType /\ r.step = s /\ r.key = client[c].key /\ r.lock = client[c].lock
      /\ r.src = client[c].src /\ r.dest = client[c].dest
  BY <1>0, <1>1 DEF ClientType
<1>4. Proper(r)
  BY <1>0, <1>3 DEF Proper
<1> QED BY <1>2, <1>3, <1>4 DEF Moves

LEMMA DoneMoves ==
    ASSUME NEW c \in Clients, Done(c)
    PROVE  \E r : Moves(c, r) /\ r.step = "idle"
BY RestingType DEF Done, Moves

\* GetEntity has found its key, or has not.
LEMMA FoundMoves ==
    ASSUME IInv, NEW c \in Clients, ~Idle(c), Found(c)
    PROVE  \E r : Moves(c, r) /\ r.step \in {"idle", "look", "put"}
<1>0. client[c] \in ClientType /\ Proper(client[c]) /\ client[c].step # "idle"
  BY DEF IInv, Idle
<1>1. client[c].key \in Keys /\ client[c].key # Nil
  BY <1>0, KeyAssumption DEF Proper
<1>2. CASE client[c].key = client[c].src
  <2>1. client[c].lock = "none" /\ client[c].dest \in Keys
    BY <1>0, <1>1, <1>2 DEF Proper
  <2>2. PICK r : r = [client[c] EXCEPT !.step = "look", !.key = client[c].dest]
    OBVIOUS
  <2>3. client' = [client EXCEPT ![c] = r]
    BY <1>2, <2>2 DEF Found
  <2>4. /\ r \in ClientType /\ r.step = "look" /\ r.key \in Keys /\ r.lock = "none"
        /\ r.src = client[c].src /\ r.dest = client[c].dest
    BY <1>0, <2>1, <2>2 DEF ClientType, Steps
  <2>5. Proper(r)
    BY <1>0, <2>1, <2>4 DEF Proper
  <2> QED BY <2>1, <2>3, <2>4, <2>5 DEF Moves, Idle
<1>3. CASE client[c].key # client[c].src
  <2>1. CASE Done(c)
    BY <2>1, DoneMoves
  <2>2. CASE client[c].key = client[c].dest /\ Step(c, "put")
    <3>1. client[c].lock = "none"
      BY <1>0, <1>1, <2>2 DEF Proper
    <3> QED BY <2>2, <3>1, StepMoves DEF Steps
  <2> QED BY <1>3, <2>1, <2>2 DEF Found
<1> QED BY <1>2, <1>3

LEMMA MissingMoves ==
    ASSUME IInv, NEW c \in Clients, ~Idle(c), Missing(c)
    PROVE  \E r : Moves(c, r) /\ r.step \in {"idle", "put"}
<1>0. client[c] \in ClientType /\ Proper(client[c]) /\ client[c].step # "idle"
  BY DEF IInv, Idle
<1>1. client[c].key \in Keys /\ client[c].key # Nil
  BY <1>0, KeyAssumption DEF Proper
<1>2. CASE Done(c)
  BY <1>2, DoneMoves
<1>3. CASE client[c].key = client[c].dest /\ Step(c, "put")
  <2>1. client[c].lock = "none"
    BY <1>0, <1>1, <1>3 DEF Proper
  <2> QED BY <1>3, <2>1, StepMoves DEF Steps
<1> QED BY <1>2, <1>3 DEF Missing

\* All commands.
LEMMA CommandMoves ==
    ASSUME IInv, NEW c \in Clients, CommandStep(c)
    PROVE  \E r : Moves(c, r)
<1>0. client[c] \in ClientType /\ Proper(client[c])
  BY DEF IInv
<1>1. ASSUME NEW k \in Keys, NEW d \in Delays, SetEX(c, k, d) PROVE \E r : Moves(c, r)
  <2>1. now + d \in Int
    BY ClockAssumption DEF IInv
  <2> QED BY <1>1, <2>1, BeginMoves DEF SetEX
<1>2. ASSUME Expire(c) PROVE \E r : Moves(c, r)
  BY <1>0, <1>2, StepMoves DEF Expire, Steps, Proper, Idle
<1>3. ASSUME NoJob(c) \/ \E e \in Elements, lost \in BOOLEAN : AddJob(c, e, lost)
      PROVE  \E r : Moves(c, r)
  BY <1>3, DoneMoves DEF NoJob, AddJob
<1>4. ASSUME NEW k \in Keys, Set(c, k) \/ Del(c, k) PROVE \E r : Moves(c, r)
  BY <1>4, BeginMoves DEF Set, Del
<1>5. ASSUME NEW k \in Keys, Look(c, k) PROVE \E r : Moves(c, r)
  BY <1>5, BeginMoves DEF Look
<1>6. ASSUME Check(c) PROVE \E r : Moves(c, r)
  <2>1. CASE Past(client[c].key)
    <3>1. Step(c, "remove") /\ ~Idle(c) /\ UNCHANGED <<data, ttl, now, overtaken>>
          /\ client[c].lock # "write"
      BY <1>0, <1>6, <2>1 DEF Check, Idle, Proper
    <3> QED BY <2>1, <3>1, StepMoves DEF Steps
  <2>2. CASE ~Past(client[c].key)
    BY <1>6, <2>2, FoundMoves DEF Check, Idle
  <2> QED BY <2>1, <2>2
<1>7. ASSUME RemoveExpired(c) \/ Forget(c) PROVE \E r : Moves(c, r)
  BY <1>7, StepMoves DEF RemoveExpired, Forget, Steps, Idle
<1>8. ASSUME Cancel(c) PROVE \E r : Moves(c, r)
  BY <1>8, MissingMoves DEF Cancel, Idle
<1>9. ASSUME NEW j \in Keys, NEW k \in Keys, Copy(c, j, k) PROVE \E r : Moves(c, r)
  <2>1. PICK r : r = [step |-> "check", key |-> j, lock |-> "none", at |-> 0, src |-> j,
                   dest |-> k]
    OBVIOUS
  <2>2. r \in ClientType /\ r.step = "check" /\ r.key = j /\ r.lock = "none" /\ r.src = j /\ r.dest = k
    BY <2>1 DEF ClientType, Steps
  <2>3. Proper(r)
    BY <2>2 DEF Proper
  <2>4. client' = [client EXCEPT ![c] = r] /\ Idle(c)
    BY <1>9, <2>1 DEF Copy, Begin
  <2> QED BY <2>2, <2>3, <2>4 DEF Moves
<1>10. ASSUME CopyLooks(c) PROVE \E r : Moves(c, r)
  <2>1. ~Idle(c) /\ client[c].lock = "none"
    BY <1>0, <1>10 DEF CopyLooks, Proper, Idle
  <2> QED BY <1>10, <2>1, StepMoves DEF CopyLooks, Steps
<1>11. ASSUME CopyPuts(c) PROVE \E r : Moves(c, r)
  <2>1. ~Idle(c) /\ client[c].lock = "none"
    BY <1>0, <1>11 DEF CopyPuts, Proper, Idle
  <2> QED BY <1>11, <2>1, StepMoves DEF CopyPuts, Steps
<1>12. ASSUME CopyReads(c) PROVE \E r : Moves(c, r)
  <2>0. /\ client[c].lock = "none" /\ client[c].key \in Keys
        /\ client[c].src \in Keys /\ client[c].dest \in Keys /\ ~Idle(c)
    BY <1>0, <1>12 DEF CopyReads, Proper, Idle
  <2>1. PICK at \in Int : at = ttl[client[c].src]
    BY <2>0 DEF IInv
  <2>2. CASE Done(c)
    BY <2>2, DoneMoves
  <2>3. CASE client' = [client EXCEPT ![c].step = "expire", ![c].at = at]
    <3>1. PICK r : r = [client[c] EXCEPT !.step = "expire", !.at = at]
      OBVIOUS
    <3>2. client' = [client EXCEPT ![c] = r]
      BY <2>3, <3>1 DEF IInv
    <3>3. /\ r \in ClientType /\ r.step = "expire" /\ r.key = client[c].key /\ r.lock = "none"
          /\ r.src = client[c].src /\ r.dest = client[c].dest
      BY <1>0, <2>0, <3>1 DEF ClientType, Steps
    <3>4. Proper(r)
      BY <2>0, <3>3 DEF Proper
    <3> QED BY <2>0, <3>2, <3>3, <3>4 DEF Moves
  <2> QED BY <1>12, <2>1, <2>2, <2>3 DEF CopyReads
<1> QED
  BY <1>1, <1>2, <1>3, <1>4, <1>5, <1>6, <1>7, <1>8, <1>9, <1>10, <1>11, <1>12 DEF CommandStep

LEMMA InitIInv == Init => IInv
BY NeverIsInt, RestingType DEF Init, IInv

LEMMA NextIInv == IInv /\ [Next]_vars => IInv'
<1> SUFFICES ASSUME IInv, [Next]_vars PROVE IInv'
  OBVIOUS
<1> USE DEF wheel
<1>1. \A k : Removers(k) \subseteq Clients \cup Elements
  BY DEF Removers
<1>2. ASSUME NEW c \in Clients, CommandStep(c) PROVE IInv'
  <2>1. PICK r : Moves(c, r)
    BY <1>2, CommandMoves
  <2>2. client' \in [Clients -> ClientType] /\ \A d \in Clients : Proper(client'[d])
    BY <2>1 DEF IInv, Moves
  <2>3. overtaken' \subseteq Clients \cup Elements
    BY <1>1, <1>2 DEF CommandStep, SetEX, Expire, AddJob, NoJob, Set, Del, Look, Check,
         RemoveExpired, Forget, Cancel, Copy, CopyLooks, CopyPuts, CopyReads, Overtake, IInv
  <2>4. now' = now /\ ttl' \in [Keys -> Int]
    <3>1. client[c] \in ClientType /\ client[c].at \in Int
      BY DEF IInv, ClientType
    <3>2. CASE Expire(c)
      BY <3>1, <3>2 DEF Expire, IInv
    <3>3. CASE Forget(c)
      BY <3>3, NeverIsInt DEF Forget, IInv
    <3>4. CASE ~Expire(c) /\ ~Forget(c)
      BY <1>2, <3>4 DEF CommandStep, SetEX, AddJob, NoJob, Set, Del, Look, Check,
           RemoveExpired, Cancel, Copy, CopyLooks, CopyPuts, CopyReads, IInv
    <3> QED BY <3>2, <3>3, <3>4
  <2> QED BY <2>2, <2>3, <2>4 DEF IInv
<1>3. ASSUME NEW e \in Elements, JobStep(e) PROVE IInv'
  BY <1>3, NeverIsInt DEF JobStep, JobChecks, JobRemoves, JobForgets, JobCancels, IInv
<1>4. ASSUME Advance PROVE IInv'
  BY <1>4 DEF Advance, IInv
<1>5. ASSUME TickerFires \/ \E s \in Slots : Scan(s) PROVE IInv'
  BY <1>5 DEF TickerFires, Scan, IInv
<1>6. CASE UNCHANGED vars
  BY <1>6 DEF vars, IInv
<1> QED BY <1>2, <1>3, <1>4, <1>5, <1>6 DEF Next

\* The commands' goroutines have the locks and keys of their steps, in every reachable state.
LEMMA Commands == Spec => []IInv
BY InitIInv, NextIInv, PTL DEF Spec

-------------------------------------------------------------------------------
(* Division *)

\* What Go and TLA+ agree on for natural dividends.
LEMMA DivMod ==
    ASSUME NEW x \in Int, NEW n \in Nat \ {0}
    PROVE  x = n * (x \div n) + (x % n) /\ x % n \in 0 .. n - 1 /\ x \div n \in Int
OBVIOUS

\* The same with a quotient that need not be written as one.
LEMMA Divided ==
    ASSUME NEW x \in Int, NEW n \in Nat \ {0}
    PROVE  /\ x % n \in 0 .. n - 1 /\ x \div n \in Int
           /\ \E q \in Int : x = n * q + (x % n)
<1>1. x = n * (x \div n) + (x % n) /\ x % n \in 0 .. n - 1 /\ x \div n \in Int
  BY DivMod
<1>2. PICK q \in Int : q = x \div n
  BY <1>1
<1> QED BY <1>1, <1>2

\* Multiples of n lie n apart at least.
LEMMA Times ==
    ASSUME NEW q \in Int, NEW r \in Int, q < r, NEW n \in Nat \ {0}
    PROVE  n * r >= n * q + n
<1>1. n * (r - q - 1) >= 0
  OBVIOUS
<1>2. n * (r - q - 1) = n * r - n * q - n
  OBVIOUS
<1> QED BY <1>1, <1>2

\* No natural number has a quotient below zero.
LEMMA Quotient ==
    ASSUME NEW x \in Nat, NEW n \in Nat \ {0}
    PROVE  x \div n \in Nat
<1>1. x = n * (x \div n) + (x % n) /\ x % n \in 0 .. n - 1 /\ x \div n \in Int
  BY DivMod
<1>2. SUFFICES ASSUME x \div n < 0 PROVE FALSE
  BY <1>1
<1>3. n * 0 >= n * (x \div n) + n
  BY <1>1, <1>2, Times
<1> QED BY <1>1, <1>3

\* Only one remainder fits.
LEMMA ModIs ==
    ASSUME NEW n \in Nat \ {0}, NEW q \in Int, NEW r \in 0 .. n - 1, NEW x \in Int, x = n * q + r
    PROVE  x % n = r
<1>1. x = n * (x \div n) + (x % n) /\ x % n \in 0 .. n - 1 /\ x \div n \in Int
  BY DivMod
<1>2. x \div n = q
  <2>1. ~(x \div n < q)
    <3> SUFFICES ASSUME x \div n < q PROVE FALSE OBVIOUS
    <3>1. n * q >= n * (x \div n) + n BY <1>1, Times
    <3> QED BY <3>1, <1>1
  <2>2. ~(q < x \div n)
    <3> SUFFICES ASSUME q < x \div n PROVE FALSE OBVIOUS
    <3>1. n * (x \div n) >= n * q + n BY <1>1, Times
    <3> QED BY <3>1, <1>1
  <2> QED BY <2>1, <2>2, <1>1
<1> QED BY <1>1, <1>2

\* The last of the first t ticks that starts a scan of slot s.
LastTick(t, s) == t - ((t - 1 - s) % SlotNum)

\* It lies in the last turn of the wheel, at the place of the slot,
LEMMA LastTickIs ==
    ASSUME NEW t \in Int, NEW s \in Slots
    PROVE  /\ LastTick(t, s) \in Int /\ LastTick(t, s) <= t /\ LastTick(t, s) > t - SlotNum
           /\ \E q \in Int : LastTick(t, s) = SlotNum * q + s + 1
<1>1. PICK x \in Int : x = t - 1 - s
  BY SlotAssumption DEF Slots
<1>2. x = SlotNum * (x \div SlotNum) + (x % SlotNum) /\ x % SlotNum \in 0 .. SlotNum - 1
      /\ x \div SlotNum \in Int
  BY DivMod, SlotAssumption
<1>3. LastTick(t, s) = t - (x % SlotNum)
  BY <1>1 DEF LastTick
<1>4. LastTick(t, s) = SlotNum * (x \div SlotNum) + s + 1
  BY <1>1, <1>2, <1>3, SlotAssumption DEF Slots
<1>5. LastTick(t, s) \in Int /\ LastTick(t, s) <= t /\ LastTick(t, s) > t - SlotNum
  BY <1>2, <1>3, SlotAssumption
<1> QED BY <1>2, <1>4, <1>5

\* and is the only one there.
LEMMA OnlyLastTick ==
    ASSUME NEW t \in Int, NEW s \in Slots, NEW q \in Int, NEW u \in Int, u = SlotNum * q + s + 1,
           u <= t, u > t - SlotNum
    PROVE  u = LastTick(t, s)
<1>1. PICK p \in Int : LastTick(t, s) = SlotNum * p + s + 1
  BY LastTickIs
<1>2. LastTick(t, s) \in Int /\ LastTick(t, s) <= t /\ LastTick(t, s) > t - SlotNum
  BY LastTickIs
<1>3. SlotNum * p \in Int /\ SlotNum * q \in Int /\ s \in Int
  BY SlotAssumption DEF Slots
<1>4. ~(p < q)
  <2> SUFFICES ASSUME p < q PROVE FALSE OBVIOUS
  <2>1. SlotNum * q >= SlotNum * p + SlotNum BY Times, SlotAssumption
  <2> QED BY <1>1, <1>2, <1>3, <2>1, SlotAssumption
<1>5. ~(q < p)
  <2> SUFFICES ASSUME q < p PROVE FALSE OBVIOUS
  <2>1. SlotNum * p >= SlotNum * q + SlotNum BY Times, SlotAssumption
  <2> QED BY <1>1, <1>2, <1>3, <2>1, SlotAssumption
<1> QED BY <1>1, <1>4, <1>5

\* What one more tick makes of it, and of currentPos.
LEMMA OneMoreTick ==
    ASSUME NEW t \in Nat, NEW p, p = t % SlotNum
    PROVE  /\ p \in Slots
           /\ LastTick(t + 1, p) = t + 1 /\ LastTick(t, p) = t + 1 - SlotNum
           /\ \A s \in Slots \ {p} : LastTick(t + 1, s) = LastTick(t, s)
           /\ (IF p = SlotNum - 1 THEN 0 ELSE p + 1) = (t + 1) % SlotNum
<1>1. PICK a \in Int : t = SlotNum * a + p
  <2>0. PICK x \in Int : x = t
    OBVIOUS
  <2>1. \E q \in Int : x = SlotNum * q + (x % SlotNum)
    BY Divided, SlotAssumption
  <2> QED BY <2>0, <2>1
<1>2. p \in 0 .. SlotNum - 1 /\ p \in Slots /\ SlotNum \in Nat \ {0} /\ p \in Int
  BY DivMod, SlotAssumption DEF Slots
<1>3. SlotNum * (a - 1) = SlotNum * a - SlotNum /\ SlotNum * (a + 1) = SlotNum * a + SlotNum
      /\ SlotNum * a \in Int
  BY <1>2
<1>4. t + 1 = LastTick(t + 1, p)
  <2>1. t + 1 = SlotNum * a + p + 1
    BY <1>1, <1>2, <1>3
  <2> QED BY <1>2, <2>1, OnlyLastTick
<1>5. t + 1 - SlotNum = LastTick(t, p)
  <2>1. t + 1 - SlotNum = SlotNum * (a - 1) + p + 1
    BY <1>1, <1>2, <1>3
  <2>2. t + 1 - SlotNum <= t /\ t + 1 - SlotNum > t - SlotNum /\ t + 1 - SlotNum \in Int
    BY <1>2
  <2> QED BY <1>2, <2>1, <2>2, OnlyLastTick
<1>6. ASSUME NEW s \in Slots \ {p}
      PROVE  LastTick(t + 1, s) = LastTick(t, s)
  <2>1. PICK q \in Int : LastTick(t, s) = SlotNum * q + s + 1
    BY LastTickIs
  <2>2. LastTick(t, s) \in Int /\ LastTick(t, s) <= t /\ LastTick(t, s) > t - SlotNum
    BY LastTickIs
  <2>3. LastTick(t, s) # t + 1 - SlotNum
    <3> SUFFICES ASSUME LastTick(t, s) = t + 1 - SlotNum PROVE FALSE OBVIOUS
    <3>1. SlotNum * (q + 1) = SlotNum * q + SlotNum /\ SlotNum * q \in Int
      BY <1>2
    <3>2. t = SlotNum * (q + 1) + s
      BY <2>1, <3>1, <1>2 DEF Slots
    <3>3. PICK k \in Int : k = q + 1
      OBVIOUS
    <3>4. t = SlotNum * k + s /\ s \in 0 .. SlotNum - 1
      BY <3>2, <3>3 DEF Slots
    <3>5. t % SlotNum = s
      BY <1>2, <3>4, ModIs
    <3> QED BY <3>5
  <2>4. LastTick(t, s) <= t + 1 /\ LastTick(t, s) > t + 1 - SlotNum
    BY <2>2, <2>3, <1>2
  <2>5. PICK u \in Int : u = LastTick(t, s)
    BY <2>2
  <2>6. PICK w \in Int : w = t + 1
    OBVIOUS
  <2>7. u = SlotNum * q + s + 1 /\ u <= w /\ u > w - SlotNum
    <3>1. u = SlotNum * q + s + 1
      BY ONLY <2>1, <2>5
    <3>2. u <= w /\ u > w - SlotNum
      BY <1>2, <2>4, <2>5, <2>6
    <3> QED BY <3>1, <3>2
  <2>8. u = LastTick(w, s)
    BY ONLY <2>7, OnlyLastTick, s \in Slots, u \in Int, w \in Int, q \in Int
  <2> QED BY <2>5, <2>6, <2>8
<1>7. (IF p = SlotNum - 1 THEN 0 ELSE p + 1) = (t + 1) % SlotNum
  <2>1. CASE p = SlotNum - 1
    <3>1. t + 1 = SlotNum * (a + 1) + 0 /\ 0 \in 0 .. SlotNum - 1
      BY <1>1, <1>2, <1>3, <2>1
    <3>2. PICK k \in Int, x \in Int : k = a + 1 /\ x = t + 1
      OBVIOUS
    <3>3. x = SlotNum * k + 0
      BY <3>1, <3>2
    <3>4. x % SlotNum = 0
      BY <1>2, <3>1, <3>3, ModIs
    <3> QED BY <2>1, <3>2, <3>4
  <2>2. CASE p # SlotNum - 1
    <3>1. t + 1 = SlotNum * a + (p + 1) /\ p + 1 \in 0 .. SlotNum - 1
      BY <1>1, <1>2, <1>3, <2>2
    <3>2. PICK x \in Int, r \in 0 .. SlotNum - 1 : x = t + 1 /\ r = p + 1
      BY <3>1
    <3>3. x % SlotNum = r
      BY <1>2, <3>1, <3>2, ModIs
    <3> QED BY <2>2, <3>2, <3>3
  <2> QED BY <2>1, <2>2
<1> QED BY <1>2, <1>4, <1>5, <1>6, <1>7

\* A delay of d after tick t, in place and rounds: the scan of that place comes as many
\* rounds after its last one as have to pass, and one.
LEMMA InPlace ==
    ASSUME NEW t \in Nat, NEW d \in Nat
    PROVE  /\ ((t % SlotNum) + d) % SlotNum \in Slots
           /\ d \div SlotNum \in Nat
           /\ t + d + 1 = LastTick(t, ((t % SlotNum) + d) % SlotNum) + ((d \div SlotNum) + 1) * SlotNum
<1> DEFINE p == t % SlotNum
           s == (p + d) % SlotNum
           c == d \div SlotNum
<1>0. SlotNum \in Nat \ {0}
  BY SlotAssumption
<1>1. PICK a \in Int : t = SlotNum * a + p /\ p \in 0 .. SlotNum - 1
  <2>0. PICK x \in Int : x = t
    OBVIOUS
  <2>1. (\E q \in Int : x = SlotNum * q + (x % SlotNum)) /\ x % SlotNum \in 0 .. SlotNum - 1
    BY <1>0, Divided
  <2> QED BY <2>0, <2>1
<1>2. PICK b \in Int : p + d = SlotNum * b + s /\ s \in 0 .. SlotNum - 1
  <2>0. PICK x \in Int : x = p + d
    BY <1>1
  <2>1. (\E q \in Int : x = SlotNum * q + (x % SlotNum)) /\ x % SlotNum \in 0 .. SlotNum - 1
    BY <1>0, Divided
  <2>2. s = x % SlotNum
    BY <2>0
  <2> HIDE DEF s, p
  <2> QED BY <2>0, <2>1, <2>2
<1>3. PICK r \in 0 .. SlotNum - 1 : d = SlotNum * c + r /\ c \in Int
  <2>1. d = SlotNum * c + (d % SlotNum) /\ d % SlotNum \in 0 .. SlotNum - 1 /\ c \in Int
    BY <1>0, DivMod
  <2> QED BY <2>1
<1> HIDE DEF p, s, c
<1>4. c \in Nat
  BY <1>0, Quotient DEF c
<1>5. SlotNum * (a + b - c - 1) = SlotNum * a + SlotNum * b - SlotNum * c - SlotNum
  BY <1>0, <1>3
<1>6. (c + 1) * SlotNum = SlotNum * c + SlotNum
  BY <1>0, <1>3
<1>7. SlotNum * a \in Int /\ SlotNum * b \in Int /\ SlotNum * c \in Int
  BY <1>0, <1>3
<1>8. PICK u \in Int : u = t + d + 1 - (c + 1) * SlotNum
  BY <1>0, <1>6, <1>7
<1>9. u = SlotNum * (a + b - c - 1) + s + 1
  BY <1>0, <1>1, <1>2, <1>3, <1>5, <1>6, <1>7, <1>8
<1>10. u <= t /\ u > t - SlotNum
  BY <1>0, <1>3, <1>6, <1>7, <1>8
<1>11. s \in Slots
  BY <1>2 DEF Slots
<1>12. u = LastTick(t, s)
  BY <1>3, <1>9, <1>10, <1>11, OnlyLastTick
<1>13. t + d + 1 = LastTick(t, s) + (c + 1) * SlotNum
  BY <1>0, <1>3, <1>6, <1>7, <1>8, <1>12
<1> QED BY <1>4, <1>11, <1>13 DEF s, p, c

-------------------------------------------------------------------------------
(* Lists *)

Single(q) == \A i, j \in DOMAIN q : q[i] = q[j] => i = j
Before(q, a, b) == \E i, j \in DOMAIN q : i <= j /\ q[i] = a /\ q[j] = b

\* Lists one after the other.
LEMMA Joined ==
    ASSUME NEW S, NEW u \in Seq(S), NEW v \in Seq(S)
    PROVE  /\ u \o v \in Seq(S) /\ Len(u \o v) = Len(u) + Len(v)
           /\ \A i \in 1 .. Len(u) + Len(v) :
                 (u \o v)[i] = IF i <= Len(u) THEN u[i] ELSE v[i - Len(u)]
OBVIOUS

\* l.Remove keeps the others, in their order.
LEMMA Unlinked ==
    ASSUME NEW S, NEW q \in Seq(S), Single(q), NEW e
    PROVE  /\ Unlink(q, e) \in Seq(S) /\ Single(Unlink(q, e))
           /\ ToSet(Unlink(q, e)) = ToSet(q) \ {e}
           /\ \A a, b \in ToSet(q) \ {e} : Before(Unlink(q, e), a, b) <=> Before(q, a, b)
<1>1. CASE e \notin ToSet(q)
  BY <1>1 DEF Unlink
<1>2. CASE e \in ToSet(q)
  <2>1. PICK n \in DOMAIN q : n = CHOOSE i \in DOMAIN q : q[i] = e
    BY <1>2 DEF ToSet
  <2>2. q[n] = e
    BY <1>2, <2>1 DEF ToSet
  <2>3. PICK r : r = RemoveAt(q, n)
    OBVIOUS
  <2>4. Unlink(q, e) = r
    BY <1>2, <2>1, <2>3 DEF Unlink
  <2>5. DOMAIN q = 1 .. Len(q) /\ Len(q) \in Nat /\ n \in 1 .. Len(q)
    OBVIOUS
  <2>6. /\ r \in Seq(S) /\ Len(r) = Len(q) - 1
        /\ \A i \in 1 .. Len(r) : r[i] = IF i < n THEN q[i] ELSE q[i + 1]
    <3>1. PICK u, v : u = SubSeq(q, 1, n - 1) /\ v = SubSeq(q, n + 1, Len(q))
      OBVIOUS
    <3>2. /\ u \in Seq(S) /\ Len(u) = n - 1 /\ \A i \in 1 .. n - 1 : u[i] = q[i]
      BY <2>5, <3>1
    <3>3. /\ v \in Seq(S) /\ Len(v) = Len(q) - n /\ \A i \in 1 .. Len(q) - n : v[i] = q[n + i]
      BY <2>5, <3>1
    <3>4. /\ r \in Seq(S) /\ Len(r) = Len(u) + Len(v)
          /\ \A i \in 1 .. Len(u) + Len(v) :
                r[i] = IF i <= Len(u) THEN u[i] ELSE v[i - Len(u)]
      <4>1. r = u \o v
        BY <2>3, <3>1 DEF RemoveAt
      <4> QED BY ONLY <4>1, <3>2, <3>3, Joined
    <3>5. r \in Seq(S) /\ Len(r) = Len(q) - 1
      BY <2>5, <3>2, <3>3, <3>4
    <3>6. ASSUME NEW i \in 1 .. Len(r)
          PROVE  r[i] = IF i < n THEN q[i] ELSE q[i + 1]
      <4>1. r[i] = IF i <= Len(u) THEN u[i] ELSE v[i - Len(u)]
        BY <3>4, <3>5
      <4>2. CASE i < n
        BY <2>5, <3>2, <4>1, <4>2
      <4>3. CASE ~(i < n)
        <5>1. i - (n - 1) \in 1 .. Len(q) - n /\ n + (i - (n - 1)) = i + 1
          BY <2>5, <3>5, <4>3
        <5>2. v[i - (n - 1)] = q[n + (i - (n - 1))]
          BY <3>3, <5>1
        <5>3. r[i] = v[i - (n - 1)]
          BY <2>5, <3>2, <4>1, <4>3
        <5> QED BY <4>3, <5>1, <5>2, <5>3
      <4> QED BY <4>2, <4>3
    <3> QED BY <3>5, <3>6
  <2>7. DOMAIN r = 1 .. Len(q) - 1
    BY <2>5, <2>6
  <2>8. ASSUME NEW i \in DOMAIN r
        PROVE  /\ i < n => i \in DOMAIN q /\ i # n /\ r[i] = q[i]
               /\ ~(i < n) => i + 1 \in DOMAIN q /\ i + 1 # n /\ r[i] = q[i + 1]
    BY <2>5, <2>6, <2>7
  <2>9. ASSUME NEW j \in DOMAIN q, j # n
        PROVE  \E i \in DOMAIN r : r[i] = q[j] /\ i = (IF j < n THEN j ELSE j - 1)
    <3>1. CASE j < n
      <4>1. j \in DOMAIN r
        BY <2>5, <2>7, <3>1
      <4> QED BY <2>8, <3>1, <4>1
    <3>2. CASE j > n
      <4>1. j - 1 \in DOMAIN r /\ ~(j - 1 < n) /\ (j - 1) + 1 = j /\ ~(j < n)
        BY <2>5, <2>7, <3>2
      <4>2. r[j - 1] = q[j]
        BY <2>8, <4>1
      <4> QED BY <4>1, <4>2
    <3> QED BY <2>5, <2>9, <3>1, <3>2
  <2>10. Single(r)
    <3> SUFFICES ASSUME NEW i \in DOMAIN r, NEW j \in DOMAIN r, r[i] = r[j]
                 PROVE  i = j
      BY DEF Single
    <3>1. PICK x \in DOMAIN q : x = (IF i < n THEN i ELSE i + 1) /\ r[i] = q[x]
      BY <2>8
    <3>2. PICK y \in DOMAIN q : y = (IF j < n THEN j ELSE j + 1) /\ r[j] = q[y]
      BY <2>8
    <3>3. x = y
      BY <3>1, <3>2 DEF Single
    <3> QED BY <2>5, <2>7, <3>1, <3>2, <3>3
  <2>11. ToSet(r) = ToSet(q) \ {e}
    <3>1. ASSUME NEW x \in ToSet(r)
          PROVE  x \in ToSet(q) \ {e}
      <4>1. PICK i \in DOMAIN r : x = r[i]
        BY <3>1 DEF ToSet
      <4>2. PICK j \in DOMAIN q : j # n /\ x = q[j]
        BY <2>8, <4>1
      <4> QED BY <2>2, <4>2 DEF Single, ToSet
    <3>2. ASSUME NEW x \in ToSet(q), x # e
          PROVE  x \in ToSet(r)
      <4>1. PICK j \in DOMAIN q : x = q[j]
        BY <3>2 DEF ToSet
      <4>2. j # n
        BY <2>2, <3>2, <4>1
      <4>3. PICK i \in DOMAIN r : r[i] = q[j]
        BY <2>9, <4>2
      <4> QED BY <4>1, <4>3 DEF ToSet
    <3> QED BY <3>1, <3>2
  <2>12. ASSUME NEW a \in ToSet(q) \ {e}, NEW b \in ToSet(q) \ {e}
         PROVE  Before(r, a, b) <=> Before(q, a, b)
    <3>1. ASSUME Before(r, a, b)
          PROVE  Before(q, a, b)
      <4>1. PICK i \in DOMAIN r, j \in DOMAIN r : i <= j /\ r[i] = a /\ r[j] = b
        BY <3>1 DEF Before
      <4>2. PICK x \in DOMAIN q : x = (IF i < n THEN i ELSE i + 1) /\ r[i] = q[x]
        BY <2>8
      <4>3. PICK y \in DOMAIN q : y = (IF j < n THEN j ELSE j + 1) /\ r[j] = q[y]
        BY <2>8
      <4>4. x <= y
        BY <2>5, <2>7, <4>1, <4>2, <4>3
      <4> QED BY <4>1, <4>2, <4>3, <4>4 DEF Before
    <3>2. ASSUME Before(q, a, b)
          PROVE  Before(r, a, b)
      <4>1. PICK x \in DOMAIN q, y \in DOMAIN q : x <= y /\ q[x] = a /\ q[y] = b
        BY <3>2 DEF Before
      <4>2. x # n /\ y # n
        BY <2>2, <4>1
      <4>3. PICK i \in DOMAIN r : r[i] = q[x] /\ i = (IF x < n THEN x ELSE x - 1)
        BY <2>9, <4>2
      <4>4. PICK j \in DOMAIN r : r[j] = q[y] /\ j = (IF y < n THEN y ELSE y - 1)
        BY <2>9, <4>2
      <4>5. i <= j
        BY <2>5, <4>1, <4>2, <4>3, <4>4
      <4> QED BY <4>1, <4>3, <4>4, <4>5 DEF Before
    <3> QED BY <3>1, <3>2
  <2> QED BY <2>4, <2>6, <2>10, <2>11, <2>12
<1> QED BY <1>1, <1>2

\* A scan that moves on from e has the elements behind e before it.
LEMMA NextOf ==
    ASSUME NEW S, Nil \notin S, NEW q \in Seq(S), Single(q), NEW e
    PROVE  /\ e \notin ToSet(q) => NextIn(q, e) = Nil
           /\ NextIn(q, e) # Nil => NextIn(q, e) \in ToSet(q) \ {e}
           /\ e \in ToSet(q) => \A b \in ToSet(q) :
                 (NextIn(q, e) # Nil /\ Before(q, NextIn(q, e), b)) <=> (Before(q, e, b) /\ b # e)
<1>0. DOMAIN q = 1 .. Len(q) /\ Len(q) \in Nat
  OBVIOUS
<1>1. CASE \E i \in 1 .. (Len(q) - 1) : q[i] = e
  <2>1. PICK n \in 1 .. (Len(q) - 1) : n = CHOOSE i \in 1 .. (Len(q) - 1) : q[i] = e
    BY <1>1
  <2>2. q[n] = e
    BY <1>1, <2>1
  <2>3. NextIn(q, e) = q[1 + n]
    BY <1>1, <2>1 DEF NextIn
  <2>4. PICK m \in DOMAIN q : m = n + 1
    BY <1>0
  <2>5. NextIn(q, e) = q[m] /\ q[m] \in S /\ q[m] # Nil /\ m # n /\ n \in DOMAIN q
    <3>1. 1 + n = m
      BY <2>4
    <3> QED BY <1>0, <2>3, <2>4, <3>1
  <2>6. q[m] \in ToSet(q) \ {e} /\ e \in ToSet(q)
    BY <2>2, <2>5 DEF Single, ToSet
  <2>7. ASSUME NEW b \in ToSet(q)
        PROVE  Before(q, q[m], b) <=> (Before(q, e, b) /\ b # e)
    <3>1. PICK j \in DOMAIN q : q[j] = b
      BY DEF ToSet
    <3>2. Before(q, q[m], b) <=> m <= j
      BY <1>0, <2>5, <3>1 DEF Before, Single
    <3>3. Before(q, e, b) <=> n <= j
      BY <1>0, <2>2, <2>5, <3>1 DEF Before, Single
    <3>4. b = e <=> n = j
      BY <2>2, <2>5, <3>1 DEF Single
    <3> QED BY <1>0, <2>4, <3>2, <3>3, <3>4
  <2> QED BY <2>5, <2>6, <2>7
<1>2. CASE ~\E i \in 1 .. (Len(q) - 1) : q[i] = e
  <2>1. NextIn(q, e) = Nil
    BY <1>2 DEF NextIn
  <2>2. ASSUME e \in ToSet(q), NEW b \in ToSet(q), Before(q, e, b)
        PROVE  b = e
    <3>1. PICK i \in DOMAIN q, j \in DOMAIN q : i <= j /\ q[i] = e /\ q[j] = b
      BY <2>2 DEF Before
    <3>2. i = Len(q)
      BY <1>0, <1>2, <3>1
    <3> QED BY <1>0, <3>1, <3>2
  <2> QED BY <2>1, <2>2
<1> QED BY <1>1, <1>2

\* A scan that starts has them all before it.
LEMMA FirstOf ==
    ASSUME NEW S, Nil \notin S, NEW q \in Seq(S)
    PROVE  /\ q = <<>> => First(q) = Nil
           /\ q # <<>> => First(q) # Nil
           /\ First(q) # Nil => First(q) \in ToSet(q)
           /\ \A b \in ToSet(q) : First(q) # Nil /\ Before(q, First(q), b)
<1>1. CASE q = <<>>
  BY <1>1 DEF First, ToSet
<1>2. CASE q # <<>>
  <2>1. First(q) = q[1] /\ 1 \in DOMAIN q /\ q[1] # Nil
    BY <1>2 DEF First
  <2>2. ASSUME NEW b \in ToSet(q)
        PROVE  Before(q, q[1], b)
    <3>1. PICK j \in DOMAIN q : q[j] = b
      BY DEF ToSet
    <3>2. 1 <= j
      OBVIOUS
    <3> QED BY <2>1, <3>1, <3>2 DEF Before
  <2> QED BY <1>2, <2>1, <2>2 DEF ToSet
<1> QED BY <1>1, <1>2

\* PushBack leaves the others in their order.
LEMMA Pushed ==
    ASSUME NEW S, NEW q \in Seq(S), Single(q), NEW e \in S, e \notin ToSet(q)
    PROVE  /\ Append(q, e) \in Seq(S) /\ Single(Append(q, e))
           /\ ToSet(Append(q, e)) = ToSet(q) \cup {e}
           /\ \A a, b \in ToSet(q) : Before(Append(q, e), a, b) <=> Before(q, a, b)
<1>0. PICK r : r = Append(q, e)
  OBVIOUS
<1>1. /\ r \in Seq(S) /\ DOMAIN r = 1 .. Len(q) + 1 /\ DOMAIN q = 1 .. Len(q) /\ Len(q) \in Nat
      /\ \A i \in DOMAIN q : r[i] = q[i]
      /\ r[Len(q) + 1] = e
  BY <1>0
<1>2. \A i \in DOMAIN r : i \in DOMAIN q \/ i = Len(q) + 1
  BY <1>1
<1>3. \A i \in DOMAIN q : i \in DOMAIN r /\ q[i] # e
  BY <1>1 DEF ToSet
<1>4. Single(r)
  BY <1>1, <1>2, <1>3 DEF Single
<1>5. ToSet(r) = ToSet(q) \cup {e}
  BY <1>1, <1>2, <1>3 DEF ToSet
<1>6. ASSUME NEW a \in ToSet(q), NEW b \in ToSet(q)
      PROVE  Before(r, a, b) <=> Before(q, a, b)
  <2>1. a # e /\ b # e
    OBVIOUS
  <2> QED BY <1>1, <1>2, <1>3, <2>1 DEF Before
<1> QED BY <1>0, <1>1, <1>4, <1>5, <1>6

USE DEF Started, Removing

-------------------------------------------------------------------------------
(* The wheel, as a value: lists sl, timer tm, tasks tk, scans sc, raced slots rc and     *)
(* ticks t                                                                               *)

TaskType == [state : {"free", "listed", "cut"} \cup Started,
             key : Keys \cup {Nil}, slot : Slots, circle : Nat, due : Nat, ran : Nat]

Typed(sl, tm, tk, sc, rc, t) ==
    /\ sl \in [Slots -> Seq(Elements)]
    /\ tm \in [Names -> Elements \cup {Nil}]
    /\ tk \in [Elements -> TaskType]
    /\ sc \in [Slots -> Elements \cup {Nil}]
    /\ rc \in SUBSET Slots /\ t \in Nat

\* The lists hold what is listed, once and in its slot, but for what a race has lost.
Listed(sl, tk, rc) ==
    /\ \A s \in Slots : Single(sl[s])
    /\ \A s \in Slots : \A e \in ToSet(sl[s]) : tk[e].state = "listed" /\ tk[e].slot = s
    /\ \A e \in Elements : tk[e].state = "listed" =>
          e \in ToSet(sl[tk[e].slot]) \/ tk[e].slot \in rc

\* The timer knows listed elements, each under the name of its key.
Known(tm, tk) ==
    /\ \A e \in Elements : tk[e].state # "free" => tk[e].key \in Keys
    /\ \A n \in Names : tm[n] # Nil => tk[tm[n]].state = "listed" /\ tk[tm[n]].key.name = n

\* A scan is at an element of its slot that is in the list, or was when it got there.
Scanned(sl, tk, sc, rc, t) ==
    \A s \in Slots : sc[s] # Nil =>
        /\ tk[sc[s]].slot = s
        /\ \/ sc[s] \in ToSet(sl[s])
           \/ tk[sc[s]].state = "cut" /\ s \in rc
        /\ LastTick(t, s) \in Nat

\* The scan of its slot has still to come to e.
Ahead(sl, tk, sc, e) ==
    sc[tk[e].slot] # Nil /\ Before(sl[tk[e].slot], sc[tk[e].slot], e)

\* The rounds of a job are what is left until it is due, and one less if the scan has
\* still to count this one.
Timed(sl, tk, sc, rc, t) ==
    \A e \in Elements : tk[e].slot \notin rc =>
        /\ tk[e].state = "listed" =>
              tk[e].due = LastTick(t, tk[e].slot) +
                 (IF Ahead(sl, tk, sc, e) THEN tk[e].circle ELSE tk[e].circle + 1) * SlotNum
        /\ tk[e].state \in Started => tk[e].ran = tk[e].due

Good(sl, tm, tk, sc, rc, t) ==
    /\ Typed(sl, tm, tk, sc, rc, t)
    /\ Listed(sl, tk, rc) /\ Known(tm, tk)
    /\ Scanned(sl, tk, sc, rc, t) /\ Timed(sl, tk, sc, rc, t)

\* A job is pushed to a list, or lost where the list is under scan.
Pushes(sl, tk, sc, rc, t, e, new, s, sl2, tk2, rc2) ==
    /\ tk[e].state = "free" /\ new \in TaskType
    /\ new.state = "listed" /\ new.key \in Keys /\ new.slot = s
    /\ new.due = LastTick(t, s) + (new.circle + 1) * SlotNum
    /\ sl2 = [sl EXCEPT ![s] = Append(sl[s], e)] \/ (sl2 = sl /\ sc[s] # Nil)
    /\ tk2 = [tk EXCEPT ![e] = new]
    /\ rc2 \in SUBSET Slots /\ rc \subseteq rc2 /\ (sc[s] # Nil => s \in rc2)

LEMMA PushKeeps ==
    ASSUME NEW sl, NEW tm, NEW tk, NEW sc, NEW rc, NEW t, Good(sl, tm, tk, sc, rc, t),
           NEW e \in Elements, NEW new, NEW s \in Slots, NEW sl2, NEW tk2, NEW rc2,
           Pushes(sl, tk, sc, rc, t, e, new, s, sl2, tk2, rc2)
    PROVE  Good(sl2, tm, tk2, sc, rc2, t)
<1> SUFFICES ASSUME tk[e].state = "free" /\ new \in TaskType,
                    new.state = "listed" /\ new.key \in Keys /\ new.slot = s,
                    new.due = LastTick(t, s) + (new.circle + 1) * SlotNum,
                    sl2 = [sl EXCEPT ![s] = Append(sl[s], e)] \/ (sl2 = sl /\ sc[s] # Nil),
                    tk2 = [tk EXCEPT ![e] = new],
                    rc2 \in SUBSET Slots /\ rc \subseteq rc2 /\ (sc[s] # Nil => s \in rc2)
             PROVE  Good(sl2, tm, tk2, sc, rc2, t)
  BY DEF Pushes
<1>t. Typed(sl, tm, tk, sc, rc, t) /\ Listed(sl, tk, rc) /\ Known(tm, tk)
      /\ Scanned(sl, tk, sc, rc, t) /\ Timed(sl, tk, sc, rc, t)
  BY DEF Good
<1>1. /\ sl \in [Slots -> Seq(Elements)] /\ tk \in [Elements -> TaskType]
      /\ rc \in SUBSET Slots /\ rc \subseteq rc2 /\ rc2 \subseteq Slots
      /\ sc \in [Slots -> Elements \cup {Nil}]
      /\ sc[s] # Nil => s \in rc2
  BY <1>t DEF Typed
<1>2. \A x \in Elements : tk2[x] = IF x = e THEN new ELSE tk[x]
  BY <1>1
<1>3. \A x \in Slots : e \notin ToSet(sl[x])
  BY <1>t DEF Listed
<1>4. Single(sl[s]) /\ sl[s] \in Seq(Elements)
  BY <1>t, <1>1 DEF Listed
<1>5. /\ sl2 \in [Slots -> Seq(Elements)]
      /\ \A x \in Slots \ {s} : sl2[x] = sl[x]
      /\ Single(sl2[s])
      /\ ToSet(sl2[s]) = ToSet(sl[s]) \cup {e} \/ (ToSet(sl2[s]) = ToSet(sl[s]) /\ sc[s] # Nil)
  <2>1. CASE sl2 = sl /\ sc[s] # Nil
    BY <1>1, <1>4, <2>1
  <2>2. CASE sl2 = [sl EXCEPT ![s] = Append(@, e)]
    <3>1. PICK q : q = Append(sl[s], e)
      OBVIOUS
    <3>2. q \in Seq(Elements) /\ Single(q) /\ ToSet(q) = ToSet(sl[s]) \cup {e}
      BY <1>3, <1>4, <3>1, Pushed
    <3>3. sl2 = [sl EXCEPT ![s] = q]
      BY <2>2, <3>1
    <3> QED BY <1>1, <3>2, <3>3
  <2> QED BY <2>1, <2>2
<1>6. Typed(sl2, tm, tk2, sc, rc2, t)
  BY <1>t, <1>1, <1>5 DEF Typed
<1>7. Listed(sl2, tk2, rc2)
  <2>1. \A x \in Slots : Single(sl2[x])
    BY <1>t, <1>5 DEF Listed
  <2>2. ASSUME NEW x \in Slots, NEW d \in ToSet(sl2[x])
        PROVE  tk2[d].state = "listed" /\ tk2[d].slot = x
    <3>1. CASE d = e
      <4>1. x = s
        BY <1>3, <1>5, <3>1
      <4> QED BY <1>2, <3>1, <4>1
    <3>2. CASE d # e
      <4>1. d \in ToSet(sl[x])
        BY <1>5, <3>2
      <4>2. d \in Elements
        BY <1>1, <4>1 DEF ToSet
      <4> QED BY <1>t, <1>2, <3>2, <4>1, <4>2 DEF Listed
    <3> QED BY <3>1, <3>2
  <2>3. ASSUME NEW d \in Elements, tk2[d].state = "listed"
        PROVE  d \in ToSet(sl2[tk2[d].slot]) \/ tk2[d].slot \in rc2
    <3>1. CASE d = e
      BY <1>1, <1>2, <1>5, <3>1
    <3>2. CASE d # e
      <4>1. tk2[d] = tk[d] /\ tk[d].slot \in Slots
        BY <1>1, <1>2, <3>2 DEF TaskType
      <4>2. d \in ToSet(sl[tk[d].slot]) \/ tk[d].slot \in rc
        BY <1>t, <2>3, <4>1 DEF Listed
      <4>3. ASSUME d \in ToSet(sl[tk[d].slot])
            PROVE  d \in ToSet(sl2[tk[d].slot])
        BY <1>5, <4>1, <4>3
      <4> QED BY <1>1, <4>1, <4>2, <4>3
    <3> QED BY <3>1, <3>2
  <2> QED BY <2>1, <2>2, <2>3 DEF Listed
<1>8. Known(tm, tk2)
  <2>1. \A d \in Elements : tk2[d].state # "free" => tk2[d].key \in Keys
    BY <1>t, <1>2 DEF Known
  <2>2. \A n \in Names : tm[n] # Nil => tm[n] \in Elements /\ tm[n] # e
    BY <1>t DEF Known, Typed
  <2> QED BY <1>t, <1>2, <2>1, <2>2 DEF Known
<1>9. Scanned(sl2, tk2, sc, rc2, t)
  <2> SUFFICES ASSUME NEW x \in Slots, sc[x] # Nil
               PROVE  /\ tk2[sc[x]].slot = x
                      /\ sc[x] \in ToSet(sl2[x]) \/ (tk2[sc[x]].state = "cut" /\ x \in rc2)
                      /\ LastTick(t, x) \in Nat
    BY DEF Scanned
  <2>1. /\ tk[sc[x]].slot = x
        /\ sc[x] \in ToSet(sl[x]) \/ (tk[sc[x]].state = "cut" /\ x \in rc)
        /\ LastTick(t, x) \in Nat
    BY <1>t DEF Scanned
  <2>2. sc[x] \in Elements /\ sc[x] # e
    BY <1>1, <1>3, <2>1
  <2> QED BY <1>1, <1>2, <1>5, <2>1, <2>2
<1>10. Timed(sl2, tk2, sc, rc2, t)
  <2> SUFFICES ASSUME NEW d \in Elements, tk2[d].slot \notin rc2
               PROVE  /\ tk2[d].state = "listed" =>
                            tk2[d].due = LastTick(t, tk2[d].slot) +
                               (IF Ahead(sl2, tk2, sc, d) THEN tk2[d].circle
                                ELSE tk2[d].circle + 1) * SlotNum
                      /\ tk2[d].state \in Started => tk2[d].ran = tk2[d].due
    BY DEF Timed
  <2>1. CASE d = e
    BY <1>1, <1>2, <2>1 DEF Ahead
  <2>2. CASE d # e
    <3>1. tk2[d] = tk[d] /\ tk[d].slot \in Slots /\ tk[d].slot \notin rc
      BY <1>1, <1>2, <2>2 DEF TaskType
    <3>2. Ahead(sl2, tk2, sc, d) <=> Ahead(sl, tk, sc, d)
      BY <1>1, <1>5, <3>1 DEF Ahead
    <3> QED BY <1>t, <3>1, <3>2 DEF Timed
  <2> QED BY <2>1, <2>2
<1> QED BY <1>6, <1>7, <1>8, <1>9, <1>10 DEF Good

\* A listed job is removed, and the timer forgets it.
Drops(sl, tm, tk, sc, rc, old, gone, sl2, tm2, tk2, rc2) ==
    /\ tk[old].state = "listed" /\ gone \in TaskType /\ gone.state \in {"free", "cut"}
    /\ gone.state # "free" => gone.key = tk[old].key
    /\ \A s \in Slots : sc[s] = old => gone.state = "cut" /\ gone.slot = s /\ s \in rc2
    /\ sl2 = [sl EXCEPT ![tk[old].slot] = Unlink(@, old)]
    /\ tk2 = [tk EXCEPT ![old] = gone]
    /\ tm2 \in [Names -> Elements \cup {Nil}]
    /\ \A n \in Names : tm2[n] # Nil => tm2[n] = tm[n] /\ tm[n] # old
    /\ rc2 \in SUBSET Slots /\ rc \subseteq rc2

LEMMA DropKeeps ==
    ASSUME NEW sl, NEW tm, NEW tk, NEW sc, NEW rc, NEW t, Good(sl, tm, tk, sc, rc, t),
           NEW old \in Elements, NEW gone, NEW sl2, NEW tm2, NEW tk2, NEW rc2,
           Drops(sl, tm, tk, sc, rc, old, gone, sl2, tm2, tk2, rc2)
    PROVE  Good(sl2, tm2, tk2, sc, rc2, t)
<1> SUFFICES ASSUME tk[old].state = "listed" /\ gone \in TaskType /\ gone.state \in {"free", "cut"},
                    gone.state # "free" => gone.key = tk[old].key,
                    \A s \in Slots : sc[s] = old => gone.state = "cut" /\ gone.slot = s /\ s \in rc2,
                    sl2 = [sl EXCEPT ![tk[old].slot] = Unlink(@, old)],
                    tk2 = [tk EXCEPT ![old] = gone],
                    tm2 \in [Names -> Elements \cup {Nil}],
                    \A n \in Names : tm2[n] # Nil => tm2[n] = tm[n] /\ tm[n] # old,
                    rc2 \in SUBSET Slots /\ rc \subseteq rc2
             PROVE  Good(sl2, tm2, tk2, sc, rc2, t)
  BY DEF Drops
<1>t. Typed(sl, tm, tk, sc, rc, t) /\ Listed(sl, tk, rc) /\ Known(tm, tk)
      /\ Scanned(sl, tk, sc, rc, t) /\ Timed(sl, tk, sc, rc, t)
  BY DEF Good
<1>0. PICK s \in Slots : s = tk[old].slot
  BY <1>t DEF Typed, TaskType
<1>1. /\ sl \in [Slots -> Seq(Elements)] /\ tk \in [Elements -> TaskType]
      /\ rc \in SUBSET Slots /\ rc \subseteq rc2 /\ rc2 \subseteq Slots
      /\ sc \in [Slots -> Elements \cup {Nil}]
      /\ \A x \in Slots : sc[x] = old => x \in rc2
  BY <1>t DEF Typed
<1>2. \A x \in Elements : tk2[x] = IF x = old THEN gone ELSE tk[x]
  BY <1>1
<1>3. \A x \in Slots \ {s} : old \notin ToSet(sl[x])
  BY <1>t, <1>0 DEF Listed
<1>4. Single(sl[s]) /\ sl[s] \in Seq(Elements)
  BY <1>t, <1>1 DEF Listed
<1>5. /\ sl2 \in [Slots -> Seq(Elements)]
      /\ \A x \in Slots \ {s} : sl2[x] = sl[x]
      /\ Single(sl2[s])
      /\ ToSet(sl2[s]) = ToSet(sl[s]) \ {old}
      /\ \A a, b \in ToSet(sl[s]) \ {old} : Before(sl2[s], a, b) <=> Before(sl[s], a, b)
  <2>1. PICK q : q = Unlink(sl[s], old)
    OBVIOUS
  <2>2. /\ q \in Seq(Elements) /\ Single(q) /\ ToSet(q) = ToSet(sl[s]) \ {old}
        /\ \A a, b \in ToSet(sl[s]) \ {old} : Before(q, a, b) <=> Before(sl[s], a, b)
    BY <1>4, <2>1, Unlinked
  <2>3. sl2 = [sl EXCEPT ![s] = q]
    BY <1>0, <2>1
  <2>4. /\ sl2 \in [Slots -> Seq(Elements)] /\ sl2[s] = q
        /\ \A x \in Slots \ {s} : sl2[x] = sl[x]
    <3>1. q \in Seq(Elements) /\ sl \in [Slots -> Seq(Elements)]
      BY <1>1, <2>2
    <3> QED BY ONLY <2>3, <3>1, s \in Slots
  <2> QED BY ONLY <2>2, <2>4
<1>6. Typed(sl2, tm2, tk2, sc, rc2, t)
  BY <1>t, <1>1, <1>5 DEF Typed
<1>e. \A x \in Slots : \A d \in ToSet(sl[x]) : d \in Elements
  BY <1>1 DEF ToSet
<1>7. Listed(sl2, tk2, rc2)
  <2>1. \A x \in Slots : Single(sl2[x])
    BY <1>t, <1>5 DEF Listed
  <2>2. ASSUME NEW x \in Slots, NEW d \in ToSet(sl2[x])
        PROVE  tk2[d].state = "listed" /\ tk2[d].slot = x
    <3>1. d # old /\ d \in ToSet(sl[x])
      BY <1>3, <1>5
    <3> QED BY <1>t, <1>2, <1>e, <3>1 DEF Listed
  <2>3. ASSUME NEW d \in Elements, tk2[d].state = "listed"
        PROVE  d \in ToSet(sl2[tk2[d].slot]) \/ tk2[d].slot \in rc2
    <3>1. d # old /\ tk2[d] = tk[d] /\ tk[d].slot \in Slots
      BY <1>1, <1>2, <2>3 DEF TaskType
    <3>2. d \in ToSet(sl[tk[d].slot]) \/ tk[d].slot \in rc
      BY <1>t, <2>3, <3>1 DEF Listed
    <3> QED BY <1>1, <1>5, <3>1, <3>2
  <2> QED BY <2>1, <2>2, <2>3 DEF Listed
<1>8. Known(tm2, tk2)
  <2>1. \A d \in Elements : tk2[d].state # "free" => tk2[d].key \in Keys
    BY <1>t, <1>2 DEF Known
  <2>2. \A n \in Names : tm2[n] # Nil => tm2[n] \in Elements /\ tm2[n] # old /\ tm2[n] = tm[n]
    BY <1>t DEF Typed
  <2> QED BY <1>t, <1>2, <2>1, <2>2 DEF Known
<1>9. Scanned(sl2, tk2, sc, rc2, t)
  <2> SUFFICES ASSUME NEW x \in Slots, sc[x] # Nil
               PROVE  /\ tk2[sc[x]].slot = x
                      /\ sc[x] \in ToSet(sl2[x]) \/ (tk2[sc[x]].state = "cut" /\ x \in rc2)
                      /\ LastTick(t, x) \in Nat
    BY DEF Scanned
  <2>1. /\ tk[sc[x]].slot = x
        /\ sc[x] \in ToSet(sl[x]) \/ (tk[sc[x]].state = "cut" /\ x \in rc)
        /\ LastTick(t, x) \in Nat
    BY <1>t DEF Scanned
  <2>2. sc[x] \in Elements
    BY <1>1
  <2>3. CASE sc[x] = old
    BY <1>1, <1>2, <2>1, <2>2, <2>3
  <2>4. CASE sc[x] # old
    BY <1>1, <1>2, <1>5, <2>1, <2>2, <2>4
  <2> QED BY <2>3, <2>4
<1>10. Timed(sl2, tk2, sc, rc2, t)
  <2> SUFFICES ASSUME NEW d \in Elements, tk2[d].slot \notin rc2
               PROVE  /\ tk2[d].state = "listed" =>
                            tk2[d].due = LastTick(t, tk2[d].slot) +
                               (IF Ahead(sl2, tk2, sc, d) THEN tk2[d].circle
                                ELSE tk2[d].circle + 1) * SlotNum
                      /\ tk2[d].state \in Started => tk2[d].ran = tk2[d].due
    BY DEF Timed
  <2>1. CASE d = old
    BY <1>2, <2>1
  <2>2. CASE d # old
    <3>1. tk2[d] = tk[d] /\ tk[d].slot \in Slots /\ tk[d].slot \notin rc
      BY <1>1, <1>2, <2>2 DEF TaskType
    <3>2. ASSUME tk[d].state = "listed"
          PROVE  Ahead(sl2, tk2, sc, d) <=> Ahead(sl, tk, sc, d)
      <4>1. CASE tk[d].slot # s
        BY <1>5, <3>1, <4>1 DEF Ahead
      <4>2. CASE tk[d].slot = s
        <5>1. d \in ToSet(sl[s]) \ {old}
          BY <1>t, <2>2, <3>1, <3>2, <4>2 DEF Listed
        <5>2. sc[s] # Nil => sc[s] \in ToSet(sl[s]) \ {old}
          BY <1>t, <1>1, <3>1, <4>2 DEF Scanned
        <5> QED BY <1>5, <3>1, <4>2, <5>1, <5>2 DEF Ahead
      <4> QED BY <4>1, <4>2
    <3> QED BY <1>t, <3>1, <3>2 DEF Timed
  <2> QED BY <2>1, <2>2
<1> QED BY <1>6, <1>7, <1>8, <1>9, <1>10 DEF Good

\* The timer gets to know a listed element under the name of its key.
LEMMA PointKeeps ==
    ASSUME NEW sl, NEW tm, NEW tk, NEW sc, NEW rc, NEW t, Good(sl, tm, tk, sc, rc, t),
           NEW e \in Elements, tk[e].state = "listed",
           NEW tm2, tm2 = [tm EXCEPT ![tk[e].key.name] = e]
    PROVE  Good(sl, tm2, tk, sc, rc, t)
<1>1. tm \in [Names -> Elements \cup {Nil}]
  BY DEF Good, Typed
<1>2. tm2 \in [Names -> Elements \cup {Nil}]
  BY <1>1
<1>3. \A n \in Names : tm2[n] = tm[n] \/ (tm2[n] = e /\ n = tk[e].key.name)
  BY <1>1
<1>4. Known(tm2, tk)
  BY <1>3 DEF Good, Known
<1> QED BY <1>2, <1>4 DEF Good, Typed

\* A job that has run goes on, or is done.
LEMMA JobKeeps ==
    ASSUME NEW sl, NEW tm, NEW tk, NEW sc, NEW rc, NEW t, Good(sl, tm, tk, sc, rc, t),
           NEW e \in Elements, tk[e].state \in Started,
           NEW r \in TaskType,
           r.state = "free" \/ (\E x \in Removing : r = [tk[e] EXCEPT !.state = x]),
           NEW tk2, tk2 = [tk EXCEPT ![e] = r]
    PROVE  Good(sl, tm, tk2, sc, rc, t)
<1>t. Typed(sl, tm, tk, sc, rc, t) /\ Listed(sl, tk, rc) /\ Known(tm, tk)
      /\ Scanned(sl, tk, sc, rc, t) /\ Timed(sl, tk, sc, rc, t)
  BY DEF Good
<1>1. /\ tk \in [Elements -> TaskType] /\ tk[e] \in TaskType /\ sl \in [Slots -> Seq(Elements)]
      /\ sc \in [Slots -> Elements \cup {Nil}]
  BY <1>t DEF Typed
<1>2. \/ r.state = "free"
      \/ /\ r.state \in Removing /\ r.key = tk[e].key /\ r.slot = tk[e].slot
         /\ r.due = tk[e].due /\ r.ran = tk[e].ran
  BY <1>1 DEF TaskType
<1>s. r.state \notin {"listed", "cut"} /\ tk[e].state \notin {"free", "listed", "cut"}
  BY <1>2 DEF Started, Removing
<1>3. \A x \in Elements : tk2[x] = IF x = e THEN r ELSE tk[x]
  BY <1>1
<1>4. Typed(sl, tm, tk2, sc, rc, t)
  BY <1>t DEF Typed
<1>5. \A s \in Slots : \A d \in ToSet(sl[s]) : d \in Elements /\ d # e
  BY <1>t, <1>1 DEF Listed, ToSet
<1>6. Listed(sl, tk2, rc)
  BY <1>t, <1>2, <1>3, <1>5 DEF Listed
<1>7. Known(tm, tk2)
  <2>1. \A n \in Names : tm[n] # Nil => tm[n] \in Elements /\ tm[n] # e
    BY <1>t DEF Known, Typed
  <2> QED BY <1>t, <1>2, <1>3, <2>1 DEF Known
<1>8. Scanned(sl, tk2, sc, rc, t)
  <2>1. \A s \in Slots : sc[s] # Nil => sc[s] \in Elements /\ sc[s] # e
    BY <1>t, <1>1, <1>5 DEF Scanned
  <2> QED BY <1>t, <1>3, <2>1 DEF Scanned
<1>9. Timed(sl, tk2, sc, rc, t)
  <2> SUFFICES ASSUME NEW d \in Elements, tk2[d].slot \notin rc
               PROVE  /\ tk2[d].state = "listed" =>
                            tk2[d].due = LastTick(t, tk2[d].slot) +
                               (IF Ahead(sl, tk2, sc, d) THEN tk2[d].circle
                                ELSE tk2[d].circle + 1) * SlotNum
                      /\ tk2[d].state \in Started => tk2[d].ran = tk2[d].due
    BY DEF Timed
  <2>1. CASE d = e
    BY <1>t, <1>2, <1>3, <2>1 DEF Timed
  <2>2. CASE d # e
    <3>1. tk2[d] = tk[d] /\ (Ahead(sl, tk2, sc, d) <=> Ahead(sl, tk, sc, d))
      BY <1>3, <2>2 DEF Ahead
    <3> QED BY <1>t, <3>1 DEF Timed
  <2> QED BY <2>1, <2>2
<1> QED BY <1>4, <1>6, <1>7, <1>8, <1>9 DEF Good

\* The wheel turns: the scan of slot p starts.
LEMMA TickKeeps ==
    ASSUME NEW sl, NEW tm, NEW tk, NEW sc, NEW rc, NEW t, Good(sl, tm, tk, sc, rc, t),
           NEW p, p = t % SlotNum, sc[p] = Nil,
           NEW sc2, sc2 = [sc EXCEPT ![p] = First(sl[p])]
    PROVE  Good(sl, tm, tk, sc2, rc, t + 1)
<1>t. Typed(sl, tm, tk, sc, rc, t) /\ Listed(sl, tk, rc) /\ Known(tm, tk)
      /\ Scanned(sl, tk, sc, rc, t) /\ Timed(sl, tk, sc, rc, t)
  BY DEF Good
<1>1. /\ tk \in [Elements -> TaskType] /\ sl \in [Slots -> Seq(Elements)]
      /\ sc \in [Slots -> Elements \cup {Nil}] /\ t \in Nat
  BY <1>t DEF Typed
<1>2. /\ p \in Slots
      /\ LastTick(t + 1, p) = t + 1 /\ LastTick(t, p) = t + 1 - SlotNum
      /\ \A s \in Slots \ {p} : LastTick(t + 1, s) = LastTick(t, s)
  BY <1>1, OneMoreTick
<1>3. PICK f : f = First(sl[p])
  OBVIOUS
<1>4. /\ f # Nil => f \in ToSet(sl[p]) /\ f \in Elements
      /\ \A b \in ToSet(sl[p]) : f # Nil /\ Before(sl[p], f, b)
  <2>1. sl[p] \in Seq(Elements)
    BY <1>1, <1>2
  <2>2. /\ f # Nil => f \in ToSet(sl[p])
        /\ \A b \in ToSet(sl[p]) : f # Nil /\ Before(sl[p], f, b)
    BY <1>3, <2>1, ElementAssumption, FirstOf
  <2> QED BY <2>1, <2>2 DEF ToSet
<1>5. sc2 = [sc EXCEPT ![p] = f]
  BY <1>3
<1>6. \A s \in Slots : sc2[s] = IF s = p THEN f ELSE sc[s]
  BY <1>1, <1>2, <1>5
<1>7. Typed(sl, tm, tk, sc2, rc, t + 1)
  <2>1. sc2 \in [Slots -> Elements \cup {Nil}]
    BY <1>1, <1>4, <1>5
  <2> QED BY <1>t, <2>1 DEF Typed
<1>8. Scanned(sl, tk, sc2, rc, t + 1)
  <2> SUFFICES ASSUME NEW x \in Slots, sc2[x] # Nil
               PROVE  /\ tk[sc2[x]].slot = x
                      /\ sc2[x] \in ToSet(sl[x]) \/ (tk[sc2[x]].state = "cut" /\ x \in rc)
                      /\ LastTick(t + 1, x) \in Nat
    BY DEF Scanned
  <2>1. CASE x = p
    BY <1>t, <1>1, <1>2, <1>4, <1>6, <2>1 DEF Listed
  <2>2. CASE x # p
    BY <1>t, <1>2, <1>6, <2>2 DEF Scanned
  <2> QED BY <2>1, <2>2
<1>9. Timed(sl, tk, sc2, rc, t + 1)
  <2> SUFFICES ASSUME NEW d \in Elements, tk[d].slot \notin rc
               PROVE  /\ tk[d].state = "listed" =>
                            tk[d].due = LastTick(t + 1, tk[d].slot) +
                               (IF Ahead(sl, tk, sc2, d) THEN tk[d].circle
                                ELSE tk[d].circle + 1) * SlotNum
                      /\ tk[d].state \in Started => tk[d].ran = tk[d].due
    BY DEF Timed
  <2>1. tk[d].state \in Started => tk[d].ran = tk[d].due
    BY <1>t DEF Timed
  <2>2. ASSUME tk[d].state = "listed"
        PROVE  tk[d].due = LastTick(t + 1, tk[d].slot) +
                  (IF Ahead(sl, tk, sc2, d) THEN tk[d].circle ELSE tk[d].circle + 1) * SlotNum
    <3>1. PICK s \in Slots, c \in Nat : s = tk[d].slot /\ c = tk[d].circle
      BY <1>1 DEF TaskType
    <3>2. tk[d].due = LastTick(t, s) + (IF Ahead(sl, tk, sc, d) THEN c ELSE c + 1) * SlotNum
      BY <1>t, <2>2, <3>1 DEF Timed
    <3>3. CASE s # p
      <4>1. Ahead(sl, tk, sc2, d) <=> Ahead(sl, tk, sc, d)
        BY <1>6, <3>1, <3>3 DEF Ahead
      <4> QED BY <1>2, <3>1, <3>2, <3>3, <4>1
    <3>4. CASE s = p
      <4>1. ~Ahead(sl, tk, sc, d)
        BY <3>1, <3>4 DEF Ahead
      <4>2. d \in ToSet(sl[s])
        BY <1>t, <2>2, <3>1 DEF Listed
      <4>3. Ahead(sl, tk, sc2, d)
        BY <1>4, <1>6, <3>1, <3>4, <4>2 DEF Ahead
      <4>4. (c + 1) * SlotNum = c * SlotNum + SlotNum /\ c * SlotNum \in Int /\ SlotNum \in Int
        BY SlotAssumption
      <4>5. tk[d].due = t + 1 - SlotNum + (c + 1) * SlotNum
        BY <1>2, <3>2, <3>4, <4>1
      <4>6. tk[d].due = t + 1 + c * SlotNum
        BY <1>1, <4>4, <4>5
      <4> QED BY <1>2, <3>1, <3>4, <4>3, <4>6
    <3> QED BY <3>3, <3>4
  <2> QED BY <2>1, <2>2
<1> QED BY <1>t, <1>7, <1>8, <1>9 DEF Good

\* A scan counts a round of the element it is at, and moves on.
Passes(sl, tk, sc, s, e, r, tk2, sc2) ==
    /\ e = sc[s] /\ e # Nil /\ tk[e].circle > 0 /\ r \in TaskType
    /\ tk[e].state = "cut" => r.state = "free"
    /\ tk[e].state # "cut" => r = [tk[e] EXCEPT !.circle = @ - 1]
    /\ tk2 = [tk EXCEPT ![e] = r]
    /\ sc2 = [sc EXCEPT ![s] = NextIn(sl[s], e)]

LEMMA PassKeeps ==
    ASSUME NEW sl, NEW tm, NEW tk, NEW sc, NEW rc, NEW t, Good(sl, tm, tk, sc, rc, t),
           NEW s \in Slots, NEW e, NEW r, NEW tk2, NEW sc2,
           Passes(sl, tk, sc, s, e, r, tk2, sc2)
    PROVE  Good(sl, tm, tk2, sc2, rc, t)
<1> SUFFICES ASSUME e = sc[s] /\ e # Nil /\ tk[e].circle > 0 /\ r \in TaskType,
                    tk[e].state = "cut" => r.state = "free",
                    tk[e].state # "cut" => r = [tk[e] EXCEPT !.circle = @ - 1],
                    tk2 = [tk EXCEPT ![e] = r],
                    sc2 = [sc EXCEPT ![s] = NextIn(sl[s], e)]
             PROVE  Good(sl, tm, tk2, sc2, rc, t)
  BY DEF Passes
<1>t. Typed(sl, tm, tk, sc, rc, t) /\ Listed(sl, tk, rc) /\ Known(tm, tk)
      /\ Scanned(sl, tk, sc, rc, t) /\ Timed(sl, tk, sc, rc, t)
  BY DEF Good
<1>1. /\ tk \in [Elements -> TaskType] /\ sl \in [Slots -> Seq(Elements)]
      /\ sc \in [Slots -> Elements \cup {Nil}] /\ e \in Elements /\ tk[e] \in TaskType
  BY <1>t DEF Typed
<1>2. /\ tk[e].slot = s
      /\ e \in ToSet(sl[s]) \/ (tk[e].state = "cut" /\ s \in rc)
      /\ LastTick(t, s) \in Nat
  BY <1>t DEF Scanned
<1>3. e \in ToSet(sl[s]) => tk[e].state = "listed"
  BY <1>t DEF Listed
<1>4. \/ tk[e].state = "cut" /\ r.state = "free"
      \/ /\ e \in ToSet(sl[s]) /\ tk[e].state = "listed" /\ r.state = "listed"
         /\ r.slot = s /\ r.key = tk[e].key /\ r.due = tk[e].due /\ r.circle = tk[e].circle - 1
  BY <1>1, <1>2, <1>3 DEF TaskType
<1>5. \A x \in Elements : tk2[x] = IF x = e THEN r ELSE tk[x]
  BY <1>1
<1>6. PICK n : n = NextIn(sl[s], e)
  OBVIOUS
<1>7. /\ e \notin ToSet(sl[s]) => n = Nil
      /\ n # Nil => n \in ToSet(sl[s]) \ {e} /\ n \in Elements
      /\ e \in ToSet(sl[s]) => \A b \in ToSet(sl[s]) :
            (n # Nil /\ Before(sl[s], n, b)) <=> (Before(sl[s], e, b) /\ b # e)
  <2>1. sl[s] \in Seq(Elements) /\ Single(sl[s])
    BY <1>t, <1>1 DEF Listed
  <2>2. /\ e \notin ToSet(sl[s]) => n = Nil
        /\ n # Nil => n \in ToSet(sl[s]) \ {e}
        /\ e \in ToSet(sl[s]) => \A b \in ToSet(sl[s]) :
              (n # Nil /\ Before(sl[s], n, b)) <=> (Before(sl[s], e, b) /\ b # e)
    BY <1>6, <2>1, ElementAssumption, NextOf
  <2>3. ToSet(sl[s]) \subseteq Elements
    BY <2>1 DEF ToSet
  <2> QED BY <2>2, <2>3
<1>8. sc2 = [sc EXCEPT ![s] = n]
  BY <1>6
<1>9. \A x \in Slots : sc2[x] = IF x = s THEN n ELSE sc[x]
  BY <1>1, <1>8
<1>10. Typed(sl, tm, tk2, sc2, rc, t)
  <2>1. sc2 \in [Slots -> Elements \cup {Nil}]
    BY <1>1, <1>7, <1>8
  <2>2. tk2 \in [Elements -> TaskType]
    BY <1>1
  <2> QED BY <1>t, <2>1, <2>2 DEF Typed
<1>e. \A x \in Slots : \A d \in ToSet(sl[x]) : d \in Elements
  BY <1>1 DEF ToSet
<1>11. Listed(sl, tk2, rc)
  <2>1. \A x \in Slots : \A d \in ToSet(sl[x]) : tk2[d].state = "listed" /\ tk2[d].slot = x
    BY <1>t, <1>2, <1>4, <1>5, <1>e DEF Listed
  <2>2. \A d \in Elements : tk2[d].state = "listed" =>
           d \in ToSet(sl[tk2[d].slot]) \/ tk2[d].slot \in rc
    BY <1>t, <1>4, <1>5 DEF Listed
  <2> QED BY <1>t, <2>1, <2>2 DEF Listed
<1>12. Known(tm, tk2)
  <2>1. \A d \in Elements : tk2[d].state # "free" => tk2[d].key \in Keys
    BY <1>t, <1>4, <1>5 DEF Known
  <2>2. \A x \in Names : tm[x] # Nil => tm[x] \in Elements
    BY <1>t DEF Typed
  <2>3. ASSUME NEW x \in Names, tm[x] # Nil
        PROVE  tk2[tm[x]].state = "listed" /\ tk2[tm[x]].key.name = x
    <3>1. tk[tm[x]].state = "listed" /\ tk[tm[x]].key.name = x /\ tm[x] \in Elements
      BY <1>t, <2>2, <2>3 DEF Known
    <3> QED BY <1>4, <1>5, <3>1
  <2> QED BY <2>1, <2>3 DEF Known
<1>13. Scanned(sl, tk2, sc2, rc, t)
  <2> SUFFICES ASSUME NEW x \in Slots, sc2[x] # Nil
               PROVE  /\ tk2[sc2[x]].slot = x
                      /\ sc2[x] \in ToSet(sl[x]) \/ (tk2[sc2[x]].state = "cut" /\ x \in rc)
                      /\ LastTick(t, x) \in Nat
    BY DEF Scanned
  <2>1. CASE x = s
    <3>1. sc2[x] = n /\ n \in ToSet(sl[s]) /\ n # e /\ n \in Elements
      BY <1>7, <1>9, <2>1
    <3>2. tk2[n].slot = s
      BY <1>t, <1>5, <3>1 DEF Listed
    <3> QED BY <1>2, <2>1, <3>1, <3>2
  <2>2. CASE x # s
    <3>1. /\ tk[sc[x]].slot = x
          /\ sc[x] \in ToSet(sl[x]) \/ (tk[sc[x]].state = "cut" /\ x \in rc)
          /\ LastTick(t, x) \in Nat
      BY <1>t, <1>9, <2>2 DEF Scanned
    <3>2. sc2[x] = sc[x] /\ sc[x] \in Elements /\ sc[x] # e
      BY <1>1, <1>2, <1>9, <2>2, <3>1
    <3> QED BY <1>5, <3>1, <3>2
  <2> QED BY <2>1, <2>2
<1>14. Timed(sl, tk2, sc2, rc, t)
  <2> SUFFICES ASSUME NEW d \in Elements, tk2[d].slot \notin rc
               PROVE  /\ tk2[d].state = "listed" =>
                            tk2[d].due = LastTick(t, tk2[d].slot) +
                               (IF Ahead(sl, tk2, sc2, d) THEN tk2[d].circle
                                ELSE tk2[d].circle + 1) * SlotNum
                      /\ tk2[d].state \in Started => tk2[d].ran = tk2[d].due
    BY DEF Timed
  <2>1. CASE d = e
    <3>1. CASE tk2[d].state = "free"
      BY <3>1
    <3>2. CASE tk2[d].state # "free"
      <4>1. /\ e \in ToSet(sl[s]) /\ tk[e].state = "listed" /\ s \notin rc
            /\ tk2[e].state = "listed" /\ tk2[e].slot = s /\ tk2[e].due = tk[e].due
            /\ tk2[e].circle = tk[e].circle - 1
        BY <1>1, <1>4, <1>5, <2>1, <3>2
      <4>2. Ahead(sl, tk, sc, e)
        <5>1. PICK i \in DOMAIN sl[s] : sl[s][i] = e
          BY <4>1 DEF ToSet
        <5>2. i <= i
          BY <1>1
        <5>3. Before(sl[s], e, e)
          BY <5>1, <5>2 DEF Before
        <5> QED BY <1>2, <5>3 DEF Ahead
      <4>3. tk[e].due = LastTick(t, s) + tk[e].circle * SlotNum
        BY <1>t, <1>1, <1>2, <4>1, <4>2 DEF Timed
      <4>4. ~Ahead(sl, tk2, sc2, e)
        BY <1>7, <1>9, <4>1 DEF Ahead
      <4>5. (tk[e].circle - 1) + 1 = tk[e].circle
        BY <1>1 DEF TaskType
      <4> QED BY <2>1, <4>1, <4>3, <4>4, <4>5
    <3> QED BY <3>1, <3>2
  <2>2. CASE d # e
    <3>1. tk2[d] = tk[d] /\ tk[d].slot \in Slots
      BY <1>1, <1>5, <2>2 DEF TaskType
    <3>2. ASSUME tk[d].state = "listed"
          PROVE  Ahead(sl, tk2, sc2, d) <=> Ahead(sl, tk, sc, d)
      <4>1. CASE tk[d].slot # s
        BY <1>9, <3>1, <4>1 DEF Ahead
      <4>2. CASE tk[d].slot = s
        <5>1. d \in ToSet(sl[s]) /\ e \in ToSet(sl[s])
          BY <1>t, <1>2, <2>2, <3>1, <3>2, <4>2 DEF Listed
        <5>2. (n # Nil /\ Before(sl[s], n, d)) <=> Before(sl[s], e, d)
          BY <1>7, <2>2, <5>1
        <5>3. sc2[s] = n /\ sc[s] = e /\ e # Nil
          BY <1>9
        <5> QED BY <3>1, <4>2, <5>2, <5>3 DEF Ahead
      <4> QED BY <4>1, <4>2
    <3> QED BY <1>t, <3>1, <3>2 DEF Timed
  <2> QED BY <2>1, <2>2
<1> QED BY <1>10, <1>11, <1>12, <1>13, <1>14 DEF Good

\* A scan starts the job of the element it is at, and moves on.
Runs(sl, tm, tk, sc, t, s, e, sl2, tm2, tk2, sc2) ==
    /\ e = sc[s] /\ e # Nil /\ tk[e].circle = 0
    /\ tk2 = [tk EXCEPT ![e].state = "running", ![e].ran = LastTick(t, s)]
    /\ tm2 = [tm EXCEPT ![tk[e].key.name] = Nil]
    /\ sl2 = [sl EXCEPT ![s] = Unlink(@, e)]
    /\ sc2 = [sc EXCEPT ![s] = NextIn(sl[s], e)]

LEMMA RunKeeps ==
    ASSUME NEW sl, NEW tm, NEW tk, NEW sc, NEW rc, NEW t, Good(sl, tm, tk, sc, rc, t),
           NEW s \in Slots, NEW e, NEW sl2, NEW tm2, NEW tk2, NEW sc2,
           Runs(sl, tm, tk, sc, t, s, e, sl2, tm2, tk2, sc2)
    PROVE  Good(sl2, tm2, tk2, sc2, rc, t)
<1> SUFFICES ASSUME e = sc[s] /\ e # Nil /\ tk[e].circle = 0,
                    tk2 = [tk EXCEPT ![e].state = "running", ![e].ran = LastTick(t, s)],
                    tm2 = [tm EXCEPT ![tk[e].key.name] = Nil],
                    sl2 = [sl EXCEPT ![s] = Unlink(@, e)],
                    sc2 = [sc EXCEPT ![s] = NextIn(sl[s], e)]
             PROVE  Good(sl2, tm2, tk2, sc2, rc, t)
  BY DEF Runs
<1>t. Typed(sl, tm, tk, sc, rc, t) /\ Listed(sl, tk, rc) /\ Known(tm, tk)
      /\ Scanned(sl, tk, sc, rc, t) /\ Timed(sl, tk, sc, rc, t)
  BY DEF Good
<1>1. /\ tk \in [Elements -> TaskType] /\ sl \in [Slots -> Seq(Elements)]
      /\ sc \in [Slots -> Elements \cup {Nil}] /\ e \in Elements /\ tk[e] \in TaskType
      /\ tm \in [Names -> Elements \cup {Nil}]
  BY <1>t DEF Typed
<1>2. /\ tk[e].slot = s
      /\ e \in ToSet(sl[s]) \/ (tk[e].state = "cut" /\ s \in rc)
      /\ LastTick(t, s) \in Nat
  BY <1>t DEF Scanned
<1>3. e \in ToSet(sl[s]) => tk[e].state = "listed"
  BY <1>t DEF Listed
<1>4. PICK r : r = [tk[e] EXCEPT !.state = "running", !.ran = LastTick(t, s)]
  OBVIOUS
<1>5. /\ r \in TaskType /\ r.state = "running" /\ r.slot = s /\ r.key = tk[e].key
      /\ r.due = tk[e].due /\ r.ran = LastTick(t, s)
  BY <1>1, <1>2, <1>4 DEF TaskType
<1>6. \A x \in Elements : tk2[x] = IF x = e THEN r ELSE tk[x]
  BY <1>1, <1>4
<1>7. PICK n : n = NextIn(sl[s], e)
  OBVIOUS
<1>8. sl[s] \in Seq(Elements) /\ Single(sl[s]) /\ ToSet(sl[s]) \subseteq Elements
  BY <1>t, <1>1 DEF Listed, ToSet
<1>9. /\ e \notin ToSet(sl[s]) => n = Nil
      /\ n # Nil => n \in ToSet(sl[s]) \ {e}
      /\ e \in ToSet(sl[s]) => \A b \in ToSet(sl[s]) :
            (n # Nil /\ Before(sl[s], n, b)) <=> (Before(sl[s], e, b) /\ b # e)
  BY <1>7, <1>8, ElementAssumption, NextOf
<1>10. \A x \in Slots : sc2[x] = IF x = s THEN n ELSE sc[x]
  BY <1>1, <1>7
<1>11. /\ sl2 \in [Slots -> Seq(Elements)]
       /\ \A x \in Slots \ {s} : sl2[x] = sl[x]
       /\ Single(sl2[s])
       /\ ToSet(sl2[s]) = ToSet(sl[s]) \ {e}
       /\ \A a, b \in ToSet(sl[s]) \ {e} : Before(sl2[s], a, b) <=> Before(sl[s], a, b)
  <2>1. PICK q : q = Unlink(sl[s], e)
    OBVIOUS
  <2>2. /\ q \in Seq(Elements) /\ Single(q) /\ ToSet(q) = ToSet(sl[s]) \ {e}
        /\ \A a, b \in ToSet(sl[s]) \ {e} : Before(q, a, b) <=> Before(sl[s], a, b)
    BY <1>8, <2>1, Unlinked
  <2>3. sl2 = [sl EXCEPT ![s] = q]
    BY <2>1
  <2>4. /\ sl2 \in [Slots -> Seq(Elements)] /\ sl2[s] = q
        /\ \A x \in Slots \ {s} : sl2[x] = sl[x]
    <3>1. q \in Seq(Elements) /\ sl \in [Slots -> Seq(Elements)]
      BY <1>1, <2>2
    <3> QED BY ONLY <2>3, <3>1, s \in Slots
  <2> QED BY ONLY <2>2, <2>4
<1>12. \A x \in Slots : \A d \in ToSet(sl2[x]) : d \in ToSet(sl[x]) /\ d # e /\ d \in Elements
  <2> SUFFICES ASSUME NEW x \in Slots, NEW d \in ToSet(sl2[x])
               PROVE  d \in ToSet(sl[x]) /\ d # e /\ d \in Elements
    OBVIOUS
  <2>1. CASE x = s
    BY <1>8, <1>11, <2>1
  <2>2. CASE x # s
    <3>1. d \in ToSet(sl[x])
      BY <1>11, <2>2
    <3>2. d \in Elements
      BY <1>1, <3>1 DEF ToSet
    <3>3. tk[d].slot = x
      BY <1>t, <3>1 DEF Listed
    <3> QED BY <1>2, <2>2, <3>1, <3>2, <3>3
  <2> QED BY <2>1, <2>2
<1>13. Typed(sl2, tm2, tk2, sc2, rc, t)
  <2>1. sc2 \in [Slots -> Elements \cup {Nil}]
    <3>1. n \in Elements \cup {Nil}
      BY <1>8, <1>9
    <3> QED BY <1>1, <1>7, <3>1
  <2>2. tk2 \in [Elements -> TaskType]
    <3>1. tk2 = [tk EXCEPT ![e] = r]
      BY <1>1, <1>4
    <3> QED BY <1>1, <1>5, <3>1
  <2>3. tm2 \in [Names -> Elements \cup {Nil}]
    BY <1>1
  <2> QED BY <1>t, <1>11, <2>1, <2>2, <2>3 DEF Typed
<1>14. Listed(sl2, tk2, rc)
  <2>1. \A x \in Slots : Single(sl2[x])
    BY <1>t, <1>11 DEF Listed
  <2>2. \A x \in Slots : \A d \in ToSet(sl2[x]) : tk2[d].state = "listed" /\ tk2[d].slot = x
    <3> SUFFICES ASSUME NEW x \in Slots, NEW d \in ToSet(sl2[x])
                 PROVE  tk2[d].state = "listed" /\ tk2[d].slot = x
      OBVIOUS
    <3>1. d \in ToSet(sl[x]) /\ d # e /\ d \in Elements
      BY <1>12
    <3>2. tk[d].state = "listed" /\ tk[d].slot = x
      BY <1>t, <3>1 DEF Listed
    <3> QED BY <1>6, <3>1, <3>2
  <2>3. ASSUME NEW d \in Elements, tk2[d].state = "listed"
        PROVE  d \in ToSet(sl2[tk2[d].slot]) \/ tk2[d].slot \in rc
    <3>1. d # e /\ tk2[d] = tk[d] /\ tk[d].slot \in Slots
      BY <1>1, <1>5, <1>6, <2>3 DEF TaskType
    <3>2. d \in ToSet(sl[tk[d].slot]) \/ tk[d].slot \in rc
      BY <1>t, <2>3, <3>1 DEF Listed
    <3> QED BY <1>11, <3>1, <3>2
  <2> QED BY <2>1, <2>2, <2>3 DEF Listed
<1>15. Known(tm2, tk2)
  <2>1. \A d \in Elements : tk2[d].state # "free" => tk2[d].key \in Keys
    <3>1. tk[e].state # "free"
      BY <1>2, <1>3
    <3> QED BY <1>t, <1>1, <1>5, <1>6, <3>1 DEF Known
  <2>2. ASSUME NEW x \in Names, tm2[x] # Nil
        PROVE  tk2[tm2[x]].state = "listed" /\ tk2[tm2[x]].key.name = x
    <3>1. tm2[x] = tm[x] /\ x # tk[e].key.name
      BY <1>1, <2>2
    <3>2. tk[tm[x]].state = "listed" /\ tk[tm[x]].key.name = x /\ tm[x] \in Elements
      BY <1>t, <1>1, <2>2, <3>1 DEF Known
    <3>3. tm[x] # e
      BY <3>1, <3>2
    <3> QED BY <1>6, <3>1, <3>2, <3>3
  <2> QED BY <2>1, <2>2 DEF Known
<1>16. Scanned(sl2, tk2, sc2, rc, t)
  <2> SUFFICES ASSUME NEW x \in Slots, sc2[x] # Nil
               PROVE  /\ tk2[sc2[x]].slot = x
                      /\ sc2[x] \in ToSet(sl2[x]) \/ (tk2[sc2[x]].state = "cut" /\ x \in rc)
                      /\ LastTick(t, x) \in Nat
    BY DEF Scanned
  <2>1. CASE x = s
    <3>1. sc2[x] = n /\ n \in ToSet(sl[s]) /\ n # e /\ n \in Elements
      BY <1>8, <1>9, <1>10, <2>1
    <3>2. tk2[n].slot = s
      <4>1. tk[n].slot = s
        BY <1>t, <3>1 DEF Listed
      <4> QED BY <1>6, <3>1, <4>1
    <3> QED BY <1>2, <1>11, <2>1, <3>1, <3>2
  <2>2. CASE x # s
    <3>1. /\ tk[sc[x]].slot = x
          /\ sc[x] \in ToSet(sl[x]) \/ (tk[sc[x]].state = "cut" /\ x \in rc)
          /\ LastTick(t, x) \in Nat
      BY <1>t, <1>10, <2>2 DEF Scanned
    <3>2. sc2[x] = sc[x] /\ sc[x] \in Elements /\ sc[x] # e
      BY <1>1, <1>2, <1>10, <2>2, <3>1
    <3> QED BY <1>6, <1>11, <2>2, <3>1, <3>2
  <2> QED BY <2>1, <2>2
<1>17. Timed(sl2, tk2, sc2, rc, t)
  <2> SUFFICES ASSUME NEW d \in Elements, tk2[d].slot \notin rc
               PROVE  /\ tk2[d].state = "listed" =>
                            tk2[d].due = LastTick(t, tk2[d].slot) +
                               (IF Ahead(sl2, tk2, sc2, d) THEN tk2[d].circle
                                ELSE tk2[d].circle + 1) * SlotNum
                      /\ tk2[d].state \in Started => tk2[d].ran = tk2[d].due
    BY DEF Timed
  <2>1. CASE d = e
    <3>1. tk2[e] = r /\ s \notin rc /\ e \in ToSet(sl[s]) /\ tk[e].state = "listed"
      BY <1>1, <1>2, <1>3, <1>5, <1>6, <2>1
    <3>2. Ahead(sl, tk, sc, e)
      <4>1. PICK i \in DOMAIN sl[s] : sl[s][i] = e
        BY <3>1 DEF ToSet
      <4>2. i <= i
        BY <1>8
      <4>3. Before(sl[s], e, e)
        BY <4>1, <4>2 DEF Before
      <4> QED BY <1>2, <4>3 DEF Ahead
    <3>3. tk[e].due = LastTick(t, s) + 0 * SlotNum
      BY <1>t, <1>1, <1>2, <3>1, <3>2 DEF Timed
    <3>4. tk[e].due = LastTick(t, s)
      BY <1>2, <3>3, SlotAssumption
    <3> QED BY <1>5, <2>1, <3>1, <3>4
  <2>2. CASE d # e
    <3>1. tk2[d] = tk[d] /\ tk[d].slot \in Slots
      BY <1>1, <1>6, <2>2 DEF TaskType
    <3>2. ASSUME tk[d].state = "listed"
          PROVE  Ahead(sl2, tk2, sc2, d) <=> Ahead(sl, tk, sc, d)
      <4>1. CASE tk[d].slot # s
        BY <1>10, <1>11, <3>1, <4>1 DEF Ahead
      <4>2. CASE tk[d].slot = s
        <5>1. d \in ToSet(sl[s]) \ {e} /\ e \in ToSet(sl[s])
          BY <1>t, <1>2, <2>2, <3>1, <3>2, <4>2 DEF Listed
        <5>2. (n # Nil /\ Before(sl[s], n, d)) <=> Before(sl[s], e, d)
          BY <1>9, <2>2, <5>1
        <5>3. n # Nil => (Before(sl2[s], n, d) <=> Before(sl[s], n, d))
          BY <1>9, <1>11, <5>1
        <5>4. sc2[s] = n /\ sc[s] = e /\ e # Nil
          BY <1>10
        <5> QED BY <3>1, <4>2, <5>2, <5>3, <5>4 DEF Ahead
      <4> QED BY <4>1, <4>2
    <3> QED BY <1>t, <3>1, <3>2 DEF Timed
  <2> QED BY <2>1, <2>2
<1> QED BY <1>13, <1>14, <1>15, <1>16, <1>17 DEF Good

-------------------------------------------------------------------------------
(* The wheel in its place *)

Wheel == Good(slots, timer, task, scan, raced, ticks) /\ pos = ticks % SlotNum

\* The rest of TypeOK.
Bounded == now \in 0 .. MaxTime /\ ops \in 0 .. MaxOps /\ data \subseteq Keys

\* An unused element has the type of a task.
LEMMA UnusedType == Unused \in TaskType
BY SlotAssumption DEF Unused, TaskType, Slots

\* A scan at an element keeps it from being used again when it is removed.
LEMMA DroppedIs ==
    ASSUME Wheel, NEW old \in Elements, task[old].state = "listed",
           NEW gone, gone = Dropped(old)
    PROVE  /\ gone \in TaskType /\ gone.state \in {"free", "cut"}
           /\ gone.state # "free" => gone.key = task[old].key
           /\ \A s \in Slots : scan[s] = old => gone.state = "cut" /\ gone.slot = s
<1>1. task[old] \in TaskType /\ task[old].slot \in Slots
  BY DEF Wheel, Good, Typed, TaskType
<1>2. \A s \in Slots : scan[s] = old => task[old].slot = s
  BY ElementAssumption DEF Wheel, Good, Scanned
<1>3. CASE \E s \in Slots : scan[s] = old
  <2>1. gone = [task[old] EXCEPT !.state = "cut"]
    BY <1>3 DEF Dropped
  <2> QED BY <1>1, <1>2, <2>1 DEF TaskType
<1>4. CASE ~\E s \in Slots : scan[s] = old
  <2>1. gone = Unused /\ gone.state = "free"
    BY <1>4 DEF Dropped, Unused
  <2> QED BY <1>4, <2>1, UnusedType
<1> QED BY <1>3, <1>4

\* What the timer has under a name.
LEMMA TimerIs ==
    ASSUME Wheel, NEW n \in Names, timer[n] # Nil
    PROVE  /\ timer[n] \in Elements /\ task[timer[n]].state = "listed"
           /\ \A m \in Names : timer[m] = timer[n] => m = n
           /\ task[timer[n]].slot \in Slots
BY SMTT(60) DEF Wheel, Good, Typed, Known, TaskType

\* removeTask
LEMMA RemoveTaskKeeps ==
    ASSUME Wheel, NEW n \in Names, RemoveTask(n), UNCHANGED <<pos, ticks, scan>>
    PROVE  Wheel'
<1>1. CASE timer[n] = Nil
  BY <1>1 DEF RemoveTask, Wheel
<1>2. CASE timer[n] # Nil
  <2>1. PICK old, s, gone : old = timer[n] /\ s = task[old].slot /\ gone = Dropped(old)
    OBVIOUS
  <2>2. /\ old \in Elements /\ task[old].state = "listed" /\ s \in Slots
        /\ \A m \in Names : timer[m] = old => m = n
    BY <1>2, <2>1, TimerIs
  <2>3. /\ gone \in TaskType /\ gone.state \in {"free", "cut"}
        /\ gone.state # "free" => gone.key = task[old].key
        /\ \A x \in Slots : scan[x] = old => gone.state = "cut" /\ gone.slot = x
    BY <2>1, <2>2, DroppedIs
  <2>4. /\ slots' = [slots EXCEPT ![s] = Unlink(@, old)]
        /\ timer' = [timer EXCEPT ![n] = Nil]
        /\ task' = [task EXCEPT ![old] = gone]
        /\ raced' = IF scan[s] = old THEN raced \cup {s} ELSE raced
    BY <1>2, <2>1 DEF RemoveTask
  <2>5. /\ raced' \in SUBSET Slots /\ raced \subseteq raced'
        /\ \A x \in Slots : scan[x] = old => x \in raced'
    <3>1. \A x \in Slots : scan[x] = old => x = s
      BY <2>1, <2>2, ElementAssumption DEF Wheel, Good, Scanned
    <3>2. raced \in SUBSET Slots
      BY DEF Wheel, Good, Typed
    <3> QED BY <2>2, <2>4, <3>1, <3>2
  <2>6. timer \in [Names -> Elements \cup {Nil}]
    BY DEF Wheel, Good, Typed
  <2>7. /\ timer' \in [Names -> Elements \cup {Nil}]
        /\ \A m \in Names : timer'[m] # Nil => timer'[m] = timer[m] /\ timer[m] # old
    BY <2>2, <2>4, <2>6
  <2>8. Good(slots, timer, task, scan, raced, ticks)
    BY DEF Wheel
  <2>9. Good(slots', timer', task', scan, raced', ticks)
    <3>1. Drops(slots, timer, task, scan, raced, old, gone, slots', timer', task', raced')
      BY <2>1, <2>2, <2>3, <2>4, <2>5, <2>7 DEF Drops
    <3> QED BY ONLY <2>2, <2>8, <3>1, DropKeeps
  <2> QED BY <2>9 DEF Wheel
<1> QED BY <1>1, <1>2

\* addTask
LEMMA AddTaskKeeps ==
    ASSUME Wheel, NEW e \in Elements, NEW key \in Keys, NEW d \in Nat, NEW lost \in BOOLEAN,
           AddTask(e, key, d, lost), UNCHANGED <<pos, ticks, scan>>
    PROVE  Wheel'
<1>0. Good(slots, timer, task, scan, raced, ticks) /\ pos = ticks % SlotNum /\ ticks \in Nat
  BY DEF Wheel, Good, Typed
<1>1. PICK n \in Names : n = key.name
  BY DEF Names
<1>2. PICK s, c : s = (pos + d) % SlotNum /\ c = d \div SlotNum
  OBVIOUS
<1>3. s \in Slots /\ c \in Nat /\ ticks + d + 1 = LastTick(ticks, s) + (c + 1) * SlotNum
  BY <1>0, <1>2, InPlace
<1>4. PICK new : new = [state |-> "listed", key |-> key, slot |-> s, circle |-> c,
                        due |-> ticks + d + 1, ran |-> 0]
  OBVIOUS
<1>5. /\ new \in TaskType /\ new.state = "listed" /\ new.key = key /\ new.slot = s
      /\ new.due = LastTick(ticks, s) + (new.circle + 1) * SlotNum
  BY <1>0, <1>3, <1>4 DEF TaskType
<1>6. PICK old : old = timer[n]
  OBVIOUS
<1>7. PositionAndCircle(d) = [slot |-> s, circle |-> c]
  BY <1>2 DEF PositionAndCircle
<1>8. PICK sl : sl = IF lost THEN slots ELSE [slots EXCEPT ![s] = Append(@, e)]
  OBVIOUS
<1>9. PICK tk : tk = [task EXCEPT ![e] = new]
  OBVIOUS
<1>10. PICK rc : rc = raced \cup {x \in Slots : scan[x] # Nil /\ x = s}
  OBVIOUS
<1>r. /\ raced \in SUBSET Slots /\ rc \in SUBSET Slots /\ raced \subseteq rc
      /\ scan[s] # Nil => s \in rc
  BY <1>0, <1>3, <1>10 DEF Good, Typed
<1>11. /\ task[e].state = "free"
       /\ lost => scan[s] # Nil
       /\ slots' = IF old = Nil THEN sl ELSE [sl EXCEPT ![task[old].slot] = Unlink(@, old)]
       /\ task' = IF old = Nil THEN tk ELSE [task EXCEPT ![e] = new, ![old] = Dropped(old)]
       /\ timer' = [timer EXCEPT ![n] = e]
       /\ raced' = raced \cup {x \in Slots : scan[x] # Nil /\
                                  (x = s \/ (old # Nil /\ scan[x] = old))}
  BY <1>1, <1>4, <1>6, <1>7, <1>8, <1>9 DEF AddTask, Busy
<1>12. Good(sl, timer, tk, scan, rc, ticks)
  <2>1. sl = [slots EXCEPT ![s] = Append(@, e)] \/ (sl = slots /\ scan[s] # Nil)
    BY <1>8, <1>11
  <2>2. new.key \in Keys
    BY <1>5
  <2>3. Pushes(slots, task, scan, raced, ticks, e, new, s, sl, tk, rc)
    BY <1>r, <1>5, <1>9, <1>11, <2>1, <2>2 DEF Pushes
  <2> QED BY ONLY <1>0, <1>3, <2>3, e \in Elements, PushKeeps
<1>13. task \in [Elements -> TaskType] /\ timer \in [Names -> Elements \cup {Nil}]
  BY <1>0 DEF Good, Typed
<1>14. tk[e] = new /\ \A x \in Elements \ {e} : tk[x] = task[x]
  BY <1>9, <1>13
<1>15. CASE old = Nil
  <2>1. raced' = rc
    BY <1>10, <1>11, <1>15
  <2>2. slots' = sl /\ task' = tk /\ timer' = [timer EXCEPT ![tk[e].key.name] = e]
    BY <1>1, <1>5, <1>11, <1>14, <1>15
  <2>3. tk[e].state = "listed"
    BY <1>5, <1>14
  <2>4. Good(sl, timer', tk, scan, rc, ticks)
    BY ONLY <1>12, <2>2, <2>3, e \in Elements, PointKeeps
  <2> QED BY <2>1, <2>2, <2>4 DEF Wheel
<1>16. CASE old # Nil
  <2>1. PICK gone : gone = Dropped(old)
    OBVIOUS
  <2>2. /\ old \in Elements /\ task[old].state = "listed" /\ old # e
        /\ \A m \in Names : timer[m] = old => m = n
    BY <1>6, <1>11, <1>16, TimerIs
  <2>3. /\ gone \in TaskType /\ gone.state \in {"free", "cut"}
        /\ gone.state # "free" => gone.key = task[old].key
        /\ \A x \in Slots : scan[x] = old => gone.state = "cut" /\ gone.slot = x
    BY <2>1, <2>2, DroppedIs
  <2>4. tk[old] = task[old]
    BY <1>14, <2>2
  <2>5. slots' = [sl EXCEPT ![tk[old].slot] = Unlink(@, old)]
    BY <1>11, <1>16, <2>4
  <2>6. task' = [tk EXCEPT ![old] = gone]
    <3>1. task' = [task EXCEPT ![e] = new, ![old] = gone]
      BY <1>11, <1>16, <2>1
    <3> QED BY ONLY <1>9, <1>13, <3>1
  <2>7. /\ raced' \in SUBSET Slots /\ rc \subseteq raced'
        /\ \A x \in Slots : scan[x] = old => x \in raced'
    <3>1. \A x \in Slots : scan[x] = old => scan[x] # Nil
      BY <1>16
    <3> QED BY <1>10, <1>r, <1>11, <1>16, <3>1
  <2>8. PICK tm : tm = [timer EXCEPT ![n] = Nil]
    OBVIOUS
  <2>9. /\ tm \in [Names -> Elements \cup {Nil}]
        /\ \A m \in Names : tm[m] # Nil => tm[m] = timer[m] /\ timer[m] # old
    BY <1>13, <2>2, <2>8
  <2>10. Good(slots', tm, task', scan, raced', ticks)
    <3>1. /\ tk[old].state = "listed"
          /\ gone.state # "free" => gone.key = tk[old].key
      BY <2>2, <2>3, <2>4
    <3>2. Drops(sl, timer, tk, scan, rc, old, gone, slots', tm, task', raced')
      BY <2>2, <2>3, <2>5, <2>6, <2>7, <2>9, <3>1 DEF Drops
    <3> QED BY ONLY <1>12, <2>2, <3>2, DropKeeps
  <2>11. task'[e] = new
    <3>1. tk \in [Elements -> TaskType]
      BY <1>5, <1>9, <1>13
    <3> QED BY <1>14, <2>2, <2>6, <3>1
  <2>12. timer' = [tm EXCEPT ![task'[e].key.name] = e]
    <3>1. task'[e].key.name = n
      BY <1>1, <1>5, <2>11
    <3>2. timer' = [timer EXCEPT ![n] = e]
      BY <1>11
    <3> QED BY ONLY <1>13, <2>8, <3>1, <3>2
  <2>13. task'[e].state = "listed"
    BY <1>5, <2>11
  <2>14. Good(slots', timer', task', scan, raced', ticks)
    BY ONLY <2>10, <2>12, <2>13, e \in Elements, PointKeeps
  <2> QED BY <2>14 DEF Wheel
<1> QED BY <1>15, <1>16

\* tickHandler
LEMMA TickHandlerKeeps ==
    ASSUME Wheel, Tick
    PROVE  Wheel'
<1>1. /\ Good(slots, timer, task, scan, raced, ticks) /\ pos = ticks % SlotNum /\ scan[pos] = Nil
      /\ scan' = [scan EXCEPT ![pos] = First(slots[pos])] /\ ticks \in Nat /\ ticks' = ticks + 1
      /\ pos' = IF pos = SlotNum - 1 THEN 0 ELSE pos + 1
      /\ UNCHANGED <<slots, timer, task, raced>>
  BY DEF Wheel, Good, Typed, Tick, Turn, Busy
<1>2. Good(slots, timer, task, scan', raced, ticks + 1)
  BY ONLY <1>1, TickKeeps
<1>3. pos' = ticks' % SlotNum
  BY <1>1, OneMoreTick
<1> QED BY <1>1, <1>2, <1>3 DEF Wheel

\* scanAndRunTask, one element of it.
LEMMA ScanKeeps ==
    ASSUME Wheel, NEW s \in Slots, ScanPasses(s) \/ ScanRuns(s)
    PROVE  Wheel'
<1>0. /\ Good(slots, timer, task, scan, raced, ticks)
      /\ task \in [Elements -> TaskType] /\ scan \in [Slots -> Elements \cup {Nil}]
  BY DEF Wheel, Good, Typed
<1>1. PICK e : e = scan[s]
  OBVIOUS
<1>2. CASE ScanPasses(s)
  <2>1. e # Nil /\ e \in Elements /\ task[e].circle > 0 /\ task[e] \in TaskType
    BY <1>0, <1>1, <1>2 DEF ScanPasses, Busy
  <2>2. PICK r : r = IF task[e].state = "cut" THEN Unused ELSE [task[e] EXCEPT !.circle = @ - 1]
    OBVIOUS
  <2>3. /\ r \in TaskType
        /\ task[e].state = "cut" => r.state = "free"
        /\ task[e].state # "cut" => r = [task[e] EXCEPT !.circle = @ - 1]
    <3>1. CASE task[e].state = "cut"
      <4>1. r = Unused
        BY <2>2, <3>1
      <4> QED BY <3>1, <4>1, UnusedType DEF Unused
    <3>2. CASE task[e].state # "cut"
      <4>1. task[e].circle - 1 \in Nat
        BY <2>1 DEF TaskType
      <4>2. r = [task[e] EXCEPT !.circle = task[e].circle - 1]
        BY <2>2, <3>2
      <4>3. r \in TaskType
        BY <2>1, <4>1, <4>2 DEF TaskType
      <4> QED BY <2>2, <3>2, <4>3
    <3> QED BY <3>1, <3>2
  <2>4. /\ task' = [task EXCEPT ![e] = r]
        /\ scan' = [scan EXCEPT ![s] = NextIn(slots[s], e)]
        /\ UNCHANGED <<slots, timer, pos, ticks, raced>>
    BY <1>1, <1>2, <2>2 DEF ScanPasses, MoveOn
  <2>5. Good(slots, timer, task', scan', raced, ticks)
    <3>1. Passes(slots, task, scan, s, e, r, task', scan')
      BY <1>1, <2>1, <2>3, <2>4 DEF Passes
    <3> QED BY ONLY <1>0, <3>1, s \in Slots, PassKeeps
  <2> QED BY <2>4, <2>5 DEF Wheel
<1>3. CASE ScanRuns(s)
  <2>1. e # Nil /\ task[e].circle = 0
    BY <1>1, <1>3 DEF ScanRuns, Busy
  <2>2. /\ task' = [task EXCEPT ![e].state = "running", ![e].ran = LastTick(ticks, s)]
        /\ slots' = [slots EXCEPT ![s] = Unlink(@, e)]
        /\ timer' = [timer EXCEPT ![task[e].key.name] = Nil]
        /\ scan' = [scan EXCEPT ![s] = NextIn(slots[s], e)]
        /\ UNCHANGED <<pos, ticks, raced>>
    BY <1>1, <1>3 DEF ScanRuns, MoveOn, TickOf, LastTick
  <2>3. Runs(slots, timer, task, scan, ticks, s, e, slots', timer', task', scan')
    BY <1>1, <2>1, <2>2 DEF Runs
  <2>4. Good(slots', timer', task', scan', raced, ticks)
    BY ONLY <1>0, <2>3, s \in Slots, RunKeeps
  <2> QED BY <2>2, <2>4 DEF Wheel
<1> QED BY <1>2, <1>3

\* The job of Expire up to its Cancel.
LEMMA JobGoesOn ==
    ASSUME Wheel, NEW e \in Elements, JobChecks(e) \/ JobRemoves(e) \/ JobForgets(e)
    PROVE  Wheel'
<1>0. Good(slots, timer, task, scan, raced, ticks) /\ task[e] \in TaskType
  BY DEF Wheel, Good, Typed
<1>1. task[e].state \in Started /\ UNCHANGED <<slots, timer, pos, ticks, scan, raced>>
  BY DEF JobChecks, JobRemoves, JobForgets, Started, Removing
<1>2. PICK r : /\ r = Unused \/ \E x \in Removing : r = [task[e] EXCEPT !.state = x]
               /\ task' = [task EXCEPT ![e] = r]
  <2>1. CASE JobChecks(e)
    <3>1. PICK r : /\ r = IF Past(task[e].key) THEN [task[e] EXCEPT !.state = "remove"] ELSE Unused
                   /\ task' = [task EXCEPT ![e] = r]
      BY <2>1 DEF JobChecks
    <3> QED BY <3>1 DEF Removing
  <2>2. CASE JobRemoves(e)
    BY <2>2 DEF JobRemoves, Removing
  <2>3. CASE JobForgets(e)
    BY <2>3 DEF JobForgets, Removing
  <2> QED BY <2>1, <2>2, <2>3
<1>3. r \in TaskType /\ (r.state = "free" \/ \E x \in Removing : r = [task[e] EXCEPT !.state = x])
  <2>1. Unused.state = "free"
    BY DEF Unused
  <2>2. \A x \in Removing : [task[e] EXCEPT !.state = x] \in TaskType
    BY <1>0 DEF TaskType, Started
  <2> QED BY <1>2, <2>1, <2>2, UnusedType
<1>4. Good(slots, timer, task', scan, raced, ticks)
  BY ONLY <1>0, <1>1, <1>2, <1>3, e \in Elements, JobKeeps
<1> QED BY <1>1, <1>4 DEF Wheel

\* The Cancel of a job.
LEMMA JobCancelsKeeps ==
    ASSUME Wheel, NEW e \in Elements, JobCancels(e)
    PROVE  Wheel'
<1>0. /\ Good(slots, timer, task, scan, raced, ticks) /\ pos = ticks % SlotNum
      /\ task \in [Elements -> TaskType] /\ timer \in [Names -> Elements \cup {Nil}]
      /\ slots \in [Slots -> Seq(Elements)] /\ scan \in [Slots -> Elements \cup {Nil}]
  BY DEF Wheel, Good, Typed
<1>1. task[e].state = "cancel" /\ task[e].key \in Keys
  BY DEF JobCancels, Wheel, Good, Known
<1>2. PICK n \in Names : n = task[e].key.name
  BY <1>1 DEF Names
<1>3. PICK old : old = timer[n]
  OBVIOUS
<1>4. PICK tk : tk = [task EXCEPT ![e] = Unused]
  OBVIOUS
<1>5. Good(slots, timer, tk, scan, raced, ticks)
  <2>1. Unused.state = "free" /\ Unused \in TaskType
    BY UnusedType DEF Unused
  <2>2. PICK r : r = Unused
    OBVIOUS
  <2>3. r.state = "free" /\ r \in TaskType /\ tk = [task EXCEPT ![e] = r]
    BY <1>4, <2>1, <2>2
  <2>4. task[e].state \in Started
    BY <1>1 DEF Started, Removing
  <2> QED BY ONLY <1>0, <2>3, <2>4, e \in Elements, JobKeeps
<1>6. tk[e] = Unused /\ \A x \in Elements \ {e} : tk[x] = task[x]
  BY <1>0, <1>4
<1>7. /\ timer' = [timer EXCEPT ![n] = Nil]
      /\ task' = [d \in Elements |-> CASE d = e -> Unused
                                       [] d = old -> Dropped(d)
                                       [] OTHER -> task[d]]
      /\ slots' = [s \in Slots |-> Unlink(slots[s], old)]
      /\ raced' = raced \cup {s \in Slots : scan[s] # Nil /\ scan[s] = old}
      /\ UNCHANGED <<pos, ticks, scan>>
  BY <1>2, <1>3 DEF JobCancels, Busy
<1>8. CASE old = Nil
  <2>1. timer' = timer /\ raced' = raced
    BY <1>0, <1>3, <1>7, <1>8
  <2>2. slots' = slots
    <3>1. \A s \in Slots : Nil \notin ToSet(slots[s])
      BY <1>0, ElementAssumption DEF ToSet
    <3>2. \A s \in Slots : Unlink(slots[s], old) = slots[s]
      BY <1>8, <3>1 DEF Unlink
    <3> QED BY <1>0, <1>7, <3>2
  <2>3. task' = tk
    <3>1. \A d \in Elements : task'[d] = IF d = e THEN Unused ELSE task[d]
      BY <1>7, <1>8, ElementAssumption
    <3>2. task' = [d \in Elements |-> task'[d]]
      BY <1>7
    <3> QED BY <1>0, <1>4, <3>1, <3>2
  <2> QED BY <1>0, <1>5, <1>7, <2>1, <2>2, <2>3 DEF Wheel
<1>9. CASE old # Nil
  <2>1. PICK gone : gone = Dropped(old)
    OBVIOUS
  <2>2. /\ old \in Elements /\ task[old].state = "listed" /\ old # e
        /\ \A m \in Names : timer[m] = old => m = n
    BY <1>1, <1>3, <1>9, TimerIs
  <2>3. /\ gone \in TaskType /\ gone.state \in {"free", "cut"}
        /\ gone.state # "free" => gone.key = task[old].key
        /\ \A x \in Slots : scan[x] = old => gone.state = "cut" /\ gone.slot = x
    BY <2>1, <2>2, DroppedIs
  <2>4. tk[old] = task[old]
    BY <1>6, <2>2
  <2>5. PICK s \in Slots : s = tk[old].slot
    BY <1>0, <2>2, <2>4 DEF TaskType
  <2>6. slots' = [slots EXCEPT ![s] = Unlink(@, old)]
    <3>1. \A x \in Slots \ {s} : old \notin ToSet(slots[x])
      BY <1>0, <2>4, <2>5 DEF Good, Listed
    <3>2. \A x \in Slots \ {s} : Unlink(slots[x], old) = slots[x]
      BY <3>1 DEF Unlink
    <3> QED BY <1>0, <1>7, <3>2
  <2>7. task' = [tk EXCEPT ![old] = gone]
    <3>1. \A d \in Elements : task'[d] = IF d = e THEN Unused ELSE IF d = old THEN gone ELSE task[d]
      <4> SUFFICES ASSUME NEW d \in Elements
                   PROVE  task'[d] = IF d = e THEN Unused ELSE IF d = old THEN gone ELSE task[d]
        OBVIOUS
      <4>1. task'[d] = CASE d = e -> Unused
                         [] d = old -> Dropped(d)
                         [] OTHER -> task[d]
        BY <1>7
      <4>2. CASE d = e
        BY <2>2, <4>1, <4>2
      <4>3. CASE d = old
        BY <2>1, <2>2, <4>1, <4>3
      <4>4. CASE d # e /\ d # old
        BY <4>1, <4>4
      <4> QED BY <4>2, <4>3, <4>4
    <3>2. task' = [d \in Elements |-> task'[d]]
      BY <1>7
    <3>3. \A d \in Elements : task'[d] = [tk EXCEPT ![old] = gone][d]
      BY <1>0, <1>4, <2>2, <3>1
    <3>4. [tk EXCEPT ![old] = gone] = [d \in Elements |-> [tk EXCEPT ![old] = gone][d]]
      BY <1>0, <1>4
    <3> QED BY ONLY <3>2, <3>3, <3>4
  <2>8. /\ raced' \in SUBSET Slots /\ raced \subseteq raced'
        /\ \A x \in Slots : scan[x] = old => x \in raced'
    <3>1. raced \in SUBSET Slots
      BY <1>0 DEF Good, Typed
    <3> QED BY <1>7, <1>9, <3>1
  <2>9. /\ timer' \in [Names -> Elements \cup {Nil}]
        /\ \A m \in Names : timer'[m] # Nil => timer'[m] = timer[m] /\ timer[m] # old
    BY <1>0, <1>7, <2>2
  <2>10. /\ tk[old].state = "listed" /\ slots' = [slots EXCEPT ![tk[old].slot] = Unlink(@, old)]
         /\ gone.state # "free" => gone.key = tk[old].key
    BY <2>2, <2>3, <2>4, <2>5, <2>6
  <2>11. Good(slots', timer', task', scan, raced', ticks)
    <3>1. Drops(slots, timer, tk, scan, raced, old, gone, slots', timer', task', raced')
      BY <2>2, <2>3, <2>7, <2>8, <2>9, <2>10 DEF Drops
    <3> QED BY ONLY <1>5, <2>2, <3>1, DropKeeps
  <2> QED BY <1>0, <1>7, <2>11 DEF Wheel
<1> QED BY <1>8, <1>9

\* Steps that leave the wheel alone.
LEMMA WheelStays ==
    ASSUME Wheel, UNCHANGED wheel
    PROVE  Wheel'
BY DEF Wheel, wheel

\* An empty wheel.
LEMMA InitWheel == Init => Wheel /\ Bounded
<1> SUFFICES ASSUME Init PROVE Wheel /\ Bounded
  OBVIOUS
<1>1. /\ slots = [s \in Slots |-> <<>>] /\ timer = [n \in Names |-> Nil]
      /\ task = [e \in Elements |-> Unused] /\ pos = 0 /\ ticks = 0
      /\ scan = [s \in Slots |-> Nil] /\ raced = {}
  BY DEF Init, WheelInit
<1>2. \A e \in Elements : task[e] = Unused
  BY <1>1
<1>3. Unused.state = "free"
  BY DEF Unused
<1>4. Typed(slots, timer, task, scan, raced, ticks)
  BY <1>1, UnusedType DEF Typed
<1>5. Listed(slots, task, raced)
  <2>1. \A s \in Slots : slots[s] = <<>> /\ ToSet(slots[s]) = {} /\ Single(slots[s])
    BY <1>1 DEF ToSet, Single
  <2> QED BY <1>2, <1>3, <2>1 DEF Listed
<1>6. Known(timer, task) /\ Scanned(slots, task, scan, raced, ticks)
      /\ Timed(slots, task, scan, raced, ticks)
  BY <1>1, <1>2, <1>3 DEF Known, Scanned, Timed
<1>7. pos = ticks % SlotNum
  <2>1. 0 = SlotNum * 0 + 0 /\ 0 \in 0 .. SlotNum - 1
    BY SlotAssumption
  <2>2. 0 % SlotNum = 0
    BY ONLY <2>1, SlotAssumption, ModIs
  <2> QED BY <1>1, <2>2
<1>8. Bounded
  BY BoundAssumption DEF Init, Bounded, Resting
<1> QED BY <1>4, <1>5, <1>6, <1>7, <1>8 DEF Wheel, Good

\* What asks the wheel for something.
LEMMA OnTheWheel ==
    ASSUME NEW c \in Clients, CommandStep(c)
    PROVE  \/ UNCHANGED wheel \/ Cancel(c)
           \/ \E e \in Elements, lost \in BOOLEAN : AddJob(c, e, lost)
<1> SUFFICES ASSUME ~Cancel(c), \A e \in Elements, lost \in BOOLEAN : ~AddJob(c, e, lost)
             PROVE  UNCHANGED wheel
  OBVIOUS
<1>1. ASSUME NEW k \in Keys, NEW d \in Delays, SetEX(c, k, d) PROVE UNCHANGED wheel
  BY <1>1 DEF SetEX, wheel
<1>2. ASSUME NEW k \in Keys, Set(c, k) \/ Del(c, k) \/ Look(c, k) PROVE UNCHANGED wheel
  BY <1>2 DEF Set, Del, Look, wheel
<1>3. ASSUME NEW j \in Keys, NEW k \in Keys, Copy(c, j, k) PROVE UNCHANGED wheel
  BY <1>3 DEF Copy, wheel
<1>4. CASE Expire(c) \/ NoJob(c) \/ Check(c) \/ RemoveExpired(c) \/ Forget(c)
  BY <1>4 DEF Expire, NoJob, Check, RemoveExpired, Forget, wheel
<1>5. CASE CopyLooks(c) \/ CopyPuts(c) \/ CopyReads(c)
  BY <1>5 DEF CopyLooks, CopyPuts, CopyReads, wheel
<1> QED BY <1>1, <1>2, <1>3, <1>4, <1>5 DEF CommandStep

\* Commands, each with what it asks of the wheel.
LEMMA CommandKeeps ==
    ASSUME IInv, Wheel, Bounded, NEW c \in Clients, CommandStep(c)
    PROVE  Wheel' /\ Bounded'
<1> USE DEF wheel
<1>0. /\ now \in 0 .. MaxTime /\ now \in Int /\ client[c] \in ClientType
      /\ client[c].step # "idle" => client[c].key \in Keys
  BY BoundAssumption DEF Bounded, IInv, Proper
<1>1. Bounded'
  <2>1. now' = now /\ ops' \in 0 .. MaxOps
    <3>1. now' = now
      BY DEF CommandStep, SetEX, Expire, AddJob, NoJob, Set, Del, Look,
         Check, RemoveExpired, Forget, Cancel, Copy, CopyLooks, CopyPuts, CopyReads
    <3>2. ops' = ops \/ (ops < MaxOps /\ ops' = ops + 1)
      BY DEF CommandStep, SetEX, Expire, AddJob, NoJob, Set, Del, Look,
         Check, RemoveExpired, Forget, Cancel, Copy, CopyLooks, CopyPuts, CopyReads, Begin
    <3>3. ops \in 0 .. MaxOps /\ MaxOps \in Nat
      BY BoundAssumption DEF Bounded
    <3> QED BY <3>1, <3>2, <3>3
  <2>2. data' \subseteq Keys
    BY <1>0 DEF Bounded, CommandStep, SetEX, Expire, AddJob, NoJob, Set, Del, Look,
       Check, RemoveExpired, Forget, Cancel, Copy, CopyLooks, CopyPuts, CopyReads
  <2> QED BY <1>0, <2>1, <2>2 DEF Bounded
<1>2. ASSUME NEW e \in Elements, NEW lost \in BOOLEAN, AddJob(c, e, lost)
      PROVE  Wheel'
  <2>1. client[c].step = "add" /\ client[c].at > now /\ UNCHANGED <<pos, ticks, scan>>
    BY <1>2 DEF AddJob
  <2>2. PICK d \in WholeSeconds(client[c].at) : AddTask(e, client[c].key, d, lost)
    BY <1>2 DEF AddJob
  <2>3. d \in Nat
    <3>1. PICK x \in Int, y \in Int : x = client[c].at - now - 1 /\ y = client[c].at - now
      BY <1>0 DEF ClientType
    <3>2. x \in Nat /\ y \in Nat
      BY <1>0, <2>1, <3>1 DEF ClientType
    <3>3. x \div Second \in Nat /\ y \div Second \in Nat
      BY <3>2, ClockAssumption, Quotient
    <3> QED BY <3>1, <3>3 DEF WholeSeconds
  <2>4. client[c].key \in Keys
    BY <1>0, <2>1
  <2> QED BY <2>1, <2>2, <2>3, <2>4, AddTaskKeeps
<1>3. ASSUME Cancel(c) PROVE Wheel'
  <2>1. client[c].step = "cancel" /\ RemoveTask(client[c].key.name) /\ UNCHANGED <<pos, ticks, scan>>
    BY <1>3 DEF Cancel
  <2>2. client[c].key.name \in Names
    BY <1>0, <2>1 DEF Names
  <2> QED BY <2>1, <2>2, RemoveTaskKeeps
<1>4. ASSUME UNCHANGED wheel PROVE Wheel'
  BY <1>4, WheelStays
<1>5. \/ UNCHANGED wheel \/ Cancel(c)
      \/ \E e \in Elements, lost \in BOOLEAN : AddJob(c, e, lost)
  BY OnTheWheel
<1> QED BY <1>1, <1>2, <1>3, <1>4, <1>5

\* Every step.
LEMMA NextWheel == IInv /\ Wheel /\ Bounded /\ [Next]_vars => Wheel' /\ Bounded'
<1> SUFFICES ASSUME IInv, Wheel, Bounded, [Next]_vars PROVE Wheel' /\ Bounded'
  OBVIOUS
<1> USE DEF wheel
<1>1. ASSUME now' \in 0 .. MaxTime, data' \subseteq Keys, UNCHANGED ops PROVE Bounded'
  BY <1>1 DEF Bounded
<1>2. now \in 0 .. MaxTime /\ data \subseteq Keys
  BY DEF Bounded
<1>3. ASSUME NEW c \in Clients, CommandStep(c) PROVE Wheel' /\ Bounded'
  BY <1>3, CommandKeeps
<1>4. ASSUME NEW e \in Elements, JobStep(e) PROVE Wheel' /\ Bounded'
  <2>1. data' \subseteq Keys /\ UNCHANGED <<now, ops>>
    BY <1>2, <1>4 DEF JobStep, JobChecks, JobRemoves, JobForgets, JobCancels
  <2>2. Wheel'
    BY <1>4, JobGoesOn, JobCancelsKeeps DEF JobStep
  <2> QED BY <1>1, <1>2, <2>1, <2>2
<1>6. ASSUME NEW s \in Slots, Scan(s) PROVE Wheel' /\ Bounded'
  <2>1. (ScanPasses(s) \/ ScanRuns(s)) /\ UNCHANGED <<now, data, ops>>
    BY <1>6 DEF Scan
  <2> QED BY <1>1, <1>2, <2>1, ScanKeeps
<1>7. ASSUME Advance PROVE Wheel' /\ Bounded'
  <2>1. now' \in 0 .. MaxTime /\ UNCHANGED <<wheel, data, ops>>
    BY <1>2, <1>7, BoundAssumption DEF Advance
  <2> QED BY <1>1, <1>2, <2>1, WheelStays
<1>8. ASSUME TickerFires PROVE Wheel' /\ Bounded'
  <2>1. Tick /\ UNCHANGED <<now, data, ops>>
    BY <1>8 DEF TickerFires
  <2> QED BY <1>1, <1>2, <2>1, TickHandlerKeeps
<1>9. CASE UNCHANGED vars
  BY <1>1, <1>2, <1>9, WheelStays DEF vars
<1> QED BY <1>3, <1>4, <1>6, <1>7, <1>8, <1>9 DEF Next

\* The wheel's lists, timer, scans and rounds agree in every reachable state.
THEOREM InGear == Spec => [](Wheel /\ Bounded)
BY InitWheel, NextWheel, Commands, PTL DEF Spec

\* TypeOK for every value of the constants: no place of the wheel is out of its range, no
\* count of rounds ever falls below zero, and currentPos stays among the slots.
\* (tickHandler, scanAndRunTask and getPositionAndCircle, timewheel.go:105-167)
THEOREM TypeCorrect == Spec => []TypeOK
<1>1. IInv /\ Wheel /\ Bounded => TypeOK
  <2> SUFFICES ASSUME IInv, Wheel, Bounded PROVE TypeOK
    OBVIOUS
  <2>1. Typed(slots, timer, task, scan, raced, ticks) /\ pos = ticks % SlotNum
    BY DEF Wheel, Good
  <2>2. pos \in Slots
    BY <2>1, OneMoreTick DEF Typed
  <2>3. WheelTypeOK
    BY <2>1, <2>2 DEF WheelTypeOK, Typed, TaskType
  <2>4. data \in SUBSET Keys /\ ttl \in [Keys -> Int] /\ now \in 0..MaxTime /\ ops \in 0..MaxOps
        /\ client \in [Clients -> ClientType] /\ overtaken \in SUBSET (Clients \cup Elements)
    BY DEF Bounded, IInv
  <2> QED BY <2>3, <2>4 DEF TypeOK, ClientType, Steps
<1> QED BY <1>1, InGear, Commands, PTL

\* OnTime for every number of slots and every delay: a job runs in the scan of the tick
\* that its delay asks for, neither a turn of the wheel early nor a turn late, unless the
\* list of its slot was changed under a scan.
\* (getPositionAndCircle, scanAndRunTask and removeTask, timewheel.go:115-179)
THEOREM JobsOnTime == Spec => []OnTime
<1>1. Wheel => OnTime
  <2> SUFFICES ASSUME Wheel, NEW e \in Elements, task[e].state # "free", task[e].slot \notin raced
               PROVE  /\ task[e].state \in Started => task[e].ran = task[e].due
                      /\ task[e].state = "listed" /\ ~Busy(task[e].slot) =>
                            task[e].due > TickOf(task[e].slot)
    BY DEF OnTime
  <2>1. PICK s \in Slots : s = task[e].slot
    BY DEF Wheel, Good, Typed, TaskType
  <2>2. task[e].circle \in Nat /\ ticks \in Nat
    BY DEF Wheel, Good, Typed, TaskType
  <2>3. /\ task[e].state = "listed" =>
              task[e].due = LastTick(ticks, s) +
                 (IF Ahead(slots, task, scan, e) THEN task[e].circle
                  ELSE task[e].circle + 1) * SlotNum
        /\ task[e].state \in Started => task[e].ran = task[e].due
    BY <2>1 DEF Wheel, Good, Timed
  <2>4. ASSUME task[e].state = "listed", ~Busy(s)
        PROVE  task[e].due > LastTick(ticks, s)
    <3>1. ~Ahead(slots, task, scan, e)
      BY <2>1, <2>4 DEF Ahead, Busy
    <3>2. PICK t \in Int : t = LastTick(ticks, s)
      BY <2>2, LastTickIs
    <3>3. PICK n \in Nat : n = task[e].circle
      BY <2>2
    <3>4. task[e].due = t + (n + 1) * SlotNum
      BY <2>3, <2>4, <3>1, <3>2, <3>3
    <3>5. (n + 1) * SlotNum = SlotNum * (n + 1) /\ SlotNum * (n + 1) >= SlotNum * 0 + SlotNum
      BY ONLY n \in Nat, SlotAssumption, Times
    <3> QED BY <3>2, <3>4, <3>5, SlotAssumption
  <2>5. TickOf(s) = LastTick(ticks, s)
    BY DEF TickOf, LastTick
  <2> QED BY <2>1, <2>3, <2>4, <2>5
<1> QED BY <1>1, InGear, PTL

-------------------------------------------------------------------------------
(* Keys that live out their time *)

\* Who holds a lock excludes the others, jobs included.
Locked ==
    /\ \A c, d \in Clients :
          c # d /\ ~Idle(c) /\ ~Idle(d) /\ client[c].key = client[d].key /\ client[c].lock = "write" =>
              client[d].lock = "none"
    /\ \A c \in Clients : ~Idle(c) /\ client[c].lock # "none" => ~JobHolds(client[c].key)
    /\ \A e, f \in Elements :
          e # f /\ task[e].state \in Removing /\ task[f].state \in Removing => task[e].key # task[f].key

\* A key about to be removed under its lock is still past its deadline, or gone, unless it
\* has been put or given a deadline with no lock.
Overdue ==
    /\ \A c \in Clients :
          client[c].step = "remove" /\ client[c].lock = "read" /\ c \notin overtaken =>
              Past(client[c].key) \/ client[c].key \notin data
    /\ \A e \in Elements :
          task[e].state = "remove" /\ e \notin overtaken => Past(task[e].key) \/ task[e].key \notin data

\* No job gets further than it was, but for JobChecks.
JobsStay ==
    \A e \in Elements : task'[e].state \in Removing =>
        /\ task[e].state \in Removing /\ task'[e].key = task[e].key
        /\ task'[e].state = "remove" => task[e].state = "remove"

\* What is removed blindly stays known, and a key changes only where its removers are.
Spares(k) ==
    /\ now' >= now
    /\ \A j \in Keys \ {k} : ttl'[j] = ttl[j] /\ (j \in data' => j \in data)
    /\ \A c \in Clients : c \in overtaken => c \in overtaken' \/ client'[c].step # "remove"
    /\ \A e \in Elements : e \in overtaken => e \in overtaken' \/ task'[e].state # "remove"
    /\ \/ k \notin data'
       \/ ttl'[k] = ttl[k] /\ k \in data
       \/ /\ \A c \in Clients : client[c].step = "remove" /\ client[c].lock = "read" /\ client[c].key = k =>
                 c \in overtaken'
          /\ \A e \in Elements : task[e].state = "remove" /\ task[e].key = k => e \in overtaken'

\* The elements of a wheel as they are in every state.
LEMMA TasksAre ==
    ASSUME Wheel
    PROVE  /\ task \in [Elements -> TaskType] /\ timer \in [Names -> Elements \cup {Nil}]
           /\ scan \in [Slots -> Elements \cup {Nil}]
           /\ \A e \in Elements : task[e].state \in Removing => task[e].key \in Keys
BY DEF Wheel, Good, Typed, Known

LEMMA DroppedStays ==
    ASSUME NEW e
    PROVE  Dropped(e).state \notin Removing \/ ~(task[e] \in TaskType)
<1>1. ASSUME task[e] \in TaskType PROVE [task[e] EXCEPT !.state = "cut"].state = "cut"
  BY <1>1 DEF TaskType
<1> QED BY <1>1 DEF Dropped, Unused

\* The wheel takes nothing further.
LEMMA WheelJobsStay ==
    ASSUME Wheel,
           \/ UNCHANGED wheel
           \/ \E n \in Names : RemoveTask(n)
           \/ \E e \in Elements : \E k, d, lost : AddTask(e, k, d, lost)
           \/ Tick \/ \E s \in Slots : ScanPasses(s) \/ ScanRuns(s)
    PROVE  JobsStay
<1>0. /\ task \in [Elements -> TaskType] /\ timer \in [Names -> Elements \cup {Nil}]
      /\ scan \in [Slots -> Elements \cup {Nil}]
  BY TasksAre
<1>1. ASSUME NEW e \in Elements, NEW r, task' = [task EXCEPT ![e] = r],
             \/ r.state \notin Removing
             \/ r.state = task[e].state /\ r.key = task[e].key
      PROVE  JobsStay
  BY <1>0, <1>1 DEF JobsStay
<1>2. CASE UNCHANGED task
  BY <1>2 DEF JobsStay
<1>3. ASSUME NEW n \in Names, RemoveTask(n) PROVE JobsStay
  <2>1. CASE timer[n] = Nil
    BY <1>2, <1>3, <2>1 DEF RemoveTask
  <2>2. CASE timer[n] # Nil
    <3>1. timer[n] \in Elements /\ task' = [task EXCEPT ![timer[n]] = Dropped(timer[n])]
      BY <1>0, <1>3, <2>2 DEF RemoveTask
    <3>2. Dropped(timer[n]).state \notin Removing
      BY <1>0, <3>1, DroppedStays
    <3> QED BY <1>1, <3>1, <3>2
  <2> QED BY <2>1, <2>2
<1>4. ASSUME NEW e \in Elements, NEW k, NEW d, NEW lost, AddTask(e, k, d, lost) PROVE JobsStay
  <2>1. PICK old : old = timer[k.name]
    OBVIOUS
  <2>0. PICK p : p = PositionAndCircle(d)
    OBVIOUS
  <2>a. PICK new : new = [state |-> "listed", key |-> k, slot |-> p.slot, circle |-> p.circle,
                          due |-> ticks + d + 1, ran |-> 0]
    OBVIOUS
  <2>b. new.state = "listed"
    BY <2>a
  <2>2. task' = IF old = Nil THEN [task EXCEPT ![e] = new]
                ELSE [task EXCEPT ![e] = new, ![old] = Dropped(old)]
    BY <1>4, <2>0, <2>1, <2>a DEF AddTask
  <2>3. CASE old = Nil \/ old \notin Elements
    <3>1. task' = [task EXCEPT ![e] = new]
      <4>1. CASE old = Nil
        BY <2>2, <4>1
      <4>2. CASE old \notin Elements
        BY <1>0, <2>2, <4>2
      <4> QED BY <2>3, <4>1, <4>2
    <3> QED BY <1>1, <2>b, <3>1
  <2>4. CASE old # Nil /\ old \in Elements
    <3>1. Dropped(old).state \notin Removing
      BY <1>0, <2>4, DroppedStays
    <3>2. PICK gone : gone = Dropped(old)
      OBVIOUS
    <3>3. \A x \in Elements : task'[x] = task[x] \/ task'[x].state \notin Removing
      BY <1>0, <2>2, <2>b, <2>4, <3>1, <3>2
    <3> QED BY <3>3 DEF JobsStay
  <2> QED BY <2>3, <2>4
<1>5. ASSUME NEW s \in Slots, ScanPasses(s) PROVE JobsStay
  <2>1. scan[s] \in Elements /\ task[scan[s]] \in TaskType
    BY <1>0, <1>5 DEF ScanPasses, Busy
  <2>2. PICK r : /\ r = IF task[scan[s]].state = "cut" THEN Unused
                        ELSE [task[scan[s]] EXCEPT !.circle = @ - 1]
                 /\ task' = [task EXCEPT ![scan[s]] = r]
    BY <1>5 DEF ScanPasses
  <2>3. \/ r.state \notin Removing
        \/ r.state = task[scan[s]].state /\ r.key = task[scan[s]].key
    BY <2>1, <2>2 DEF Unused, TaskType
  <2> QED BY <1>1, <2>1, <2>2, <2>3
<1>6. ASSUME NEW s \in Slots, ScanRuns(s) PROVE JobsStay
  <2>1. scan[s] \in Elements /\ task[scan[s]] \in TaskType
    BY <1>0, <1>6 DEF ScanRuns, Busy
  <2>2. PICK r : r = [task[scan[s]] EXCEPT !.state = "running", !.ran = TickOf(s)]
    OBVIOUS
  <2>a. task' = [task EXCEPT ![scan[s]] = r]
    BY <1>0, <1>6, <2>1, <2>2 DEF ScanRuns
  <2>3. r.state = "running"
    BY <2>1, <2>2 DEF TaskType
  <2> QED BY <1>1, <2>1, <2>a, <2>3
<1>7. CASE Tick
  BY <1>2, <1>7 DEF Tick
<1>8. CASE UNCHANGED wheel
  BY <1>2, <1>8 DEF wheel
<1> QED BY <1>3, <1>4, <1>5, <1>6, <1>7, <1>8

\* The locks of a command that begins, goes on or ends.
LEMMA CommandLocks ==
    ASSUME IInv, Locked, NEW c \in Clients, NEW r, Moves(c, r), JobsStay
    PROVE  Locked'
<1>1. /\ \A d \in Clients : client'[d] = IF d = c THEN r ELSE client[d]
      /\ client[c] \in ClientType /\ r \in ClientType
  BY DEF IInv, Moves
<1>2. \A k : JobHolds(k)' => JobHolds(k)
  BY DEF JobsStay, JobHolds
<1>3. \A k : MayRead(k) => ~JobHolds(k) /\
          \A d \in Clients : ~Idle(d) /\ client[d].key = k => client[d].lock # "write"
  BY DEF MayRead, Lockers
<1>4. \A k : MayWrite(k) => ~JobHolds(k) /\
          \A d \in Clients : ~Idle(d) /\ client[d].key = k => client[d].lock \notin {"write", "read"}
  BY DEF MayWrite, MayRead, Lockers
<1>5. \A d \in Clients : client[d].lock \in {"write", "read", "none"}
  BY DEF IInv, ClientType
<1>6. \A d \in Clients : Idle(d)' <=> client'[d].step = "idle"
  BY DEF Idle
<1>7. \A d \in Clients \ {c} : ~Idle(d)' => ~Idle(d)
  BY <1>1, <1>6 DEF Idle
<1>8. r.lock \in {"write", "read", "none"}
  BY <1>1 DEF ClientType
<1>9. CASE r.step = "idle"
  <2>1. \A d \in Clients : ~Idle(d)' => d # c /\ ~Idle(d) /\ client'[d] = client[d]
    BY <1>1, <1>6, <1>7, <1>9
  <2> QED BY <1>2, <2>1 DEF Locked, JobsStay
<1>10. CASE ~Idle(c) /\ r.lock = client[c].lock /\ (r.lock # "none" => r.key = client[c].key)
  <2>1. \A d \in Clients : ~Idle(d)' =>
            /\ ~Idle(d) /\ client'[d].lock = client[d].lock
            /\ client'[d].lock # "none" => client'[d].key = client[d].key
    BY <1>1, <1>7, <1>10
  <2>2. ASSUME NEW a \in Clients, NEW b \in Clients, a # b, ~Idle(a)', ~Idle(b)',
               client'[a].key = client'[b].key, client'[a].lock = "write", client'[b].lock # "none"
        PROVE  FALSE
    BY <2>1, <2>2 DEF Locked
  <2>3. \A d \in Clients : ~Idle(d)' /\ client'[d].lock # "none" => ~JobHolds(client[d].key)'
    <3> SUFFICES ASSUME NEW d \in Clients, ~Idle(d)', client'[d].lock # "none"
                 PROVE  ~JobHolds(client[d].key)'
      OBVIOUS
    <3>1. ~JobHolds(client[d].key) /\ client'[d].key = client[d].key
      BY <2>1 DEF Locked
    <3> QED BY <1>2, <3>1 DEF JobsStay, JobHolds
  <2> QED BY <2>2, <2>3 DEF Locked, JobsStay
<1>11. CASE Idle(c) /\ r.step # "idle" /\ (r.lock = "write" => MayWrite(r.key))
            /\ (r.lock = "read" => MayRead(r.key))
  <2>1. r.lock # "none" => ~JobHolds(r.key)
    BY <1>3, <1>4, <1>8, <1>11
  <2>2. ASSUME NEW a \in Clients, NEW b \in Clients, a # b, ~Idle(a)', ~Idle(b)',
               client'[a].key = client'[b].key, client'[a].lock = "write", client'[b].lock # "none"
        PROVE  FALSE
    <3>1. CASE a = c
      <4>1. ~Idle(b) /\ client'[b] = client[b] /\ MayWrite(r.key) /\ client[b].key = r.key
        BY <1>1, <1>7, <1>11, <2>2, <3>1
      <4> QED BY <1>4, <1>5, <2>2, <4>1
    <3>2. CASE b = c
      <4>1. ~Idle(a) /\ client'[a] = client[a] /\ r.lock \in {"write", "read"} /\ client[a].key = r.key
        BY <1>1, <1>7, <1>8, <2>2, <3>2
      <4> QED BY <1>3, <1>4, <1>11, <2>2, <4>1
    <3>3. CASE a # c /\ b # c
      BY <1>1, <1>7, <2>2, <3>3 DEF Locked
    <3> QED BY <3>1, <3>2, <3>3
  <2>3. \A d \in Clients : ~Idle(d)' /\ client'[d].lock # "none" => ~JobHolds(client[d].key)'
    <3> SUFFICES ASSUME NEW d \in Clients, ~Idle(d)', client'[d].lock # "none"
                 PROVE  ~JobHolds(client[d].key)'
      OBVIOUS
    <3>1. ~JobHolds(client'[d].key)
      BY <1>1, <1>7, <2>1 DEF Locked
    <3> QED BY <3>1 DEF JobsStay, JobHolds
  <2> QED BY <2>2, <2>3 DEF Locked, JobsStay
<1> QED BY <1>9, <1>10, <1>11 DEF Moves

\* The keys about to be removed, beside a step that spares them.
LEMMA SparedStays ==
    ASSUME IInv, IInv', Wheel, Overdue, NEW k, Spares(k),
           \A c \in Clients : client'[c].step = "remove" =>
               \/ client'[c] = client[c]
               \/ client'[c].key \in Keys /\ Past(client[c].key)' /\ UNCHANGED <<data, ttl, now>>,
           \A e \in Elements : task'[e].state = "remove" =>
               \/ task[e].state = "remove" /\ task'[e].key = task[e].key
               \/ Past(task[e].key)'
    PROVE  Overdue'
<1>0. /\ ttl \in [Keys -> Int] /\ now \in Int
      /\ \A c \in Clients : client[c].step = "remove" => client[c].key \in Keys
      /\ \A e \in Elements : task[e].state = "remove" => task[e].key \in Keys
      /\ now' \in Int /\ ttl' \in [Keys -> Int]
  BY TasksAre DEF IInv, Proper, Removing
<1>1. ASSUME NEW j \in Keys, Past(j) \/ j \notin data, j # k \/ k \notin data' \/ (ttl'[k] = ttl[k] /\ k \in data)
      PROVE  Past(j)' \/ j \notin data'
  <2>1. j \notin data' \/ (ttl'[j] = ttl[j] /\ (j \in data' => j \in data) /\ now' >= now)
    BY <1>1 DEF Spares
  <2> QED BY <1>0, <1>1, <2>1 DEF Past
<1>2. ASSUME NEW c \in Clients, client'[c].step = "remove", client'[c].lock = "read", c \notin overtaken'
      PROVE  Past(client[c].key)' \/ client'[c].key \notin data'
  <2>1. CASE Past(client[c].key)'
    BY <2>1
  <2>2. CASE client'[c] = client[c]
    <3>1. c \notin overtaken /\ client[c].key \in Keys
      BY <1>0, <1>2, <2>2 DEF Spares
    <3>2. Past(client[c].key) \/ client[c].key \notin data
      BY <1>2, <2>2, <3>1 DEF Overdue
    <3>3. client[c].key # k \/ k \notin data' \/ (ttl'[k] = ttl[k] /\ k \in data)
      BY <1>2, <2>2 DEF Spares
    <3> QED BY <1>1, <1>2, <2>2, <3>1, <3>2, <3>3
  <2> QED BY <1>2, <2>1, <2>2
<1>3. ASSUME NEW e \in Elements, task'[e].state = "remove", e \notin overtaken'
      PROVE  Past(task[e].key)' \/ task'[e].key \notin data'
  <2>1. CASE Past(task[e].key)'
    BY <2>1
  <2>2. CASE task[e].state = "remove" /\ task'[e].key = task[e].key
    <3>1. e \notin overtaken /\ task[e].key \in Keys
      BY <1>0, <1>3, <2>2 DEF Spares
    <3>2. Past(task[e].key) \/ task[e].key \notin data
      BY <2>2, <3>1 DEF Overdue
    <3>3. task[e].key # k \/ k \notin data' \/ (ttl'[k] = ttl[k] /\ k \in data)
      BY <1>3, <2>2 DEF Spares
    <3> QED BY <1>1, <1>3, <2>2, <3>1, <3>2, <3>3
  <2> QED BY <1>3, <2>1, <2>2
<1> QED BY <1>2, <1>3 DEF Overdue

\* The commands spare the keys of others, or mark who removes them.
LEMMA CommandSpares ==
    ASSUME IInv, Wheel, Locked, NEW c \in Clients, CommandStep(c)
    PROVE  \E k : Spares(k)
<1>0. /\ now \in Int /\ ttl \in [Keys -> Int] /\ overtaken \subseteq Clients \cup Elements
      /\ client[c] \in ClientType /\ Proper(client[c])
  BY DEF IInv
<1>1. \A k : Removers(k) = {d \in Clients : client[d].step = "remove" /\ client[d].key = k}
                           \cup {e \in Elements : task[e].state = "remove" /\ task[e].key = k}
  BY DEF Removers
<1>2. ASSUME UNCHANGED <<now, data, ttl, overtaken>> PROVE \A k : Spares(k)
  BY <1>0, <1>2 DEF Spares
<1>3. ASSUME NEW k \in Keys, MayWrite(k), UNCHANGED <<now, ttl, overtaken>>,
             data' = data \cup {k} \/ data' = data \ {k}
      PROVE  Spares(k)
  <2>1. \A d \in Clients : client[d].step = "remove" /\ client[d].lock = "read" => client[d].key # k
    BY <1>3 DEF MayWrite, Lockers, Idle
  <2>2. \A e \in Elements : task[e].state = "remove" => task[e].key # k
    BY <1>3 DEF MayWrite, MayRead, JobHolds, Removing
  <2> QED BY <1>0, <1>3, <2>1, <2>2 DEF Spares
<1>4. ASSUME client[c].step \in {"expire", "forget", "put"}, now' = now, Overtake(c),
             \A j \in Keys \ {client[c].key} : ttl'[j] = ttl[j] /\ (j \in data' => j \in data)
      PROVE  Spares(client[c].key)
  <2>1. PICK k : k = client[c].key
    OBVIOUS
  <2>2. overtaken \subseteq overtaken'
    BY <1>4 DEF Overtake
  <2>3. CASE client[c].lock = "write"
    <3>1. \A d \in Clients : client[d].step = "remove" /\ client[d].lock = "read" => client[d].key # k
      BY <1>4, <2>1, <2>3 DEF Locked, Idle
    <3>2. ~JobHolds(k)
      BY <1>4, <2>1, <2>3 DEF Locked, Idle
    <3>3. \A e \in Elements : task[e].state = "remove" => task[e].key # k
      BY <3>2 DEF JobHolds, Removing
    <3> QED BY <1>0, <1>4, <2>1, <2>2, <3>1, <3>3 DEF Spares
  <2>4. CASE client[c].lock # "write" /\ k \in data'
    <3>1. overtaken' = overtaken \cup Removers(k)
      BY <1>4, <2>1, <2>4 DEF Overtake
    <3> QED BY <1>0, <1>1, <1>4, <2>1, <2>2, <3>1 DEF Spares
  <2>5. CASE k \notin data'
    BY <1>0, <1>4, <2>1, <2>2, <2>5 DEF Spares
  <2> QED BY <2>1, <2>3, <2>4, <2>5
<1>5. ASSUME NEW k \in Keys, NEW d \in Delays, SetEX(c, k, d) PROVE \E j : Spares(j)
  BY <1>3, <1>5 DEF SetEX
<1>6. ASSUME NEW k \in Keys, Set(c, k) \/ Del(c, k) PROVE \E j : Spares(j)
  BY <1>3, <1>6 DEF Set, Del
<1>7. CASE Expire(c)
  BY <1>0, <1>4, <1>7 DEF Expire
<1>8. CASE Forget(c)
  BY <1>0, <1>4, <1>8 DEF Forget
<1>9. CASE CopyPuts(c)
  BY <1>4, <1>9 DEF CopyPuts
<1>10. CASE RemoveExpired(c)
  <2>1. PICK k : k = client[c].key
    OBVIOUS
  <2>2. data' = data \ {k} /\ overtaken' = overtaken \ {c} /\ UNCHANGED <<now, ttl>>
    BY <1>10, <2>1 DEF RemoveExpired
  <2>3. client'[c].step = "forget"
    BY <1>0, <1>10 DEF RemoveExpired, Step, IInv, ClientType
  <2>4. c \notin Elements
    BY GoroutineAssumption
  <2> QED BY <1>0, <2>2, <2>3, <2>4 DEF Spares
<1>11. ASSUME NEW k \in Keys, Look(c, k) PROVE \E j : Spares(j)
  BY <1>2, <1>11 DEF Look
<1>12. ASSUME NEW j \in Keys, NEW k \in Keys, Copy(c, j, k) PROVE \E i : Spares(i)
  BY <1>2, <1>12 DEF Copy
<1>13. CASE NoJob(c) \/ Check(c) \/ Cancel(c) \/ CopyLooks(c) \/ CopyReads(c)
  BY <1>2, <1>13 DEF NoJob, Check, Cancel, CopyLooks, CopyReads
<1>14. ASSUME NEW e \in Elements, NEW lost \in BOOLEAN, AddJob(c, e, lost) PROVE \E j : Spares(j)
  BY <1>2, <1>14 DEF AddJob
<1> QED BY <1>5, <1>6, <1>7, <1>8, <1>9, <1>10, <1>11, <1>12, <1>13, <1>14 DEF CommandStep

\* Jobs that go on keep their locks.
LEMMA JobLocks ==
    ASSUME Locked, JobsStay, UNCHANGED client
    PROVE  Locked'
BY DEF Locked, JobsStay, JobHolds, Idle

LEMMA JobSafe ==
    ASSUME IInv, IInv', Wheel, Locked, Overdue, NEW e \in Elements, JobStep(e)
    PROVE  Locked' /\ Overdue'
<1>0. /\ task \in [Elements -> TaskType] /\ task[e] \in TaskType
      /\ now \in Int /\ ttl \in [Keys -> Int]
  BY TasksAre DEF IInv
<1>1. UNCHANGED <<client, now>>
  BY DEF JobStep, JobChecks, JobRemoves, JobForgets, JobCancels
<1>2. ASSUME JobsStay, NEW k, Spares(k) PROVE Locked' /\ Overdue'
  <2>1. \A f \in Elements : task'[f].state = "remove" =>
            task[f].state = "remove" /\ task'[f].key = task[f].key
    BY <1>2 DEF JobsStay, Removing
  <2> QED BY <1>1, <1>2, <2>1, JobLocks, SparedStays
<1>3. CASE JobChecks(e)
  <2>1. UNCHANGED <<data, ttl, overtaken>> /\ MayWrite(task[e].key)
    BY <1>3 DEF JobChecks
  <2>2. \A k : Spares(k)
    BY <1>0, <1>1, <2>1 DEF Spares
  <2>3. CASE Past(task[e].key)
    <3>1. PICK r : r = [task[e] EXCEPT !.state = "remove"]
      OBVIOUS
    <3>2. r.state = "remove" /\ r.key = task[e].key /\ task' = [task EXCEPT ![e] = r]
      BY <1>0, <1>3, <2>3, <3>1 DEF JobChecks, TaskType
    <3>3. \A f \in Elements : task'[f] = IF f = e THEN r ELSE task[f]
      BY <1>0, <3>2
    <3>4. \A c \in Clients : ~Idle(c) /\ client[c].lock # "none" => client[c].key # task[e].key
      <4>1. \A c \in Clients : client[c].lock \in {"write", "read", "none"}
        BY DEF IInv, ClientType
      <4> QED BY <2>1, <4>1 DEF MayWrite, MayRead, Lockers
    <3>5. \A f \in Elements : task[f].state \in Removing => task[f].key # task[e].key
      BY <2>1 DEF MayWrite, MayRead, JobHolds
    <3>6. \A k : JobHolds(k)' => JobHolds(k) \/ k = task[e].key
      BY <3>2, <3>3 DEF JobHolds
    <3>7. Locked'
      BY <1>1, <3>2, <3>3, <3>4, <3>5, <3>6 DEF Locked, Idle
    <3>8. Past(task[e].key)'
      BY <1>1, <2>1, <2>3, <3>2, <3>3 DEF Past
    <3>9. \A f \in Elements : task'[f].state = "remove" =>
              (task[f].state = "remove" /\ task'[f].key = task[f].key) \/ Past(task[f].key)'
      BY <3>3, <3>8
    <3> QED BY <1>1, <2>2, <3>7, <3>9, SparedStays
  <2>4. CASE ~Past(task[e].key)
    <3>1. task' = [task EXCEPT ![e] = Unused]
      BY <1>3, <2>4 DEF JobChecks
    <3>2. JobsStay
      BY <1>0, <3>1 DEF JobsStay, Unused, Removing
    <3> QED BY <1>2, <2>2, <3>2
  <2> QED BY <2>3, <2>4
<1>4. CASE JobRemoves(e)
  <2>1. PICK k : k = task[e].key
    OBVIOUS
  <2>2. /\ task[e].state = "remove" /\ data' = data \ {k} /\ overtaken' = overtaken \ {e}
        /\ task' = [task EXCEPT ![e].state = "forget"] /\ ttl' = ttl
    BY <1>4, <2>1 DEF JobRemoves
  <2>3. /\ \A f \in Elements \ {e} : task'[f] = task[f]
        /\ task'[e].state = "forget" /\ task'[e].key = k
    BY <1>0, <2>1, <2>2 DEF TaskType
  <2>4. JobsStay
    BY <2>1, <2>2, <2>3 DEF JobsStay, Removing
  <2>5. e \notin Clients
    BY GoroutineAssumption
  <2>6. Spares(k)
    BY <1>0, <1>1, <2>2, <2>3, <2>5 DEF Spares
  <2> QED BY <1>2, <2>4, <2>6
<1>5. CASE JobForgets(e)
  <2>1. PICK k : k = task[e].key
    OBVIOUS
  <2>2. /\ task[e].state = "forget" /\ ttl' = [ttl EXCEPT ![k] = Never]
        /\ task' = [task EXCEPT ![e].state = "cancel"] /\ UNCHANGED <<data, overtaken>>
    BY <1>5, <2>1 DEF JobForgets
  <2>3. /\ \A f \in Elements \ {e} : task'[f] = task[f]
        /\ task'[e].state = "cancel" /\ task'[e].key = k
    BY <1>0, <2>1, <2>2 DEF TaskType
  <2>4. JobsStay
    BY <2>1, <2>2, <2>3 DEF JobsStay, Removing
  <2>5. JobHolds(k)
    BY <2>1, <2>2 DEF JobHolds, Removing
  <2>6. \A c \in Clients : client[c].step = "remove" /\ client[c].lock = "read" => client[c].key # k
    BY <2>5 DEF Locked, Idle
  <2>7. \A f \in Elements : task[f].state = "remove" => task[f].key # k
    <3> SUFFICES ASSUME NEW f \in Elements, task[f].state = "remove", task[f].key = k PROVE FALSE
      OBVIOUS
    <3>1. f # e /\ task[f].state \in Removing /\ task[e].state \in Removing
      BY <2>2 DEF Removing
    <3> QED BY <2>1, <3>1 DEF Locked
  <2>8. Spares(k)
    BY <1>0, <1>1, <2>2, <2>6, <2>7 DEF Spares
  <2> QED BY <1>2, <2>4, <2>8
<1>6. CASE JobCancels(e)
  <2>1. /\ UNCHANGED <<data, ttl, overtaken>>
        /\ \A d \in Elements : task'[d] = CASE d = e -> Unused
                                            [] d = timer[task[e].key.name] -> Dropped(d)
                                            [] OTHER -> task[d]
    BY <1>6 DEF JobCancels
  <2>2. \A d \in Elements : task'[d] = task[d] \/ task'[d] = Unused \/ task'[d] = Dropped(d)
    BY <2>1
  <2>3. \A d \in Elements : task'[d] = task[d] \/ task'[d].state \notin Removing
    BY <1>0, <2>2, DroppedStays DEF Unused, Removing
  <2>4. JobsStay
    BY <2>3 DEF JobsStay
  <2>5. \A k : Spares(k)
    BY <1>0, <1>1, <2>1 DEF Spares
  <2> QED BY <1>2, <2>4, <2>5
<1> QED BY <1>3, <1>4, <1>5, <1>6 DEF JobStep

LEMMA InitSafe == Init => Locked /\ Overdue
<1> SUFFICES ASSUME Init PROVE Locked /\ Overdue
  OBVIOUS
<1>1. \A c \in Clients : Idle(c) /\ client[c].step = "idle"
  BY RestingType DEF Init, Idle
<1>2. \A e \in Elements : task[e].state = "free"
  BY DEF Init, WheelInit, Unused
<1> QED BY <1>1, <1>2 DEF Locked, Overdue, JobHolds, Removing

LEMMA NextSafe ==
    IInv /\ IInv' /\ Wheel /\ Locked /\ Overdue /\ [Next]_vars => Locked' /\ Overdue'
<1> SUFFICES ASSUME IInv, IInv', Wheel, Locked, Overdue, [Next]_vars PROVE Locked' /\ Overdue'
  OBVIOUS
<1>0. now \in Int /\ ttl \in [Keys -> Int]
  BY DEF IInv
<1>1. ASSUME JobsStay, UNCHANGED <<client, data, ttl, overtaken>>, now' >= now
      PROVE  Locked' /\ Overdue'
  <2>1. \A f \in Elements : task'[f].state = "remove" =>
            task[f].state = "remove" /\ task'[f].key = task[f].key
    BY <1>1 DEF JobsStay, Removing
  <2>2. \A k : Spares(k)
    BY <1>0, <1>1 DEF Spares
  <2> QED BY <1>1, <2>1, <2>2, JobLocks, SparedStays
<1>2. ASSUME NEW c \in Clients, CommandStep(c) PROVE Locked' /\ Overdue'
  <2>1. PICK r : Moves(c, r)
    BY <1>2, CommandMoves
  <2>2. JobsStay
    <3>1. ASSUME NEW e \in Elements, NEW lost \in BOOLEAN, AddJob(c, e, lost) PROVE JobsStay
      BY <3>1, WheelJobsStay DEF AddJob
    <3>2. ASSUME Cancel(c) PROVE JobsStay
      <4>1. client[c].key.name \in Names /\ RemoveTask(client[c].key.name)
        BY <3>2 DEF Cancel, IInv, Proper, Names
      <4> QED BY <4>1, WheelJobsStay
    <3> QED BY <1>2, <3>1, <3>2, OnTheWheel, WheelJobsStay
  <2>3. PICK k : Spares(k)
    BY <1>2, CommandSpares
  <2>4. \A d \in Clients : client'[d].step = "remove" =>
            \/ client'[d] = client[d]
            \/ client'[d].key \in Keys /\ Past(client[d].key)' /\ UNCHANGED <<data, ttl, now>>
    <3>1. \A d \in Clients : client'[d] = IF d = c THEN r ELSE client[d]
      BY <2>1 DEF IInv, Moves
    <3>2. r.step = "remove" => r.key \in Keys /\ Past(r.key) /\ UNCHANGED <<data, ttl, now>>
      BY <2>1 DEF Moves, Proper
    <3> QED BY <3>1, <3>2 DEF Past
  <2>5. \A f \in Elements : task'[f].state = "remove" =>
            task[f].state = "remove" /\ task'[f].key = task[f].key
    BY <2>2 DEF JobsStay, Removing
  <2> QED BY <2>1, <2>2, <2>3, <2>4, <2>5, CommandLocks, SparedStays
<1>3. ASSUME NEW e \in Elements, JobStep(e) PROVE Locked' /\ Overdue'
  BY <1>3, JobSafe
<1>4. ASSUME NEW s \in Slots, Scan(s) PROVE Locked' /\ Overdue'
  BY <1>0, <1>1, <1>4, WheelJobsStay DEF Scan
<1>5. CASE Advance
  BY <1>0, <1>1, <1>5, WheelJobsStay DEF Advance
<1>6. CASE TickerFires
  BY <1>0, <1>1, <1>6, WheelJobsStay DEF TickerFires
<1>7. CASE UNCHANGED vars
  BY <1>0, <1>1, <1>7, WheelJobsStay DEF vars, wheel
<1> QED BY <1>2, <1>3, <1>4, <1>5, <1>6, <1>7 DEF Next

\* Locks exclude, and a deadline that a goroutine or job with a lock has seen to pass is
\* still past when it removes the key, in every reachable state, unless COPY, or a step
\* that undoes what COPY did, has come in between.  (GetEntity and the job of Expire hold
\* the lock between the two steps, database.go:171-210; COPY has none, keys.go:350-374)
THEOREM Invariance == Spec => [](Locked /\ Overdue)
<1>1. Init => Locked /\ Overdue
  BY InitSafe
<1>2. IInv /\ IInv' /\ Wheel /\ Locked /\ Overdue /\ [Next]_vars => (Locked /\ Overdue)'
  BY NextSafe
<1> QED BY <1>1, <1>2, Commands, InGear, PTL DEF Spec

\* KeysLiveOut for every value of the constants: a key that is there stays until the
\* deadline it has at that moment, unless DEL removes it, COPY, which has no lock, or who
\* has been overtaken by COPY.  (IsExpired and the job of Expire, database.go:171-215)
THEOREM LivesOut == Spec => KeysLiveOut
<1> DEFINE Kept ==
      \A k \in data \ data' :
          \/ Past(k)
          \/ \E c \in Clients : Idle(c) /\ client'[c].step = "forget" /\ client'[c].key = k
          \/ \E c \in Clients : RemovesBlindly(c, k)
          \/ \E e \in Elements \cap overtaken : task[e].state = "remove" /\ task[e].key = k
                                               /\ task'[e].state = "forget"
<1>1. IInv /\ Wheel /\ Overdue /\ [Next]_vars => [Kept]_vars
  <2> SUFFICES ASSUME IInv, Wheel, Overdue, Next, NEW k \in data, k \notin data'
               PROVE  \/ Past(k)
                      \/ \E c \in Clients : Idle(c) /\ client'[c].step = "forget" /\ client'[c].key = k
                      \/ \E c \in Clients : RemovesBlindly(c, k)
                      \/ \E e \in Elements \cap overtaken : task[e].state = "remove" /\ task[e].key = k
                                                           /\ task'[e].state = "forget"
    OBVIOUS
  <2>1. ASSUME NEW c \in Clients, NEW j \in Keys, Del(c, j)
        PROVE  Idle(c) /\ client'[c].step = "forget" /\ client'[c].key = k
    <3>1. client'[c] = Command("forget", j, "write", 0)
      BY <2>1 DEF Del, Begin, IInv
    <3>2. k = j
      BY <2>1 DEF Del
    <3> QED BY <2>1, <3>1, <3>2 DEF Del, Begin, Command
  <2>2. ASSUME NEW c \in Clients, RemoveExpired(c)
        PROVE  Past(k) \/ RemovesBlindly(c, k)
    <3>1. client[c].step = "remove" /\ client[c].key = k
      BY <2>2 DEF RemoveExpired
    <3>2. client'[c].step = "forget"
      BY <2>2 DEF RemoveExpired, Step, IInv, ClientType
    <3>3. client[c].lock \in {"read", "none"}
      BY <3>1 DEF IInv, Proper, ClientType
    <3> QED BY <3>1, <3>2, <3>3 DEF Overdue, RemovesBlindly
  <2>3. ASSUME NEW e \in Elements, JobStep(e)
        PROVE  \/ Past(k)
               \/ e \in overtaken /\ task[e].state = "remove" /\ task[e].key = k
                  /\ task'[e].state = "forget"
    <3>1. JobRemoves(e)
      BY <2>3 DEF JobStep, JobChecks, JobForgets, JobCancels
    <3>2. task[e].state = "remove" /\ task[e].key = k
      BY <3>1 DEF JobRemoves
    <3>3. task'[e].state = "forget"
      BY <3>1, TasksAre DEF JobRemoves, TaskType
    <3> QED BY <3>2, <3>3 DEF Overdue
  <2>4. ASSUME NEW c \in Clients, CommandStep(c), ~RemoveExpired(c), \A j \in Keys : ~Del(c, j)
        PROVE  FALSE
    BY <2>4 DEF CommandStep, SetEX, Expire, Set, AddJob, NoJob, Look, Check, Forget, Cancel,
       Copy, CopyLooks, CopyPuts, CopyReads
  <2>5. ASSUME (\E s \in Slots : Scan(s)) \/ Advance \/ TickerFires
        PROVE  FALSE
    BY <2>5 DEF Scan, Advance, TickerFires
  <2> QED BY <2>1, <2>2, <2>3, <2>4, <2>5 DEF Next
<1> QED BY <1>1, Commands, InGear, Invariance, PTL DEF Spec, KeysLiveOut

===============================================================================
