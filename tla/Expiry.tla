-------------------------------- MODULE Expiry --------------------------------
(***************************************************************************)
(* pkg/database/database.go: keys that expire.  A key past its deadline is  *)
(* removed by the goroutine that looks at it, which may hold its lock only  *)
(* for reading, and by a job of the time wheel.                             *)
(*                                                                         *)
(* The commands stand for what they do to data, ttlMap and the wheel: SETEX *)
(* for all that set a deadline, SET for all that remove one, GET for all    *)
(* that look at a key.  COPY does all of this with no lock.  A send to the  *)
(* wheel's channels is one step with the handler that receives it.  The     *)
(* stripes of the locks are left to LockMap, the file to Commands.          *)
(***************************************************************************)
EXTENDS TimeWheel

CONSTANTS
    Clients,
    Second,         \* a second, in units of the clock
    Delays,         \* from now to the deadlines that are set, in units
    MaxTime, MaxOps \* bounds on the clock and on the commands

ASSUME ClockAssumption == Second \in Nat \ {0} /\ Delays \subseteq Int
ASSUME BoundAssumption == MaxTime \in Nat /\ MaxOps \in Nat
ASSUME GoroutineAssumption == Clients \cap Elements = {}

VARIABLES
    now,
    data,           \* the keys that are there
    ttl,            \* ttlMap
    client,         \* [step, key, lock, at, src, dest] of the goroutines that run a
                    \* command; COPY is at one of its keys, src or dest
    ops,            \* commands so far
    overtaken       \* history: who saw a deadline pass and is about to remove a key
                    \* that has since been put, or given a deadline, with no lock

vars == <<slots, timer, task, pos, ticks, scan, raced, now, data, ttl, client, ops, overtaken>>

Never == MaxTime + 1000     \* no deadline

Idle(c) == client[c].step = "idle"

Past(k) == ttl[k] < now

\* The locks of the keys.
Lockers(k, modes) == {c \in Clients : ~Idle(c) /\ client[c].key = k /\ client[c].lock \in modes}
JobHolds(k) == \E e \in Elements : task[e].state \in Removing /\ task[e].key = k

MayRead(k) == Lockers(k, {"write"}) = {} /\ ~JobHolds(k)
MayWrite(k) == MayRead(k) /\ Lockers(k, {"read"}) = {}

Command(step, k, lock, at) ==
    [step |-> step, key |-> k, lock |-> lock, at |-> at, src |-> Nil, dest |-> Nil]

Begin(c, r) ==
    /\ Idle(c) /\ ops < MaxOps
    /\ ops' = ops + 1
    /\ client' = [client EXCEPT ![c] = r]

Resting == Command("idle", Nil, "none", 0)

Done(c) == client' = [client EXCEPT ![c] = Resting]
Step(c, step) == client' = [client EXCEPT ![c].step = step]

\* Whoever is about to remove the key of a goroutine.
Removers(k) == {c \in Clients : client[c].step = "remove" /\ client[c].key = k}
               \cup {e \in Elements : task[e].state = "remove" /\ task[e].key = k}

\* The goroutine changes the key, or its deadline, beside them: with no lock, or as the
\* rest of a removal after which COPY has put the key again.
Overtake(c) ==
    overtaken' = IF client[c].lock # "write" /\ client[c].key \in data'
                 THEN overtaken \cup Removers(client[c].key) ELSE overtaken

-------------------------------------------------------------------------------
(* Commands *)

\* SETEX up to its Expire.
SetEX(c, k, d) ==
    /\ MayWrite(k)
    /\ Begin(c, Command("expire", k, "write", now + d))
    /\ data' = data \cup {k}
    /\ UNCHANGED <<wheel, now, ttl, overtaken>>

\* Expire up to its call of the wheel.
Expire(c) ==
    /\ client[c].step = "expire"
    /\ ttl' = [ttl EXCEPT ![client[c].key] = client[c].at]
    /\ Step(c, "add")
    /\ UNCHANGED <<wheel, now, data, ops>>
    /\ Overtake(c)

\* at.Sub(time.Now()) in whole seconds.  Some time has passed since "at" was computed.
WholeSeconds(at) == {(at - now - 1) \div Second, (at - now) \div Second}

AddJob(c, e, lost) ==
    /\ client[c].step = "add"
    /\ client[c].at > now
    /\ \E seconds \in WholeSeconds(client[c].at) : AddTask(e, client[c].key, seconds, lost)
    /\ Done(c)
    /\ UNCHANGED <<pos, ticks, scan, now, data, ttl, ops, overtaken>>

\* A negative delay: the job of an earlier deadline stays, if there is one.
NoJob(c) ==
    /\ client[c].step = "add"
    /\ client[c].at <= now
    /\ Done(c)
    /\ UNCHANGED <<wheel, now, data, ttl, ops, overtaken>>

\* SET up to its Persist ...
Set(c, k) ==
    /\ MayWrite(k)
    /\ Begin(c, Command("forget", k, "write", 0))
    /\ data' = data \cup {k}
    /\ UNCHANGED <<wheel, now, ttl, overtaken>>

\* ... and the first step of Remove, which ends as Persist does.
Del(c, k) ==
    /\ MayWrite(k)
    /\ Begin(c, Command("forget", k, "write", 0))
    /\ data' = data \ {k}
    /\ UNCHANGED <<wheel, now, ttl, overtaken>>

Forget(c) ==
    /\ client[c].step = "forget"
    /\ ttl' = [ttl EXCEPT ![client[c].key] = Never]
    /\ Step(c, "cancel")
    /\ UNCHANGED <<wheel, now, data, ops>>
    /\ Overtake(c)

\* GetEntity up to its IsExpired.
Look(c, k) ==
    /\ MayRead(k)
    /\ k \in data
    /\ Begin(c, Command("check", k, "read", 0))
    /\ UNCHANGED <<wheel, now, data, ttl, overtaken>>

\* A key that is there and not past its deadline.  COPY turns to its second key, then
\* needs REPLACE.
Found(c) ==
    IF client[c].key = client[c].src
    THEN client' = [client EXCEPT ![c].step = "look", ![c].key = client[c].dest]
    ELSE Done(c) \/ (client[c].key = client[c].dest /\ Step(c, "put"))

\* A key that is not, or not any more.
Missing(c) == IF client[c].key = client[c].dest THEN Step(c, "put") ELSE Done(c)

\* IsExpired: the check and the removal.
Check(c) ==
    /\ client[c].step = "check"
    /\ IF Past(client[c].key) THEN Step(c, "remove") ELSE Found(c)
    /\ UNCHANGED <<wheel, now, data, ttl, ops, overtaken>>

RemoveExpired(c) ==
    /\ client[c].step = "remove"
    /\ data' = data \ {client[c].key}
    /\ Step(c, "forget")
    /\ overtaken' = overtaken \ {c}
    /\ UNCHANGED <<wheel, now, ttl, ops>>

\* Cancel: the name tells no database from another.
Cancel(c) ==
    /\ client[c].step = "cancel"
    /\ RemoveTask(client[c].key.name)
    /\ Missing(c)
    /\ UNCHANGED <<pos, ticks, scan, now, data, ttl, ops, overtaken>>

\* COPY, which locks nothing: GetEntity of both keys, ...
Copy(c, j, k) ==
    /\ j # k /\ j \in data
    /\ Begin(c, [step |-> "check", key |-> j, lock |-> "none", at |-> 0, src |-> j, dest |-> k])
    /\ UNCHANGED <<wheel, now, data, ttl, overtaken>>

CopyLooks(c) ==
    /\ client[c].step = "look"
    /\ IF client[c].key \in data THEN Step(c, "check") ELSE Step(c, "put")
    /\ UNCHANGED <<wheel, now, data, ttl, ops, overtaken>>

\* ... PutEntity of the second, ...
CopyPuts(c) ==
    /\ client[c].step = "put"
    /\ data' = data \cup {client[c].key}
    /\ Step(c, "read")
    /\ UNCHANGED <<wheel, now, ttl, ops>>
    /\ Overtake(c)

\* ... and its Expire, when the first has a deadline.
CopyReads(c) ==
    /\ client[c].step = "read"
    /\ LET at == ttl[client[c].src]
       IN  IF at = Never THEN Done(c)
           ELSE client' = [client EXCEPT ![c].step = "expire", ![c].at = at]
    /\ UNCHANGED <<wheel, now, data, ttl, ops, overtaken>>

-------------------------------------------------------------------------------
(* Jobs and time *)

\* Mutant: the deadline is not looked at again once the lock is there.
JobChecksMutant(e) ==
    /\ task[e].state = "running"
    /\ MayWrite(task[e].key)
    /\ task' = [task EXCEPT ![e] = IF ttl[task[e].key] # Never THEN [@ EXCEPT !.state = "remove"]
                                   ELSE Unused]
    /\ UNCHANGED <<slots, timer, pos, ticks, scan, raced, now, data, ttl, client, ops, overtaken>>

\* The job of Expire: it takes the lock, and the deadline may be another by then.
\* Where it is not past yet the job leaves the key to those who look at it.
JobChecks(e) ==
    /\ task[e].state = "running"
    /\ MayWrite(task[e].key)
    /\ task' = [task EXCEPT ![e] = IF Past(task[e].key) THEN [@ EXCEPT !.state = "remove"]
                                   ELSE Unused]
    /\ UNCHANGED <<slots, timer, pos, ticks, scan, raced, now, data, ttl, client, ops, overtaken>>

\* Its Remove: from data, from ttlMap,
JobRemoves(e) ==
    /\ task[e].state = "remove"
    /\ data' = data \ {task[e].key}
    /\ task' = [task EXCEPT ![e].state = "forget"]
    /\ overtaken' = overtaken \ {e}
    /\ UNCHANGED <<slots, timer, pos, ticks, scan, raced, now, ttl, client, ops>>

JobForgets(e) ==
    /\ task[e].state = "forget"
    /\ ttl' = [ttl EXCEPT ![task[e].key] = Never]
    /\ task' = [task EXCEPT ![e].state = "cancel"]
    /\ UNCHANGED <<slots, timer, pos, ticks, scan, raced, now, data, client, ops, overtaken>>

\* and the Cancel at its end, with what it cancels.
JobCancels(e) ==
    LET name == task[e].key.name
        old == timer[name]
    IN  /\ task[e].state = "cancel"
        /\ timer' = [timer EXCEPT ![name] = Nil]
        /\ task' = [d \in Elements |->
                       CASE d = e -> Unused
                         [] d = old -> Dropped(d)
                         [] OTHER -> task[d]]
        /\ slots' = [s \in Slots |-> Unlink(slots[s], old)]
        /\ raced' = raced \cup {s \in Slots : Busy(s) /\ scan[s] = old}
        /\ UNCHANGED <<pos, ticks, scan, now, data, ttl, client, ops, overtaken>>

\* The wheel keeps up with the ticker.
TicksDue == now \div Second

Advance ==
    /\ now < MaxTime
    /\ ticks = TicksDue
    /\ now' = now + 1
    /\ UNCHANGED <<wheel, data, ttl, client, ops, overtaken>>

TickerFires ==
    /\ ticks < TicksDue
    /\ Tick
    /\ UNCHANGED <<now, data, ttl, client, ops, overtaken>>

Scan(s) ==
    /\ ScanPasses(s) \/ ScanRuns(s)
    /\ UNCHANGED <<now, data, ttl, client, ops, overtaken>>

-------------------------------------------------------------------------------

\* The keys of a loaded file, without deadlines.
Init ==
    /\ WheelInit
    /\ now = 0
    /\ data \in SUBSET Keys
    /\ ttl = [k \in Keys |-> Never]
    /\ client = [c \in Clients |-> Resting]
    /\ ops = 0
    /\ overtaken = {}

CommandStep(c) ==
    \/ \E k \in Keys, d \in Delays : SetEX(c, k, d)
    \/ Expire(c)
    \/ \E e \in Elements, lost \in BOOLEAN : AddJob(c, e, lost)
    \/ NoJob(c)
    \/ \E k \in Keys : Set(c, k) \/ Del(c, k) \/ Look(c, k)
    \/ Check(c) \/ RemoveExpired(c) \/ Forget(c) \/ Cancel(c)
    \/ \E j \in Keys, k \in Keys : Copy(c, j, k)
    \/ CopyLooks(c) \/ CopyPuts(c) \/ CopyReads(c)

JobStep(e) == JobChecks(e) \/ JobRemoves(e) \/ JobForgets(e) \/ JobCancels(e)

Next ==
    \/ \E c \in Clients : CommandStep(c)
    \/ \E e \in Elements : JobStep(e)
    \/ \E s \in Slots : Scan(s)
    \/ Advance
    \/ TickerFires

Spec == Init /\ [][Next]_vars

-------------------------------------------------------------------------------
(* Properties *)

TypeOK ==
    /\ WheelTypeOK
    /\ now \in 0..MaxTime
    /\ data \in SUBSET Keys
    /\ ttl \in [Keys -> Int]
    /\ client \in [Clients -> [step : {"idle", "expire", "add", "check", "remove", "forget",
                                       "cancel", "look", "put", "read"},
                               key : Keys \cup {Nil}, lock : {"write", "read", "none"},
                               at : Int, src : Keys \cup {Nil}, dest : Keys \cup {Nil}]]
    /\ ops \in 0..MaxOps
    /\ overtaken \in SUBSET (Clients \cup Elements)

\* A goroutine removes a key it has seen past its deadline, and with no lock, or after
\* COPY has put the key anew in between.
RemovesBlindly(c, k) ==
    /\ client[c].step = "remove" /\ client'[c].step = "forget" /\ client[c].key = k
    /\ client[c].lock = "none" \/ c \in overtaken

\* A key that is there stays until the deadline it has at that moment, whatever deadlines
\* it had before and whoever saw one pass.  DEL removes it earlier; so does COPY, which
\* removes a key without its lock, and who removes a key after COPY has put it, or set its
\* deadline, since the old one was seen to pass.  Nothing else does: neither those who
\* hold the lock only for reading, nor a job that comes late.  (IsExpired, and the
\* check-lock-check of the job, database.go:171-210)
KeysLiveOut ==
    [][\A k \in data \ data' :
          \/ Past(k)
          \/ \E c \in Clients : Idle(c) /\ client'[c].step = "forget" /\ client'[c].key = k
          \/ \E c \in Clients : RemovesBlindly(c, k)
          \/ \E e \in Elements \cap overtaken : task[e].state = "remove" /\ task[e].key = k
                                               /\ task'[e].state = "forget"]_vars

===============================================================================
