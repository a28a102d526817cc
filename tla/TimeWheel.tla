------------------------------- MODULE TimeWheel -------------------------------
(***************************************************************************)
(* pkg/timewheel: jobs that run after a delay.  One goroutine serves the    *)
(* ticker and the channels that add and remove jobs; each tick starts       *)
(* another one that walks through the list of one slot, with no lock        *)
(* between the two.                                                         *)
(*                                                                         *)
(* The steps of a scan are taken element by element.  What the races on the *)
(* links of a list and on the map can do besides is the loss of an element  *)
(* that is pushed to a list under scan, or the end of the process, which    *)
(* adds no state to those that lead to it.  A scan has ended when the wheel *)
(* has turned once: an hour in the program.                                 *)
(***************************************************************************)
EXTENDS Integers, Sequences, SequencesExt

CONSTANTS
    Elements,       \* of the slots' lists
    Keys,           \* what a job is about: [db, name]
    SlotNum,
    Nil

ASSUME SlotAssumption == SlotNum \in Nat \ {0}
ASSUME ElementAssumption == Nil \notin Elements
ASSUME KeyAssumption == Nil \notin Keys

VARIABLES
    slots,          \* the elements in every slot
    timer,          \* from names to elements
    task,           \* [state, key, slot, circle], the values of the elements, with
                    \* the number of the tick that must run it (due) and did (ran)
    pos,            \* currentPos
    ticks,          \* ticks so far
    scan,           \* the element that the scan of a slot is at
    raced           \* history: slots a list of which was changed under a scan

wheel == <<slots, timer, task, pos, ticks, scan, raced>>

Slots == 0..(SlotNum - 1)
Names == {k.name : k \in Keys}

\* A job runs in a goroutine of its own, as far as its Remove.
Removing == {"remove", "forget", "cancel"}
Started == {"running"} \cup Removing

Busy(s) == scan[s] # Nil

\* e.Next(), which is nil also for an element that has been removed.
NextIn(q, e) ==
    IF \E i \in 1..(Len(q) - 1) : q[i] = e
    THEN q[1 + CHOOSE i \in 1..(Len(q) - 1) : q[i] = e]
    ELSE Nil

\* l.Remove(e).  No list holds an element twice.
Unlink(q, e) == IF e \in ToSet(q) THEN RemoveAt(q, CHOOSE i \in DOMAIN q : q[i] = e) ELSE q

First(q) == IF q = <<>> THEN Nil ELSE Head(q)

Unused == [state |-> "free", key |-> Nil, slot |-> 0, circle |-> 0, due |-> 0, ran |-> 0]

\* An element that has been removed is still there for the scan that is at it.
Dropped(e) == IF \E s \in Slots : scan[s] = e THEN [task[e] EXCEPT !.state = "cut"] ELSE Unused

\* Mutant: a delay of exactly one turn stays in the turn that has begun.
PositionAndCircleMutant(seconds) ==
    [slot |-> (pos + seconds) % SlotNum,
     circle |-> IF seconds = 0 THEN 0 ELSE (seconds - 1) \div SlotNum]

\* getPositionAndCircle, with an interval of a second.
PositionAndCircle(seconds) ==
    [slot |-> (pos + seconds) % SlotNum, circle |-> seconds \div SlotNum]

-------------------------------------------------------------------------------

\* removeTask; the other users of the element's list and of the timer follow.
RemoveTask(name) ==
    LET old == timer[name]
    IN  IF old = Nil THEN UNCHANGED <<slots, timer, task, raced>>
        ELSE LET s == task[old].slot
             IN  /\ slots' = [slots EXCEPT ![s] = Unlink(@, old)]
                 /\ timer' = [timer EXCEPT ![name] = Nil]
                 /\ task' = [task EXCEPT ![old] = Dropped(old)]
                 /\ raced' = IF scan[s] = old THEN raced \cup {s} ELSE raced

\* addTask: the new element is pushed first, then the old one of its name removed.
AddTask(e, key, seconds, lost) ==
    LET p == PositionAndCircle(seconds)
        old == timer[key.name]
        pushed == IF lost THEN slots ELSE [slots EXCEPT ![p.slot] = Append(@, e)]
        new == [state |-> "listed", key |-> key, slot |-> p.slot, circle |-> p.circle,
                due |-> ticks + seconds + 1, ran |-> 0]
        touched == {s \in Slots : Busy(s) /\ (s = p.slot \/ (old # Nil /\ scan[s] = old))}
    IN  /\ task[e].state = "free"
        /\ lost => Busy(p.slot)
        /\ slots' = IF old = Nil THEN pushed
                    ELSE [pushed EXCEPT ![task[old].slot] = Unlink(@, old)]
        /\ task' = IF old = Nil THEN [task EXCEPT ![e] = new]
                   ELSE [task EXCEPT ![e] = new, ![old] = Dropped(old)]
        /\ timer' = [timer EXCEPT ![key.name] = e]
        /\ raced' = raced \cup touched

\* Mutant: no way back from the last slot.
TurnMutant == pos' = pos + 1

Turn == pos' = IF pos = SlotNum - 1 THEN 0 ELSE pos + 1

\* tickHandler
Tick ==
    /\ ~Busy(pos)
    /\ scan' = [scan EXCEPT ![pos] = First(slots[pos])]
    /\ Turn
    /\ ticks' = ticks + 1
    /\ UNCHANGED <<slots, timer, task, raced>>

\* The number of the last tick that started a scan of the slot.
TickOf(s) == ticks - ((ticks - 1 - s) % SlotNum)

MoveOn(s) == scan' = [scan EXCEPT ![s] = NextIn(slots[s], scan[s])]

\* scanAndRunTask: an element that has rounds to go,
ScanPasses(s) ==
    LET e == scan[s]
        passed == IF task[e].state = "cut" THEN Unused ELSE [task[e] EXCEPT !.circle = @ - 1]
    IN  /\ Busy(s) /\ task[e].circle > 0
        /\ task' = [task EXCEPT ![e] = passed]
        /\ MoveOn(s)
        /\ UNCHANGED <<slots, timer, pos, ticks, raced>>

\* and one whose job runs in a goroutine of its own.  What the timer has under its
\* name is deleted, even if it is another element by now.
ScanRuns(s) ==
    LET e == scan[s]
    IN  /\ Busy(s) /\ task[e].circle = 0
        /\ task' = [task EXCEPT ![e].state = "running", ![e].ran = TickOf(s)]
        /\ slots' = [slots EXCEPT ![s] = Unlink(@, e)]
        /\ timer' = [timer EXCEPT ![task[e].key.name] = Nil]
        /\ MoveOn(s)
        /\ UNCHANGED <<pos, ticks, raced>>

WheelInit ==
    /\ slots = [s \in Slots |-> <<>>]
    /\ timer = [n \in Names |-> Nil]
    /\ task = [e \in Elements |-> Unused]
    /\ pos = 0 /\ ticks = 0
    /\ scan = [s \in Slots |-> Nil]
    /\ raced = {}

WheelTypeOK ==
    /\ slots \in [Slots -> Seq(Elements)]
    /\ timer \in [Names -> Elements \cup {Nil}]
    /\ task \in [Elements -> [state : {"free", "listed", "cut"} \cup Started,
                              key : Keys \cup {Nil}, slot : Slots, circle : Nat, due : Nat, ran : Nat]]
    /\ pos \in Slots /\ ticks \in Nat
    /\ scan \in [Slots -> Elements \cup {Nil}]
    /\ raced \in SUBSET Slots

\* A job runs in the scan of the very tick that its delay asks for, no round earlier and
\* none later, and none is left behind in a slot whose scan has ended.  The exceptions
\* are the slots whose list was changed under a scan.  (getPositionAndCircle and the
\* rounds of scanAndRunTask, against a wheel that turns while jobs come and go.)
OnTime ==
    \A e \in Elements :
        LET t == task[e]
        IN  t.state # "free" /\ t.slot \notin raced =>
               /\ t.state \in Started => t.ran = t.due
               /\ t.state = "listed" /\ ~Busy(t.slot) => t.due > TickOf(t.slot)

===============================================================================
