--------------------------- MODULE TransactionProofs ---------------------------
(***************************************************************************)
(* Theorems about Transaction, for any connections, keys and commands.      *)
(***************************************************************************)
EXTENDS Transaction, WellFoundedInduction, TLAPS

\* The commands a goroutine runs are commands.
Running(c) == run[c].pc \in {"fetch", "apply"}

\* Where a goroutine is, and what it has in hand.
ControlOf(c) ==
    /\ Running(c) => run[c].i \in DOMAIN run[c].cmds
    /\ run[c].pc \in {"lock", "check"} \/ (run[c].pc = "bump" /\ ~run[c].tx) => run[c].i = 1
    /\ ~run[c].tx /\ run[c].pc # "idle" => run[c].check = {} /\ run[c].cmds # <<>>
    /\ run[c].pc # "bump" => run[c].bump = {} /\ run[c].seen = Unread
    /\ run[c].bump \subseteq Places(run[c].cmds)
    /\ run[c].pc \in {"check", "rollback"} => run[c].tx
    /\ Running(c) => run[c].check = {}
    /\ run[c].tx /\ run[c].pc = "apply" => run[c].undo # <<>>
    /\ \A j \in DOMAIN run[c].undo : run[c].undo[j] \subseteq Writes(c) \cup RenameSources(c)

Control == \A c \in Conns : ControlOf(c)

\* Locks that are held at the same time go together.
Exclusive ==
    \A c, d \in Conns : c # d /\ Holding(c) /\ Holding(d) =>
        Locks!Compatible(LockRequest(c), LockRequest(d))

-------------------------------------------------------------------------------
(* Commands *)

\* Commands have keys, and write and read keys among them.
LEMMA CommandTypes ==
    ASSUME NEW cmd \in Cmds
    PROVE  /\ cmd.op \in Ops /\ cmd.keys \in Seq(Keys) /\ cmd.val \in Values
           /\ 1 \in DOMAIN cmd.keys
           /\ cmd.op = "rename" => 2 \in DOMAIN cmd.keys
           /\ WriteSeq(cmd) \in Seq(Keys)
           /\ WriteKeys(cmd) \subseteq Keys
           /\ ReadKeys(cmd) \subseteq Keys
<1>1. /\ cmd.op \in Ops /\ cmd.keys \in Seq(Keys) /\ cmd.val \in Values
      /\ 1 \in DOMAIN cmd.keys
      /\ cmd.op = "rename" => 2 \in DOMAIN cmd.keys
  BY CmdAssumption
<1>2. WriteSeq(cmd) \in Seq(Keys)
  BY <1>1 DEF WriteSeq, Ops
<1>3. WriteKeys(cmd) \subseteq Keys
  BY <1>2 DEF WriteKeys, ToSet
<1>4. ReadKeys(cmd) \subseteq Keys
  BY <1>1 DEF ReadKeys
<1> QED
  BY <1>1, <1>2, <1>3, <1>4

\* A command leaves data.
LEMMA EffectTypes ==
    ASSUME NEW cmd \in Cmds, NEW v \in Values, NEW d \in [Keys -> Values], ~Fails(cmd, v)
    PROVE  Effect(cmd, v, d) \in [Keys -> Values]
<1>1. cmd.op \in Ops /\ cmd.keys \in Seq(Keys) /\ cmd.val \in Values
  BY CommandTypes
<1>2. cmd.op = "incr" => Increment(v) \in Values
  BY NilAssumption, IntAssumption DEF Fails, Increment, Values
<1>3. Nil \in Values
  BY DEF Values
<1> QED
  BY <1>1, <1>2, <1>3 DEF Effect, Ops

\* An executor writes the keys it has locked for writing, and rename its source.
LEMMA EffectWrites ==
    ASSUME NEW cmd \in Cmds, NEW v, NEW d \in [Keys -> Values],
           NEW k \in Keys, Effect(cmd, v, d)[k] # d[k]
    PROVE  \/ k \in WriteKeys(cmd)
           \/ /\ cmd.op = "rename" /\ k = cmd.keys[1] /\ k \in ReadKeys(cmd)
              /\ Effect(cmd, v, d)[k] = Nil
<1>1. cmd.op \in Ops /\ cmd.keys \in Seq(Keys) /\ 1 \in DOMAIN cmd.keys
  BY CommandTypes
<1>2. cmd.op = "rename" => 2 \in DOMAIN cmd.keys
  BY CommandTypes
<1>3. CASE cmd.op = "rename"
  BY <1>1, <1>2, <1>3 DEF Effect, WriteKeys, WriteSeq, ReadKeys, ToSet
<1>4. CASE cmd.op = "incr"
  BY <1>1, <1>4 DEF Effect, WriteKeys, WriteSeq, ToSet
<1>5. CASE cmd.op \notin {"rename", "incr"}
  BY <1>1, <1>5 DEF Effect, WriteKeys, WriteSeq, KeysOf
<1> QED
  BY <1>3, <1>4, <1>5

-------------------------------------------------------------------------------
(* Types *)

\* Footprints are keys.
LEMMA RequestTypes ==
    ASSUME TypeOK, NEW c \in Conns
    PROVE  Writes(c) \subseteq Keys /\ Reads(c) \subseteq Keys /\ Watched(c) \subseteq Keys
<1>1. \A j \in DOMAIN run[c].cmds : run[c].cmds[j] \in Cmds
  BY DEF TypeOK, RunType
<1>2. \A j \in DOMAIN run[c].cmds : /\ WriteKeys(run[c].cmds[j]) \subseteq Keys
                                    /\ ReadKeys(run[c].cmds[j]) \subseteq Keys
  BY <1>1, CommandTypes
<1> QED
  BY <1>2 DEF Writes, Reads, Watched

\* Every place of a write key has a key.
LEMMA PlaceTypes ==
    ASSUME NEW cmds \in Seq(Cmds)
    PROVE  /\ Places(cmds) \subseteq Nat \X Nat
           /\ \A p \in Places(cmds) : /\ p[1] \in DOMAIN cmds
                                      /\ p[2] \in DOMAIN WriteSeq(cmds[p[1]])
                                      /\ WriteSeq(cmds[p[1]])[p[2]] \in Keys
                                      /\ WriteSeq(cmds[p[1]])[p[2]] \in WriteKeys(cmds[p[1]])
<1> SUFFICES ASSUME NEW p \in Places(cmds)
             PROVE  /\ p \in Nat \X Nat
                    /\ p[1] \in DOMAIN cmds /\ p[2] \in DOMAIN WriteSeq(cmds[p[1]])
                    /\ WriteSeq(cmds[p[1]])[p[2]] \in Keys
                    /\ WriteSeq(cmds[p[1]])[p[2]] \in WriteKeys(cmds[p[1]])
  OBVIOUS
<1>1. PICK i \in DOMAIN cmds : p \in {<<i, j>> : j \in DOMAIN WriteSeq(cmds[i])}
  BY DEF Places
<1>2. cmds[i] \in Cmds
  OBVIOUS
<1>3. WriteSeq(cmds[i]) \in Seq(Keys)
  BY <1>2, CommandTypes
<1>4. PICK j \in DOMAIN WriteSeq(cmds[i]) : p = <<i, j>>
  BY <1>1
<1>5. WriteSeq(cmds[i])[j] \in Keys
  BY <1>3
<1> QED
  BY <1>3, <1>4, <1>5 DEF WriteKeys, ToSet

\* What is there at first, and after EXEC.
LEMMA Fresh ==
    /\ NoConn \in ConnType
    /\ Idle \in RunType
    /\ \A s \in ConnType : LeaveMulti(s) \in ConnType
<1>1. Nil \in Values
  BY DEF Values
<1>2. NoConn \in ConnType
  BY DEF NoConn, ConnType, Unwatched
<1>3. Idle \in RunType
  BY <1>1 DEF Idle, RunType, Unread
<1>4. \A s \in ConnType : LeaveMulti(s) \in ConnType
  BY <1>2 DEF ConnType, LeaveMulti
<1> QED
  BY <1>2, <1>3, <1>4

\* What the executor looks at is there.
LEMMA CurrentTypes ==
    ASSUME TypeOK, Control, NEW c \in Conns, Running(c)
    PROVE  /\ Current(c) \in Cmds
           /\ Current(c).keys[1] \in Keys
           /\ WriteKeys(Current(c)) \subseteq Writes(c)
           /\ ReadKeys(Current(c)) \subseteq Reads(c)
           /\ Current(c).op = "rename" => Current(c).keys[1] \in RenameSources(c)
<1>1. run[c].i \in DOMAIN run[c].cmds
  BY DEF Control, ControlOf
<1>2. Current(c) \in Cmds
  BY <1>1 DEF Current, TypeOK, RunType
<1>3. Current(c).keys[1] \in Keys
  BY <1>2, CommandTypes
<1>4. /\ WriteKeys(Current(c)) \subseteq Writes(c)
      /\ ReadKeys(Current(c)) \subseteq Reads(c)
  BY <1>1 DEF Current, Writes, Reads
<1>5. Current(c).op = "rename" => Current(c).keys[1] \in RenameSources(c)
  BY <1>1 DEF Current, RenameSources
<1> QED
  BY <1>2, <1>3, <1>4, <1>5

\* The changes of a step, one of which some actions make.
LEMMA Updates ==
    ASSUME NEW r \in RunType, Nil \in Values
    PROVE  /\ \A n \in Nat : [r EXCEPT !.seen = n] \in RunType
           /\ \A ks \in SUBSET Keys : [r EXCEPT !.check = ks] \in RunType
           /\ \A pc \in {"fetch", "unlock"} : [r EXCEPT !.pc = pc] \in RunType
           /\ \A pc \in {"check", "fetch"}, base \in [Keys -> Values] :
                 [r EXCEPT !.pc = pc, !.base = base] \in RunType
           /\ \A pc \in {"bump", "lock", "unlock"}, b \in SUBSET (Nat \X Nat) :
                 [r EXCEPT !.seen = Unread, !.bump = b, !.pc = pc] \in RunType
           /\ \A reply \in {"ok", "empty"} : [r EXCEPT !.pc = "unlock", !.reply = reply] \in RunType
           /\ \A v \in Values, u \in Seq(SUBSET Keys) :
                 [r EXCEPT !.pc = "apply", !.loc = v, !.undo = u] \in RunType
           /\ [r EXCEPT !.i = @ + 1, !.pc = "fetch", !.loc = Nil] \in RunType
           /\ \A pc \in {"bump", "unlock"}, b \in SUBSET (Nat \X Nat) :
                 [r EXCEPT !.bump = b, !.reply = "ok", !.loc = Nil, !.pc = pc] \in RunType
           /\ \A pc \in {"rollback", "unlock"}, u \in Seq(SUBSET Keys) :
                 [r EXCEPT !.pc = pc, !.undo = u, !.reply = "error"] \in RunType
<1>a. \A n \in Nat : [r EXCEPT !.seen = n] \in RunType
  BY DEF RunType
<1>b. \A ks \in SUBSET Keys : [r EXCEPT !.check = ks] \in RunType
  BY DEF RunType
<1>1. \A pc \in {"fetch", "unlock"} : [r EXCEPT !.pc = pc] \in RunType
  BY DEF RunType
<1>2. \A pc \in {"check", "fetch"}, base \in [Keys -> Values] :
         [r EXCEPT !.pc = pc, !.base = base] \in RunType
  BY DEF RunType
<1>3. \A pc \in {"bump", "lock", "unlock"}, b \in SUBSET (Nat \X Nat) :
         [r EXCEPT !.seen = Unread, !.bump = b, !.pc = pc] \in RunType
  BY DEF RunType
<1>4. \A reply \in {"ok", "empty"} : [r EXCEPT !.pc = "unlock", !.reply = reply] \in RunType
  BY DEF RunType
<1>5. \A v \in Values, u \in Seq(SUBSET Keys) :
         [r EXCEPT !.pc = "apply", !.loc = v, !.undo = u] \in RunType
  BY DEF RunType
<1>6. [r EXCEPT !.i = @ + 1, !.pc = "fetch", !.loc = Nil] \in RunType
  <2>1. [r EXCEPT !.i = @ + 1] \in RunType
    <3>1. r.i + 1 \in Nat
      BY DEF RunType
    <3>2. \A n \in Nat : [r EXCEPT !.i = n] \in RunType
      BY DEF RunType
    <3> QED
      BY <3>1, <3>2
  <2>2. \A q \in RunType : [q EXCEPT !.pc = "fetch", !.loc = Nil] \in RunType
    BY ZenonT(60) DEF RunType
  <2> QED
    BY <2>1, <2>2
<1>7. \A pc \in {"bump", "unlock"}, b \in SUBSET (Nat \X Nat) :
         [r EXCEPT !.bump = b, !.reply = "ok", !.loc = Nil, !.pc = pc] \in RunType
  <2> SUFFICES ASSUME NEW pc \in {"bump", "unlock"}, NEW b \in SUBSET (Nat \X Nat)
               PROVE  [r EXCEPT !.bump = b, !.reply = "ok", !.loc = Nil, !.pc = pc] \in RunType
    OBVIOUS
  <2>1. [r EXCEPT !.bump = b, !.reply = "ok"] \in RunType
    BY DEF RunType
  <2>2. \A q \in RunType : [q EXCEPT !.loc = Nil, !.pc = pc] \in RunType
    BY ZenonT(60) DEF RunType
  <2> QED
    BY <2>1, <2>2
<1>8. \A pc \in {"rollback", "unlock"}, u \in Seq(SUBSET Keys) :
         [r EXCEPT !.pc = pc, !.undo = u, !.reply = "error"] \in RunType
  BY DEF RunType
<1> QED
  BY <1>a, <1>b, <1>1, <1>2, <1>3, <1>4, <1>5, <1>6, <1>7, <1>8

\* A queue stays a queue.
LEMMA Enqueued ==
    ASSUME NEW s \in ConnType, NEW cmd \in Cmds
    PROVE  [s EXCEPT !.queue = Append(@, cmd)] \in ConnType
<1>1. s.queue \in Seq(Cmds)
  BY DEF ConnType
<1>2. Append(s.queue, cmd) \in Seq(Cmds)
  BY <1>1
<1>3. \A q \in Seq(Cmds) : [s EXCEPT !.queue = q] \in ConnType
  BY DEF ConnType
<1> QED
  BY <1>2, <1>3

\* Every step leaves the types as they are.
LEMMA TypeStep ==
    ASSUME TypeOK, Control, [Next]_vars
    PROVE  TypeOK'
<1>t. /\ data \in [Keys -> Values] /\ version \in [Keys -> Nat]
      /\ conn \in [Conns -> ConnType] /\ run \in [Conns -> RunType]
  BY DEF TypeOK
<1>n. Nil \in Values
  BY DEF Values
<1>0. CASE UNCHANGED vars
  BY <1>0, <1>t DEF vars, TypeOK
<1>1. ASSUME NEW c \in Conns, Session(c)
      PROVE  TypeOK'
  <2>1. run' = run /\ data' = data /\ version' = version
    BY <1>1 DEF Session, Multi, Discard, EnqueueError, ExecDiscarded, Watch, Enqueue
  <2>2. conn' \in [Conns -> ConnType]
    <3>1. CASE Multi(c) \/ EnqueueError(c)
      <4>1. /\ [conn[c] EXCEPT !.multi = TRUE] \in ConnType
            /\ [conn[c] EXCEPT !.txErr = TRUE] \in ConnType
        BY <1>t DEF ConnType
      <4> QED
        BY <3>1, <4>1, <1>t DEF Multi, EnqueueError
    <3>2. CASE Discard(c) \/ ExecDiscarded(c)
      BY <3>2, <1>t, Fresh DEF Discard, ExecDiscarded
    <3>3. ASSUME NEW k \in WatchKeys[c], Watch(c, k)
          PROVE  conn' \in [Conns -> ConnType]
      <4>1. k \in Keys
        BY WatchAssumption
      <4>2. \A q \in SUBSET Keys :
               [conn[c] EXCEPT !.watching[k] = version[k], !.quiet = q, !.touched = @ \ {k}]
                  \in ConnType
        BY <4>1, <1>t DEF ConnType
      <4>3. (IF InFlight(k) THEN conn[c].quiet \ {k} ELSE conn[c].quiet \cup {k}) \in SUBSET Keys
        BY <4>1, <1>t DEF ConnType
      <4> QED
        BY <3>3, <4>2, <4>3, <1>t DEF Watch
    <3>4. ASSUME NEW cmd \in Queued[c], Enqueue(c, cmd)
          PROVE  conn' \in [Conns -> ConnType]
      <4>1. cmd \in Cmds
        BY DEF Cmds
      <4>2. [conn[c] EXCEPT !.queue = Append(@, cmd)] \in ConnType
        BY <4>1, <1>t, Enqueued
      <4> QED
        BY <3>4, <4>2, <1>t DEF Enqueue
    <3> QED
      BY <1>1, <3>1, <3>2, <3>3, <3>4 DEF Session
  <2> QED
    BY <2>1, <2>2, <1>t DEF TypeOK
<1>2. ASSUME NEW c \in Conns, Start(c)
      PROVE  TypeOK'
  <2>1. conn' = conn /\ data' = data /\ version' = version
    BY <1>2 DEF Start, StartExec, StartNormal
  <2>2. run' \in [Conns -> RunType]
    <3>1. ASSUME StartExec(c)
          PROVE  run' \in [Conns -> RunType]
      <4>1. Watched(c) \subseteq Keys
        BY DEF Watched
      <4>2. conn[c].queue \in Seq(Cmds)
        BY <1>t DEF ConnType
      <4>3. [Idle EXCEPT !.pc = "lock", !.tx = TRUE, !.cmds = conn[c].queue,
                         !.check = Watched(c)] \in RunType
        BY <4>1, <4>2, Fresh DEF RunType
      <4> QED
        BY <3>1, <4>3, <1>t DEF StartExec
    <3>2. ASSUME NEW cmd \in Normal[c], StartNormal(c, cmd)
          PROVE  run' \in [Conns -> RunType]
      <4>1. <<cmd>> \in Seq(Cmds)
        BY DEF Cmds
      <4>2. Places(<<cmd>>) \subseteq Nat \X Nat
        BY <4>1, PlaceTypes
      <4>3. AfterBump(Places(<<cmd>>), FALSE) \in {"bump", "lock"}
        BY DEF AfterBump
      <4>4. [Idle EXCEPT !.pc = AfterBump(Places(<<cmd>>), FALSE), !.cmds = <<cmd>>,
                         !.bump = Places(<<cmd>>)] \in RunType
        BY <4>1, <4>2, <4>3, Fresh DEF RunType
      <4> QED
        BY <3>2, <4>4, <1>t DEF StartNormal
    <3> QED
      BY <1>2, <3>1, <3>2 DEF Start
  <2> QED
    BY <2>1, <2>2, <1>t DEF TypeOK
<1>3. ASSUME NEW c \in Conns, Lock(c)
      PROVE  TypeOK'
  <2>1. [k \in Keys |-> IF k \in LockRequest(c).write \cup LockRequest(c).read
                        THEN data[k] ELSE Nil] \in [Keys -> Values]
    BY <1>t, <1>n
  <2>2. \A pc \in {"check", "fetch"}, base \in [Keys -> Values] :
           [run[c] EXCEPT !.pc = pc, !.base = base] \in RunType
    BY <1>t, <1>n, Updates
  <2>3. (IF run[c].tx THEN "check" ELSE "fetch") \in {"check", "fetch"}
    OBVIOUS
  <2>4. run' \in [Conns -> RunType]
    BY <1>3, <2>1, <2>2, <2>3, <1>t DEF Lock
  <2> QED
    BY <1>3, <2>4, <1>t DEF Lock, TypeOK
<1>4. ASSUME NEW c \in Conns, Work(c)
      PROVE  TypeOK'
  <2>0. /\ \A p \in run[c].bump : KeyAt(c, p) \in Keys
        /\ \A p \in FirstOf(run[c].bump) : p \in run[c].bump
    <3>1. run[c].cmds \in Seq(Cmds)
      BY <1>t DEF RunType
    <3> QED
      BY <3>1, PlaceTypes DEF Control, ControlOf, KeyAt, FirstOf
  <2>1. CASE GetVersion(c)
    <3>1. PICK p \in FirstOf(run[c].bump) : run' = [run EXCEPT ![c].seen = version[KeyAt(c, p)]]
      BY <2>1 DEF GetVersion
    <3>2. version[KeyAt(c, p)] \in Nat
      BY <2>0, <1>t
    <3>3. [run[c] EXCEPT !.seen = version[KeyAt(c, p)]] \in RunType
      BY <3>2, <1>t, <1>n, Updates
    <3>4. run' \in [Conns -> RunType]
      BY <3>1, <3>3, <1>t
    <3> QED
      BY <2>1, <3>4, <1>t DEF GetVersion, TypeOK
  <2>2. CASE PutVersion(c)
    <3>1. PICK p \in FirstOf(run[c].bump) :
             /\ version' = [version EXCEPT ![KeyAt(c, p)] = run[c].seen + 1]
             /\ run' = [run EXCEPT ![c].seen = Unread, ![c].bump = @ \ {p},
                                   ![c].pc = AfterBump(run[c].bump \ {p}, run[c].tx)]
      BY <2>2 DEF PutVersion
    <3>2. run[c].seen + 1 \in Nat
      BY <2>2, <1>t DEF PutVersion, RunType
    <3>3. AfterBump(run[c].bump \ {p}, run[c].tx) \in {"bump", "lock", "unlock"}
      BY DEF AfterBump
    <3>7. run[c].bump \ {p} \in SUBSET (Nat \X Nat)
      BY <1>t DEF RunType
    <3>4. [run[c] EXCEPT !.seen = Unread, !.bump = @ \ {p},
                         !.pc = AfterBump(run[c].bump \ {p}, run[c].tx)] \in RunType
      BY <3>3, <3>7, <1>t, <1>n, Updates
    <3>6. run' \in [Conns -> RunType]
      BY <3>1, <3>4, <1>t
    <3>5. version' \in [Keys -> Nat]
      BY <3>1, <3>2, <2>0, <1>t
    <3> QED
      BY <2>2, <3>5, <3>6, <1>t DEF PutVersion, TypeOK
  <2>3. CASE WatchChanged(c)
    <3>1. [run[c] EXCEPT !.pc = "unlock", !.reply = "empty"] \in RunType
      BY <1>t, <1>n, Updates
    <3>2. run' \in [Conns -> RunType]
      BY <2>3, <3>1, <1>t DEF WatchChanged
    <3> QED
      BY <2>3, <3>2, <1>t DEF WatchChanged, TypeOK
  <2>4. CASE WatchUnchanged(c)
    <3>1. \A k : run[c].check \ {k} \in SUBSET Keys
      BY <1>t DEF RunType
    <3>2. \A k : [run[c] EXCEPT !.check = @ \ {k}] \in RunType
      BY <3>1, <1>t, <1>n, Updates
    <3>3. run' \in [Conns -> RunType]
      BY <2>4, <3>2, <1>t DEF WatchUnchanged
    <3> QED
      BY <2>4, <3>3, <1>t DEF WatchUnchanged, TypeOK
  <2>5. CASE WatchPassed(c)
    <3>1. /\ [run[c] EXCEPT !.pc = "unlock", !.reply = "ok"] \in RunType
          /\ [run[c] EXCEPT !.pc = "fetch"] \in RunType
      BY <1>t, <1>n, Updates
    <3>2. run' \in [Conns -> RunType]
      BY <2>5, <3>1, <1>t DEF WatchPassed
    <3> QED
      BY <2>5, <3>2, <1>t DEF WatchPassed, TypeOK
  <2>6. CASE Fetch(c)
    <3>1. Running(c)
      BY <2>6 DEF Fetch, Running
    <3>2. data[Current(c).keys[1]] \in Values
      BY <3>1, CurrentTypes, <1>t
    <3>3. UndoLog(Current(c), data) \in SUBSET Keys
      <4>1. Current(c) \in Cmds
        BY <3>1, CurrentTypes
      <4>2. Current(c).keys \in Seq(Keys)
        BY <4>1, CommandTypes
      <4> QED
        BY <4>2 DEF UndoLog, KeysOf, ToSet
    <3>4. Append(run[c].undo, UndoLog(Current(c), data)) \in Seq(SUBSET Keys)
      BY <3>3, <1>t DEF RunType
    <3>5. \A v \in Values, u \in Seq(SUBSET Keys) :
             [run[c] EXCEPT !.pc = "apply", !.loc = v, !.undo = u] \in RunType
      BY <1>t, <1>n, Updates
    <3>6. (IF run[c].tx THEN Append(run[c].undo, UndoLog(Current(c), data)) ELSE run[c].undo)
             \in Seq(SUBSET Keys)
      BY <3>4, <1>t DEF RunType
    <3>7. run' \in [Conns -> RunType]
      BY <2>6, <3>2, <3>5, <3>6, <1>t DEF Fetch
    <3> QED
      BY <2>6, <3>7, <1>t DEF Fetch, TypeOK
  <2>7. CASE Apply(c)
    <3>1. Running(c)
      BY <2>7 DEF Apply, Running
    <3>2. data' \in [Keys -> Values]
      <4>1. Current(c) \in Cmds
        BY <3>1, CurrentTypes
      <4>2. run[c].loc \in Values
        BY <1>t DEF RunType
      <4> QED
        BY <2>7, <4>1, <4>2, <1>t, EffectTypes DEF Apply
    <3>3. conn' \in [Conns -> ConnType]
      <4>1. \A ks : Touch(ks) \in [Conns -> ConnType]
        <5> SUFFICES ASSUME NEW ks, NEW d \in Conns
                     PROVE  [conn[d] EXCEPT !.touched = @ \cup (ks \cap Watched(d))] \in ConnType
          BY DEF Touch
        <5>1. Watched(d) \subseteq Keys
          BY DEF Watched
        <5> QED
          BY ZenonT(60), <5>1, <1>t DEF ConnType
      <4> QED
        BY ZenonT(60), <2>7, <4>1, <1>t DEF Apply
    <3>4. run' \in [Conns -> RunType]
      <4>1. CASE run[c].i < Len(run[c].cmds)
        <5>1. run' = [run EXCEPT ![c].i = @ + 1, ![c].pc = "fetch", ![c].loc = Nil]
          BY <2>7, <4>1 DEF Apply
        <5>2. [run[c] EXCEPT !.i = @ + 1, !.pc = "fetch", !.loc = Nil] \in RunType
          BY <1>t, <1>n, Updates
        <5> QED
          BY <5>1, <5>2, <1>t
      <4>2. CASE ~(run[c].i < Len(run[c].cmds))
        <5> DEFINE ps == IF run[c].tx THEN Places(run[c].cmds) ELSE {}
        <5>1. run' = [run EXCEPT ![c].bump = ps, ![c].reply = "ok", ![c].loc = Nil,
                                 ![c].pc = AfterBump(ps, TRUE)]
          BY <2>7, <4>2 DEF Apply
        <5>2. ps \in SUBSET (Nat \X Nat)
          <6>1. run[c].cmds \in Seq(Cmds)
            BY <1>t DEF RunType
          <6> QED
            BY <6>1, PlaceTypes
        <5>3. AfterBump(ps, TRUE) \in {"bump", "unlock"}
          BY DEF AfterBump
        <5> HIDE DEF ps
        <5>4. [run[c] EXCEPT !.bump = ps, !.reply = "ok", !.loc = Nil,
                             !.pc = AfterBump(ps, TRUE)] \in RunType
          BY <5>2, <5>3, <1>t, <1>n, Updates
        <5> QED
          BY <5>1, <5>4, <1>t
      <4> QED
        BY <4>1, <4>2
    <3> QED
      BY <2>7, <3>2, <3>3, <3>4, <1>t DEF Apply, TypeOK
  <2>8. CASE ApplyError(c)
    <3>1. run[c].tx => Front(run[c].undo) \in Seq(SUBSET Keys)
      <4>1. run[c].undo \in Seq(SUBSET Keys)
        BY <1>t DEF RunType
      <4>2. run[c].tx => run[c].undo # <<>>
        BY <2>8 DEF ApplyError, Control, ControlOf
      <4> QED
        BY <4>1, <4>2 DEF Front
    <3>2. \A pc \in {"rollback", "unlock"}, u \in Seq(SUBSET Keys) :
             [run[c] EXCEPT !.pc = pc, !.undo = u, !.reply = "error"] \in RunType
      BY <1>t, <1>n, Updates
    <3>3. run[c].undo \in Seq(SUBSET Keys)
      BY <1>t DEF RunType
    <3>4. run' \in [Conns -> RunType]
      BY <2>8, <3>1, <3>2, <3>3, <1>t DEF ApplyError
    <3> QED
      BY <2>8, <3>4, <1>t DEF ApplyError, TypeOK
  <2>9. CASE Rollback(c)
    <3>3. [run[c] EXCEPT !.pc = "unlock"] \in RunType
      BY <1>t, <1>n, Updates
    <3>1. run' \in [Conns -> RunType]
      BY <2>9, <3>3, <1>t DEF Rollback
    <3>2. data' \in [Keys -> Values]
      BY <2>9, <1>t, <1>n DEF Rollback
    <3> QED
      BY <2>9, <3>1, <3>2, <1>t DEF Rollback, TypeOK
  <2>10. CASE Unlock(c)
    <3>1. run' \in [Conns -> RunType]
      BY <2>10, Fresh, <1>t DEF Unlock
    <3>2. conn' \in [Conns -> ConnType]
      BY <2>10, Fresh, <1>t DEF Unlock
    <3> QED
      BY <2>10, <3>1, <3>2, <1>t DEF Unlock, TypeOK
  <2> QED
    BY <1>4, <2>1, <2>2, <2>3, <2>4, <2>5, <2>6, <2>7, <2>8, <2>9, <2>10 DEF Work
<1> QED
  BY <1>0, <1>1, <1>2, <1>3, <1>4 DEF Next

-------------------------------------------------------------------------------
(* Control *)

Step(c) == Session(c) \/ Start(c) \/ Lock(c) \/ Work(c)

\* A step of one goroutine leaves the others where they are.
LEMMA Others ==
    ASSUME TypeOK, NEW c \in Conns, Step(c), NEW d \in Conns, d # c
    PROVE  /\ run'[d] = run[d]
           /\ conn'[d].watching = conn[d].watching
           /\ conn'[d].quiet = conn[d].quiet
<1>1. run'[d] = run[d]
  <2>1. CASE Session(c)
    BY <2>1 DEF Session, Multi, Discard, EnqueueError, ExecDiscarded, Watch, Enqueue
  <2>2. CASE Start(c)
    BY <2>2 DEF Start, StartExec, StartNormal, TypeOK
  <2>3. CASE Lock(c)
    BY <2>3 DEF Lock, TypeOK
  <2>4. CASE GetVersion(c) \/ PutVersion(c)
    BY <2>4 DEF GetVersion, PutVersion, TypeOK
  <2>5. CASE WatchChanged(c) \/ WatchUnchanged(c) \/ WatchPassed(c)
    BY <2>5 DEF WatchChanged, WatchUnchanged, WatchPassed, TypeOK
  <2>6. CASE Fetch(c) \/ ApplyError(c) \/ Rollback(c) \/ Unlock(c)
    BY <2>6 DEF Fetch, ApplyError, Rollback, Unlock, TypeOK
  <2>7. CASE Apply(c)
    BY <2>7 DEF Apply, TypeOK
  <2> QED
    BY <2>1, <2>2, <2>3, <2>4, <2>5, <2>6, <2>7 DEF Step, Work
<1>2. conn'[d].watching = conn[d].watching /\ conn'[d].quiet = conn[d].quiet
  <2>1. CASE Session(c)
    BY <2>1 DEF Session, Multi, Discard, EnqueueError, ExecDiscarded, Watch, Enqueue, TypeOK
  <2>2. CASE UNCHANGED conn
    BY <2>2
  <2>3. CASE Unlock(c)
    BY <2>3 DEF Unlock, TypeOK
  <2>4. CASE Apply(c)
    <3>1. conn[d] \in ConnType
      BY DEF TypeOK
    <3>2. \A ks : /\ Touch(ks)[d].watching = conn[d].watching
                  /\ Touch(ks)[d].quiet = conn[d].quiet
      BY <3>1 DEF Touch, ConnType
    <3> QED
      BY <2>4, <3>2 DEF Apply
  <2> QED
    BY <2>1, <2>2, <2>3, <2>4
       DEF Step, Start, StartExec, StartNormal, Lock, Work, GetVersion, PutVersion,
           WatchChanged, WatchUnchanged, WatchPassed, Fetch, ApplyError, Rollback
<1> QED
  BY <1>1, <1>2

\* Control speaks of the goroutine alone.
LEMMA SameControl ==
    ASSUME NEW d \in Conns, run'[d] = run[d], ControlOf(d)
    PROVE  ControlOf(d)'
BY DEF ControlOf, Running, Writes, RenameSources

\* The two ways in which a command that succeeds goes on.
LEMMA ApplyMoves ==
    ASSUME TypeOK, NEW c \in Conns, Apply(c)
    PROVE  /\ run[c].pc = "apply"
           /\ run'[c].cmds = run[c].cmds /\ run'[c].tx = run[c].tx
           /\ run'[c].seen = run[c].seen /\ run'[c].check = run[c].check
           /\ run'[c].undo = run[c].undo /\ run'[c].base = run[c].base
           /\ \/ /\ run[c].i < Len(run[c].cmds)
                 /\ run'[c].pc = "fetch" /\ run'[c].i = run[c].i + 1
                 /\ run'[c].bump = run[c].bump
                 /\ conn' = conn
              \/ /\ run'[c].bump = IF run[c].tx THEN Places(run[c].cmds) ELSE {}
                 /\ run'[c].pc = IF run'[c].bump # {} THEN "bump" ELSE "unlock"
                 /\ run'[c].reply = "ok"
                 /\ conn' = Touch(Writes(c))
<1>t. run[c] \in RunType /\ run \in [Conns -> RunType]
  BY DEF TypeOK
<1>1. CASE run[c].i < Len(run[c].cmds)
  <2>1. run'[c] = [run[c] EXCEPT !.i = @ + 1, !.pc = "fetch", !.loc = Nil] /\ conn' = conn
    BY <1>1, <1>t DEF Apply
  <2>2. LET q == [run[c] EXCEPT !.i = @ + 1, !.pc = "fetch", !.loc = Nil]
        IN  /\ q.pc = "fetch" /\ q.i = run[c].i + 1
            /\ q.cmds = run[c].cmds /\ q.tx = run[c].tx /\ q.seen = run[c].seen
            /\ q.check = run[c].check /\ q.undo = run[c].undo /\ q.base = run[c].base
            /\ q.bump = run[c].bump
    BY <1>t DEF RunType
  <2> QED
    BY <1>1, <2>1, <2>2 DEF Apply
<1>2. CASE ~(run[c].i < Len(run[c].cmds))
  <2> DEFINE ps == IF run[c].tx THEN Places(run[c].cmds) ELSE {}
  <2>1. /\ run'[c] = [run[c] EXCEPT !.bump = ps, !.reply = "ok", !.loc = Nil,
                                    !.pc = AfterBump(ps, TRUE)]
        /\ conn' = Touch(Writes(c))
    BY <1>2, <1>t DEF Apply
  <2>2. \A b, pc : LET q == [run[c] EXCEPT !.bump = b, !.reply = "ok", !.loc = Nil, !.pc = pc]
                   IN  /\ q.pc = pc /\ q.bump = b /\ q.reply = "ok"
                       /\ q.cmds = run[c].cmds /\ q.tx = run[c].tx /\ q.seen = run[c].seen
                       /\ q.check = run[c].check /\ q.undo = run[c].undo /\ q.base = run[c].base
    BY <1>t DEF RunType
  <2>3. run[c].pc = "apply"
    BY DEF Apply
  <2> QED
    BY <2>1, <2>2, <2>3 DEF AfterBump
<1> QED
  BY <1>1, <1>2

\* How a command and how an EXEC begins.
LEMMA Starting ==
    ASSUME TypeOK, NEW c \in Conns, Start(c)
    PROVE  /\ run[c].pc = "idle" /\ conn' = conn
           /\ run'[c].seen = Unread
           /\ \/ run'[c].pc = "lock" /\ run'[c].tx /\ run'[c].bump = {}
                 /\ run'[c].check = Watched(c)
              \/ \E cmd \in Normal[c] :
                    /\ run'[c].cmds = <<cmd>> /\ ~run'[c].tx
                    /\ run'[c].bump = Places(<<cmd>>)
                    /\ run'[c].pc = IF run'[c].bump # {} THEN "bump" ELSE "lock"
<1>t. run \in [Conns -> RunType]
  BY DEF TypeOK
<1>1. CASE StartExec(c)
  BY <1>1, <1>t DEF StartExec, Idle
<1>2. ASSUME NEW cmd \in Normal[c], StartNormal(c, cmd)
      PROVE  /\ run[c].pc = "idle" /\ conn' = conn
             /\ run'[c].seen = Unread
             /\ run'[c].cmds = <<cmd>> /\ ~run'[c].tx
             /\ run'[c].bump = Places(<<cmd>>)
             /\ run'[c].pc = IF run'[c].bump # {} THEN "bump" ELSE "lock"
  BY <1>2, <1>t DEF StartNormal, Idle, AfterBump
<1> QED
  BY <1>1, <1>2 DEF Start

\* Dropping the last undo log keeps the others.
LEMMA FrontOf ==
    ASSUME NEW S, NEW s \in Seq(S), s # <<>>
    PROVE  /\ Front(s) \in Seq(S)
           /\ DOMAIN Front(s) = DOMAIN s \ {Len(s)}
           /\ \A j \in DOMAIN Front(s) : Front(s)[j] = s[j]
BY DEF Front

\* The undo log of a command speaks of its keys.
LEMMA UndoLogKeys ==
    ASSUME TypeOK, Control, NEW c \in Conns, Running(c)
    PROVE  UndoLog(Current(c), data) \subseteq Writes(c) \cup RenameSources(c)
<1>1. Current(c) \in Cmds
  BY CurrentTypes
<1>2. /\ WriteKeys(Current(c)) \subseteq Writes(c)
      /\ Current(c).op = "rename" => Current(c).keys[1] \in RenameSources(c)
  BY CurrentTypes
<1>3. UndoLog(Current(c), data) \subseteq
         WriteKeys(Current(c)) \cup (IF Current(c).op = "rename" THEN {Current(c).keys[1]} ELSE {})
  <2>1. CASE Current(c).op = "rename"
    <3>1. Len(Current(c).keys) = 2 /\ Current(c).keys \in Seq(Keys)
      BY <1>1, <2>1, CmdAssumption
    <3>2. KeysOf(Current(c)) \subseteq {Current(c).keys[1], Current(c).keys[2]}
      BY <3>1 DEF KeysOf, ToSet
    <3>3. Current(c).keys[2] \in WriteKeys(Current(c))
      BY <2>1 DEF WriteKeys, WriteSeq, ToSet
    <3> QED
      BY <2>1, <3>2, <3>3 DEF UndoLog
  <2>2. CASE Current(c).op = "get"
    BY <2>2 DEF UndoLog
  <2>3. CASE Current(c).op \notin {"rename", "get"}
    BY <2>3 DEF UndoLog, KeysOf, WriteKeys, WriteSeq
  <2> QED
    BY <2>1, <2>2, <2>3
<1> QED
  BY <1>2, <1>3

\* Control is inductive.
LEMMA ControlStep ==
    ASSUME TypeOK, Control, [Next]_vars
    PROVE  Control'
<1>0. CASE UNCHANGED vars
  BY <1>0, SameControl DEF vars, Control
<1>1. ASSUME NEW c \in Conns, Step(c)
      PROVE  Control'
  <2>1. \A d \in Conns \ {c} : ControlOf(d)'
    BY <1>1, Others, SameControl DEF Control
  <2>t. /\ ControlOf(c) /\ run[c] \in RunType /\ run \in [Conns -> RunType]
        /\ run[c].cmds \in Seq(Cmds) /\ run[c].i \in Nat /\ run[c].undo \in Seq(SUBSET Keys)
    BY DEF Control, TypeOK, RunType
  <2>2. ControlOf(c)'
    <3> USE DEF ControlOf, Running
    <3>s. run'[c].cmds = run[c].cmds => Writes(c)' = Writes(c) /\ RenameSources(c)' = RenameSources(c)
      BY DEF Writes, RenameSources
    <3>1. CASE Session(c)
      <4>1. run' = run
        BY <3>1 DEF Session, Multi, Discard, EnqueueError, ExecDiscarded, Watch, Enqueue
      <4> QED
        BY <4>1, SameControl, <2>t
    <3>2. CASE StartExec(c)
      BY <3>2, <2>t DEF StartExec, Idle
    <3>3. ASSUME NEW cmd \in Normal[c], StartNormal(c, cmd)
          PROVE  ControlOf(c)'
      BY <3>3, <2>t DEF StartNormal, Idle, AfterBump
    <3>4. CASE Lock(c)
      <4>1. \A b : LET q == [run[c] EXCEPT !.pc = IF run[c].tx THEN "check" ELSE "fetch",
                                           !.base = b]
                   IN  /\ q.pc = IF run[c].tx THEN "check" ELSE "fetch"
                       /\ q.i = run[c].i /\ q.cmds = run[c].cmds /\ q.tx = run[c].tx
                       /\ q.bump = run[c].bump /\ q.seen = run[c].seen
                       /\ q.check = run[c].check /\ q.undo = run[c].undo
        BY <2>t DEF RunType
      <4>2. /\ run'[c].pc = IF run[c].tx THEN "check" ELSE "fetch"
            /\ run'[c].i = run[c].i /\ run'[c].cmds = run[c].cmds /\ run'[c].tx = run[c].tx
            /\ run'[c].bump = run[c].bump /\ run'[c].seen = run[c].seen
            /\ run'[c].check = run[c].check /\ run'[c].undo = run[c].undo
        BY <3>4, <4>1, <2>t DEF Lock
      <4>3. run[c].pc = "lock"
        BY <3>4 DEF Lock
      <4> QED
        BY <4>2, <4>3, <3>s, <2>t
    <3>5. CASE GetVersion(c)
      BY <3>5, <3>s, <2>t DEF GetVersion
    <3>6. CASE PutVersion(c)
      BY <3>6, <3>s, <2>t DEF PutVersion, AfterBump
    <3>7. CASE WatchChanged(c)
      BY <3>7, <3>s, <2>t DEF WatchChanged
    <3>8. CASE WatchUnchanged(c)
      BY <3>8, <3>s, <2>t DEF WatchUnchanged
    <3>9. CASE WatchPassed(c)
      BY <3>9, <3>s, <2>t DEF WatchPassed
    <3>10. CASE Fetch(c)
      <4>1. UndoLog(Current(c), data) \subseteq Writes(c) \cup RenameSources(c)
        BY <3>10, UndoLogKeys DEF Fetch
      <4>2. \A j \in DOMAIN Append(run[c].undo, UndoLog(Current(c), data)) :
               Append(run[c].undo, UndoLog(Current(c), data))[j]
                  \subseteq Writes(c) \cup RenameSources(c)
        BY <4>1, <2>t
      <4>3. Append(run[c].undo, UndoLog(Current(c), data)) # <<>>
        BY <2>t
      <4>4. /\ run'[c].pc = "apply" /\ run[c].pc = "fetch"
            /\ run'[c].i = run[c].i /\ run'[c].cmds = run[c].cmds /\ run'[c].tx = run[c].tx
            /\ run'[c].bump = run[c].bump /\ run'[c].seen = run[c].seen
            /\ run'[c].check = run[c].check
            /\ run'[c].undo = IF run[c].tx THEN Append(run[c].undo, UndoLog(Current(c), data))
                              ELSE run[c].undo
        BY <3>10, <2>t DEF Fetch
      <4> QED
        BY <4>2, <4>3, <4>4, <3>s, <2>t
    <3>11. CASE Apply(c)
      <4>1. run[c].i < Len(run[c].cmds) => run[c].i + 1 \in DOMAIN run[c].cmds
        BY <2>t
      <4> QED
        <5>1. Writes(c)' = Writes(c) /\ RenameSources(c)' = RenameSources(c)
          BY <3>11, <3>s, ApplyMoves
        <5>2. /\ run'[c].bump \subseteq Places(run'[c].cmds)
              /\ run'[c].pc # "bump" => run'[c].bump = {}
          BY <3>11, <2>t, ApplyMoves
        <5>3. Running(c)' => /\ run'[c].i \in DOMAIN run'[c].cmds
                             /\ run'[c].check = {}
          BY <3>11, <4>1, <2>t, ApplyMoves
        <5>4. /\ run'[c].pc \notin {"apply", "lock", "check", "rollback", "idle"}
              /\ run'[c].pc = "bump" => run'[c].tx
          BY <3>11, ApplyMoves
        <5>5. /\ run'[c].seen = Unread /\ run'[c].undo = run[c].undo
              /\ ~run'[c].tx => run'[c].check = {} /\ run'[c].cmds # <<>>
          BY <3>11, <2>t, ApplyMoves
        <5> QED
          BY <5>1, <5>2, <5>3, <5>4, <5>5, <2>t
    <3>12. CASE ApplyError(c)
      <4>1. run[c].tx => \A j \in DOMAIN Front(run[c].undo) :
                            Front(run[c].undo)[j] \subseteq Writes(c) \cup RenameSources(c)
        <5>1. run[c].tx => run[c].undo # <<>>
          BY <3>12, <2>t DEF ApplyError
        <5> QED
          BY ZenonT(60), <5>1, <2>t, FrontOf
      <4>2. /\ run'[c].pc = (IF run[c].tx THEN "rollback" ELSE "unlock") /\ run[c].pc = "apply"
            /\ run'[c].i = run[c].i /\ run'[c].cmds = run[c].cmds /\ run'[c].tx = run[c].tx
            /\ run'[c].bump = run[c].bump /\ run'[c].seen = run[c].seen
            /\ run'[c].check = run[c].check
            /\ run'[c].undo = IF run[c].tx THEN Front(run[c].undo) ELSE run[c].undo
        BY <3>12, <2>t DEF ApplyError
      <4> QED
        BY <4>1, <4>2, <3>s, <2>t
    <3>13. CASE Rollback(c)
      BY <3>13, <3>s, <2>t DEF Rollback
    <3>14. CASE Unlock(c)
      BY <3>14, <2>t DEF Unlock, Idle
    <3> QED
      BY <1>1, <3>1, <3>2, <3>3, <3>4, <3>5, <3>6, <3>7, <3>8, <3>9, <3>10, <3>11, <3>12,
         <3>13, <3>14 DEF Step, Start, Work
  <2> QED
    BY <2>1, <2>2 DEF Control
<1> QED
  BY <1>0, <1>1 DEF Next, Step

-------------------------------------------------------------------------------
(* Locks *)

\* A footprint follows from the commands and the watched keys.
LEMMA SameRequest ==
    ASSUME NEW c \in Conns, run'[c].cmds = run[c].cmds, run'[c].tx = run[c].tx,
           conn'[c].watching = conn[c].watching
    PROVE  /\ Writes(c)' = Writes(c) /\ Reads(c)' = Reads(c) /\ Watched(c)' = Watched(c)
           /\ LockRequest(c)' = LockRequest(c)
           /\ RenameSources(c)' = RenameSources(c)
BY DEF Writes, Reads, Watched, LockRequest, RenameSources

\* Whoever holds locks after a step held the same ones before, or has just got them.
LEMMA Keeps ==
    ASSUME TypeOK, Control, NEW c \in Conns, Step(c), NEW d \in Conns, Holding(d)'
    PROVE  /\ run'[d].cmds = run[d].cmds /\ run'[d].tx = run[d].tx
           /\ conn'[d].watching = conn[d].watching
           /\ Holding(d) \/ (d = c /\ Lock(d))
<1>1. CASE d # c
  BY <1>1, Others DEF Holding
<1>2. CASE d = c
  <2>t. ControlOf(d) /\ run[d] \in RunType /\ run \in [Conns -> RunType] /\ conn[d] \in ConnType
    BY DEF Control, TypeOK
  <2>1. CASE Session(c)
    BY <1>2, <2>1 DEF Session, Multi, Discard, EnqueueError, ExecDiscarded, Watch, Enqueue, Holding
  <2>2. CASE Start(c)
    <3>1. run'[c].pc \in {"bump", "lock"} /\ (run'[c].pc = "bump" => ~run'[c].tx)
      BY <2>2, <2>t, <1>2, Starting
    <3> QED
      BY <1>2, <3>1 DEF Holding
  <2>3. CASE Lock(c)
    BY <1>2, <2>3, <2>t DEF Lock
  <2>4. CASE GetVersion(c)
    BY <1>2, <2>4, <2>t DEF GetVersion, Holding
  <2>5. CASE PutVersion(c)
    BY <1>2, <2>5, <2>t DEF PutVersion, Holding, AfterBump
  <2>6. CASE WatchChanged(c) \/ WatchUnchanged(c) \/ WatchPassed(c)
    <3>1. CASE WatchChanged(c)
      BY <1>2, <3>1, <2>t DEF WatchChanged, Holding
    <3>2. CASE WatchUnchanged(c)
      BY <1>2, <3>2, <2>t DEF WatchUnchanged, Holding
    <3>3. CASE WatchPassed(c)
      BY <1>2, <3>3, <2>t DEF WatchPassed, Holding
    <3> QED
      BY <2>6, <3>1, <3>2, <3>3
  <2>7. CASE Fetch(c) \/ ApplyError(c) \/ Rollback(c)
    <3>1. CASE Fetch(c)
      BY <1>2, <3>1, <2>t DEF Fetch, Holding
    <3>2. CASE ApplyError(c)
      BY <1>2, <3>2, <2>t DEF ApplyError, Holding
    <3>3. CASE Rollback(c)
      BY <1>2, <3>3, <2>t DEF Rollback, Holding
    <3> QED
      BY <2>7, <3>1, <3>2, <3>3
  <2>8. CASE Apply(c)
    <3>1. \A ks : Touch(ks)[d].watching = conn[d].watching
      BY <2>t DEF Touch, ConnType
    <3>2. conn'[d].watching = conn[d].watching
      BY ZenonT(60), <1>2, <2>8, <3>1 DEF Apply
    <3> QED
      BY <1>2, <2>8, <3>2, ApplyMoves DEF Holding
  <2>9. CASE Unlock(c)
    BY <1>2, <2>9, <2>t DEF Unlock, Holding, Idle
  <2> QED
    BY <2>1, <2>2, <2>3, <2>4, <2>5, <2>6, <2>7, <2>8, <2>9 DEF Step, Work
<1> QED
  BY <1>1, <1>2

\* RWLocks keeps the footprints of holders apart.
LEMMA ExclusiveStep ==
    ASSUME TypeOK, Control, Exclusive, [Next]_vars
    PROVE  Exclusive'
<1>0. CASE UNCHANGED vars
  BY <1>0 DEF vars, Exclusive, Holding, LockRequest, Writes, Reads, Watched
<1>1. ASSUME NEW c \in Conns, Step(c)
      PROVE  Exclusive'
  <2> SUFFICES ASSUME NEW d \in Conns, NEW e \in Conns, d # e, Holding(d)', Holding(e)'
               PROVE  Locks!Compatible(LockRequest(d)', LockRequest(e)')
    BY DEF Exclusive, Locks!Compatible
  <2>1. LockRequest(d)' = LockRequest(d) /\ (Holding(d) \/ (d = c /\ Lock(d)))
    BY <1>1, Keeps, SameRequest
  <2>2. LockRequest(e)' = LockRequest(e) /\ (Holding(e) \/ (e = c /\ Lock(e)))
    BY <1>1, Keeps, SameRequest
  <2>3. CASE Holding(d) /\ Holding(e)
    BY <2>1, <2>2, <2>3 DEF Exclusive
  <2>4. CASE ~Holding(d)
    BY <2>1, <2>2, <2>4 DEF Lock
  <2>5. CASE ~Holding(e)
    <3>1. Locks!Compatible(LockRequest(e), LockRequest(d))
      BY <2>1, <2>2, <2>5 DEF Lock
    <3> QED
      BY <2>1, <2>2, <3>1 DEF Locks!Compatible
  <2> QED
    BY <2>3, <2>4, <2>5
<1> QED
  BY <1>0, <1>1 DEF Next, Step

-------------------------------------------------------------------------------
(* Data *)

\* The source of a rename is locked for reading.
LEMMA SourcesRead ==
    ASSUME TypeOK, NEW c \in Conns
    PROVE  RenameSources(c) \subseteq Reads(c)
BY DEF RenameSources, Reads, ReadKeys

\* A key that changes is one that some goroutine writes under its lock, or the source of
\* its rename.
LEMMA DataStep ==
    ASSUME TypeOK, Control, [Next]_vars, NEW k \in Keys, data'[k] # data[k]
    PROVE  \E d \in Conns : /\ Step(d) /\ Holding(d) /\ run'[d] # run[d]
                            /\ k \in Writes(d) \cup RenameSources(d)
<1>1. PICK d \in Conns : Step(d)
  BY DEF Next, Step, vars
<1>2. Apply(d) \/ Rollback(d)
  BY <1>1 DEF Step, Session, Multi, Discard, EnqueueError, ExecDiscarded, Watch, Enqueue, Start,
              StartExec, StartNormal, Lock, Work, GetVersion, PutVersion, WatchChanged,
              WatchUnchanged, WatchPassed, Fetch, ApplyError, Unlock
<1>t. run[d] \in RunType /\ run \in [Conns -> RunType] /\ data \in [Keys -> Values]
      /\ run[d].i \in Nat /\ ControlOf(d)
  BY DEF TypeOK, Control, RunType
<1>3. Holding(d)
  BY <1>2 DEF Apply, Rollback, Holding
<1>4. run'[d] # run[d]
  <2>1. CASE Rollback(d)
    <3>1. run[d].pc = "rollback" /\ run'[d].pc = "unlock"
      BY <2>1, <1>t DEF Rollback
    <3> QED
      BY <3>1
  <2>2. CASE Apply(d)
    BY <2>2, <1>t, ApplyMoves
  <2> QED
    BY <1>2, <2>1, <2>2
<1>5. k \in Writes(d) \cup RenameSources(d)
  <2>1. CASE Rollback(d)
    <3>1. PICK j \in DOMAIN run[d].undo : k \in run[d].undo[j]
      BY <2>1, <1>t DEF Rollback, ToSet
    <3> QED
      BY <3>1, <1>t DEF ControlOf
  <2>2. CASE Apply(d)
    <3>1. Running(d)
      BY <2>2 DEF Apply, Running
    <3>2. /\ Current(d) \in Cmds
          /\ WriteKeys(Current(d)) \subseteq Writes(d)
          /\ Current(d).op = "rename" => Current(d).keys[1] \in RenameSources(d)
      BY <3>1, CurrentTypes
    <3>3. Effect(Current(d), run[d].loc, data)[k] # data[k]
      BY <2>2 DEF Apply
    <3> QED
      BY <3>2, <3>3, <1>t, EffectWrites
  <2> QED
    BY <1>2, <2>1, <2>2
<1> QED
  BY <1>1, <1>3, <1>4, <1>5

\* While a goroutine holds the lock of a key for writing, nobody else changes it.
LEMMA Untouched ==
    ASSUME TypeOK, Control, Exclusive, NEW c \in Conns, Step(c),
           NEW d \in Conns, d # c, Holding(d), NEW k \in Writes(d)
    PROVE  data'[k] = data[k]
<1> SUFFICES ASSUME data'[k] # data[k]
             PROVE  FALSE
  OBVIOUS
<1>1. k \in Keys
  BY RequestTypes
<1>2. [Next]_vars
  BY DEF Step, Next
<1>3. PICK e \in Conns : /\ Step(e) /\ Holding(e) /\ run'[e] # run[e]
                         /\ k \in Writes(e) \cup RenameSources(e)
  BY <1>1, <1>2, DataStep
<1>4. e = c
  BY <1>3, Others
<1>5. Locks!Compatible(LockRequest(d), LockRequest(e))
  BY <1>3, <1>4 DEF Exclusive
<1>6. k \in Writes(e) \cup Reads(e)
  BY <1>3, SourcesRead
<1> QED
  BY <1>5, <1>6 DEF Locks!Compatible, LockRequest

-------------------------------------------------------------------------------
(* Versions *)

\* Connection c's watching speaks of what it watches.
WatchedInv == \A c \in Conns : conn[c].quiet \cup conn[c].touched \subseteq Watched(c)

Pending(d, k) == \E p \in run[d].bump : KeyAt(d, p) = k
Reading(d, k) == run[d].seen # Unread /\ \E p \in FirstOf(run[d].bump) : KeyAt(d, p) = k

\* EXEC bumps with the lock: what it has read stays, but for writers that wait for it.
SeenInv ==
    \A d \in Conns, k \in Keys :
        run[d].tx /\ Reading(d, k) => InFlight(k) \/ version[k] = run[d].seen

\* What has become of the version w of key k since it was watched.
Since(c, k) ==
    LET w == conn[c].watching[k]
    IN  /\ version[k] >= w
        /\ \A d \in Conns : Reading(d, k) => run[d].seen >= w
        /\ \A d \in Conns :
              ~run[d].tx /\ run[d].pc # "idle" /\ k \in Writes(d) /\ ~Pending(d, k) =>
                 version[k] > w
        /\ k \in conn[c].touched =>
              \/ version[k] > w
              \/ \E d \in Conns : run[d].tx /\ run[d].pc = "bump" /\ Pending(d, k)

VersionInv == \A c \in Conns : \A k \in conn[c].quiet : Since(c, k)

\* What EXEC has compared has not been written.
CheckInv ==
    \A c \in Conns :
        /\ run[c].tx /\ run[c].pc = "lock" => run[c].check = Watched(c)
        /\ run[c].tx /\ run[c].pc \in {"check", "fetch", "apply"} =>
              conn[c].quiet \cap conn[c].touched \subseteq run[c].check

\* Pending bumps are of keys the goroutine writes.
LEMMA PendingWrites ==
    ASSUME TypeOK, Control, NEW d \in Conns, NEW k, Pending(d, k)
    PROVE  k \in Writes(d) /\ k \in Keys /\ run[d].pc = "bump"
<1>1. PICK p \in run[d].bump : KeyAt(d, p) = k
  BY DEF Pending
<1>2. run[d].cmds \in Seq(Cmds) /\ p \in Places(run[d].cmds)
  BY <1>1 DEF TypeOK, RunType, Control, ControlOf
<1>3. p[1] \in DOMAIN run[d].cmds /\ k \in Keys /\ k \in WriteKeys(run[d].cmds[p[1]])
  BY <1>1, <1>2, PlaceTypes DEF KeyAt
<1>4. run[d].pc = "bump"
  BY <1>1 DEF Control, ControlOf
<1> QED
  BY <1>3, <1>4 DEF Writes

\* The key whose version has been read is to be bumped.
LEMMA ReadingPending ==
    ASSUME NEW d \in Conns, NEW k, Reading(d, k)
    PROVE  Pending(d, k)
BY DEF Reading, Pending, FirstOf

\* The places of commands reach all keys they write.
LEMMA PlacesCover ==
    ASSUME NEW cmds, NEW k \in UNION {WriteKeys(cmds[j]) : j \in DOMAIN cmds}
    PROVE  \E p \in Places(cmds) : WriteSeq(cmds[p[1]])[p[2]] = k
<1>1. PICK i \in DOMAIN cmds : k \in WriteKeys(cmds[i])
  OBVIOUS
<1>2. PICK j \in DOMAIN WriteSeq(cmds[i]) : WriteSeq(cmds[i])[j] = k
  BY <1>1 DEF WriteKeys, ToSet
<1>3. <<i, j>> \in Places(cmds)
  BY <1>1, <1>2 DEF Places
<1>4. WriteSeq(cmds[<<i, j>>[1]])[<<i, j>>[2]] = k
  BY <1>2
<1> QED
  BY <1>3, <1>4

\* Nobody but EXEC has a key for itself while its versions are bumped.
LEMMA BumpingAlone ==
    ASSUME TypeOK, Control, Exclusive, NEW d \in Conns, run[d].tx, NEW k, Pending(d, k),
           NEW e \in Conns, e # d, k \in Writes(e) \cup Reads(e) \cup (IF run[e].tx THEN Watched(e) ELSE {})
    PROVE  ~Holding(e)
<1>1. k \in Writes(d) /\ Holding(d)
  BY PendingWrites DEF Holding
<1>2. SUFFICES ASSUME Holding(e)
               PROVE  FALSE
  OBVIOUS
<1>3. Locks!Compatible(LockRequest(d), LockRequest(e))
  BY <1>1, <1>2 DEF Exclusive
<1> QED
  BY <1>1, <1>3 DEF Locks!Compatible, LockRequest

\* A goroutine that does not move is seen in the same place.
LEMMA SamePlace ==
    ASSUME NEW d \in Conns, run'[d] = run[d], NEW k
    PROVE  /\ Pending(d, k)' = Pending(d, k) /\ Reading(d, k)' = Reading(d, k)
           /\ Writes(d)' = Writes(d)
BY DEF Pending, Reading, KeyAt, Writes

\* addVersion has one key at a time in hand.
LEMMA FirstIsOne ==
    ASSUME NEW ps \in SUBSET (Nat \X Nat), NEW p \in FirstOf(ps), NEW q \in FirstOf(ps)
    PROVE  p = q
<1>1. p \in Nat \X Nat /\ q \in Nat \X Nat
  BY DEF FirstOf
<1>2. p[1] < q[1] \/ (p[1] = q[1] /\ p[2] <= q[2])
  BY DEF FirstOf
<1>3. q[1] < p[1] \/ (q[1] = p[1] /\ q[2] <= p[2])
  BY DEF FirstOf
<1> QED
  BY <1>1, <1>2, <1>3

\* What PutVersion does.
LEMMA Bumping ==
    ASSUME TypeOK, Control, NEW c \in Conns, PutVersion(c)
    PROVE  /\ run[c].pc = "bump"
           /\ run'[c].cmds = run[c].cmds /\ run'[c].tx = run[c].tx
           /\ run'[c].seen = Unread /\ conn' = conn
           /\ run'[c].pc \in {"bump", "lock", "unlock"}
           /\ \E k \in Keys : /\ Reading(c, k)
                              /\ version' = [version EXCEPT ![k] = run[c].seen + 1]
                              /\ \A l : Pending(c, l)' => Pending(c, l) /\ run'[c].pc = "bump"
                              /\ \A l : Pending(c, l) => Pending(c, l)' \/ l = k
<1>t. run[c] \in RunType /\ run \in [Conns -> RunType]
  BY DEF TypeOK
<1>1. PICK p \in FirstOf(run[c].bump) :
         /\ version' = [version EXCEPT ![KeyAt(c, p)] = run[c].seen + 1]
         /\ run' = [run EXCEPT ![c].seen = Unread, ![c].bump = @ \ {p},
                               ![c].pc = AfterBump(run[c].bump \ {p}, run[c].tx)]
  BY DEF PutVersion
<1>2. /\ run'[c].cmds = run[c].cmds /\ run'[c].tx = run[c].tx /\ run'[c].seen = Unread
      /\ run'[c].bump = run[c].bump \ {p}
      /\ run'[c].pc \in {"bump", "lock", "unlock"}
      /\ run'[c].bump # {} => run'[c].pc = "bump"
  BY <1>1, <1>t DEF AfterBump
<1>3. Reading(c, KeyAt(c, p))
  BY <1>1 DEF Reading, PutVersion
<1>4. KeyAt(c, p) \in Keys
  BY <1>3, ReadingPending, PendingWrites
<1>5. \A l : Pending(c, l)' => Pending(c, l) /\ run'[c].pc = "bump"
  BY <1>2 DEF Pending, KeyAt
<1>6. \A l : Pending(c, l) => Pending(c, l)' \/ l = KeyAt(c, p)
  BY <1>2 DEF Pending, KeyAt
<1> QED
  BY <1>1, <1>2, <1>3, <1>4, <1>5, <1>6 DEF PutVersion

\* A goroutine in a command keeps its commands until it unlocks.
LEMMA Busy ==
    ASSUME TypeOK, Control, NEW c \in Conns, Step(c), run[c].pc # "idle"
    PROVE  \/ run'[c].cmds = run[c].cmds /\ run'[c].tx = run[c].tx /\ run'[c].pc # "idle"
           \/ Unlock(c)
<1>t. run \in [Conns -> RunType] /\ run[c] \in RunType
  BY DEF TypeOK
<1>1. ~Session(c) /\ ~Start(c)
  BY DEF Session, Multi, Discard, EnqueueError, ExecDiscarded, Watch, Enqueue, Start, StartExec,
         StartNormal
<1>2. CASE Lock(c)
  <2>1. run'[c].pc \in {"check", "fetch"}
    BY <1>2, <1>t DEF Lock
  <2>2. Holding(c)'
    BY <2>1 DEF Holding
  <2> QED
    BY <2>1, <2>2, Keeps
<1>3. CASE GetVersion(c)
  BY <1>3, <1>t DEF GetVersion
<1>4. CASE PutVersion(c)
  BY <1>4, Bumping
<1>5. CASE Apply(c)
  BY <1>5, ApplyMoves
<1>6. CASE WatchChanged(c)
  BY <1>6, <1>t DEF WatchChanged
<1>7. CASE WatchUnchanged(c)
  BY <1>7, <1>t DEF WatchUnchanged
<1>8. CASE WatchPassed(c)
  BY <1>8, <1>t DEF WatchPassed
<1>9. CASE Fetch(c)
  BY <1>9, <1>t DEF Fetch
<1>10. CASE ApplyError(c)
  BY <1>10, <1>t DEF ApplyError
<1>11. CASE Rollback(c)
  BY <1>11, <1>t DEF Rollback
<1> QED
  BY <1>1, <1>2, <1>3, <1>4, <1>5, <1>6, <1>7, <1>8, <1>9, <1>10, <1>11 DEF Step, Work

\* Only GetVersion reads a version, and it reads the one that is there.
LEMMA Reads1 ==
    ASSUME TypeOK, Control, NEW c \in Conns, Step(c), NEW k, Reading(c, k)'
    PROVE  version' = version /\ run'[c].seen = version[k]
<1>t. run \in [Conns -> RunType] /\ run[c] \in RunType /\ ControlOf(c)
  BY DEF TypeOK, Control
<1>1. CASE GetVersion(c)
  <2>1. PICK p \in FirstOf(run[c].bump) : run' = [run EXCEPT ![c].seen = version[KeyAt(c, p)]]
    BY <1>1 DEF GetVersion
  <2>2. run'[c].bump = run[c].bump /\ run'[c].cmds = run[c].cmds
    BY <2>1, <1>t
  <2>3. PICK q \in FirstOf(run[c].bump) : KeyAt(c, q) = k
    BY <2>2 DEF Reading, KeyAt
  <2>4. p = q
    BY <2>1, <2>3, FirstIsOne, <1>t DEF RunType
  <2>5. run'[c].seen = version[KeyAt(c, p)]
    BY <2>1, <1>t DEF RunType
  <2>6. version' = version
    BY <1>1 DEF GetVersion
  <2> QED
    BY <2>3, <2>4, <2>5, <2>6
<1>2. CASE ~GetVersion(c)
  <2>1. run'[c].seen # Unread
    BY DEF Reading
  <2>2. CASE run[c].pc = "idle"
    <3>1. run' = run \/ run'[c].seen = Unread
      BY <2>2, Starting
         DEF Step, Session, Multi, Discard, EnqueueError, ExecDiscarded, Watch, Enqueue, Lock, Work,
             GetVersion, PutVersion, WatchChanged, WatchUnchanged, WatchPassed, Fetch, Apply,
             ApplyError, Rollback, Unlock
    <3> QED
      BY <2>1, <2>2, <3>1, <1>t DEF ControlOf
  <2>3. CASE run[c].pc # "idle" /\ PutVersion(c)
    BY <2>1, <2>3, Bumping
  <2>4. CASE run[c].pc # "idle" /\ ~PutVersion(c)
    <3>1. run[c].seen = Unread
      BY <1>2, <2>4, <1>t
         DEF Step, Session, Multi, Discard, EnqueueError, ExecDiscarded, Watch, Enqueue, Start,
             StartExec, StartNormal, Lock, Work, WatchChanged, WatchUnchanged, WatchPassed, Fetch,
             Apply, ApplyError, Rollback, Unlock, ControlOf
    <3>2. run'[c].seen = Unread
      <4>1. CASE Lock(c)
        <5>1. \A b, pc : [run[c] EXCEPT !.pc = pc, !.base = b].seen = run[c].seen
          BY <1>t DEF RunType
        <5> QED
          BY <4>1, <5>1, <3>1, <1>t DEF Lock
      <4>2. CASE Apply(c)
        BY <4>2, <3>1, ApplyMoves
      <4>3. CASE WatchChanged(c)
        BY <4>3, <3>1, <1>t DEF WatchChanged
      <4>4. CASE WatchUnchanged(c)
        BY <4>4, <3>1, <1>t DEF WatchUnchanged
      <4>5. CASE WatchPassed(c)
        BY <4>5, <3>1, <1>t DEF WatchPassed
      <4>6. CASE Fetch(c)
        BY <4>6, <3>1, <1>t DEF Fetch
      <4>7. CASE ApplyError(c)
        BY <4>7, <3>1, <1>t DEF ApplyError
      <4>8. CASE Rollback(c)
        BY <4>8, <3>1, <1>t DEF Rollback
      <4>9. CASE Unlock(c)
        BY <4>9, <1>t DEF Unlock, Idle
      <4> QED
        BY <1>2, <2>4, <4>1, <4>2, <4>3, <4>4, <4>5, <4>6, <4>7, <4>8, <4>9
           DEF Step, Session, Multi, Discard, EnqueueError, ExecDiscarded, Watch, Enqueue, Start,
               StartExec, StartNormal, Work
    <3> QED
      BY <2>1, <3>2
  <2> QED
    BY <2>2, <2>3, <2>4
<1> QED
  BY <1>1, <1>2

\* Only PutVersion writes versions.
LEMMA VersionsBy ==
    ASSUME NEW c \in Conns, Step(c), version' # version
    PROVE  PutVersion(c)
BY DEF Step, Session, Multi, Discard, EnqueueError, ExecDiscarded, Watch, Enqueue, Start,
       StartExec, StartNormal, Lock, Work, GetVersion, WatchChanged, WatchUnchanged, WatchPassed,
       Fetch, Apply, ApplyError, Rollback, Unlock

\* SeenInv is inductive, given the locks.
LEMMA SeenStep ==
    ASSUME TypeOK, Control, Exclusive, SeenInv, NEW c \in Conns, Step(c)
    PROVE  SeenInv'
<1> SUFFICES ASSUME NEW d \in Conns, NEW k \in Keys, run'[d].tx, Reading(d, k)'
             PROVE  InFlight(k)' \/ version'[k] = run'[d].seen
  BY DEF SeenInv
<1>1. CASE d = c
  BY <1>1, Reads1
<1>2. CASE d # c
  <2>1. run'[d] = run[d] /\ Reading(d, k)
    BY <1>2, Others, SamePlace
  <2>2. Pending(d, k)
    BY <2>1, ReadingPending
  <2>3. CASE InFlight(k)
    <3>1. PICK e \in Conns : run[e].pc # "idle" /\ ~run[e].tx /\ k \in Writes(e)
      BY <2>3 DEF InFlight
    <3>2. CASE e # c
      <4>1. run'[e] = run[e]
        BY <3>2, Others
      <4> QED
        BY <3>1, <4>1 DEF InFlight, Writes
    <3>3. CASE e = c /\ Unlock(c)
      <4>1. Holding(e)
        BY <3>3 DEF Unlock, Holding
      <4> QED
        BY <3>1, <4>1, <2>1, <2>2, BumpingAlone
    <3>4. CASE e = c /\ ~Unlock(c)
      <4>1. run'[e].cmds = run[e].cmds /\ run'[e].tx = run[e].tx /\ run'[e].pc # "idle"
        BY <3>1, <3>4, Busy
      <4> QED
        BY <3>1, <4>1 DEF InFlight, Writes
    <3> QED
      BY <3>2, <3>3, <3>4
  <2>4. CASE version[k] = run[d].seen /\ version'[k] # version[k]
    <3>1. PutVersion(c)
      BY <2>4, VersionsBy
    <3>2. Reading(c, k)
      BY <2>4, <3>1, Bumping DEF TypeOK
    <3>3. k \in Writes(c) /\ run[c].pc = "bump"
      BY <3>2, ReadingPending, PendingWrites
    <3>4. CASE run[c].tx
      BY <3>3, <3>4, <2>1, <2>2, <1>2, BumpingAlone DEF Holding
    <3>5. CASE ~run[c].tx
      BY <3>1, <3>3, <3>5, Bumping DEF InFlight, Writes
    <3> QED
      BY <3>4, <3>5
  <2> QED
    BY <2>1, <2>3, <2>4 DEF SeenInv
<1> QED
  BY <1>1, <1>2

\* What Touch leaves alone.
LEMMA TouchOf ==
    ASSUME TypeOK, NEW x \in Conns, NEW ks
    PROVE  /\ Touch(ks)[x].quiet = conn[x].quiet
           /\ Touch(ks)[x].watching = conn[x].watching
           /\ Touch(ks)[x].touched = conn[x].touched \cup (ks \cap Watched(x))
<1>1. conn[x] \in ConnType
  BY DEF TypeOK
<1>2. Touch(ks)[x] = [conn[x] EXCEPT !.touched = @ \cup (ks \cap Watched(x))]
  BY DEF Touch
<1>3. \A t : LET q == [conn[x] EXCEPT !.touched = t]
             IN  q.quiet = conn[x].quiet /\ q.watching = conn[x].watching /\ q.touched = t
  BY <1>1 DEF ConnType
<1> QED
  BY <1>2, <1>3

\* Watch(c, l) on the connection itself.
LEMMA WatchOf ==
    ASSUME TypeOK, NEW c \in Conns, NEW l \in WatchKeys[c], Watch(c, l)
    PROVE  /\ conn'[c].watching = [conn[c].watching EXCEPT ![l] = version[l]]
           /\ conn'[c].quiet = IF InFlight(l) THEN conn[c].quiet \ {l} ELSE conn[c].quiet \cup {l}
           /\ conn'[c].touched = conn[c].touched \ {l}
           /\ l \in Keys /\ conn[c].watching \in [Keys -> Nat \cup {Unwatched}]
<1>1. conn[c] \in ConnType /\ conn \in [Conns -> ConnType]
  BY DEF TypeOK
<1>2. \A w, q, t : LET r == [conn[c] EXCEPT !.watching = w, !.quiet = q, !.touched = t]
                   IN  r.watching = w /\ r.quiet = q /\ r.touched = t
  BY <1>1 DEF ConnType
<1>3. conn'[c] = [conn[c] EXCEPT !.watching = [conn[c].watching EXCEPT ![l] = version[l]],
                                 !.quiet = IF InFlight(l) THEN conn[c].quiet \ {l}
                                           ELSE conn[c].quiet \cup {l},
                                 !.touched = conn[c].touched \ {l}]
  BY <1>1 DEF Watch
<1>4. l \in Keys /\ conn[c].watching \in [Keys -> Nat \cup {Unwatched}]
  BY <1>1, WatchAssumption DEF ConnType
<1> QED
  BY <1>2, <1>3, <1>4

\* How a step changes what a connection watches.
LEMMA ConnStep ==
    ASSUME TypeOK, NEW c \in Conns, Step(c), NEW x \in Conns
    PROVE  \/ x = c /\ \E l \in WatchKeys[c] : Watch(c, l)
           \/ /\ conn'[x].quiet = {} /\ conn'[x].touched = {}
              /\ x = c /\ conn'[x].watching = [k \in Keys |-> Unwatched]
              /\ run'[c].pc = "idle"
           \/ /\ conn'[x].quiet = conn[x].quiet /\ conn'[x].watching = conn[x].watching
              /\ \/ conn'[x].touched = conn[x].touched
                 \/ /\ Apply(c) /\ conn' = Touch(Writes(c))
                    /\ conn'[x].touched = conn[x].touched \cup (Writes(c) \cap Watched(x))
<1>t. conn \in [Conns -> ConnType] /\ conn[x] \in ConnType /\ run \in [Conns -> RunType]
  BY DEF TypeOK
<1>0. \A b : LET q == [NoConn EXCEPT !.txErr = b]
             IN  /\ q.quiet = {} /\ q.touched = {}
                 /\ q.watching = [k \in Keys |-> Unwatched]
  BY DEF NoConn
<1>1. CASE Multi(c) \/ EnqueueError(c) \/ \E cmd \in Queued[c] : Enqueue(c, cmd)
  <2>2. CASE x # c
    <3>1. conn'[x] = conn[x]
      BY <1>1, <2>2, <1>t DEF Multi, EnqueueError, Enqueue
    <3> QED
      BY <3>1
  <2>3. CASE x = c
    <3>1. CASE Multi(c)
      BY <3>1, <2>3, <1>t DEF Multi, ConnType
    <3>2. CASE EnqueueError(c)
      BY <3>2, <2>3, <1>t DEF EnqueueError, ConnType
    <3>3. CASE \E cmd \in Queued[c] : Enqueue(c, cmd)
      BY <3>3, <2>3, <1>t DEF Enqueue, ConnType
    <3> QED
      BY <1>1, <3>1, <3>2, <3>3
  <2> QED
    BY <2>2, <2>3
<1>2. CASE Discard(c) \/ ExecDiscarded(c)
  <2>1. /\ run'[c].pc = "idle"
        /\ conn'[x] = IF x = c THEN [NoConn EXCEPT !.txErr = conn[c].txErr] ELSE conn[x]
    BY <1>2, <1>t DEF Discard, ExecDiscarded, LeaveMulti
  <2> QED
    BY <2>1, <1>0
<1>3. CASE \E l \in WatchKeys[c] : Watch(c, l)
  <2>1. CASE x # c
    BY <2>1, <1>3, <1>t DEF Watch
  <2> QED
    BY <1>3, <2>1
<1>4. CASE Unlock(c)
  <2>1. /\ run'[c].pc = "idle"
        /\ \/ conn' = conn
           \/ conn'[x] = IF x = c THEN [NoConn EXCEPT !.txErr = conn[c].txErr] ELSE conn[x]
    BY <1>4, <1>t DEF Unlock, LeaveMulti, Idle
  <2> QED
    BY <2>1, <1>0
<1>5. CASE Apply(c)
  <2>1. conn' = conn \/ conn' = Touch(Writes(c))
    BY <1>5 DEF Apply
  <2> QED
    BY <1>5, <2>1, TouchOf
<1>6. CASE UNCHANGED conn
  BY <1>6
<1> QED
  BY <1>1, <1>2, <1>3, <1>4, <1>5, <1>6
     DEF Step, Session, Start, StartExec, StartNormal, Lock, Work, GetVersion, PutVersion,
         WatchChanged, WatchUnchanged, WatchPassed, Fetch, ApplyError, Rollback

\* WatchedInv is inductive.
LEMMA WatchedStep ==
    ASSUME TypeOK, WatchedInv, NEW c \in Conns, Step(c)
    PROVE  WatchedInv'
<1> SUFFICES ASSUME NEW x \in Conns
             PROVE  conn'[x].quiet \cup conn'[x].touched \subseteq Watched(x)'
  BY DEF WatchedInv
<1>0. conn[x].quiet \cup conn[x].touched \subseteq Watched(x)
  BY DEF WatchedInv
<1>1. CASE x = c /\ \E l \in WatchKeys[c] : Watch(c, l)
  <2>1. PICK l \in WatchKeys[c] : Watch(c, l)
    BY <1>1
  <2>2. l \in Keys /\ version[l] \in Nat
    BY WatchAssumption DEF TypeOK
  <2>a. /\ conn'[c].watching = [conn[c].watching EXCEPT ![l] = version[l]]
        /\ conn[c].watching \in [Keys -> Nat \cup {Unwatched}]
    BY <2>1, WatchOf
  <2>b. conn'[c].quiet = IF InFlight(l) THEN conn[c].quiet \ {l} ELSE conn[c].quiet \cup {l}
    BY <2>1, WatchOf
  <2>c. conn'[c].touched = conn[c].touched \ {l}
    BY <2>1, WatchOf
  <2>3. /\ conn'[x].watching = [conn[x].watching EXCEPT ![l] = version[l]]
        /\ conn[x].watching \in [Keys -> Nat \cup {Unwatched}]
        /\ conn'[x].quiet \subseteq conn[x].quiet \cup {l}
        /\ conn'[x].touched \subseteq conn[x].touched
    BY <1>1, <2>a, <2>b, <2>c
  <2>4. Watched(x) \cup {l} \subseteq Watched(x)'
    BY <2>2, <2>3 DEF Watched, Unwatched
  <2> QED
    BY <1>0, <2>3, <2>4
<1>2. CASE conn'[x].quiet = {} /\ conn'[x].touched = {}
  BY <1>2
<1>3. CASE conn'[x].quiet = conn[x].quiet /\ conn'[x].watching = conn[x].watching
  <2>1. Watched(x)' = Watched(x)
    BY <1>3 DEF Watched
  <2>2. \/ conn'[x].touched \subseteq Watched(x) \cup conn[x].touched
        \/ x = c /\ \E l \in WatchKeys[c] : Watch(c, l)
    BY ConnStep
  <2> QED
    BY <1>0, <1>1, <1>3, <2>1, <2>2
<1> QED
  BY <1>1, <1>2, <1>3, ConnStep

\* Where a quietly watched key comes from.
LEMMA QuietStep ==
    ASSUME TypeOK, WatchedInv, NEW c \in Conns, Step(c), NEW x \in Conns, NEW k \in conn'[x].quiet
    PROVE  /\ k \in Keys
           /\ \/ /\ Watch(c, k) /\ ~InFlight(k)
                 /\ conn'[x].watching[k] = version[k] /\ k \notin conn'[x].touched
              \/ /\ k \in conn[x].quiet
                 /\ conn'[x].watching[k] = conn[x].watching[k]
                 /\ \/ k \in conn'[x].touched => k \in conn[x].touched
                    \/ Apply(c) /\ conn' = Touch(Writes(c)) /\ k \in Writes(c)
<1>1. CASE x = c /\ \E l \in WatchKeys[c] : Watch(c, l)
  <2>1. PICK l \in WatchKeys[c] : Watch(c, l)
    BY <1>1
  <2>2. /\ conn'[c].watching = [conn[c].watching EXCEPT ![l] = version[l]]
        /\ conn[c].watching \in [Keys -> Nat \cup {Unwatched}] /\ l \in Keys
    BY <2>1, WatchOf
  <2>3. conn'[c].quiet = IF InFlight(l) THEN conn[c].quiet \ {l} ELSE conn[c].quiet \cup {l}
    BY <2>1, WatchOf
  <2>4. conn'[c].touched = conn[c].touched \ {l}
    BY <2>1, WatchOf
  <2>5. conn[c].quiet \subseteq Keys
    BY DEF TypeOK, ConnType
  <2>6. CASE k = l
    BY <1>1, <2>1, <2>2, <2>3, <2>4, <2>6
  <2>7. CASE k # l
    BY <1>1, <2>2, <2>3, <2>4, <2>5, <2>7
  <2> QED
    BY <2>6, <2>7
<1>2. CASE conn'[x].quiet = {}
  BY <1>2
<1>3. CASE conn'[x].quiet = conn[x].quiet /\ conn'[x].watching = conn[x].watching
  <2>1. conn[x].quiet \subseteq Keys
    BY DEF TypeOK, ConnType
  <2>2. \/ x = c /\ \E l \in WatchKeys[c] : Watch(c, l)
        \/ conn'[x].touched = {}
        \/ conn'[x].touched = conn[x].touched
        \/ /\ Apply(c) /\ conn' = Touch(Writes(c))
           /\ conn'[x].touched = conn[x].touched \cup (Writes(c) \cap Watched(x))
    BY ConnStep
  <2> QED
    BY <1>1, <1>3, <2>1, <2>2
<1> QED
  BY <1>1, <1>2, <1>3, ConnStep

\* VersionInv is inductive: the version of a watched key outgrows the one watched as soon as
\* it is written.
LEMMA VersionStep ==
    ASSUME TypeOK, Control, Exclusive, WatchedInv, SeenInv, VersionInv, NEW c \in Conns, Step(c)
    PROVE  VersionInv'
<1> SUFFICES ASSUME NEW x \in Conns, NEW k \in conn'[x].quiet
             PROVE  Since(x, k)'
  BY DEF VersionInv
<1>t. /\ version \in [Keys -> Nat] /\ run \in [Conns -> RunType] /\ k \in Keys
      /\ \A d \in Conns : run[d].seen \in Nat \cup {Unread}
  BY QuietStep DEF TypeOK, RunType
\* Watching k while nobody writes it.
<1>1. CASE /\ Watch(c, k) /\ ~InFlight(k)
           /\ conn'[x].watching[k] = version[k] /\ k \notin conn'[x].touched
  <2>1. run' = run /\ version' = version
    BY <1>1 DEF Watch
  <2>2. \A d \in Conns : Reading(d, k) => run[d].seen >= version[k]
    <3> SUFFICES ASSUME NEW d \in Conns, Reading(d, k)
                 PROVE  run[d].seen >= version[k]
      OBVIOUS
    <3>1. k \in Writes(d) /\ run[d].pc = "bump"
      BY ReadingPending, PendingWrites
    <3>2. run[d].tx
      BY <1>1, <3>1 DEF InFlight
    <3>3. version[k] = run[d].seen
      BY <1>1, <1>t, <3>2 DEF SeenInv
    <3> QED
      BY <1>t, <3>3
  <2>3. \A d \in Conns : /\ Reading(d, k)' = Reading(d, k) /\ Writes(d)' = Writes(d)
                         /\ Pending(d, k)' = Pending(d, k)
    BY <2>1, SamePlace
  <2> QED
    BY <1>1, <1>t, <2>1, <2>2, <2>3 DEF Since, InFlight
<1>2. CASE /\ k \in conn[x].quiet /\ conn'[x].watching[k] = conn[x].watching[k]
           /\ \/ k \in conn'[x].touched => k \in conn[x].touched
              \/ Apply(c) /\ conn' = Touch(Writes(c)) /\ k \in Writes(c)
  <2> DEFINE w == conn[x].watching[k]
  <2>0. Since(x, k)
    BY <1>2 DEF VersionInv
  <2>w. w \in Nat \cup {Unwatched}
    BY <1>t DEF TypeOK, ConnType
  \* A version is written from one that was read after the watch.
  <2>1. \/ version'[k] = version[k]
        \/ version'[k] > w /\ Reading(c, k) /\ PutVersion(c)
    <3>1. CASE version' = version
      BY <3>1
    <3>2. CASE version' # version
      <4>1. PutVersion(c)
        BY <3>2, VersionsBy
      <4>2. PICK l \in Keys : /\ Reading(c, l)
                              /\ version' = [version EXCEPT ![l] = run[c].seen + 1]
        BY <4>1, Bumping
      <4>3. CASE l = k
        <5>1. run[c].seen >= w
          BY <4>2, <4>3, <2>0 DEF Since
        <5>2. version'[k] = run[c].seen + 1 /\ run[c].seen \in Nat
          BY <4>2, <4>3, <1>t DEF Reading
        <5>3. version'[k] > w
          BY <5>1, <5>2, <2>w DEF Unwatched
        <5> QED
          BY <4>1, <4>2, <4>3, <5>3
      <4> QED
        BY <4>2, <4>3, <1>t
    <3> QED
      BY <3>1, <3>2
  <2>2. version[k] >= w /\ version[k] \in Nat
    BY <2>0, <1>t DEF Since
  <2>3. version[k] > w => version'[k] > w
    BY <2>1
  <2>4. version'[k] >= w
    <3>1. CASE version'[k] = version[k]
      BY <3>1, <2>2
    <3>2. CASE version'[k] > w /\ PutVersion(c)
      <4>1. version'[k] \in Nat
        BY <3>2, <1>t, Bumping DEF Reading
      <4> QED
        BY <3>2, <4>1, <2>w DEF Unwatched
    <3> QED
      BY <2>1, <3>1, <3>2
  <2>5. \A d \in Conns : Reading(d, k)' => run'[d].seen >= w
    <3> SUFFICES ASSUME NEW d \in Conns, Reading(d, k)'
                 PROVE  run'[d].seen >= w
      OBVIOUS
    <3>1. CASE d = c
      BY <3>1, <2>2, Reads1
    <3>2. CASE d # c
      BY <3>2, <2>0, Others, SamePlace DEF Since
    <3> QED
      BY <3>1, <3>2
  \* A pending bump stays, or it is made.
  <2>6. ASSUME Pending(c, k)
        PROVE  \/ version'[k] > w
               \/ Pending(c, k)' /\ run'[c].pc = "bump" /\ run'[c].tx = run[c].tx
    <3>1. run[c].pc = "bump" /\ run[c] \in RunType
      BY <2>6, <1>t, PendingWrites
    <3>2. CASE GetVersion(c)
      <4>1. /\ run'[c].bump = run[c].bump /\ run'[c].cmds = run[c].cmds
            /\ run'[c].tx = run[c].tx /\ run'[c].pc = run[c].pc
        BY <3>2, <1>t DEF GetVersion
      <4> QED
        BY <4>1, <3>1, <2>6 DEF Pending, KeyAt
    <3>3. CASE PutVersion(c)
      <4>1. PICK l \in Keys : /\ Reading(c, l)
                              /\ version' = [version EXCEPT ![l] = run[c].seen + 1]
                              /\ Pending(c, k)' => Pending(c, k) /\ run'[c].pc = "bump"
                              /\ Pending(c, k) => Pending(c, k)' \/ k = l
        BY <3>3, Bumping
      <4>2. CASE Pending(c, k)'
        BY <3>3, <4>1, <4>2, Bumping
      <4>3. CASE k = l
        <5>1. run[c].seen >= w
          BY <4>1, <4>3, <2>0 DEF Since
        <5>2. version'[k] = run[c].seen + 1 /\ run[c].seen \in Nat
          BY <4>1, <4>3, <1>t DEF Reading
        <5> QED
          BY <5>1, <5>2, <2>w DEF Unwatched
      <4> QED
        BY <2>6, <4>1, <4>2, <4>3
    <3> QED
      BY <3>1, <3>2, <3>3
         DEF Step, Session, Multi, Discard, EnqueueError, ExecDiscarded, Watch, Enqueue, Start,
             StartExec, StartNormal, Lock, Work, WatchChanged, WatchUnchanged, WatchPassed, Fetch,
             Apply, ApplyError, Rollback, Unlock
  <2>7. \A d \in Conns :
           ~run'[d].tx /\ run'[d].pc # "idle" /\ k \in Writes(d)' /\ ~Pending(d, k)' =>
              version'[k] > w
    <3> SUFFICES ASSUME NEW d \in Conns, ~run'[d].tx, run'[d].pc # "idle", k \in Writes(d)',
                        ~Pending(d, k)'
                 PROVE  version'[k] > w
      OBVIOUS
    <3>1. CASE d # c
      BY <3>1, <2>0, <2>3, Others, SamePlace DEF Since
    <3>2. CASE d = c /\ run[c].pc = "idle"
      <4>1. Start(c)
        BY <3>2, <1>t
           DEF Step, Session, Multi, Discard, EnqueueError, ExecDiscarded, Watch, Enqueue, Lock,
               Work, GetVersion, PutVersion, WatchChanged, WatchUnchanged, WatchPassed, Fetch,
               Apply, ApplyError, Rollback, Unlock
      <4>2. run'[c].bump = Places(run'[c].cmds)
        BY <3>2, <4>1, Starting
      <4>3. k \in UNION {WriteKeys(run'[c].cmds[j]) : j \in DOMAIN run'[c].cmds}
        BY <3>2 DEF Writes
      <4>4. \E p \in Places(run'[c].cmds) : WriteSeq(run'[c].cmds[p[1]])[p[2]] = k
        BY <4>3, PlacesCover
      <4> QED
        BY <3>2, <4>2, <4>4 DEF Pending, KeyAt
    <3>3. CASE d = c /\ run[c].pc # "idle"
      <4>1. ~Unlock(c)
        BY <3>3, <1>t DEF Unlock, Idle
      <4>2. run'[c].cmds = run[c].cmds /\ run'[c].tx = run[c].tx
        BY <3>3, <4>1, Busy
      <4>3. k \in Writes(c) /\ ~run[c].tx
        BY <3>3, <4>2 DEF Writes
      <4>4. CASE Pending(c, k)
        BY <3>3, <4>4, <2>6
      <4>5. CASE ~Pending(c, k)
        <5>1. version[k] > w
          BY <3>3, <4>3, <4>5, <2>0 DEF Since
        <5> QED
          BY <5>1, <2>3
      <4> QED
        BY <4>4, <4>5
    <3> QED
      BY <3>1, <3>2, <3>3
  <2>8. k \in conn'[x].touched =>
           \/ version'[k] > w
           \/ \E d \in Conns : run'[d].tx /\ run'[d].pc = "bump" /\ Pending(d, k)'
    <3>1. CASE k \in conn[x].touched
      <4>1. CASE version[k] > w
        BY <4>1, <2>3
      <4>2. ASSUME NEW d \in Conns, run[d].tx, run[d].pc = "bump", Pending(d, k)
            PROVE  \/ version'[k] > w
                   \/ run'[d].tx /\ run'[d].pc = "bump" /\ Pending(d, k)'
        <5>1. CASE d = c
          BY <4>2, <5>1, <2>6
        <5>2. CASE d # c
          BY <4>2, <5>2, Others, SamePlace
        <5> QED
          BY <5>1, <5>2
      <4> QED
        BY <3>1, <4>1, <4>2, <2>0 DEF Since
    <3>2. CASE k \notin conn[x].touched /\ k \in conn'[x].touched
      <4>1. Apply(c) /\ k \in Writes(c)
        BY <1>2, <3>2
      <4>2. /\ run[c].pc = "apply" /\ run'[c].cmds = run[c].cmds /\ run'[c].tx = run[c].tx
            /\ run'[c].bump = IF run[c].tx THEN Places(run[c].cmds) ELSE {}
            /\ run'[c].pc = IF run'[c].bump # {} THEN "bump" ELSE "unlock"
        BY <3>2, <4>1, ApplyMoves
      <4>3. CASE run[c].tx
        <5>1. \E p \in Places(run[c].cmds) : WriteSeq(run[c].cmds[p[1]])[p[2]] = k
          BY <4>1, PlacesCover DEF Writes
        <5> QED
          BY <4>2, <4>3, <5>1 DEF Pending, KeyAt
      <4>4. CASE ~run[c].tx
        <5>1. ~Pending(c, k)
          BY <4>2, PendingWrites
        <5>2. version[k] > w
          BY <4>1, <4>2, <4>4, <5>1, <2>0 DEF Since
        <5> QED
          BY <5>2, <2>3
      <4> QED
        BY <4>3, <4>4
    <3> QED
      BY <3>1, <3>2
  <2> QED
    BY <1>2, <2>4, <2>5, <2>7, <2>8 DEF Since
<1> QED
  BY <1>1, <1>2, QuietStep

\* CheckInv is inductive: no key that has been compared has been written.
LEMMA CheckStep ==
    ASSUME TypeOK, Control, Exclusive, WatchedInv, VersionInv, CheckInv, NEW c \in Conns, Step(c)
    PROVE  CheckInv'
<1> SUFFICES ASSUME NEW x \in Conns, run'[x].tx
             PROVE  /\ run'[x].pc = "lock" => run'[x].check = Watched(x)'
                    /\ run'[x].pc \in {"check", "fetch", "apply"} =>
                          conn'[x].quiet \cap conn'[x].touched \subseteq run'[x].check
  BY DEF CheckInv
<1>t. run \in [Conns -> RunType] /\ run[c] \in RunType
  BY DEF TypeOK
<1>1. CASE x # c
  <2>1. run'[x] = run[x] /\ conn'[x].quiet = conn[x].quiet /\ Watched(x)' = Watched(x)
    BY <1>1, Others DEF Watched
  <2>2. CASE run[x].pc \in {"check", "fetch", "apply"}
    <3>1. conn[x].quiet \cap conn[x].touched \subseteq run[x].check
      BY <2>1, <2>2 DEF CheckInv
    <3>2. \/ conn'[x].touched = conn[x].touched
          \/ /\ Apply(c)
             /\ conn'[x].touched = conn[x].touched \cup (Writes(c) \cap Watched(x))
      BY <1>1, ConnStep
    <3>3. CASE Apply(c)
      <4>1. Holding(c) /\ Holding(x)
        BY <2>2, <3>3 DEF Apply, Holding
      <4>2. Locks!Compatible(LockRequest(c), LockRequest(x))
        BY <1>1, <4>1 DEF Exclusive
      <4>3. Writes(c) \cap Watched(x) = {}
        BY <2>1, <4>2 DEF Locks!Compatible, LockRequest
      <4> QED
        BY <2>1, <2>2, <3>1, <3>2, <4>3
    <3> QED
      BY <2>1, <2>2, <3>1, <3>2, <3>3
  <2> QED
    BY <2>1, <2>2 DEF CheckInv
<1>2. CASE x = c
  <2>0. conn[c].quiet \cup conn[c].touched \subseteq Watched(c)
    BY DEF WatchedInv
  <2>1. CASE Session(c)
    BY <1>2, <2>1 DEF Session, Multi, Discard, EnqueueError, ExecDiscarded, Watch, Enqueue
  <2>2. CASE Start(c)
    <3>1. run'[c].pc = "lock" /\ run'[c].check = Watched(c) /\ conn' = conn
      BY <1>2, <2>2, Starting
    <3> QED
      BY <1>2, <3>1 DEF Watched
  <2>3. CASE Lock(c)
    <3>1. \A b, pc : LET q == [run[c] EXCEPT !.pc = pc, !.base = b]
                     IN  q.check = run[c].check /\ q.pc = pc /\ q.tx = run[c].tx
      BY <1>t DEF RunType
    <3>2. /\ run'[c].check = run[c].check /\ run'[c].tx = run[c].tx /\ conn' = conn
          /\ run[c].pc = "lock" /\ run'[c].pc # "lock"
      BY <2>3, <3>1, <1>t DEF Lock
    <3> QED
      BY <1>2, <2>0, <3>2 DEF CheckInv
  <2>4. CASE GetVersion(c)
    <3>1. run'[c].pc = "bump"
      BY <2>4, <1>t DEF GetVersion
    <3> QED
      BY <1>2, <3>1
  <2>5. CASE PutVersion(c)
    <3>1. run'[c].pc \in {"bump", "unlock"}
      BY <1>2, <2>5, <1>t DEF PutVersion, AfterBump
    <3> QED
      BY <1>2, <3>1
  <2>6. CASE WatchChanged(c)
    <3>1. run'[c].pc = "unlock"
      BY <2>6, <1>t DEF WatchChanged
    <3> QED
      BY <1>2, <3>1
  <2>7. CASE WatchUnchanged(c)
    <3>1. PICK k \in run[c].check :
             /\ version[k] = conn[c].watching[k]
             /\ run' = [run EXCEPT ![c].check = run[c].check \ {k}]
      BY <2>7 DEF WatchUnchanged
    <3>2. /\ run[c].pc = "check" /\ run'[c].pc = "check" /\ run'[c].tx = run[c].tx
          /\ run'[c].check = run[c].check \ {k} /\ conn' = conn
      <4>1. run[c].pc = "check" /\ conn' = conn
        BY <2>7 DEF WatchUnchanged
      <4>2. run'[c] = [run[c] EXCEPT !.check = run[c].check \ {k}]
        BY <3>1, <1>t
      <4>3. \A s : LET q == [run[c] EXCEPT !.check = s]
                   IN  q.check = s /\ q.pc = run[c].pc /\ q.tx = run[c].tx
        BY <1>t DEF RunType
      <4> QED
        BY <4>1, <4>2, <4>3
    <3>3. k \notin conn[c].quiet \cap conn[c].touched
      <4> SUFFICES ASSUME k \in conn[c].quiet, k \in conn[c].touched
                   PROVE  FALSE
        OBVIOUS
      <4>1. Since(c, k)
        BY DEF VersionInv
      <4>2. k \in Watched(c) /\ version[k] \in Nat
        BY <2>0 DEF TypeOK, Watched
      <4>3. PICK d \in Conns : run[d].tx /\ run[d].pc = "bump" /\ Pending(d, k)
        BY <3>1, <4>1, <4>2 DEF Since
      <4>4. ~Holding(c)
        BY <1>2, <3>2, <4>2, <4>3, BumpingAlone
      <4> QED
        BY <3>2, <4>4 DEF Holding
    <3> QED
      BY <1>2, <3>2, <3>3 DEF CheckInv
  <2>8. CASE WatchPassed(c)
    <3>1. /\ run'[c].pc # "lock" /\ run'[c].tx = run[c].tx
          /\ run'[c].check = {} /\ run[c].check = {} /\ run[c].pc = "check" /\ conn' = conn
      BY <2>8, <1>t DEF WatchPassed
    <3> QED
      BY <1>2, <3>1 DEF CheckInv
  <2>9. CASE Fetch(c)
    <3>1. /\ run'[c].pc = "apply" /\ run'[c].tx = run[c].tx
          /\ run'[c].check = run[c].check /\ run[c].pc = "fetch" /\ conn' = conn
      BY <2>9, <1>t DEF Fetch
    <3> QED
      BY <1>2, <3>1 DEF CheckInv
  <2>10. CASE Apply(c)
    <3>1. /\ run[c].pc = "apply" /\ run'[c].tx = run[c].tx /\ run'[c].check = run[c].check
          /\ \/ run'[c].pc = "fetch" /\ conn' = conn
             \/ run'[c].pc \in {"bump", "unlock"}
      BY <2>10, ApplyMoves
    <3> QED
      BY <1>2, <3>1 DEF CheckInv
  <2>11. CASE ApplyError(c)
    <3>1. run'[c].pc \in {"rollback", "unlock"}
      BY <2>11, <1>t DEF ApplyError
    <3> QED
      BY <1>2, <3>1
  <2>12. CASE Rollback(c)
    <3>1. run'[c].pc = "unlock"
      BY <2>12, <1>t DEF Rollback
    <3> QED
      BY <1>2, <3>1
  <2>13. CASE Unlock(c)
    BY <1>2, <2>13, <1>t DEF Unlock, Idle
  <2> QED
    BY <2>1, <2>2, <2>3, <2>4, <2>5, <2>6, <2>7, <2>8, <2>9, <2>10, <2>11, <2>12, <2>13
       DEF Step, Work
<1> QED
  BY <1>1, <1>2

-------------------------------------------------------------------------------
(* Undo logs *)

\* A key that was not there when the lock was taken is not there now, or one of
\* the undo logs js removes it.
Undone(c, js) ==
    \A k \in Writes(c) : run[c].base[k] = Nil =>
        data[k] = Nil \/ \E j \in js : k \in run[c].undo[j]

UndoOf(c) ==
    run[c].tx =>
        /\ run[c].pc \in {"check", "fetch", "rollback"} => Undone(c, DOMAIN run[c].undo)
        /\ run[c].pc = "apply" =>
              /\ Undone(c, DOMAIN run[c].undo \ {Len(run[c].undo)})
              /\ \A k \in WriteKeys(Current(c)) :
                    data[k] = Nil => k \in run[c].undo[Len(run[c].undo)]
        /\ run[c].pc = "bump" => run[c].reply = "ok"
        /\ run[c].pc = "unlock" /\ run[c].reply = "error" => Undone(c, {})

UndoInv == \A c \in Conns : UndoOf(c)

\* UndoInv is inductive: only EXEC itself changes the keys it writes.
LEMMA UndoStep ==
    ASSUME TypeOK, Control, Exclusive, UndoInv, NEW c \in Conns, Step(c)
    PROVE  UndoInv'
<1> SUFFICES ASSUME NEW x \in Conns, run'[x].tx
             PROVE  UndoOf(x)'
  BY DEF UndoInv, UndoOf
<1>t. /\ run \in [Conns -> RunType] /\ run[c] \in RunType /\ data \in [Keys -> Values]
      /\ Writes(c) \subseteq Keys /\ ControlOf(c) /\ UndoOf(c) /\ UndoOf(x)
  BY RequestTypes DEF TypeOK, Control, UndoInv
<1>1. CASE x # c
  <2>1. run'[x] = run[x] /\ Writes(x)' = Writes(x) /\ Current(x)' = Current(x)
    BY <1>1, Others DEF Writes, Current
  <2>2. CASE Holding(x)
    <3>1. \A k \in Writes(x) : data'[k] = data[k]
      BY <1>1, <2>2, Untouched
    <3>2. \A js : Undone(x, js) => Undone(x, js)'
      BY <2>1, <3>1 DEF Undone
    <3>3. run[x].pc = "apply" => WriteKeys(Current(x)) \subseteq Writes(x)
      BY CurrentTypes DEF Running
    <3> QED
      BY <1>t, <2>1, <3>1, <3>2, <3>3 DEF UndoOf
  <2>3. CASE ~Holding(x)
    <3>1. run[x].pc \in {"idle", "lock"}
      BY <2>1, <2>3 DEF Holding, TypeOK, RunType
    <3> QED
      BY <2>1, <3>1 DEF UndoOf
  <2> QED
    BY <2>2, <2>3
<1>2. CASE x = c
  <2>1. CASE Session(c)
    <3>1. run'[c] = run[c] /\ run[c].pc = "idle"
      BY <2>1 DEF Session, Multi, Discard, EnqueueError, ExecDiscarded, Watch, Enqueue
    <3> QED
      BY <1>2, <3>1 DEF UndoOf
  <2>2. CASE Start(c)
    <3>1. run'[c].pc = "lock"
      BY <1>2, <2>2, Starting
    <3> QED
      BY <1>2, <3>1 DEF UndoOf
  <2>3. CASE Lock(c)
    <3> DEFINE base == [k \in Keys |-> IF k \in LockRequest(c).write \cup LockRequest(c).read
                                       THEN data[k] ELSE Nil]
    <3>1. \A b, pc : LET q == [run[c] EXCEPT !.pc = pc, !.base = b]
                     IN  /\ q.base = b /\ q.pc = pc /\ q.tx = run[c].tx /\ q.cmds = run[c].cmds
      BY <1>t DEF RunType
    <3>2. run'[c] = [run[c] EXCEPT !.pc = IF run[c].tx THEN "check" ELSE "fetch", !.base = base]
      BY <2>3, <1>t DEF Lock
    <3>3. /\ run'[c].base = base /\ run'[c].cmds = run[c].cmds /\ data' = data
          /\ run'[c].pc = IF run[c].tx THEN "check" ELSE "fetch"
          /\ run'[c].tx = run[c].tx
      <4>1. data' = data
        BY <2>3 DEF Lock
      <4> HIDE DEF base
      <4> QED
        BY <3>1, <3>2, <4>1
    <3>4. Writes(c)' = Writes(c) /\ run'[c].pc = "check"
      BY <1>2, <3>3 DEF Writes
    <3>5. \A k \in Writes(c) : run'[c].base[k] = data[k]
      BY <3>3, <1>t DEF LockRequest
    <3>6. Undone(c, DOMAIN run[c].undo)'
      BY <3>3, <3>4, <3>5 DEF Undone
    <3> QED
      BY <1>2, <3>4, <3>6 DEF UndoOf
  <2>4. CASE GetVersion(c)
    <3>1. /\ run[c].pc = "bump" /\ run'[c].pc = "bump" /\ run'[c].reply = run[c].reply
          /\ run'[c].tx = run[c].tx
      BY <2>4, <1>t DEF GetVersion
    <3> QED
      BY <1>2, <1>t, <3>1 DEF UndoOf
  <2>5. CASE PutVersion(c)
    <3>1. /\ run[c].pc = "bump" /\ run'[c].pc \in {"bump", "unlock"}
          /\ run'[c].reply = run[c].reply /\ run'[c].tx = run[c].tx
      BY <1>2, <2>5, <1>t DEF PutVersion, AfterBump
    <3> QED
      BY <1>2, <1>t, <3>1 DEF UndoOf
  <2>6. CASE WatchChanged(c)
    <3>1. run'[c].pc = "unlock" /\ run'[c].reply = "empty"
      BY <2>6, <1>t DEF WatchChanged
    <3> QED
      BY <1>2, <3>1 DEF UndoOf
  <2>7. CASE WatchUnchanged(c)
    <3>1. /\ run[c].pc = "check" /\ run'[c].pc = "check" /\ run'[c].tx = run[c].tx
          /\ run'[c].cmds = run[c].cmds /\ run'[c].base = run[c].base
          /\ run'[c].undo = run[c].undo /\ data' = data
      BY <2>7, <1>t DEF WatchUnchanged
    <3>2. Undone(c, DOMAIN run[c].undo)'
      BY <1>2, <1>t, <3>1 DEF UndoOf, Undone, Writes
    <3> QED
      BY <1>2, <3>1, <3>2 DEF UndoOf
  <2>8. CASE WatchPassed(c)
    <3>1. \/ run'[c].pc = "unlock" /\ run'[c].reply = "ok"
          \/ /\ run[c].pc = "check" /\ run'[c].pc = "fetch" /\ run'[c].tx = run[c].tx
             /\ run'[c].cmds = run[c].cmds /\ run'[c].base = run[c].base
             /\ run'[c].undo = run[c].undo /\ data' = data
      BY <2>8, <1>t DEF WatchPassed
    <3>2. CASE run'[c].pc = "fetch"
      <4>1. Undone(c, DOMAIN run[c].undo)'
        BY <1>2, <1>t, <3>1, <3>2 DEF UndoOf, Undone, Writes
      <4> QED
        BY <1>2, <3>1, <3>2, <4>1 DEF UndoOf
    <3> QED
      BY <1>2, <3>1, <3>2 DEF UndoOf
  <2>9. CASE Fetch(c)
    <3> DEFINE log == UndoLog(Current(c), data)
    <3>1. /\ run[c].pc = "fetch" /\ run'[c].pc = "apply" /\ run'[c].tx = run[c].tx
          /\ run'[c].cmds = run[c].cmds /\ run'[c].base = run[c].base /\ run'[c].i = run[c].i
          /\ data' = data
      BY <2>9, <1>t DEF Fetch
    <3>2. run'[c].undo = IF run[c].tx THEN Append(run[c].undo, log) ELSE run[c].undo
      BY <2>9, <1>t DEF Fetch
    <3>3. run[c].undo \in Seq(SUBSET Keys) /\ run'[c].undo = Append(run[c].undo, log)
      BY <1>2, <1>t, <3>1, <3>2 DEF RunType
    <3>4. /\ Len(run'[c].undo) = Len(run[c].undo) + 1
          /\ DOMAIN run'[c].undo \ {Len(run'[c].undo)} = DOMAIN run[c].undo
          /\ run'[c].undo[Len(run'[c].undo)] = log
          /\ \A j \in DOMAIN run[c].undo : run'[c].undo[j] = run[c].undo[j]
      BY <3>3
    <3>5. Undone(c, DOMAIN run[c].undo)
      BY <1>2, <1>t, <3>1 DEF UndoOf
    <3>6. Undone(c, DOMAIN run[c].undo \ {Len(run[c].undo)})'
      BY <3>1, <3>4, <3>5 DEF Undone, Writes
    <3>7. \A k \in WriteKeys(Current(c)) : data[k] = Nil => k \in log
      <4>1. WriteKeys(Current(c)) \subseteq Keys
        BY <1>t, <3>1, CurrentTypes DEF Running
      <4>2. Current(c) \in Cmds
        BY <3>1, CurrentTypes DEF Running
      <4>3. WriteKeys(Current(c)) \subseteq KeysOf(Current(c))
        BY <4>2, CommandTypes DEF WriteKeys, WriteSeq, KeysOf, ToSet
      <4>4. Current(c).op = "get" => WriteKeys(Current(c)) = {}
        BY DEF WriteKeys, WriteSeq, ToSet
      <4> QED
        BY <4>3, <4>4 DEF UndoLog
    <3>8. Current(c)' = Current(c)
      BY <3>1 DEF Current
    <3> QED
      BY <1>2, <3>1, <3>4, <3>6, <3>7, <3>8 DEF UndoOf
  <2>10. CASE ApplyError(c)
    <3>1. /\ run[c].pc = "apply" /\ run'[c].tx = run[c].tx
          /\ run'[c].cmds = run[c].cmds /\ run'[c].base = run[c].base /\ data' = data
          /\ run'[c].pc = IF run[c].tx THEN "rollback" ELSE "unlock"
          /\ run'[c].undo = IF run[c].tx THEN Front(run[c].undo) ELSE run[c].undo
      BY <2>10, <1>t DEF ApplyError
    <3>2. /\ run[c].undo \in Seq(SUBSET Keys) /\ run[c].undo # <<>>
          /\ run'[c].pc = "rollback" /\ run'[c].undo = Front(run[c].undo)
      BY <1>2, <1>t, <3>1 DEF RunType, ControlOf
    <3>3. /\ DOMAIN run'[c].undo = DOMAIN run[c].undo \ {Len(run[c].undo)}
          /\ \A j \in DOMAIN run'[c].undo : run'[c].undo[j] = run[c].undo[j]
      <4>1. /\ DOMAIN Front(run[c].undo) = DOMAIN run[c].undo \ {Len(run[c].undo)}
            /\ \A j \in DOMAIN Front(run[c].undo) : Front(run[c].undo)[j] = run[c].undo[j]
        BY <3>2, FrontOf
      <4> QED
        BY <3>2, <4>1
    <3>4. Undone(c, DOMAIN run[c].undo \ {Len(run[c].undo)})
      BY <1>2, <1>t, <3>1 DEF UndoOf
    <3>5. Undone(c, DOMAIN run[c].undo)'
      BY <3>1, <3>3, <3>4 DEF Undone, Writes
    <3> QED
      BY <1>2, <3>2, <3>5 DEF UndoOf
  <2>11. CASE Apply(c)
    <3>1. /\ run[c].pc = "apply" /\ run'[c].cmds = run[c].cmds /\ run'[c].tx = run[c].tx
          /\ run'[c].undo = run[c].undo /\ run'[c].base = run[c].base
          /\ \/ run'[c].pc = "fetch"
             \/ run'[c].pc \in {"bump", "unlock"} /\ run'[c].reply = "ok"
      BY <2>11, ApplyMoves
    <3>2. CASE run'[c].pc = "fetch"
      <4>1. Current(c) \in Cmds
        BY <3>1, CurrentTypes DEF Running
      <4>2. data' = Effect(Current(c), run[c].loc, data)
        BY <2>11 DEF Apply
      <4>3. /\ Undone(c, DOMAIN run[c].undo \ {Len(run[c].undo)})
            /\ \A k \in WriteKeys(Current(c)) :
                  data[k] = Nil => k \in run[c].undo[Len(run[c].undo)]
        BY <1>2, <1>t, <3>1 DEF UndoOf
      <4>4. run[c].undo \in Seq(SUBSET Keys) /\ run[c].undo # <<>>
        BY <1>2, <1>t, <3>1 DEF RunType, ControlOf
      <4>5. Len(run[c].undo) \in DOMAIN run[c].undo
        BY <4>4
      <4>6. ASSUME NEW k \in Writes(c), run[c].base[k] = Nil
            PROVE  data'[k] = Nil \/ \E j \in DOMAIN run[c].undo : k \in run[c].undo[j]
        <5>1. data[k] = Nil \/ \E j \in DOMAIN run[c].undo : k \in run[c].undo[j]
          BY <4>3, <4>6 DEF Undone
        <5>2. CASE data'[k] # data[k] /\ data[k] = Nil
          <6>1. k \in WriteKeys(Current(c)) \/ data'[k] = Nil
            BY <1>t, <4>1, <4>2, <5>2, EffectWrites
          <6> QED
            BY <4>3, <4>5, <5>2, <6>1
        <5> QED
          BY <5>1, <5>2
      <4>7. Undone(c, DOMAIN run[c].undo)'
        BY <3>1, <4>6 DEF Undone, Writes
      <4> QED
        BY <1>2, <3>2, <4>7 DEF UndoOf
    <3> QED
      BY <1>2, <3>1, <3>2 DEF UndoOf
  <2>12. CASE Rollback(c)
    <3>1. /\ run[c].pc = "rollback" /\ run'[c].pc = "unlock" /\ run'[c].tx = run[c].tx
          /\ run'[c].cmds = run[c].cmds /\ run'[c].base = run[c].base
          /\ run'[c].undo = run[c].undo
      BY <2>12, <1>t DEF Rollback
    <3>2. Undone(c, DOMAIN run[c].undo)
      BY <1>2, <1>t, <3>1 DEF UndoOf
    <3>3. \A k \in Keys : data'[k] = IF \E j \in DOMAIN run[c].undo : k \in run[c].undo[j]
                                     THEN Nil ELSE data[k]
      BY <2>12 DEF Rollback, ToSet
    <3>4. Undone(c, {})'
      BY <1>t, <3>1, <3>2, <3>3 DEF Undone, Writes
    <3> QED
      BY <1>2, <3>1, <3>4 DEF UndoOf
  <2>13. CASE Unlock(c)
    <3>1. run'[c].pc = "idle"
      BY <2>13, <1>t DEF Unlock, Idle
    <3> QED
      BY <1>2, <3>1 DEF UndoOf
  <2> QED
    BY <2>1, <2>2, <2>3, <2>4, <2>5, <2>6, <2>7, <2>8, <2>9, <2>10, <2>11, <2>12, <2>13
       DEF Step, Work
<1> QED
  BY <1>1, <1>2

-------------------------------------------------------------------------------
(* Induction *)

\* A set of numbers with a member has a least one.
LEMMA LeastNumber ==
    ASSUME NEW T \in SUBSET Nat, T # {}
    PROVE  \E x \in T : \A y \in T : ~(y < x)
<1> DEFINE R == OpToRel(<, Nat)
<1>1. IsWellFoundedOn(R, Nat)
  BY NatLessThanWellFounded
<1>2. \E x \in T : \A y \in T : <<y, x>> \notin R
  BY <1>1, WFMin
<1>3. \A x, y \in Nat : y < x => <<y, x>> \in R
  BY DEF OpToRel
<1> QED
  BY <1>2, <1>3

\* A set with 0, and with the successor of each number in it, has every number.
LEMMA SetInduction ==
    ASSUME NEW S, 0 \in S, \A n \in Nat : n \in S => n + 1 \in S
    PROVE  \A n \in Nat : n \in S
<1> DEFINE T == Nat \ S
<1>1. SUFFICES ASSUME T # {} PROVE FALSE
  OBVIOUS
<1>2. PICK x \in T : \A y \in T : ~(y < x)
  BY <1>1, LeastNumber
<1>3. x - 1 \in Nat /\ x - 1 \notin T
  BY <1>2
<1> QED
  BY <1>2, <1>3

-------------------------------------------------------------------------------
(* What the first n commands of cmds make of data d *)

RunNext(cmds, s, i) == Effect(cmds[i], s[i - 1][cmds[i].keys[1]], s[i - 1])
RanBy(cmds, d, n, s) == s = [i \in 0 .. n |-> IF i = 0 THEN d ELSE RunNext(cmds, s, i)]
Alone(cmds, d, n) == (CHOOSE s : RanBy(cmds, d, n, s))[n]

\* The recursion of RunAlone defines a function.
LEMMA RanExists ==
    ASSUME NEW cmds, NEW d, NEW m \in Nat
    PROVE  \E s : RanBy(cmds, d, m, s)
<1> DEFINE T == {n \in Nat : \E s : RanBy(cmds, d, n, s)}
<1>1. 0 \in T
  <2> DEFINE s == [i \in 0 .. 0 |-> d]
  <2>1. RanBy(cmds, d, 0, s)
    BY DEF RanBy
  <2> QED
    BY <2>1
<1>2. ASSUME NEW n \in Nat, n \in T
      PROVE  n + 1 \in T
  <2>1. PICK s : RanBy(cmds, d, n, s)
    BY <1>2
  <2>0. PICK e : e = Effect(cmds[n + 1], s[n][cmds[n + 1].keys[1]], s[n])
    OBVIOUS
  <2> DEFINE t == [i \in 0 .. n + 1 |-> IF i <= n THEN s[i] ELSE e]
  <2>2. ASSUME NEW i \in 0 .. n + 1
        PROVE  t[i] = IF i = 0 THEN d ELSE RunNext(cmds, t, i)
    <3>1. CASE i = n + 1
      <4>1. t[i - 1] = s[n] /\ t[i] = e /\ i # 0
        BY <3>1
      <4> HIDE DEF t
      <4> QED
        BY <2>0, <3>1, <4>1 DEF RunNext
    <3>2. CASE i <= n
      <4>1. s[i] = IF i = 0 THEN d ELSE RunNext(cmds, s, i)
        BY <2>1, <3>2 DEF RanBy
      <4>2. t[i] = s[i] /\ (i # 0 => t[i - 1] = s[i - 1])
        BY <3>2
      <4> HIDE DEF t
      <4> QED
        BY <4>1, <4>2 DEF RunNext
    <3> QED
      BY <3>1, <3>2
  <2>3. t = [i \in 0 .. n + 1 |-> t[i]]
    OBVIOUS
  <2> HIDE DEF t
  <2>4. RanBy(cmds, d, n + 1, t)
    BY <2>2, <2>3 DEF RanBy
  <2> QED
    BY <2>4
<1> HIDE DEF T
<1>3. m \in T
  BY <1>1, <1>2, SetInduction
<1> QED
  BY <1>3 DEF T

\* And one function only, however far it is taken.
LEMMA RanSame ==
    ASSUME NEW cmds, NEW d, NEW m \in Nat, NEW n \in Nat, NEW s, NEW t,
           RanBy(cmds, d, m, s), RanBy(cmds, d, n, t), NEW l \in Nat, l <= m, l <= n
    PROVE  s[l] = t[l]
<1> DEFINE T == {i \in Nat : i <= l => s[i] = t[i]}
<1>1. 0 \in T
  BY DEF RanBy
<1>2. ASSUME NEW i \in Nat, i \in T
      PROVE  i + 1 \in T
  <2> SUFFICES ASSUME i + 1 <= l
               PROVE  s[i + 1] = t[i + 1]
    OBVIOUS
  <2>0. i + 1 \in 0 .. m /\ i + 1 \in 0 .. n /\ i + 1 # 0
    OBVIOUS
  <2>1. s[i + 1] = RunNext(cmds, s, i + 1)
    BY <2>0 DEF RanBy
  <2>2. t[i + 1] = RunNext(cmds, t, i + 1)
    BY <2>0 DEF RanBy
  <2>3. s[i] = t[i] /\ (i + 1) - 1 = i
    BY <1>2
  <2> QED
    BY <2>1, <2>2, <2>3 DEF RunNext
<1> HIDE DEF T
<1>3. l \in T
  BY <1>1, <1>2, SetInduction
<1> QED
  BY <1>3 DEF T

LEMMA AloneIs ==
    ASSUME NEW cmds, NEW d, NEW n \in Nat
    PROVE  RanBy(cmds, d, n, CHOOSE s : RanBy(cmds, d, n, s))
BY RanExists

\* No command leaves the data as it is.
LEMMA AloneNone == ASSUME NEW cmds, NEW d PROVE Alone(cmds, d, 0) = d
<1>1. RanBy(cmds, d, 0, CHOOSE s : RanBy(cmds, d, 0, s))
  BY AloneIs
<1> QED
  BY <1>1 DEF Alone, RanBy

\* One more command runs on what those before it leave.
LEMMA AloneNext ==
    ASSUME NEW cmds, NEW d, NEW n \in Nat
    PROVE  Alone(cmds, d, n + 1) =
              Effect(cmds[n + 1], Alone(cmds, d, n)[cmds[n + 1].keys[1]], Alone(cmds, d, n))
<1> DEFINE s == CHOOSE s : RanBy(cmds, d, n, s)
           t == CHOOSE t : RanBy(cmds, d, n + 1, t)
<1>1. RanBy(cmds, d, n, s) /\ RanBy(cmds, d, n + 1, t)
  BY AloneIs
<1>2. s[n] = t[n]
  <2> HIDE DEF s, t
  <2> QED
    BY <1>1, RanSame
<1>3. t[n + 1] = RunNext(cmds, t, n + 1)
  <2> HIDE DEF s, t
  <2> QED
    BY <1>1 DEF RanBy
<1>4. Alone(cmds, d, n) = s[n] /\ Alone(cmds, d, n + 1) = t[n + 1] /\ (n + 1) - 1 = n
  BY DEF Alone
<1> HIDE DEF s, t
<1> QED
  BY <1>2, <1>3, <1>4 DEF RunNext

\* All of them are RunAlone.
LEMMA RunAloneIs == ASSUME NEW cmds, NEW d PROVE RunAlone(cmds, d) = Alone(cmds, d, Len(cmds))
BY DEF RunAlone, Alone, RanBy, RunNext

\* What a command makes of a key depends on what it has read and on that key.
LEMMA EffectAt ==
    ASSUME NEW cmd \in Cmds, NEW v, NEW d \in [Keys -> Values], NEW e \in [Keys -> Values],
           NEW k \in Keys
    PROVE  \/ Effect(cmd, v, d)[k] = d[k] /\ Effect(cmd, v, e)[k] = e[k]
           \/ Effect(cmd, v, d)[k] = Effect(cmd, v, e)[k]
<1>1. cmd.op \in Ops /\ cmd.keys \in Seq(Keys) /\ 1 \in DOMAIN cmd.keys
  BY CommandTypes
<1>2. cmd.op = "rename" => 2 \in DOMAIN cmd.keys
  BY CommandTypes
<1>3. CASE cmd.op = "rename"
  BY <1>1, <1>2, <1>3 DEF Effect
<1>4. CASE cmd.op = "incr"
  BY <1>1, <1>4 DEF Effect
<1>5. CASE cmd.op \notin {"rename", "incr"}
  BY <1>1, <1>5 DEF Effect
<1> QED
  BY <1>3, <1>4, <1>5

-------------------------------------------------------------------------------
(* Serial effects *)

\* A goroutine that has run the first n commands of its queue has, on the keys it
\* writes, what they make of base alone; a key it only reads may have gone, as the
\* source of somebody's rename.
SerialAt(c, n) ==
    LET e == Alone(run[c].cmds, run[c].base, n)
    IN  /\ e \in [Keys -> Values]
        /\ \A k \in Writes(c) : data[k] = e[k]
        /\ \A k \in Reads(c) : data[k] \in {e[k], Nil}

\* What the executor has read is that, too.
LocOf(c) ==
    LET k == Current(c).keys[1]
        w == Alone(run[c].cmds, run[c].base, run[c].i - 1)[k]
    IN  run[c].loc = w \/ (run[c].loc = Nil /\ k \notin Writes(c))

SerialOf(c) ==
    /\ run[c].reply # "none" =>
          run[c].pc \in {"rollback", "unlock"} \/ (run[c].pc = "bump" /\ run[c].tx)
    /\ run[c].pc \in {"check", "fetch", "apply"} => SerialAt(c, run[c].i - 1)
    /\ run[c].pc = "apply" => LocOf(c)
    /\ run[c].pc = "rollback" => run[c].reply = "error"
    /\ Holding(c) /\ run[c].reply = "ok" =>
          \A k \in Writes(c) : data[k] = Alone(run[c].cmds, run[c].base, Len(run[c].cmds))[k]

SerialInv == \A c \in Conns : SerialOf(c)

\* While a goroutine holds the lock of a key, all that others do to it is rename it away.
LEMMA MayGo ==
    ASSUME TypeOK, Control, Exclusive, NEW c \in Conns, Step(c),
           NEW d \in Conns, d # c, Holding(d), NEW k \in Reads(d)
    PROVE  data'[k] \in {data[k], Nil}
<1> SUFFICES ASSUME data'[k] # data[k]
             PROVE  data'[k] = Nil
  OBVIOUS
<1>1. k \in Keys
  BY RequestTypes
<1>2. [Next]_vars
  BY DEF Step, Next
<1>3. PICK e \in Conns : /\ Step(e) /\ Holding(e) /\ run'[e] # run[e]
                         /\ k \in Writes(e) \cup RenameSources(e)
  BY <1>1, <1>2, DataStep
<1>4. e = c
  BY <1>3, Others
<1>5. Locks!Compatible(LockRequest(d), LockRequest(c))
  BY <1>3, <1>4 DEF Exclusive
<1>6. k \notin Writes(c)
  BY <1>5 DEF Locks!Compatible, LockRequest
<1>7. Apply(c) \/ Rollback(c)
  BY <1>1 DEF Step, Session, Multi, Discard, EnqueueError, ExecDiscarded, Watch, Enqueue, Start,
              StartExec, StartNormal, Lock, Work, GetVersion, PutVersion, WatchChanged,
              WatchUnchanged, WatchPassed, Fetch, ApplyError, Unlock
<1>8. CASE Rollback(c)
  BY <1>1, <1>8 DEF Rollback
<1>9. CASE Apply(c)
  <2>1. Running(c)
    BY <1>9 DEF Apply, Running
  <2>2. Current(c) \in Cmds /\ WriteKeys(Current(c)) \subseteq Writes(c)
    BY <2>1, CurrentTypes
  <2>3. data' = Effect(Current(c), run[c].loc, data) /\ data \in [Keys -> Values]
    BY <1>9 DEF Apply, TypeOK
  <2> QED
    BY <1>1, <1>6, <2>2, <2>3, EffectWrites
<1> QED
  BY <1>7, <1>8, <1>9

\* The fields that a reply, and the serial effect, follow from.
SameRun(c) ==
    /\ run'[c].cmds = run[c].cmds /\ run'[c].base = run[c].base /\ run'[c].tx = run[c].tx
    /\ data' = data

LEMMA SerialSame ==
    ASSUME NEW c \in Conns, SameRun(c), NEW n, SerialAt(c, n)
    PROVE  SerialAt(c, n)'
<1>1. /\ run'[c].cmds = run[c].cmds /\ run'[c].base = run[c].base /\ data' = data
      /\ Writes(c)' = Writes(c) /\ Reads(c)' = Reads(c)
  BY DEF SameRun, Writes, Reads
<1> QED
  BY <1>1 DEF SerialAt

\* The lock is taken: nothing has run.
LEMMA SerialBegins ==
    ASSUME TypeOK, Control, NEW c \in Conns, Lock(c)
    PROVE  SerialAt(c, 0)'
<1> DEFINE b == [k \in Keys |-> IF k \in LockRequest(c).write \cup LockRequest(c).read
                                THEN data[k] ELSE Nil]
<1>t. /\ run \in [Conns -> RunType] /\ run[c] \in RunType /\ data \in [Keys -> Values]
      /\ Nil \in Values /\ Writes(c) \subseteq Keys /\ Reads(c) \subseteq Keys
  BY RequestTypes DEF TypeOK, Values
<1>0. b \in [Keys -> Values]
  BY <1>t
<1>1. /\ \A k \in Writes(c) : b[k] = data[k]
      /\ \A k \in Reads(c) : b[k] = data[k]
  BY <1>t DEF LockRequest
<1>2. run'[c] = [run[c] EXCEPT !.pc = IF run[c].tx THEN "check" ELSE "fetch", !.base = b]
  BY <1>t DEF Lock
<1> HIDE DEF b
<1>3. \A pc : LET q == [run[c] EXCEPT !.pc = pc, !.base = b]
              IN  q.base = b /\ q.cmds = run[c].cmds
  BY <1>t DEF RunType
<1>4. /\ run'[c].base = b /\ run'[c].cmds = run[c].cmds
      /\ data' = data
  <2>1. run'[c].base = b /\ run'[c].cmds = run[c].cmds
    BY ONLY <1>2, <1>3
  <2> QED
    BY <2>1 DEF Lock
<1>5. Writes(c)' = Writes(c) /\ Reads(c)' = Reads(c)
  BY <1>4 DEF Writes, Reads
<1>6. Alone(run[c].cmds, b, 0) = b
  BY AloneNone
<1> QED
  BY <1>0, <1>1, <1>4, <1>5, <1>6 DEF SerialAt

\* The executor of a command that does not fail has read what it would read alone, or
\* does not care.
LEMMA ReadAlone ==
    ASSUME TypeOK, Control, SerialInv, NEW c \in Conns, run[c].pc = "apply",
           ~Fails(Current(c), run[c].loc), NEW d
    PROVE  LET e == Alone(run[c].cmds, run[c].base, run[c].i - 1)
           IN  Effect(Current(c), run[c].loc, d) = Effect(Current(c), e[Current(c).keys[1]], d)
<1> DEFINE e == Alone(run[c].cmds, run[c].base, run[c].i - 1)
           k == Current(c).keys[1]
<1>1. Current(c) \in Cmds /\ WriteKeys(Current(c)) \subseteq Writes(c)
  BY CurrentTypes DEF Running
<1>2. run[c].loc = e[k] \/ (run[c].loc = Nil /\ k \notin Writes(c))
  BY DEF SerialInv, SerialOf, LocOf
<1>3. CASE run[c].loc = e[k]
  BY <1>3
<1>4. CASE run[c].loc = Nil /\ k \notin Writes(c)
  <2>1. Current(c).op \in Ops /\ Current(c).keys \in Seq(Keys) /\ 1 \in DOMAIN Current(c).keys
    BY <1>1, CommandTypes
  <2>2. Current(c).op # "rename"
    BY <1>4 DEF Fails
  <2>3. Current(c).op = "get"
    <3> SUFFICES ASSUME Current(c).op # "get"
                 PROVE  FALSE
      OBVIOUS
    <3>1. k \in WriteKeys(Current(c))
      BY <2>1, <2>2 DEF WriteKeys, WriteSeq, ToSet
    <3> QED
      BY <1>1, <1>4, <3>1
  <2> QED
    BY <2>3 DEF Effect
<1> QED
  BY <1>2, <1>3, <1>4

\* One more command has run.
LEMMA SerialNext ==
    ASSUME TypeOK, Control, SerialInv, NEW c \in Conns, Apply(c), NEW n, n = run[c].i
    PROVE  SerialAt(c, n)'
<1> DEFINE e == Alone(run[c].cmds, run[c].base, run[c].i - 1)
           f == Alone(run[c].cmds, run[c].base, n)
<1>t. /\ run[c].pc = "apply" /\ ~Fails(Current(c), run[c].loc) /\ Running(c)
      /\ data' = Effect(Current(c), run[c].loc, data)
  BY DEF Apply, Running
<1>0. /\ Current(c) \in Cmds /\ run[c].loc \in Values /\ data \in [Keys -> Values]
      /\ run[c].i - 1 \in Nat /\ (run[c].i - 1) + 1 = run[c].i
      /\ Writes(c) \subseteq Keys /\ Reads(c) \subseteq Keys
  BY <1>t, CurrentTypes, RequestTypes DEF TypeOK, RunType, Control, ControlOf
<1>1. SerialAt(c, run[c].i - 1)
  BY <1>t DEF SerialInv, SerialOf
<1>2. /\ e \in [Keys -> Values]
      /\ \A k \in Writes(c) : data[k] = e[k]
      /\ \A k \in Reads(c) : data[k] \in {e[k], Nil}
  BY <1>1 DEF SerialAt
<1>3. f = Effect(Current(c), e[Current(c).keys[1]], e)
  BY <1>0, AloneNext DEF Current
<1>4. f = Effect(Current(c), run[c].loc, e)
  BY <1>t, <1>3, ReadAlone
<1> HIDE DEF e, f
<1>5. f \in [Keys -> Values]
  BY <1>t, <1>0, <1>2, <1>4, EffectTypes
<1>6. ASSUME NEW k \in Keys
      PROVE  \/ data'[k] = data[k] /\ f[k] = e[k]
             \/ data'[k] = f[k]
  BY <1>t, <1>0, <1>2, <1>4, EffectAt
<1>7. run'[c].cmds = run[c].cmds /\ run'[c].base = run[c].base
  BY ApplyMoves
<1>8. Writes(c)' = Writes(c) /\ Reads(c)' = Reads(c)
  BY <1>7 DEF Writes, Reads
<1>9. /\ \A k \in Writes(c) : data'[k] = f[k]
      /\ \A k \in Reads(c) : data'[k] \in {f[k], Nil}
  BY <1>0, <1>2, <1>6
<1>10. f = Alone(run'[c].cmds, run'[c].base, n)
  BY <1>7 DEF f
<1> QED
  BY <1>5, <1>7, <1>8, <1>9, <1>10 DEF SerialAt

\* SerialInv is inductive: a step of another goroutine, and each step of its own.
LEMMA SerialOthers ==
    ASSUME TypeOK, Control, Exclusive, SerialInv, NEW c \in Conns, Step(c),
           NEW x \in Conns, x # c
    PROVE  SerialOf(x)'
<1>1. /\ run'[x] = run[x] /\ Writes(x)' = Writes(x) /\ Reads(x)' = Reads(x)
      /\ Current(x)' = Current(x) /\ Holding(x)' = Holding(x)
  BY Others DEF Writes, Reads, Current, Holding
<1>2. SerialOf(x)
  BY DEF SerialInv
<1>3. CASE Holding(x)
  <2>1. /\ \A k \in Writes(x) : data'[k] = data[k]
        /\ \A k \in Reads(x) : data'[k] \in {data[k], Nil}
    BY <1>3, Untouched, MayGo
  <2>2. ASSUME NEW n, SerialAt(x, n)
        PROVE  SerialAt(x, n)'
    BY <1>1, <2>1, <2>2 DEF SerialAt
  <2>3. PICK n : n = run[x].i - 1
    OBVIOUS
  <2>4. run'[x].pc \in {"check", "fetch", "apply"} => SerialAt(x, run[x].i - 1)'
    <3>1. run'[x].pc \in {"check", "fetch", "apply"} => SerialAt(x, n)
      BY <1>1, <1>2, <2>3 DEF SerialOf
    <3>2. run'[x].pc \in {"check", "fetch", "apply"} => SerialAt(x, n)'
      BY <2>2, <3>1
    <3> QED
      BY <1>1, <2>3, <3>2
  <2>5. run'[x].pc = "apply" => LocOf(x)'
    BY <1>1, <1>2 DEF SerialOf, LocOf
  <2> QED
    BY <1>1, <1>2, <2>1, <2>4, <2>5 DEF SerialOf
<1>4. CASE ~Holding(x)
  <2>1. run[x].pc \in {"idle", "lock"} \/ (run[x].pc = "bump" /\ ~run[x].tx)
    BY <1>4 DEF Holding, TypeOK, RunType
  <2> QED
    BY <1>1, <1>2, <1>4, <2>1 DEF SerialOf
<1> QED
  BY <1>3, <1>4

LEMMA SerialStep ==
    ASSUME TypeOK, Control, Exclusive, SerialInv, NEW c \in Conns, Step(c)
    PROVE  SerialInv'
<1> SUFFICES SerialOf(c)'
  BY SerialOthers DEF SerialInv
<1>t. /\ run \in [Conns -> RunType] /\ run[c] \in RunType
      /\ ControlOf(c) /\ SerialOf(c)
  BY DEF TypeOK, Control, SerialInv
<1>1. CASE Session(c)
  <2>1. run'[c] = run[c] /\ run[c].pc = "idle"
    BY <1>1 DEF Session, Multi, Discard, EnqueueError, ExecDiscarded, Watch, Enqueue
  <2> QED
    BY <1>t, <2>1 DEF SerialOf, Holding
<1>2. CASE Start(c)
  <2>1. run'[c].reply = "none" /\ run'[c].pc \in {"lock", "bump"}
    <3>1. CASE StartExec(c)
      BY <1>t, <3>1 DEF StartExec, Idle
    <3>2. ASSUME NEW cmd \in Normal[c], StartNormal(c, cmd)
          PROVE  run'[c].reply = "none" /\ run'[c].pc \in {"lock", "bump"}
      BY <1>t, <3>2 DEF StartNormal, Idle, AfterBump
    <3> QED
      BY <1>2, <3>1, <3>2 DEF Start
  <2> QED
    BY <2>1 DEF SerialOf
<1>3. CASE Lock(c)
  <2>1. SerialAt(c, 0)'
    BY <1>3, SerialBegins
  <2>2. run[c].pc = "lock" /\ run[c].i = 1 /\ run[c].reply = "none"
    BY <1>3, <1>t DEF Lock, SerialOf, ControlOf
  <2>3. /\ run'[c].pc \in {"check", "fetch"} /\ run'[c].i = 1 /\ run'[c].reply = "none"
    <3>1. PICK pc, b : /\ run'[c] = [run[c] EXCEPT !.pc = pc, !.base = b]
                       /\ pc \in {"check", "fetch"}
      BY <1>3, <1>t DEF Lock
    <3>2. LET q == [run[c] EXCEPT !.pc = pc, !.base = b]
          IN  q.pc = pc /\ q.i = run[c].i /\ q.reply = run[c].reply
      BY <1>t DEF RunType
    <3> QED
      BY <2>2, <3>1, <3>2
  <2>4. run'[c].i - 1 = 0
    BY <2>3
  <2>5. SerialAt(c, run[c].i - 1)'
    BY <2>1, <2>4
  <2> QED
    BY <2>3, <2>5 DEF SerialOf
<1>4. CASE GetVersion(c)
  <2>1. /\ run[c].pc = "bump" /\ run'[c].pc = "bump" /\ run'[c].reply = run[c].reply
        /\ SameRun(c)
    BY <1>4, <1>t DEF GetVersion, SameRun
  <2>2. Writes(c)' = Writes(c)
    BY <2>1 DEF Writes, SameRun
  <2> QED
    BY <1>t, <2>1, <2>2 DEF SerialOf, Holding, SameRun
<1>5. CASE PutVersion(c)
  <2>1. /\ run[c].pc = "bump" /\ run'[c].reply = run[c].reply /\ SameRun(c)
        /\ run'[c].pc \in {"bump", "lock", "unlock"}
        /\ run'[c].pc = "lock" => ~run[c].tx
    <3>1. PICK pc, ps : /\ run'[c] = [run[c] EXCEPT !.seen = Unread, !.bump = ps, !.pc = pc]
                        /\ pc = AfterBump(ps, run[c].tx)
      BY ZenonT(60), <1>5, <1>t DEF PutVersion
    <3>2. LET q == [run[c] EXCEPT !.seen = Unread, !.bump = ps, !.pc = pc]
          IN  /\ q.pc = pc /\ q.reply = run[c].reply /\ q.tx = run[c].tx
              /\ q.cmds = run[c].cmds /\ q.base = run[c].base
      BY <1>t DEF RunType
    <3>3. run[c].pc = "bump" /\ data' = data
      BY <1>5 DEF PutVersion
    <3> QED
      BY <3>1, <3>2, <3>3 DEF AfterBump, SameRun
  <2>2. Writes(c)' = Writes(c)
    BY <2>1 DEF Writes, SameRun
  <2> QED
    BY <1>t, <2>1, <2>2 DEF SerialOf, Holding, SameRun
<1>6. CASE WatchChanged(c)
  <2>1. run'[c].pc = "unlock" /\ run'[c].reply = "empty"
    BY <1>6, <1>t DEF WatchChanged
  <2> QED
    BY <2>1 DEF SerialOf
<1>7. CASE WatchUnchanged(c) \/ (WatchPassed(c) /\ run[c].cmds # <<>>)
  <2>1. /\ run[c].pc = "check" /\ run'[c].pc \in {"check", "fetch"}
        /\ run'[c].reply = run[c].reply /\ run'[c].i = run[c].i /\ SameRun(c)
    <3>1. CASE WatchUnchanged(c)
      BY <3>1, <1>t DEF WatchUnchanged, SameRun
    <3>2. CASE WatchPassed(c) /\ run[c].cmds # <<>>
      BY <3>2, <1>t DEF WatchPassed, SameRun
    <3> QED
      BY <1>7, <3>1, <3>2
  <2>2. PICK n : n = run[c].i - 1
    OBVIOUS
  <2>3. SerialAt(c, n)'
    BY <1>t, <2>1, <2>2, SerialSame DEF SerialOf
  <2>4. SerialAt(c, run[c].i - 1)' /\ run'[c].reply = "none"
    BY <1>t, <2>1, <2>2, <2>3 DEF SerialOf
  <2> QED
    BY <2>1, <2>4 DEF SerialOf
<1>8. CASE WatchPassed(c) /\ run[c].cmds = <<>>
  <2>1. run'[c].pc = "unlock" /\ run'[c].reply = "ok" /\ run'[c].cmds = <<>>
    BY <1>8, <1>t DEF WatchPassed
  <2>2. Writes(c)' = {}
    BY <2>1 DEF Writes
  <2> QED
    BY <2>1, <2>2 DEF SerialOf
<1>9. CASE Fetch(c)
  <2>1. /\ run[c].pc = "fetch" /\ run'[c].pc = "apply" /\ run'[c].reply = run[c].reply
        /\ run'[c].i = run[c].i /\ run'[c].loc = data[Current(c).keys[1]] /\ SameRun(c)
    BY <1>9, <1>t DEF Fetch, SameRun
  <2>2. PICK n : n = run[c].i - 1
    OBVIOUS
  <2>3. SerialAt(c, n)
    BY <1>t, <2>1, <2>2 DEF SerialOf
  <2>4. SerialAt(c, n)'
    BY <2>1, <2>3, SerialSame
  <2>5. SerialAt(c, run[c].i - 1)' /\ run'[c].reply = "none"
    BY <1>t, <2>1, <2>2, <2>4 DEF SerialOf
  <2>6. LocOf(c)'
    <3> DEFINE k == Current(c).keys[1]
    <3>1. k \in Writes(c) \cup Reads(c)
      <4>1. /\ Current(c) \in Cmds /\ WriteKeys(Current(c)) \subseteq Writes(c)
            /\ ReadKeys(Current(c)) \subseteq Reads(c)
        BY <2>1, CurrentTypes DEF Running
      <4>2. Current(c).keys \in Seq(Keys) /\ 1 \in DOMAIN Current(c).keys
        BY <4>1, CommandTypes
      <4>3. k \in WriteKeys(Current(c)) \cup ReadKeys(Current(c))
        BY <4>2 DEF WriteKeys, WriteSeq, ReadKeys, ToSet
      <4> QED
        BY <4>1, <4>3
    <3>2. LET w == Alone(run[c].cmds, run[c].base, n)[k]
          IN  data[k] = w \/ (data[k] = Nil /\ k \notin Writes(c))
      BY <2>3, <3>1 DEF SerialAt
    <3>3. Writes(c)' = Writes(c) /\ Current(c)' = Current(c)
      BY <2>1 DEF Writes, Current, SameRun
    <3> QED
      BY <2>1, <2>2, <3>2, <3>3 DEF LocOf, SameRun
  <2> QED
    BY <2>1, <2>5, <2>6 DEF SerialOf
<1>10. CASE ApplyError(c)
  <2>1. run'[c].pc \in {"rollback", "unlock"} /\ run'[c].reply = "error"
    BY <1>10, <1>t DEF ApplyError
  <2> QED
    BY <2>1 DEF SerialOf
<1>11. CASE Apply(c) /\ run[c].i < Len(run[c].cmds)
  <2>1. /\ run[c].pc = "apply" /\ run'[c].pc = "fetch" /\ run'[c].i = run[c].i + 1
        /\ run'[c].reply = run[c].reply
    <3>1. run'[c] = [run[c] EXCEPT !.i = @ + 1, !.pc = "fetch", !.loc = Nil] /\ run[c].pc = "apply"
      BY <1>11, <1>t DEF Apply
    <3>2. LET q == [run[c] EXCEPT !.i = @ + 1, !.pc = "fetch", !.loc = Nil]
          IN  q.pc = "fetch" /\ q.i = run[c].i + 1 /\ q.reply = run[c].reply
      BY <1>t DEF RunType
    <3> QED
      BY <3>1, <3>2
  <2>2. PICK n : n = run[c].i
    OBVIOUS
  <2>3. SerialAt(c, n)'
    BY <1>11, <2>2, SerialNext
  <2>4. run'[c].i - 1 = n /\ run'[c].reply = "none"
    BY <1>t, <2>1, <2>2 DEF SerialOf, RunType
  <2>5. SerialAt(c, run[c].i - 1)'
    BY <2>3, <2>4
  <2> QED
    BY <2>1, <2>4, <2>5 DEF SerialOf
<1>12. CASE Apply(c) /\ ~(run[c].i < Len(run[c].cmds))
  <2>1. /\ run'[c].pc \in {"bump", "unlock"} /\ run'[c].reply = "ok"
        /\ run'[c].cmds = run[c].cmds /\ run'[c].base = run[c].base /\ run'[c].tx = run[c].tx
        /\ run'[c].pc = "bump" => run[c].tx
    BY <1>12, ApplyMoves
  <2>2. run[c].cmds \in Seq(Cmds) /\ run[c].i \in DOMAIN run[c].cmds
    BY <1>12, <1>t DEF ControlOf, Running, RunType, Apply
  <2>3. run[c].i = Len(run[c].cmds)
    BY <1>12, <2>2
  <2>4. PICK n : n = run[c].i
    OBVIOUS
  <2>5. SerialAt(c, n)'
    BY <1>12, <2>4, SerialNext
  <2>6. n = Len(run'[c].cmds)
    BY <2>1, <2>3, <2>4
  <2>7. \A k \in Writes(c)' :
           data'[k] = Alone(run'[c].cmds, run'[c].base, Len(run'[c].cmds))[k]
    BY <2>5, <2>6 DEF SerialAt
  <2> QED
    BY <2>1, <2>7 DEF SerialOf
<1>13. CASE Rollback(c)
  <2>1. /\ run[c].pc = "rollback" /\ run'[c].pc = "unlock" /\ run'[c].reply = run[c].reply
    BY <1>13, <1>t DEF Rollback
  <2> QED
    BY <1>t, <2>1 DEF SerialOf
<1>14. CASE Unlock(c)
  <2>1. run'[c].pc = "idle" /\ run'[c].reply = "none"
    BY <1>14, <1>t DEF Unlock, Idle
  <2> QED
    BY <2>1 DEF SerialOf, Holding
<1> QED
  BY <1>1, <1>2, <1>3, <1>4, <1>5, <1>6, <1>7, <1>8, <1>9, <1>10, <1>11, <1>12, <1>13, <1>14
     DEF Step, Work

-------------------------------------------------------------------------------
(* Theorems *)

\* What every reachable state satisfies.
IInv == /\ TypeOK /\ Control /\ Exclusive
        /\ WatchedInv /\ SeenInv /\ VersionInv /\ CheckInv /\ UndoInv /\ SerialInv

\* The initial state.
LEMMA Begins == Init => IInv
<1> SUFFICES ASSUME Init
             PROVE  IInv
  OBVIOUS
<1>1. /\ \A c \in Conns : run[c] = Idle
      /\ \A c \in Conns : conn[c] = NoConn
  BY DEF Init
<1>2. TypeOK
  <2>1. run \in [Conns -> RunType] /\ conn \in [Conns -> ConnType]
    BY Fresh DEF Init
  <2>2. data \in [Keys -> Values] /\ version \in [Keys -> Nat]
    BY DataAssumption DEF Init
  <2> QED
    BY <2>1, <2>2 DEF TypeOK
<1>3. \A c \in Conns :
         /\ run[c].pc = "idle" /\ ~run[c].tx /\ run[c].bump = {} /\ run[c].seen = Unread
         /\ run[c].undo = <<>> /\ run[c].reply = "none"
         /\ conn[c].quiet = {} /\ conn[c].touched = {}
  BY <1>1 DEF Idle, NoConn
<1>4. Control
  BY <1>3 DEF Control, ControlOf, Running
<1>5. Exclusive /\ WatchedInv /\ SeenInv /\ VersionInv /\ CheckInv /\ UndoInv
  BY <1>3 DEF Exclusive, Holding, WatchedInv, SeenInv, VersionInv, CheckInv, UndoInv, UndoOf
<1>6. SerialInv
  BY <1>3 DEF SerialInv, SerialOf
<1> QED
  BY <1>2, <1>4, <1>5, <1>6 DEF IInv

\* A step that changes nothing.
LEMMA Stutters ==
    ASSUME IInv, UNCHANGED vars
    PROVE  IInv'
<1>1. TypeOK' /\ Control' /\ Exclusive'
  BY TypeStep, ControlStep, ExclusiveStep DEF IInv
<1>2. /\ data' = data /\ version' = version /\ conn' = conn /\ run' = run
  BY DEF vars
<1>3. WatchedInv'
  BY <1>2 DEF IInv, WatchedInv, Watched
<1>4. /\ \A k : InFlight(k)' = InFlight(k)
      /\ \A d \in Conns, k \in Keys :
            Reading(d, k)' = Reading(d, k) /\ Pending(d, k)' = Pending(d, k)
      /\ \A d \in Conns : Writes(d)' = Writes(d)
  BY <1>2 DEF InFlight, Reading, Pending, KeyAt, Writes
<1>5. SeenInv'
  BY <1>2, <1>4 DEF IInv, SeenInv
<1>6. VersionInv'
  BY <1>2 DEF IInv, VersionInv, Since, Reading, Pending, KeyAt, Writes
<1>7. CheckInv'
  BY <1>2 DEF IInv, CheckInv, Watched
<1>8. UndoInv'
  BY <1>2 DEF IInv, UndoInv, UndoOf, Undone, Writes, Current
<1>9. SerialInv'
  <2> SUFFICES ASSUME NEW c \in Conns
               PROVE  SerialOf(c)'
    BY DEF SerialInv
  <2>1. SerialOf(c)
    BY DEF IInv, SerialInv
  <2>2. /\ Writes(c)' = Writes(c) /\ Reads(c)' = Reads(c) /\ Holding(c)' = Holding(c)
        /\ Current(c)' = Current(c)
    BY <1>2 DEF Writes, Reads, Holding, Current
  <2>3. SerialAt(c, run[c].i - 1)' = SerialAt(c, run[c].i - 1)
    BY <1>2, <2>2 DEF SerialAt
  <2>4. LocOf(c)' = LocOf(c)
    BY <1>2, <2>2 DEF LocOf
  <2> QED
    BY <1>2, <2>1, <2>2, <2>3, <2>4 DEF SerialOf
<1> QED
  BY <1>1, <1>3, <1>5, <1>6, <1>7, <1>8, <1>9 DEF IInv

\* Every step.
LEMMA Inductive ==
    ASSUME IInv, [Next]_vars
    PROVE  IInv'
<1>1. CASE UNCHANGED vars
  BY <1>1, Stutters
<1>2. ASSUME NEW c \in Conns, Step(c)
      PROVE  IInv'
  <2>1. TypeOK' /\ Control' /\ Exclusive'
    BY <1>2, TypeStep, ControlStep, ExclusiveStep DEF IInv, Next, Step
  <2>2. WatchedInv'
    BY <1>2, WatchedStep DEF IInv
  <2>3. SeenInv' /\ VersionInv' /\ CheckInv'
    BY <1>2, SeenStep, VersionStep, CheckStep DEF IInv
  <2>4. UndoInv' /\ SerialInv'
    BY <1>2, UndoStep, SerialStep DEF IInv
  <2> QED
    BY <2>1, <2>2, <2>3, <2>4 DEF IInv
<1> QED
  BY <1>1, <1>2 DEF Next, Step

\* Every reachable state satisfies the inductive invariant, whatever the commands,
\* the connections and the way their goroutines interleave.
THEOREM Invariance == Spec => []IInv
<1>1. Init => IInv
  BY Begins
<1>2. IInv /\ [Next]_vars => IInv'
  BY Inductive
<1> QED
  BY <1>1, <1>2, PTL DEF Spec

\* The data, versions, connections and goroutines keep their types.
THEOREM TypeCorrect == Spec => []TypeOK
<1>1. IInv => TypeOK
  BY DEF IInv
<1> QED
  BY <1>1, Invariance, PTL

\* Between RWLocks and RWUnLocks (database.go:118-119, transaction.go:63-64) a goroutine
\* that does not move sees nobody change the keys it writes, and none of those it reads
\* or watches change but as the source of a rename.
THEOREM Isolated == Spec => Isolation
<1>1. ASSUME IInv, [Next]_vars
      PROVE  [\A c \in Conns : Holding(c) /\ run'[c] = run[c] =>
                 \A k \in LockRequest(c).write \cup LockRequest(c).read :
                     data'[k] # data[k] =>
                         /\ k \notin LockRequest(c).write
                         /\ \E d \in Conns \ {c} : run'[d] # run[d] /\ k \in RenameSources(d)
             ]_vars
  <2> SUFFICES ASSUME NEW c \in Conns, Holding(c), run'[c] = run[c],
                      NEW k \in LockRequest(c).write \cup LockRequest(c).read,
                      data'[k] # data[k]
               PROVE  /\ k \notin LockRequest(c).write
                      /\ \E d \in Conns \ {c} : run'[d] # run[d] /\ k \in RenameSources(d)
    OBVIOUS
  <2>1. k \in Keys
    BY <1>1, RequestTypes DEF IInv, LockRequest
  <2>2. PICK d \in Conns : /\ Step(d) /\ Holding(d) /\ run'[d] # run[d]
                           /\ k \in Writes(d) \cup RenameSources(d)
    BY <1>1, <2>1, DataStep DEF IInv
  <2>3. d # c
    BY <2>2
  <2>4. Locks!Compatible(LockRequest(c), LockRequest(d))
    BY <1>1, <2>2, <2>3 DEF IInv, Exclusive
  <2>5. RenameSources(d) \subseteq Reads(d)
    BY <1>1, SourcesRead DEF IInv
  <2> QED
    BY <2>2, <2>3, <2>4, <2>5 DEF Locks!Compatible, LockRequest
<1> QED
  BY <1>1, Invariance, PTL DEF Spec, Isolation

\* EXEC runs its queue only if no key watched while nobody was writing it has been
\* written since (isWatchingChanged, transaction.go:66-68, 114-123).
THEOREM WatchSound == Spec => []WatchDetects
<1>1. IInv => WatchDetects
  BY DEF IInv, WatchDetects, CheckInv, Control, ControlOf, Running
<1> QED
  BY <1>1, Invariance, PTL

\* A command (execNormalCommand, database.go:106-121) or an EXEC (ExecMulti,
\* transaction.go:44-102) that answers with success has, on the keys it writes, the effect
\* of running alone on the data it found when RWLocks returned.
THEOREM Serial == Spec => []SuccessIsSerial
<1>1. IInv => SuccessIsSerial
  BY RunAloneIs DEF IInv, SuccessIsSerial, SerialInv, SerialOf
<1> QED
  BY <1>1, Invariance, PTL

\* The undo logs of an EXEC that fails remove every key that was not there when it took
\* its locks (transaction.go:90-101).
THEOREM AbortsClean == Spec => []AbortCreatesNothing
<1>1. IInv => AbortCreatesNothing
  BY DEF IInv, AbortCreatesNothing, UndoInv, UndoOf, Undone
<1> QED
  BY <1>1, Invariance, PTL

===============================================================================
