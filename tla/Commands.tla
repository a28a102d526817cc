-------------------------------- MODULE Commands --------------------------------
(***************************************************************************)
(* pkg/database: what the string, key and sorted-set commands do to one     *)
(* database, what they append to the file, and what undoes them             *)
(* (string_cmd.go, keys.go, sortedset_cmd.go, tx_utils.go).  Keys have      *)
(* deadlines; a key that is past its deadline disappears when somebody      *)
(* looks at it, or when the job of the time wheel gets to it.               *)
(*                                                                         *)
(* Commands run one at a time here: Transaction is about their interleaving *)
(* and Aof about the way of a line to the file.  A string is a sequence of  *)
(* pieces, numbers or Text, and counts as an integer when it is one number. *)
(* INCR stands for INCRBY, DECR and DECRBY.  The list commands are          *)
(* registered with an arity that nothing but their name satisfies and       *)
(* cannot be run at all.                                                    *)
(*                                                                         *)
(* COPY gives the second key the entity of the first.  Most commands put a  *)
(* new string in the place of the old one, but sorted sets are changed in   *)
(* place, and APPEND, SETRANGE and SETBIT write into the array of the old   *)
(* bytes as far as it has room: "shares" says which keys have a sorted set, *)
(* or an array, in common.                                                  *)
(***************************************************************************)
EXTENDS Integers, Sequences, SequencesExt, FiniteSets, FiniteSetsExt

CONSTANTS
    Keys,
    Members,        \* members of sorted sets
    Nil,            \* no entity
    Text,           \* a piece of a string that is not an integer; also zero bytes
    IntMod,         \* integers wrap, as int64 does
    Spare,          \* the room a new array has behind its string
    Second,         \* a second, in the milliseconds of this clock
    Cmds,           \* the commands clients send: [op, keys, val, n]
    Files,          \* the files the server may start with
    MaxTime, MaxOps, MaxBoots, MaxRewrites    \* bounds

Never == 1000       \* later than every moment of a run
Broken == -1        \* earlier than every moment

\* What a string may be.
Pieces == (0 .. IntMod - 1) \cup {Text}
Values == Seq(Pieces)

\* The commands that keys, strings and sorted sets have here, and "incrfloat", which is
\* none: INCRBYFLOAT writes it to the file.
Ops == {"get", "getex persist", "set", "set nx", "set xx", "setnx", "setex", "psetex", "mset",
        "msetnx", "getset", "getdel", "incr", "incrbyfloat", "incrfloat", "append",
        "setrange", "setbit", "del", "expire", "pexpireat", "persist", "rename", "renamenx",
        "copy", "copy replace", "zadd", "zincrby", "zrem", "zpopmin", "zremrangebyscore",
        "flushall", "flushdb"}

\* Commands with several keys, with two, and with none that matters.
Lists == {"get", "mset", "msetnx", "del"}
Pairs == {"rename", "renamenx", "copy", "copy replace"}
Flushes == {"flushall", "flushdb"}

\* Commands and lines of the file, with the keys their arity asks for; the rest of their
\* arguments is val and n.  Deadlines come before Never.
CmdType ==
    {c \in [op : Ops, keys : Seq(Keys), val : Members \cup Values, n : Nat] :
        /\ c.op \in Lists => Len(c.keys) >= 1
        /\ c.op \in Pairs => Len(c.keys) = 2
        /\ c.op \notin Lists \cup Pairs \cup Flushes => Len(c.keys) = 1
        /\ c.val \in IF c.op \in {"zadd", "zincrby", "zrem", "zpopmin", "zremrangebyscore"}
                     THEN Members ELSE Values
        /\ c.op \in {"setex", "psetex"} => MaxTime + c.n * Second < Never
        /\ c.op \in {"expire", "psetex"} => MaxTime + c.n < Never
        /\ c.op = "pexpireat" => c.n < Never}

ASSUME NilAssumption ==
    /\ Text \notin Int
    /\ Nil \notin [str : Values]
    /\ Nil \notin [zset : UNION {[D -> Nat] : D \in SUBSET Members}]
ASSUME ClockAssumption == MaxTime \in Nat /\ MaxTime < Never /\ Second \in Nat \ {0}
ASSUME SetsAssumption == IsFiniteSet(Keys) /\ IsFiniteSet(Members) /\ IntMod \in Nat \ {0}
ASSUME RoomAssumption == Spare \in Nat
ASSUME CmdAssumption == Cmds \subseteq CmdType
ASSUME FileAssumption == Files \subseteq Seq(CmdType)

VARIABLES
    db,             \* the database: data, ttl, jobs of the time wheel, shares, cap
    now,            \* the clock
    file,           \* the append-only file
    sure,           \* history: the last moment at which a replay of the file is
                    \* bound to bring back the key as it is
    lapsed,         \* history: keys a deadline of which has passed
    ops, boots, rewrites    \* counters of the bounds

vars == <<db, now, file, sure, lapsed, ops, boots, rewrites>>

Str(v) == [str |-> v]
ZSet(z) == [zset |-> z]
IsStr(x) == x # Nil /\ DOMAIN x = {"str"}
IsZSet(x) == x # Nil /\ DOMAIN x = {"zset"}

-------------------------------------------------------------------------------
(* The database *)

Empty == [data |-> [k \in Keys |-> Nil], ttl |-> [k \in Keys |-> Never],
          jobs |-> {}, shares |-> {}, cap |-> [k \in Keys |-> 0]]

\* IsExpired, before its removal.
Expired(s, k, t) == s.data[k] # Nil /\ t > s.ttl[k]

\* What GetEntity would return.
Visible(s, k, t) == IF Expired(s, k, t) THEN Nil ELSE s.data[k]

Aliases(s, k) == {j \in Keys : {j, k} \in s.shares}

\* The capacity of the array of a new string: the parser reads it with the line end.
Room(x) == IF IsStr(x) THEN Len(x.str) + Spare ELSE 0

\* PutEntity with a new entity for each of the keys: their deadlines stay.
PutEntities(s, ks, x) ==
    [s EXCEPT !.data = [k \in Keys |-> IF k \in ks THEN x ELSE s.data[k]],
              !.shares = {p \in @ : p \cap ks = {}},
              !.cap = [k \in Keys |-> IF k \in ks THEN Room(x) ELSE s.cap[k]]]

PutEntity(s, k, x) == PutEntities(s, {k}, x)

\* PutEntity with the entity of another key.
Share(s, j, k) ==
    IF j = k THEN s
    ELSE [PutEntity(s, k, s.data[j]) EXCEPT
             !.shares = @ \cup {{i, k} : i \in ({j} \cup Aliases(s, j)) \ {k}},
             !.cap[k] = s.cap[j]]

\* What becomes of y when x is written to where it is: a string is as long as before.
InPlace(y, x) ==
    IF IsStr(x) /\ IsStr(y)
    THEN Str([i \in DOMAIN y.str |-> IF i \in DOMAIN x.str THEN x.str[i] ELSE y.str[i]])
    ELSE x

\* A change of a sorted set, or of the bytes of a string, in place.
Write(s, k, x) ==
    [s EXCEPT !.data = [j \in Keys |-> IF j = k THEN x
                                       ELSE IF j \in Aliases(s, k) THEN InPlace(s.data[j], x)
                                       ELSE s.data[j]]]

\* A larger array for n bytes.
Grow(s, k, n) == [s EXCEPT !.cap[k] = IF n > 2 * @ THEN n ELSE 2 * @]

\* PutEntity with bytes that append() has made of those of the key: in their array, if
\* there is nothing to append or room for it, else in one of its own.  "begun": the old
\* array has been written to before it was full.
PutBytes(s, k, x, begun) ==
    IF s.data[k] # Nil /\ (Len(x.str) = Len(s.data[k].str) \/ Len(x.str) <= s.cap[k])
    THEN Write(s, k, x)
    ELSE LET old == IF begun THEN Write(s, k, x) ELSE s
         IN  [PutEntity(old, k, x) EXCEPT !.cap[k] = Grow(s, k, Len(x.str)).cap[k]]

\* Expire at a time: the time wheel takes no job for a time that is past, and
\* keeps the job it may have.
Expire(s, k, at, t) ==
    [s EXCEPT !.ttl[k] = at, !.jobs = IF at < t THEN @ ELSE @ \cup {k}]

Persist(s, k) == [s EXCEPT !.ttl[k] = Never, !.jobs = @ \ {k}]

\* Removes and RemoveKey: no value, no deadline and no job.
Removes(s, ks) ==
    [PutEntities(s, ks, Nil) EXCEPT
        !.ttl = [k \in Keys |-> IF k \in ks THEN Never ELSE s.ttl[k]],
        !.jobs = @ \ ks]

RemoveKey(s, k) == Removes(s, {k})

\* GetEntity of several keys: those past their deadline are removed.
Look(s, ks, t) == Removes(s, {k \in ks : Expired(s, k, t)})

-------------------------------------------------------------------------------
(* Executors: from a database s, a command c and the time t to the database, *)
(* the lines for the file and whether the reply is an error.                 *)

Ok(s, lines) == [db |-> s, lines |-> lines, err |-> FALSE]
Err(s) == [db |-> s, lines |-> <<>>, err |-> TRUE]

KeysOf(c) == ToSet(c.keys)
Key(c) == c.keys[1]

\* GET, MGET, STRLEN, EXISTS, TTL, ZRANGE and the other commands that read: they
\* remove what has expired.  So does GETEX with a new deadline, whose option loop
\* always ends in a syntax error, as that of SET does.
ExecRead(s, c, t) == Ok(Look(s, KeysOf(c), t), <<>>)

\* GETEX key PERSIST.
ExecGetEX(s, c, t) ==
    LET e == Look(s, KeysOf(c), t)
        x == e.data[Key(c)]
    IN  IF x = Nil THEN Ok(e, <<>>)
        ELSE IF ~IsStr(x) THEN Err(e)
        ELSE Ok(Persist(e, Key(c)), <<[c EXCEPT !.op = "persist"]>>)

\* SET, SET NX and SET XX.  PutIfAbsent and PutIfExists see keys that are past
\* their deadline.
ExecSet(s, c, t) ==
    IF \/ c.op = "set nx" /\ s.data[Key(c)] # Nil
       \/ c.op = "set xx" /\ s.data[Key(c)] = Nil
    THEN Ok(s, <<>>)
    ELSE Ok(Persist(PutEntity(s, Key(c), Str(c.val)), Key(c)), <<c>>)

ExecSetNX(s, c, t) ==
    Ok(IF s.data[Key(c)] = Nil THEN PutEntity(s, Key(c), Str(c.val)) ELSE s, <<c>>)

ExecSetEX(s, c, t) ==
    IF c.n = 0 THEN Err(s)
    ELSE Ok(Expire(PutEntity(s, Key(c), Str(c.val)), Key(c), t + c.n * Second, t), <<c>>)

\* PSETEX: the line is a SETEX with the same number.
ExecPSetEX(s, c, t) ==
    IF c.n = 0 THEN Err(s)
    ELSE Ok(Expire(PutEntity(s, Key(c), Str(c.val)), Key(c), t + c.n, t),
            <<[c EXCEPT !.op = "setex"]>>)

PutAll(s, c) == PutEntities(s, KeysOf(c), Str(c.val))

ExecMSet(s, c, t) == Ok(PutAll(s, c), <<c>>)

\* MSETNX looks at its keys until it finds one that exists.
ExecMSetNX(s, c, t) ==
    LET Found(i) == Visible(s, c.keys[i], t) # Nil
        seen == {i \in DOMAIN c.keys : \A j \in 1 .. i - 1 : ~Found(j)}
        e == Look(s, {c.keys[i] : i \in seen}, t)
    IN  IF \E i \in seen : Found(i) THEN Ok(e, <<>>) ELSE Ok(PutAll(e, c), <<c>>)

ExecGetSet(s, c, t) ==
    LET e == Look(s, KeysOf(c), t)
    IN  IF IsZSet(e.data[Key(c)]) THEN Err(e)
        ELSE Ok(Persist(PutEntity(e, Key(c), Str(c.val)), Key(c)), <<c>>)

ExecGetDel(s, c, t) ==
    LET e == Look(s, KeysOf(c), t)
        x == e.data[Key(c)]
    IN  IF x = Nil THEN Ok(e, <<>>)
        ELSE IF ~IsStr(x) THEN Err(e) ELSE Ok(RemoveKey(e, Key(c)), <<c>>)

IsNumber(x) == IsStr(x) /\ Len(x.str) = 1 /\ x.str[1] # Text

\* Mutant: the sum is not cut to the width of an int64.
ExecIncrMutant(s, c, t) ==
    LET e == Look(s, KeysOf(c), t)
        x == e.data[Key(c)]
    IN  IF x = Nil THEN Ok(PutEntity(e, Key(c), Str(<<1>>)), <<c>>)
        ELSE IF ~IsNumber(x) THEN Err(e)
        ELSE Ok(PutEntity(e, Key(c), Str(<<x.str[1] + 1>>)), <<c>>)

\* INCR and its relatives; the deadline stays.  INCRBYFLOAT writes a line that
\* names no command.
ExecIncr(s, c, t) ==
    LET e == Look(s, KeysOf(c), t)
        x == e.data[Key(c)]
        Put(i) == Ok(PutEntity(e, Key(c), Str(<<i>>)),
                     <<[c EXCEPT !.op = IF @ = "incrbyfloat" THEN "incrfloat" ELSE @]>>)
    IN  IF x = Nil THEN Put(1 % IntMod)
        ELSE IF ~IsNumber(x) THEN Err(e) ELSE Put((x.str[1] + 1) % IntMod)

Bytes(x) == IF x = Nil THEN <<>> ELSE x.str

\* APPEND; the deadline stays.
ExecAppend(s, c, t) ==
    LET e == Look(s, KeysOf(c), t)
        x == e.data[Key(c)]
    IN  IF IsZSet(x) THEN Err(e)
        ELSE Ok(PutBytes(e, Key(c), Str(Bytes(x) \o c.val), FALSE), <<c>>)

\* v with w from an offset on, and zero bytes in between.
Spliced(v, n, w) ==
    [i \in 1 .. IF n + Len(w) > Len(v) THEN n + Len(w) ELSE Len(v) |->
        IF n < i /\ i <= n + Len(w) THEN w[i - n] ELSE IF i <= Len(v) THEN v[i] ELSE Text]

\* SETRANGE appends byte by byte; SETBIT, which is not written to the file, all at once.
ExecSetRange(s, c, t) ==
    LET e == Look(s, KeysOf(c), t)
        x == e.data[Key(c)]
        begun == c.op = "setrange" /\ x # Nil /\ c.n <= e.cap[Key(c)]
    IN  IF IsZSet(x) THEN Err(e)
        ELSE Ok(PutBytes(e, Key(c), Str(Spliced(Bytes(x), c.n, c.val)), begun),
                IF c.op = "setbit" THEN <<>> ELSE <<c>>)

ExecDel(s, c, t) ==
    LET e == Look(s, KeysOf(c), t)
        found == {k \in KeysOf(c) : e.data[k] # Nil}
    IN  Ok(Removes(e, found), IF found = {} THEN <<>> ELSE <<c>>)

\* Mutant: the line has the time to live instead of the deadline.
ExecExpireMutant(s, c, t) ==
    LET e == Look(s, KeysOf(c), t)
        at == IF c.op = "expire" THEN t + c.n ELSE c.n
    IN  IF e.data[Key(c)] = Nil THEN Ok(e, <<>>)
        ELSE Ok(Expire(e, Key(c), at, t), <<[c EXCEPT !.op = "pexpireat"]>>)

\* EXPIRE and PEXPIRE from now on, EXPIREAT and PEXPIREAT at a time.
ExecExpire(s, c, t) ==
    LET e == Look(s, KeysOf(c), t)
        at == IF c.op = "expire" THEN t + c.n ELSE c.n
    IN  IF e.data[Key(c)] = Nil THEN Ok(e, <<>>)
        ELSE Ok(Expire(e, Key(c), at, t), <<[c EXCEPT !.op = "pexpireat", !.n = at]>>)

ExecPersist(s, c, t) ==
    LET e == Look(s, KeysOf(c), t)
    IN  IF e.data[Key(c)] = Nil \/ e.ttl[Key(c)] = Never THEN Ok(e, <<>>)
        ELSE Ok(Persist(e, Key(c)), <<c>>)

\* The common part of RENAME and RENAMENX.  A deadline moves along; without one,
\* the deadline of the destination stays.
Move(s, src, dest, t) ==
    LET moved == RemoveKey(Share(s, src, dest), src)
    IN  IF s.ttl[src] = Never THEN moved
        ELSE Expire(Persist(moved, dest), dest, s.ttl[src], t)

ExecRename(s, c, t) ==
    LET e == Look(s, {Key(c)}, t)
    IN  IF e.data[Key(c)] = Nil THEN Err(e) ELSE Ok(Move(e, Key(c), c.keys[2], t), <<c>>)

ExecRenameNx(s, c, t) ==
    LET d == Look(s, {c.keys[2]}, t)
        e == Look(d, {Key(c)}, t)
    IN  IF d.data[c.keys[2]] # Nil THEN Ok(d, <<>>)
        ELSE IF e.data[Key(c)] = Nil THEN Err(e) ELSE Ok(Move(e, Key(c), c.keys[2], t), <<c>>)

\* COPY, with and without REPLACE, inside a database.
ExecCopy(s, c, t) ==
    LET src == Key(c)
        dest == c.keys[2]
        d == Look(s, {src}, t)
        e == Look(d, {dest}, t)
        copied == Share(e, src, dest)
    IN  IF src = dest THEN Err(s)
        ELSE IF d.data[src] = Nil THEN Ok(d, <<>>)
        ELSE IF e.data[dest] # Nil /\ c.op = "copy" THEN Ok(e, <<>>)
        ELSE Ok(IF e.ttl[src] = Never THEN copied ELSE Expire(copied, dest, e.ttl[src], t),
                <<c>>)

Scores(x) == IF x = Nil THEN <<>> ELSE x.zset
SetScore(z, m, n) == [i \in DOMAIN z \cup {m} |-> IF i = m THEN n ELSE z[i]]

\* ZADD key n val and ZINCRBY key n val: the set is made if it is missing.
ExecZAdd(s, c, t) ==
    LET e == Look(s, KeysOf(c), t)
        x == e.data[Key(c)]
        z == Scores(x)
        score == IF c.op = "zincrby" /\ c.val \in DOMAIN z THEN z[c.val] + c.n ELSE c.n
        y == ZSet(SetScore(z, c.val, score))
    IN  IF IsStr(x) THEN Err(e)
        ELSE Ok(IF x = Nil THEN PutEntity(e, Key(c), y) ELSE Write(e, Key(c), y), <<c>>)

\* The members ZREM, ZREMRANGEBYSCORE n n and ZPOPMIN or ZREMRANGEBYRANK 0 0 remove.
Doomed(z, c) ==
    CASE c.op = "zrem" -> DOMAIN z \cap {c.val}
      [] c.op = "zremrangebyscore" -> {m \in DOMAIN z : z[m] = c.n}
      [] OTHER -> LET low == {m \in DOMAIN z : \A i \in DOMAIN z : z[m] <= z[i]}
                  IN  IF low = {} THEN {} ELSE {CHOOSE m \in low : TRUE}

\* The set stays when its last member goes.
ExecZRem(s, c, t) ==
    LET e == Look(s, KeysOf(c), t)
        x == e.data[Key(c)]
        z == Scores(x)
        left == DOMAIN z \ Doomed(z, c)
    IN  IF x = Nil THEN Ok(e, <<>>)
        ELSE IF IsStr(x) THEN Err(e)
        ELSE IF left = DOMAIN z THEN Ok(e, <<>>)
        ELSE Ok(Write(e, Key(c), ZSet([m \in left |-> z[m]])), <<c>>)

\* FLUSHALL and FLUSHDB: new databases; only the former has a line.
ExecFlush(s, c, t) == Ok(Empty, IF c.op = "flushall" THEN <<c>> ELSE <<>>)

\* The command table.
Exec(s, c, t) ==
    CASE c.op = "get" -> ExecRead(s, c, t)
      [] c.op = "getex persist" -> ExecGetEX(s, c, t)
      [] c.op \in {"set", "set nx", "set xx"} -> ExecSet(s, c, t)
      [] c.op = "setnx" -> ExecSetNX(s, c, t)
      [] c.op = "setex" -> ExecSetEX(s, c, t)
      [] c.op = "psetex" -> ExecPSetEX(s, c, t)
      [] c.op = "mset" -> ExecMSet(s, c, t)
      [] c.op = "msetnx" -> ExecMSetNX(s, c, t)
      [] c.op = "getset" -> ExecGetSet(s, c, t)
      [] c.op = "getdel" -> ExecGetDel(s, c, t)
      [] c.op \in {"incr", "incrbyfloat"} -> ExecIncr(s, c, t)
      [] c.op = "append" -> ExecAppend(s, c, t)
      [] c.op \in {"setrange", "setbit"} -> ExecSetRange(s, c, t)
      [] c.op = "del" -> ExecDel(s, c, t)
      [] c.op \in {"expire", "pexpireat"} -> ExecExpire(s, c, t)
      [] c.op = "persist" -> ExecPersist(s, c, t)
      [] c.op = "rename" -> ExecRename(s, c, t)
      [] c.op = "renamenx" -> ExecRenameNx(s, c, t)
      [] c.op \in {"copy", "copy replace"} -> ExecCopy(s, c, t)
      [] c.op \in {"zadd", "zincrby"} -> ExecZAdd(s, c, t)
      [] c.op \in {"zrem", "zpopmin", "zremrangebyscore"} -> ExecZRem(s, c, t)
      [] c.op \in {"flushall", "flushdb"} -> ExecFlush(s, c, t)
      [] OTHER -> Err(s)

-------------------------------------------------------------------------------
(* Locks and undo logs: from a database s, a command c and the time t *)

\* Commands that lock nothing for writing and have no undo function: those that
\* read, and COPY and the flushes, which are commands of the server.
Unlocked == {"get", "copy", "copy replace", "flushall", "flushdb"}

\* Mutant: MSET locks its first key only.
WriteKeysMutant(c) ==
    CASE c.op \in Unlocked -> {}
      [] c.op \in {"rename", "renamenx"} -> {c.keys[2]}
      [] OTHER -> {Key(c)}

\* The keys the prepare function of a command has locked for writing.
WriteKeys(c) ==
    CASE c.op \in Unlocked -> {}
      [] c.op \in {"rename", "renamenx"} -> {c.keys[2]}
      [] OTHER -> KeysOf(c)

Line(op, k, v, n) == [op |-> op, keys |-> <<k>>, val |-> v, n |-> n]

\* DEL for the keys that do not exist, nothing for the others.
RollbackGivenKeys(s, c, t) ==
    FlattenSeq([i \in DOMAIN c.keys |->
        IF Visible(s, c.keys[i], t) = Nil THEN <<Line("del", c.keys[i], <<>>, 0)>> ELSE <<>>])

\* Mutant: a member that is new stays.
RollbackZSetFieldsMutant(s, c, t) ==
    LET k == Key(c)
        x == Visible(s, k, t)
    IN  IF x = Nil THEN <<Line("del", k, <<>>, 0)>>
        ELSE IF IsStr(x) \/ c.val \notin DOMAIN x.zset THEN <<>>
        ELSE <<Line("zadd", k, c.val, x.zset[c.val])>>

RollbackZSetFields(s, c, t) ==
    LET k == Key(c)
        x == Visible(s, k, t)
    IN  IF x = Nil THEN <<Line("del", k, <<>>, 0)>>
        ELSE IF IsStr(x) THEN <<>>
        ELSE IF c.val \notin DOMAIN x.zset THEN <<Line("zrem", k, c.val, 0)>>
        ELSE <<Line("zadd", k, c.val, x.zset[c.val])>>

\* The old deadline, also of a key that is past it.
UndoExpire(s, c) ==
    IF s.ttl[Key(c)] = Never THEN <<Line("persist", Key(c), <<>>, 0)>>
    ELSE <<Line("pexpireat", Key(c), <<>>, s.ttl[Key(c)])>>

ZSetOps == {"zadd", "zincrby", "zrem"}
ExpireOps == {"expire", "pexpireat", "persist"}

\* The undo function of the registration.
UndoLog(s, c, t) ==
    CASE c.op \in Unlocked -> <<>>
      [] c.op \in ZSetOps -> RollbackZSetFields(s, c, t)
      [] c.op \in ExpireOps -> UndoExpire(s, c)
      [] OTHER -> RollbackGivenKeys(s, c, t)

-------------------------------------------------------------------------------
(* LoadAof and DoRewrite *)

RunLines(s, f, t) ==
    LET run[i \in 0 .. Len(f)] == IF i = 0 THEN s ELSE Exec(run[i - 1], f[i], t).db
    IN  run[Len(f)]

\* LoadAof: the lines are executed with the clock of the start.
Replay(f, t) == RunLines(Empty, f, t)

\* EntityToCmd: a SET, or a ZADD with all members at once.
EntityToCmd(s, k) ==
    IF s.data[k] = Nil THEN <<>>
    ELSE IF IsStr(s.data[k]) THEN <<Line("set", k, s.data[k].str, 0)>>
    ELSE LET z == s.data[k].zset
             members == SetToSeq(DOMAIN z)
         IN  [i \in DOMAIN members |-> Line("zadd", k, members[i], z[members[i]])]

\* Each key with its deadline.
Dump(s) ==
    FlattenSeq([i \in 1 .. Cardinality(Keys) |->
        LET k == SetToSeq(Keys)[i]
        IN  EntityToCmd(s, k) \o
            IF s.data[k] = Nil \/ s.ttl[k] = Never THEN <<>>
            ELSE <<Line("pexpireat", k, <<>>, s.ttl[k])>>])

-------------------------------------------------------------------------------
(* History *)

Late(s, t) == {k \in Keys : s.ttl[k] < t}

\* Commands with no line in the file, or one that says something else.
Gaps == {"psetex", "incrbyfloat", "setbit", "flushdb"}

\* Commands that see a key which is past its deadline and still there.
SeesExpired(c) ==
    CASE c.op \in {"set nx", "set xx", "setnx", "mset"} -> KeysOf(c)
      [] c.op = "rename" -> {c.keys[2]}
      [] OTHER -> {}

\* The keys a command names, those it makes independent of what was before.
Named(c) == IF c.op \in Flushes THEN Keys ELSE KeysOf(c)
Reset(c) == IF c.op \in {"set", "flushall"} THEN Named(c) ELSE {}

\* A string gets longer while other keys have its array: the file does not say how much
\* room is left there.
Spills(s, c) ==
    /\ c.op \in {"append", "setrange"} /\ Aliases(s, Key(c)) # {}
    /\ c.op = "setrange" => c.n + Len(c.val) > Len(s.data[Key(c)].str)

\* Until when the file brings back the keys of c as they are after c.  A line
\* that reads a key, or keeps its deadline, means something else in a replay
\* that comes after the deadline; SET makes the key independent of what was
\* before, and SETEX counts from the moment of the replay.
SureAfter(c, lines) ==
    LET touched == Named(c) \cup UNION {Aliases(db, k) : k \in Named(c)}
        looked == Look(db, touched, now)
        earliest == Min(UNION {{sure[k], looked.ttl[k]} : k \in touched})
    IN  IF lines = <<>> /\ c.op \notin Gaps THEN sure
        ELSE IF Reset(c) # {}
             THEN [k \in Keys |-> IF k \in Reset(c) THEN Never ELSE sure[k]]
        ELSE IF c.op = "setex" THEN [sure EXCEPT ![Key(c)] = now]
        ELSE IF \/ c.op \in Gaps \/ SeesExpired(c) \cap lapsed # {}
                \/ Spills(Look(db, KeysOf(c), now), c)
             THEN [k \in Keys |-> IF k \in touched THEN Broken ELSE sure[k]]
        ELSE [k \in Keys |-> IF k \in touched THEN earliest ELSE sure[k]]

-------------------------------------------------------------------------------
\* The files the server may start with bring back the same at every start: no line
\* of them works on a key after its deadline, which Init takes for granted in sure.
ASSUME StartAssumption ==
    \A f \in Files : \A t \in 0 .. MaxTime :
        LET s == Replay(f, 0)
            e == Replay(f, t)
        IN  /\ e.data = s.data /\ e.ttl = s.ttl /\ e.shares = s.shares
            /\ \A k \in Keys : s.data[k] = Nil => s.ttl[k] = Never

Init ==
    /\ file \in Files
    /\ db = Replay(file, 0)
    /\ now = 0
    /\ sure = [k \in Keys |-> Never]
    /\ lapsed = {}
    /\ ops = 0 /\ boots = 0 /\ rewrites = 0

\* A client's command.
Do(c) ==
    LET r == Exec(db, c, now) IN
    /\ ops < MaxOps
    /\ db' = r.db
    /\ file' = file \o r.lines
    /\ sure' = SureAfter(c, r.lines)
    /\ lapsed' = (lapsed \ Reset(c)) \cup Late(r.db, now)
    /\ ops' = ops + 1
    /\ UNCHANGED <<now, boots, rewrites>>

Tick ==
    /\ now < MaxTime
    /\ now' = now + 1
    /\ lapsed' = lapsed \cup Late(db, now + 1)
    /\ UNCHANGED <<db, file, sure, ops, boots, rewrites>>

\* The job that Expire gives to the time wheel, which counts in whole seconds
\* and may come early.
ExpireJob(k) ==
    /\ k \in db.jobs
    /\ now + Second > db.ttl[k]
    /\ db' = IF now > db.ttl[k] THEN RemoveKey(db, k) ELSE [db EXCEPT !.jobs = @ \ {k}]
    /\ UNCHANGED <<now, file, sure, lapsed, ops, boots, rewrites>>

\* A rewrite of the file; a sorted set without members stops it with a panic.
\* The new file does not know that keys share an entity, nor the deadline RENAME
\* leaves behind when it names a key twice.
Rewrite ==
    LET s == Replay(file, now) IN
    /\ rewrites < MaxRewrites
    /\ \A k \in Keys : IsZSet(s.data[k]) => DOMAIN s.data[k].zset # {}
    /\ file' = Dump(s)
    /\ sure' = [k \in Keys |-> IF \/ Aliases(db, k) # {}
                                 \/ (db.data[k] = Nil /\ db.ttl[k] # Never)
                              THEN Broken ELSE sure[k]]
    /\ rewrites' = rewrites + 1
    /\ UNCHANGED <<db, now, lapsed, ops, boots>>

Restart ==
    /\ boots < MaxBoots
    /\ db' = Replay(file, now)
    /\ lapsed' = lapsed \cup Late(db', now)
    /\ boots' = boots + 1
    /\ UNCHANGED <<now, file, sure, ops, rewrites>>

Next ==
    \/ \E c \in Cmds : Do(c)
    \/ \E k \in Keys : ExpireJob(k)
    \/ Tick
    \/ Rewrite
    \/ Restart

Spec == Init /\ [][Next]_vars

-------------------------------------------------------------------------------
(* Properties *)

Strings == [str : Values]

\* Keys have one sorted set, or strings in one array.
OneObject(x, y) ==
    \/ x = y
    \/ IsStr(x) /\ IsStr(y) /\ \A i \in DOMAIN x.str \cap DOMAIN y.str : x.str[i] = y.str[i]

\* Types: keys hold a string or a sorted set; jobs are for keys with a deadline; keys that
\* share an array read the same bytes there, each up to its own length.
TypeOK ==
    /\ \A k \in Keys : \/ db.data[k] \in {Nil} \cup Strings
                       \/ IsZSet(db.data[k]) /\ DOMAIN db.data[k].zset \subseteq Members
    /\ \A k \in Keys : db.ttl[k] \in 0 .. Never
    /\ \A k \in db.jobs : db.ttl[k] # Never
    /\ \A p \in db.shares : \A j, k \in p : OneObject(db.data[j], db.data[k])
    /\ now \in 0 .. MaxTime
    /\ sure \in [Keys -> {Broken} \cup (0 .. Never)]
    /\ lapsed \subseteq Keys

SameKey(s, e, k, t) ==
    /\ Visible(s, k, t) = Visible(e, k, t)
    /\ Visible(s, k, t) # Nil => s.ttl[k] = e.ttl[k]

\* What clients find under a key is what they would find after a restart, value
\* and deadline, until the first deadline that commands have worked on has
\* passed - through lazy removals, the jobs of the time wheel, copies, renames,
\* rewrites of the file and restarts.
ReplayExact ==
    \A k \in Keys : now <= sure[k] => SameKey(db, Replay(file, now), k, now)

\* Undo logs (transaction.go and tcc.go run them): they remove what the command
\* made, and those of the sorted sets and of the deadlines restore the database,
\* but for a key that the command itself put past its deadline.
UndoRestores ==
    ops < MaxOps =>
        \A c \in {d \in Cmds : d.op \notin Unlocked} :
            LET after == Exec(db, c, now).db
                undone == RunLines(after, UndoLog(db, c, now), now)
                gone == Late(after, now)
            IN  \A k \in Keys :
                    /\ Visible(db, k, now) = Nil => Visible(undone, k, now) = Nil
                    /\ c.op \in ZSetOps \cup ExpireOps =>
                           SameKey(db, undone, k, now) \/ k \in gone

\* Commands that write in place.
InPlaceOps == {"zadd", "zincrby", "zrem", "zpopmin", "zremrangebyscore",
               "append", "setrange", "setbit"}

\* What a command, from s to e, may do to key k by writing in place for another key j: the
\* key stays, with its deadline, and APPEND reaches only bytes behind those of j.
Reaches(s, e, c, j, k, t) ==
    /\ c.op \in InPlaceOps
    /\ j \in Aliases(s, k)
    /\ Visible(s, k, t) # Nil /\ Visible(e, k, t) # Nil
    /\ e.ttl[k] = s.ttl[k]
    /\ c.op = "append" => Len(s.data[k].str) > Len(s.data[j].str)

\* A command changes what it has locked for writing.  The exceptions are the
\* source of RENAME, which is locked for reading, and, since COPY, keys with the sorted set
\* or the array of a locked one, when the command writes in place.  (COPY and the flushes
\* lock nothing.)
LocksCover ==
    ops < MaxOps =>
        \A c \in {d \in Cmds : d.op \notin Unlocked} :
            LET after == Exec(db, c, now).db
            IN  \A k \in Keys :
                    \/ SameKey(db, after, k, now)
                    \/ k \in WriteKeys(c)
                    \/ c.op \in {"rename", "renamenx"} /\ k = Key(c)
                    \/ \E j \in WriteKeys(c) : Reaches(db, after, c, j, k, now)

===============================================================================
