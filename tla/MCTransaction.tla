----------------------------- MODULE MCTransaction -----------------------------
(* Three connections on two keys, one holding text and one missing: c1 watches *)
(* and sends transactions, c2 and c3 write concurrently.                       *)
EXTENDS Transaction, TLC

CONSTANTS c1, c2, c3, a, b

Cmd(op, ks, v) == [op |-> op, keys |-> ks, val |-> v]
IncrA == Cmd("incr", <<a>>, Nil)
SetB == Cmd("set", <<b>>, 0)
MSet == Cmd("mset", <<b, a>>, 1)
Rename == Cmd("rename", <<b, a>>, Nil)
GetB == Cmd("get", <<b>>, Nil)

MCData == a :> Text @@ b :> Nil
MCNormal == c1 :> {} @@ c2 :> {MSet} @@ c3 :> {IncrA, Rename, GetB}
MCQueued == c1 :> {SetB, IncrA} @@ c2 :> {} @@ c3 :> {}
MCWatchKeys == c1 :> {a} @@ c2 :> {} @@ c3 :> {}

===============================================================================
