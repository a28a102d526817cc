---------------------------------- MODULE MCTCC ----------------------------------
(* Two of three commands with the same two keys, x set and y not: t1 and t2 are   *)
(* MSETs sent to different nodes, t3 fails when it is prepared.                   *)
EXTENDS TCC, TLC

CONSTANTS n1, n2, t1, t2, t3, x, y

MCKeysOf == [t \in Txs |-> {x, y}]
MCNodeOf == x :> n1 @@ y :> n2
MCSelf == [t \in Txs |-> IF t = t2 THEN n2 ELSE n1]
MCInitData == x :> Old @@ y :> Nil

===============================================================================
