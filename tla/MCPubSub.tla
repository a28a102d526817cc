------------------------------- MODULE MCPubSub -------------------------------
(* Three sockets on two objects and two channels: x and y subscribe, y and z   *)
(* publish; the third can only be served once an object is free again.         *)
EXTENDS PubSub, TLC

CONSTANTS x, y, z, a, b, o1, o2

MCTopics == x :> {<<a, b>>} @@ y :> {<<b, a>>, <<>>} @@ z :> {}
MCTalk == x :> {} @@ y :> {b} @@ z :> {b}
MCRequests == x :> 1 @@ y :> 2 @@ z :> 1
Alike == Permutations({o1, o2})
===============================================================================
