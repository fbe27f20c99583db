--------------------------- MODULE MCNodeCommands ---------------------------
(* One Node, one desktop and another client: a task whose stream grows to   *)
(* six events, and a second one that is created at most.                   *)
EXTENDS NodeCommands, TLC

CONSTANTS t1, t2

StreamBound == (t1 :> 6) @@ (t2 :> 1)
=============================================================================
