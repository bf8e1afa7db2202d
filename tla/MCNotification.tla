--------------------------- MODULE MCNotification ---------------------------
(* Small instances of Notification for TLC.  Crowd: two processes compete  *)
(* for one id, a third has another, and there are fewer descriptors than   *)
(* processes.  Pair: two processes with the same id.                       *)
EXTENDS Notification

CONSTANTS alice, bob, a1, a2, b1, t1

Crowd == {a1, a2, b1}
CrowdIdOf == (a1 :> alice) @@ (a2 :> alice) @@ (b1 :> bob)

Pair == {a1, a2}
PairIdOf == (a1 :> alice) @@ (a2 :> alice)
=============================================================================
