-------------------------- MODULE MCNotifications --------------------------
(* Instances of Notifications for TLC.                                      *)
EXTENDS Notifications, TLC

CONSTANTS w1, w2, u1, u2, l1, l2, o1, o2

OwnerAll   == [l \in Watchlists |-> u1]
OwnerEach  == (l1 :> u1) @@ (l2 :> u2)
JobsGenerate == [w \in Workers |-> {"generate"}]
JobsTwo    == [w \in Workers |-> {"generate", "dispatch"}]
JobsLone   == (w1 :> {"cycle", "dispatch"}) @@ (w2 :> {"generate"})
=============================================================================
