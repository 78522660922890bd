---------------------------- MODULE MCSyncSafety ----------------------------
(* SourceSync in three scenes: two workers whose syncs of one config        *)
(* overlap, one of which may crash; one worker over two stores that sell    *)
(* the same products and a third config without an adapter; and two workers *)
(* whose records may fail.                                                  *)
EXTENDS MCSourceSync

VARIABLE scene

Three == {c1, c2, c3}

Single == INSTANCE SourceSync WITH
    Workers <- {w1}, Tickers <- {w1}, Operators <- {w1},
    Configs <- Three, StoreOf <- [c \in Three |-> IF c = c1 THEN s1 ELSE s2], Unknown <- {c3},
    Feed <- [c \in Three |-> IF c = c1 THEN <<a, b>> ELSE <<b, a>>], NamesOf <- NamesAll

Failures == INSTANCE SourceSync WITH
    IdentOf <- IdentEach, Catalogued <- {b}, Outcomes <- Mixed, Copies <- 2, MaxFaults <- 0

SceneInit ==
    \/ scene = "overlap"  /\ Init
    \/ scene = "single"   /\ Single!Init
    \/ scene = "failures" /\ Failures!Init

SceneNext ==
    \/ scene = "overlap"  /\ Next /\ UNCHANGED scene
    \/ scene = "single"   /\ Single!Next /\ UNCHANGED scene
    \/ scene = "failures" /\ Failures!Next /\ UNCHANGED scene

SceneSpec == SceneInit /\ [][SceneNext]_<<vars, scene>>

-----------------------------------------------------------------------------
(* Overlapping syncs: the shape of the state.                               *)
OverlapTypeOK == scene = "overlap" => TypeOK
=============================================================================
