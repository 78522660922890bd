--------------------------- MODULE MCSyncProgress ---------------------------
(* SourceSync under fairness, in two scenes: ticks and a manual sync that   *)
(* insert the same rows of one config and may crash, and two ticks over two *)
(* configs that lock each other's rows.                                     *)
EXTENDS MCSourceSync

VARIABLE scene

Both == {c1, c2}

Deadlock == INSTANCE SourceSync WITH
    Operators <- {}, Configs <- Both, StoreOf <- [c \in Both |-> s1],
    Items <- {a}, Feed <- [c \in Both |-> <<>>], NamesOf <- (a :> <<>>),
    IdentOf <- (a :> p1), Catalogued <- {a}, Outcomes <- (a :> {"good"}), MaxFaults <- 0

SceneInit ==
    \/ scene = "refusals" /\ Init
    \/ scene = "deadlock" /\ Deadlock!Init

SceneNext ==
    \/ scene = "refusals" /\ Next /\ UNCHANGED scene
    \/ scene = "deadlock" /\ Deadlock!Next /\ UNCHANGED scene

(* FairSpec of the module in each scene.                                    *)
SceneSpec ==
    /\ SceneInit /\ [][SceneNext]_<<vars, scene>>
    /\ \A w \in Workers :
          /\ SF_vars(scene = "refusals" /\ StartTick(w))
          /\ WF_vars(scene = "refusals" /\ Step(w))
          /\ SF_vars(scene = "deadlock" /\ Deadlock!StartTick(w))
          /\ WF_vars(scene = "deadlock" /\ Deadlock!Step(w))

-----------------------------------------------------------------------------
(* Neither losing an insert, which undoes the whole tick, nor a deadlock of *)
(* ticks on their configs keeps a config from being synced.                 *)
LosersEventuallySynced ==
    /\ scene = "refusals" => EventuallySynced
    /\ scene = "deadlock" => Deadlock!EventuallySynced

=============================================================================
