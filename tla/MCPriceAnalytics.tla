------------------------- MODULE MCPriceAnalytics --------------------------
(* Instances of PriceAnalytics for TLC.  One run checks several scenes: what *)
(* is there at first, who writes and how many at a time differs; the offers  *)
(* are the same in all of them.                                              *)
EXTENDS PriceAnalytics, TLC

CONSTANTS w1, w2, o1, o2, o3, o4, shoe, bean, shop, store

VARIABLE scene

TheProducts == (o1 :> shoe) @@ (o2 :> bean) @@ (o3 :> shoe) @@ (o4 :> shoe)
TheStores   == (o1 :> shop) @@ (o2 :> shop) @@ (o3 :> store) @@ (o4 :> shop)

EachOffer == {<<o1>>, <<o2>>}
OfShoe    == {<<o1>>, <<o3, o4>>}
OneRun    == {<<shoe>>}
AnyOrder  == {<<shoe, bean>>, <<bean, shoe>>}

(* The constants themselves are those of one session at a time.             *)
Overlap == INSTANCE PriceAnalytics WITH
    AtOnce <- 2, Plans <- {<<o1>>, <<o3>>}, Runs <- OneRun, MaxWrites <- 2, MaxFaults <- 0
History == INSTANCE PriceAnalytics WITH
    AtOnce <- 2, Plans <- OfShoe, Runs <- OneRun, Existing <- TRUE,
    MaxWrites <- 2, MaxFaults <- 0
Repair == INSTANCE PriceAnalytics WITH
    AtOnce <- 2, Plans <- {<<o1>>}, Runs <- {<<bean, shoe>>}, Existing <- TRUE,
    MaxNow <- 1, MaxWrites <- 1, MaxFaults <- 0
Opposed == INSTANCE PriceAnalytics WITH
    AtOnce <- 2, Plans <- {<<o1, o2>>}, Prices <- {1}, Existing <- TRUE,
    MaxWrites <- 1, MaxFaults <- 0

SceneInit ==
    \/ scene = "single"  /\ Init
    \/ scene = "overlap" /\ Overlap!Init
    \/ scene = "history" /\ History!Init
    \/ scene = "repair"  /\ Repair!Init
    \/ scene = "opposed" /\ Opposed!Init

SceneNext ==
    \/ scene = "single"  /\ Next /\ UNCHANGED scene
    \/ scene = "overlap" /\ Overlap!Next /\ UNCHANGED scene
    \/ scene = "history" /\ History!Next /\ UNCHANGED scene
    \/ scene = "repair"  /\ Repair!Next /\ UNCHANGED scene
    \/ scene = "opposed" /\ Opposed!Next /\ UNCHANGED scene

SceneSpec ==
    /\ SceneInit /\ [][SceneNext]_<<vars, scene>>
    /\ \A w \in {w1, w2} :
          /\ SF_vars(scene = "repair" /\ Repair!Step(w))
          /\ SF_vars(scene = "repair" /\ Repair!StartJob(w, <<bean, shoe>>))
          /\ SF_vars(scene = "opposed" /\ Opposed!Step(w))
          /\ WF_vars(scene = "opposed" /\ Opposed!Stuck(w) /\ Opposed!Rollback(w))

-----------------------------------------------------------------------------
(* The job ends, whatever order it and a writer of two products go in, and  *)
(* makes the products' rows right after a write, another job and a day that *)
(* passes.                                                                  *)
JobRepairs ==
    /\ scene = "repair"  => Repair!ProductRowsRepaired
    /\ scene = "opposed" => Opposed!SessionsEnd

=============================================================================
