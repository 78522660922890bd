---------------------------- MODULE MCBackOffice ----------------------------
(* Small instances, for TLC, of the modules whose transactions wait for     *)
(* each other in the database and have to end; each is a scene of its own,  *)
(* the variables of the other staying as they are:                          *)
(*   "merge"  CatalogMerge, two merges and a writer of two products' rows;  *)
(*   "fx"     FxRates, two jobs over three currencies and two days, a sync. *)
EXTENDS CatalogMerge, FxRates, TLC

CONSTANTS r1, r2, pa, pb, m1, m2, w1, CZK, PLN, j1, j2, s1

VARIABLE scene

MCTables == (r1 :> "offers") @@ (r2 :> "source_sync_run_items")

-----------------------------------------------------------------------------
MCWanted == <<CZK, "EUR", PLN>>

Quotes(d, czk, pln) == [day |-> d, quotes |-> (CZK :> czk) @@ (PLN :> pln) @@ ("EUR" :> 1)]

(* Two answers of a day that differ, one of the next day without a quote,   *)
(* and one with a quote that is no rate.                                    *)
MCAnswers == {Quotes(1, 2, 4), Quotes(1, 4, 2), Quotes(2, 4, None), Quotes(2, 2, 0)}

-----------------------------------------------------------------------------
SceneInit == scene \in {"merge", "fx"} /\ Init /\ RatesInit

SceneNext ==
    \/ scene = "merge" /\ Next      /\ UNCHANGED <<ratesVars, scene>>
    \/ scene = "fx"    /\ RatesNext /\ UNCHANGED <<vars, scene>>

SceneSpec ==
    SceneInit /\ [][SceneNext]_<<vars, ratesVars, scene>> /\ Fairness /\ RatesFairness

-----------------------------------------------------------------------------
(* Merges, and jobs that fetch rates, are answered; a merge that nobody     *)
(* interferes with is carried out.                                          *)
TransactionsAnswered == MergesAnswered /\ JobsEnd

=============================================================================
