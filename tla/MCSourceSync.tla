---------------------------- MODULE MCSourceSync ----------------------------
(* Instances of SourceSync for TLC.                                         *)
EXTENDS SourceSync, TLC

CONSTANTS w1, w2, c1, c2, c3, s1, s2, a, b, n1, p1, p2

OneStore  == [c \in Configs |-> s1]
TwoStores == [c \in Configs |-> IF c = c1 THEN s1 ELSE s2]
FeedPair  == [c \in Configs |-> <<a, b>>]
FeedApart == (c1 :> <<a>>) @@ (c2 :> <<b>>)
NoNames   == [i \in Items |-> <<>>]
NamesAll  == [i \in Items |-> <<n1>>]
IdentSame == [i \in Items |-> p1]
IdentEach == (a :> p1) @@ (b :> p2)
AllGood   == [i \in Items |-> {"good"}]
Mixed     == [i \in Items |-> {"good", "early", "late"}]
FirstBad  == (a :> {"database"}) @@ (b :> {"good"})
=============================================================================
