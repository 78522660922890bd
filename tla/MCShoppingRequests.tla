------------------------ MODULE MCShoppingRequests -------------------------
(* An instance of ShoppingRequests for TLC: two requests served at once.    *)
(* The rules find a category but no budget in one text, and a budget but no *)
(* category in the other; Ollama fills the gap of the first only.           *)
EXTENDS ShoppingRequests, TLC

CONSTANTS h1, h2, shoes, coffee, teapots, cheap, dear, t1, t2

Wish(c, b) == ("category" :> c) @@ ("budget" :> b)

MCRules == (t1 :> Wish(shoes, None)) @@ (t2 :> Wish(None, cheap))
MCLlm   == (t1 :> Wish(coffee, cheap)) @@ (t2 :> Wish(None, dear))

(* By hand: nothing, a category, and one the catalogue does not have.       *)
MCOverrides == {[f \in {} |-> None], "category" :> coffee, "category" :> teapots}

=============================================================================
