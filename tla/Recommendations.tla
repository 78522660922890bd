-------------------------- MODULE Recommendations ---------------------------
(* The recommendations drafted for a shopping request: the products of its  *)
(* category scored by what they share with the wish, each with the offer    *)
(* the user is sent to.                                                     *)
EXTENDS Absence, Naturals, FiniteSets, Sequences

CONSTANTS
    Wishes,       \* brand, use case, size, system, budget and its currency
    Products,     \* brand, terms in its name and other texts, use cases, offers
    Length,       \* bound: products of the category
    Limit         \* drafts kept: five in the code

ASSUME RecommendationsAssumption ==
    /\ Limit \in Nat
    /\ \A p \in Products : \A o \in p.offers : o # None /\ o.price \in Nat

VARIABLES
    wish,
    catalogue,    \* products of the category, as the query returns them
    drafts        \* the recommendations written

draftVars == <<wish, catalogue, drafts>>

Undrafted == [of |-> 0, score |-> 0, offer |-> None, reasons |-> {}]

DraftInit ==
    /\ wish \in Wishes
    /\ catalogue \in UNION {[1..n -> Products] : n \in 0..Length}
    /\ drafts = {Undrafted}

(* A row without a system fits any; a wish without one takes any.           *)
MatchesSize(item) ==
    /\ item.inStock
    /\ item.size = wish.size
    /\ wish.system = None \/ item.system = None \/ item.system = wish.system

HasSizeOffer(p) == \E o \in p.offers : \E item \in o.items : MatchesSize(item)

(* A term that occurs in a text counts, however it is spelled there.        *)
Facts(p) ==
    LET asked == {wish.brand, wish.use} \ {None} IN
    {"category"}
        \cup (IF wish.brand # None /\ (p.brand = wish.brand \/ wish.brand \in p.name)
              THEN {"brand"} ELSE {})
        \cup (IF asked \cap (p.name \cup p.texts) # {} THEN {"model_text"} ELSE {})
        \cup (IF wish.use # None /\ wish.use \in p.uses THEN {"use_case"} ELSE {})

(* Mutant: the cheapest offer, whether it is in stock or not.               *)
CandidatesAll(p) == p.offers

Candidates(p) ==
    LET inStock == {o \in p.offers : o.availability = "in_stock"}
    IN  IF inStock # {} THEN inStock ELSE p.offers

(* The first of the cheapest, in the order of the query.                    *)
BestOffers(p) == {o \in Candidates(p) : \A x \in Candidates(p) : o.price <= x.price}

WithinBudget(best) ==
    best # None /\ wish.budget # None /\ wish.budget > 0 /\ wish.currency = "EUR"
    /\ best.price <= wish.budget

DraftReasons(p, best) ==
    Facts(p)
        \cup (IF wish.size # None /\ HasSizeOffer(p) THEN {"size_in_stock"} ELSE {})
        \cup (IF WithinBudget(best) THEN {"within_budget"} ELSE {})

Points == [r \in {"category", "brand", "model_text", "use_case", "size_in_stock",
                  "within_budget"} |->
             CASE r = "category" -> 50 [] r = "brand" -> 25
               [] r = "model_text" -> 15 [] OTHER -> 10]

TotalScore(reasons) ==
    LET P(r) == IF r \in reasons THEN Points[r] ELSE 0
    IN  P("category") + P("brand") + P("model_text") + P("use_case")
          + P("size_in_stock") + P("within_budget")

ScoreProduct(i, best) ==
    LET reasons == DraftReasons(catalogue[i], best)
    IN  [of |-> i, score |-> TotalScore(reasons), offer |-> best, reasons |-> reasons]

(* Mutant: the lowest scores first.                                         *)
BeforeAscending(a, b) == a.score < b.score \/ (a.score = b.score /\ a.of < b.of)

(* A stable sort by score, highest first.                                   *)
Before(a, b) == a.score > b.score \/ (a.score = b.score /\ a.of < b.of)

Draft ==
    /\ drafts = {Undrafted}
    /\ \E pick \in [DOMAIN catalogue -> UNION {p.offers : p \in Products} \cup {None}] :
          /\ \A i \in DOMAIN catalogue :
                pick[i] \in IF catalogue[i].offers = {} THEN {None} ELSE BestOffers(catalogue[i])
          /\ LET scored == {ScoreProduct(i, pick[i]) : i \in DOMAIN catalogue}
             IN  drafts' = {a \in scored : Cardinality({b \in scored : Before(b, a)}) < Limit}
    /\ UNCHANGED <<wish, catalogue>>

DraftNext == Draft

DraftSpec == DraftInit /\ [][DraftNext]_draftVars

-----------------------------------------------------------------------------
Drafted == drafts # {Undrafted}

(* The offer a recommendation sends the user to can be bought whenever one  *)
(* of the product can, no other such is cheaper, and the budget it is said  *)
(* to be within is a budget for its price.                                  *)
OfferServes ==
    Drafted => \A d \in drafts :
        LET offers == catalogue[d.of].offers IN
        /\ d.offer = None <=> offers = {}
        /\ d.offer # None =>
              /\ \A o \in offers : o.availability = "in_stock" =>
                    d.offer.availability = "in_stock" /\ d.offer.price <= o.price
              /\ "within_budget" \in d.reasons => d.offer.price <= wish.budget

(* With offers alike, no product that fits every wish a drafted one fits,   *)
(* and one more, is left out; the list is full if enough is there to fill   *)
(* it (scored_products[:5]).                                                *)
BetterFitKept ==
    Drafted =>
        /\ Cardinality(drafts) = IF Len(catalogue) < Limit THEN Len(catalogue) ELSE Limit
        /\ \A d \in drafts : \A i \in DOMAIN catalogue \ {e.of : e \in drafts} :
              LET in == catalogue[d.of]  out == catalogue[i] IN
              in.offers = out.offers =>
                  Facts(in) = Facts(out) \/ ~(Facts(in) \subseteq Facts(out))

(* The drafts serve the wish: the offers they link, and the products.       *)
DraftsServe == OfferServes /\ BetterFitKept

=============================================================================
