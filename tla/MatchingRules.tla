--------------------------- MODULE MatchingRules ----------------------------
(* Which offers a watchlist is about: the list of deals and the rules of    *)
(* the alerts, on one state of the database.  Deals come in pages, each of  *)
(* them a query of its own, and no query orders its rows.                   *)
EXTENDS Absence, Integers, FiniteSets, Sequences

CONSTANTS
    Watchlists,   \* those active and not archived that a user may have
    Listings,     \* offers with what is known of their product
    Asked,        \* category and highest price asked for
    MaxLists, MaxOffers,   \* bounds: watchlists and offers there are
    PageSize

ASSUME MatchingRulesAssumption ==
    /\ {MaxLists, MaxOffers} \subseteq Nat /\ PageSize \in Nat \ {0}
    /\ IsFiniteSet(Listings)
    /\ None \notin Int /\ \A o \in Listings : o.discount \in Int \cup {None}

VARIABLES
    lists,        \* the user's watchlists, as the query returns them
    offers,       \* distinct offers
    ask,
    pages,        \* pages of deals answered so far
    generated,    \* has generate_notifications run
    alerts        \* what it created: <<list, offer, rule>>

vars == <<lists, offers, ask, pages, generated, alerts>>

Init ==
    /\ lists \in UNION {[1..n -> Watchlists] : n \in 0..MaxLists}
    /\ offers \in {S \in SUBSET Listings : Cardinality(S) <= MaxOffers}
    /\ ask \in Asked
    /\ pages = <<>>
    /\ generated = FALSE
    /\ alerts = {}

Criteria == {"product", "category", "brand"}

ForSale(o) == o.availability \in {"in_stock", "limited"}

(* _matches_watchlist, and the query of the alerts: a criterion that is not *)
(* set excludes nothing, so that a list without any is about every offer.   *)
Matches(o, w) == \A c \in Criteria : w[c] = None \/ w[c] = o[c]

(* Mutant: the filters of the deals are joined by and_.                     *)
InFilterAll(o) == lists = <<>> \/ \A i \in DOMAIN lists : Matches(o, lists[i])

(* One criterion of one list is enough to be looked at.                     *)
InFilter(o) ==
    lists = <<>> \/ \E i \in DOMAIN lists : \E c \in Criteria :
        lists[i][c] # None /\ lists[i][c] = o[c]

TargetReached(o, w)   == w.target # None /\ o.eur <= w.target
DiscountReached(o, w) == w.discount # None /\ o.discount # None /\ o.discount >= w.discount

Rules(w, o) ==
    (IF TargetReached(o, w) THEN {"target_price"} ELSE {})
        \cup (IF DiscountReached(o, w) THEN {"discount"} ELSE {})
        \cup (IF w.onMinimum /\ o.minimum THEN {"historical_min"} ELSE {})
        \cup (IF o.lowest THEN {"lowest_10_percent_365d"} ELSE {})

(* The first list that matches scores; later ones are not looked at.        *)
FirstMatch(o) ==
    LET hits == {i \in DOMAIN lists : Matches(o, lists[i])}
    IN  IF hits = {} THEN None ELSE CHOOSE i \in hits : \A j \in hits : i <= j

(* Mutant: the loop is left before target and discount are looked at.       *)
ReasonsBroken(o) == IF FirstMatch(o) = None THEN {} ELSE {"Matches watchlist"}

Reasons(o) ==
    (IF o.discount # None /\ o.discount > 0 THEN {"Discount"} ELSE {})
        \cup (IF o.minimum THEN {"Historical minimum"} ELSE {})
        \cup (IF o.lowest THEN {"Lowest 10%"} ELSE {})
        \cup (IF FirstMatch(o) = None THEN {}
              ELSE LET w == lists[FirstMatch(o)] IN
                   {"Matches watchlist"}
                     \cup (IF TargetReached(o, w) THEN {"Target price reached"} ELSE {})
                     \cup (IF DiscountReached(o, w) THEN {"Discount threshold reached"} ELSE {}))

Score(o) ==
    LET P(r, n) == IF r \in Reasons(o) THEN n ELSE 0 IN
    (IF "Discount" \notin Reasons(o) THEN 0 ELSE IF o.discount > 60 THEN 60 ELSE o.discount)
      + P("Historical minimum", 35) + P("Lowest 10%", 25) + P("Matches watchlist", 20)
      + P("Target price reached", 30) + P("Discount threshold reached", 20)

Deals ==
    {o \in offers :
        /\ ForSale(o)
        /\ ask.category \in {None, o.category}
        /\ ask.max = None \/ o.eur <= ask.max
        /\ InFilter(o)
        /\ Score(o) > 0}

(* Mutant: the page is cut from the rows before they are sorted.            *)
PageOfUnsorted(rows, n) ==
    {rows[i] : i \in {j \in DOMAIN rows : j > (n - 1) * PageSize /\ j <= n * PageSize}}

(* A stable sort of the rows, best score first, cut to the page.            *)
PageOf(rows, n) ==
    LET Place(i) == 1 + Cardinality({j \in DOMAIN rows :
                          \/ Score(rows[j]) > Score(rows[i])
                          \/ Score(rows[j]) = Score(rows[i]) /\ j < i})
    IN  {rows[i] : i \in {j \in DOMAIN rows :
                            (n - 1) * PageSize < Place(j) /\ Place(j) <= n * PageSize}}

(* A set of rows in the order one execution of a query has them.            *)
Orders(S) == {f \in [1..Cardinality(S) -> S] : \A i, j \in DOMAIN f : i # j => f[i] # f[j]}

(* list_deals for the next page.                                            *)
NextPage ==
    /\ Len(pages) * PageSize < Cardinality(Deals)
    /\ \E rows \in Orders(Deals) : pages' = Append(pages, PageOf(rows, Len(pages) + 1))
    /\ UNCHANGED <<lists, offers, ask, generated, alerts>>

(* generate_notifications, for the lists of this user.                      *)
Generate ==
    /\ ~generated /\ generated' = TRUE
    /\ alerts' = {a \in (DOMAIN lists) \X offers \X
                      {"target_price", "discount", "historical_min", "lowest_10_percent_365d"} :
                    /\ ForSale(a[2]) /\ Matches(a[2], lists[a[1]])
                    /\ a[3] \in Rules(lists[a[1]], a[2])}
    /\ UNCHANGED <<lists, offers, ask, pages>>

Next == NextPage \/ Generate

Spec == Init /\ [][Next]_vars

-----------------------------------------------------------------------------
AllAsked == ask.category = None /\ ask.max = None
Paged   == Len(pages) * PageSize >= Cardinality(Deals)

(* The user who is alerted to an offer finds it among the deals, whatever   *)
(* other lists there are: deals filter by any criterion and score by the    *)
(* first match, alerts by all criteria of each list.  (A list without a     *)
(* criterion alerts to everything and adds nothing to the deals.)           *)
AlertedIsDeal ==
    AllAsked => \A a \in alerts :
        (\E c \in Criteria : lists[a[1]][c] # None) => a[2] \in Deals

(* A deal says that the target is reached if it reaches the target of every *)
(* list it matches, in whatever order these come.                           *)
TargetShown ==
    \A o \in Deals :
        LET hits == {i \in DOMAIN lists : Matches(o, lists[i])} IN
        hits # {} /\ (\A i \in hits : TargetReached(o, lists[i]))
            => "Target price reached" \in Reasons(o)

(* Leafing through the deals meets every deal whose score no other has      *)
(* exactly once, though each page is sorted from rows in another order.     *)
PagesCover ==
    Paged => \A o \in Deals :
        (\A x \in Deals \ {o} : Score(x) # Score(o)) =>
            Cardinality({n \in DOMAIN pages : o \in pages[n]}) = 1

(* What a user finds among the deals is complete: the offers the alerts     *)
(* told of, with the targets they reach, on one page or other.              *)
DealsComplete == AlertedIsDeal /\ TargetShown /\ PagesCover

=============================================================================
