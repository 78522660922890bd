---------------------------- MODULE PagedListing ----------------------------
(* How srovname_api.py leafs through a shop's products, one request a page, *)
(* while the shop lists new products and takes others away.                 *)
EXTENDS Naturals, Sequences, FiniteSets, SequencesExt

CONSTANTS
    Goods,
    PerPage, MaxPages,    \* items_per_page and max_pages of the source config
    MaxShopChanges        \* bound: changes of the shop during a fetch

ASSUME PagedListingAssumption ==
    IsFiniteSet(Goods) /\ {PerPage, MaxPages} \subseteq Nat \ {0}

VARIABLES
    listing,   \* the shop's products in its order
    fetch,     \* state of _fetch_records
    atStart,   \* history: the products when the fetch began
    changed    \* history: kinds of changes since then, in order

leafVars == <<listing, fetch, atStart, changed>>

LeafInit ==
    /\ \E S \in SUBSET Goods : listing = SetToSeq(S)
    /\ fetch = [pc |-> "idle", page |-> 1, records |-> <<>>, tellsTotal |-> FALSE]
    /\ atStart = {} /\ changed = <<>>

(* The shop may or may not answer with totalProducts.                       *)
StartLeafing ==
    /\ fetch.pc = "idle"
    /\ \E b \in BOOLEAN : fetch' = [fetch EXCEPT !.pc = "page", !.tellsTotal = b]
    /\ atStart' = ToSet(listing)
    /\ UNCHANGED <<listing, changed>>

(* The shop's answer, from the products it has at that time.                *)
ListingPage(n) ==
    SubSeq(listing, (n - 1) * PerPage + 1,
           IF n * PerPage < Len(listing) THEN n * PerPage ELSE Len(listing))

(* Mutant: the page after this one is the one compared with the total.      *)
LastPageEarly(n) == fetch.tellsTotal /\ (n + 1) * PerPage >= Len(listing)

LastPage(n) == fetch.tellsTotal /\ n * PerPage >= Len(listing)

(* Mutant: the page number stays.                                           *)
FollowingSame(n) == n

Following(n) == n + 1

(* An empty page ends the fetch, and so does one that is not full or is     *)
(* known to be the last, and the page max_pages.                            *)
FetchPage ==
    /\ fetch.pc = "page"
    /\ LET got == ListingPage(fetch.page)
           last == Len(got) < PerPage \/ LastPage(fetch.page)
                       \/ Len(fetch.records) >= (MaxPages - 1) * PerPage
       IN  fetch' = [fetch EXCEPT !.pc = IF last THEN "done" ELSE "page",
                                  !.page = IF last THEN @ ELSE Following(@),
                                  !.records = @ \o got]
    /\ UNCHANGED <<listing, atStart, changed>>

(* A page that cannot be had, or a product that cannot be read, fails the   *)
(* fetch, whatever was read before.                                         *)
FetchFails ==
    /\ fetch.pc = "page"
    /\ fetch' = [fetch EXCEPT !.pc = "failed", !.records = <<>>]
    /\ UNCHANGED <<listing, atStart, changed>>

Change(kind) ==
    /\ fetch.pc = "page" /\ Len(changed) < MaxShopChanges
    /\ changed' = Append(changed, kind)
    /\ UNCHANGED <<fetch, atStart>>

ShopLists(p, n) ==
    /\ Change("listed")
    /\ p \notin ToSet(listing) /\ n \in 1..Len(listing) + 1
    /\ listing' = InsertAt(listing, n, p)

ShopTakesAway(n) ==
    /\ Change("removed")
    /\ n \in DOMAIN listing
    /\ listing' = RemoveAt(listing, n)

LeafNext ==
    \/ StartLeafing \/ FetchPage \/ FetchFails
    \/ \E p \in Goods, n \in 1..Cardinality(Goods) : ShopLists(p, n)
    \/ \E n \in 1..Cardinality(Goods) : ShopTakesAway(n)

LeafSpec == LeafInit /\ [][LeafNext]_leafVars

-----------------------------------------------------------------------------
Listed(kind) == \E n \in DOMAIN changed : changed[n] = kind

(* What the shop had when the fetch began is fetched, even if it lists new  *)
(* products meanwhile, unless it takes one away (the products that move up  *)
(* are missed) or has more than max_pages hold.                             *)
NothingSkipped ==
    fetch.pc = "done" /\ ~Listed("removed") /\ Len(listing) <= MaxPages * PerPage
        => atStart \subseteq ToSet(fetch.records)

(* No product is fetched twice unless the shop lists a new one meanwhile.   *)
NoneTwice == fetch.pc = "done" /\ ~Listed("listed") => IsInjective(fetch.records)

(* A fetch meets everything once, as far as the shop's changes allow.       *)
FetchedOnce == NothingSkipped /\ NoneTwice

=============================================================================
