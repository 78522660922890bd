---------------------------- MODULE RulesProofs ----------------------------
(* Proofs about what the rules make of the data they meet: MatchingRules,   *)
(* for any watchlists and offers in whatever order the queries return them; *)
(* ProductIdentity and Recommendations, for any catalogue; FeedRecords, for *)
(* any shoes; PagedListing, for any shop and any changes of it.             *)
EXTENDS MatchingRules, ProductIdentity, Recommendations, FeedRecords, PagedListing,
        FiniteSetTheorems, FunctionTheorems, WellFoundedInduction, TLAPS

-----------------------------------------------------------------------------
(* Facts about finite sets *)

(* A finite set of numbers has a least one. *)
LEMMA LeastOne ==
  ASSUME NEW S \in SUBSET Nat, IsFiniteSet(S), S # {}
  PROVE  \E i \in S : \A j \in S : i =< j
  <1> DEFINE R == StrictSubsetOrdering(S)
             F == FiniteSubsetsOf(S)
             Upto(i) == {j \in S : j =< i}
             T == {Upto(i) : i \in S}
  <1>1. F = SUBSET S BY FS_FiniteSubsetsOfFinite
  <1>2. T # {} /\ T \subseteq F
    <2>1. \A i \in S : Upto(i) \in SUBSET S OBVIOUS
    <2> HIDE DEF Upto, F
    <2> QED BY <1>1, <2>1
  <1>3. IsWellFoundedOn(R, F) BY FS_StrictSubsetOrderingWellFounded
  <1>a. \A Y, X \in SUBSET S : Y # X /\ Y \subseteq X => <<Y, X>> \in R
    BY DEF StrictSubsetOrdering
  <1> HIDE DEF R, F, T
  <1>4. PICK X \in T : \A Y \in T : ~(<<Y, X>> \in R)
    BY <1>2, <1>3, WFMin
  <1>5. PICK i \in S : X = Upto(i) BY <1>4 DEF T
  <1>6. ASSUME NEW j \in S, j < i PROVE FALSE
    <2>1. Upto(j) \in T BY DEF T
    <2>0. i \in Nat /\ j \in Nat /\ S \subseteq Nat OBVIOUS
    <2>2. Upto(j) \subseteq X /\ i \in X /\ i \notin Upto(j)
      <3>1. \A x, y, z \in Nat : /\ x =< y /\ y < z => x =< z
                                 /\ x =< x /\ (x < y => ~(y =< x))
        OBVIOUS
      <3>2. Upto(j) \subseteq Upto(i) BY <1>6, <2>0, <3>1
      <3>3. i \in Upto(i) /\ i \notin Upto(j) BY <1>6, <2>0, <3>1
      <3> QED BY <1>5, <3>2, <3>3
    <2>3. <<Upto(j), X>> \in R
      <3>1. Upto(j) \in SUBSET S /\ X \in SUBSET S BY <1>5
      <3>2. Upto(j) # X BY <2>2
      <3> HIDE DEF Upto
      <3> QED BY <2>2, <3>1, <3>2, <1>a
    <2> QED BY <1>4, <2>1, <2>3
  <1> QED BY <1>6

(* The rows of a query are the set it asks for, each once. *)
LEMMA OrdersCover ==
  ASSUME NEW S, IsFiniteSet(S), NEW f \in Orders(S)
  PROVE  /\ Cardinality(S) \in Nat /\ DOMAIN f = 1..Cardinality(S)
         /\ f \in [1..Cardinality(S) -> S]
         /\ \A i, j \in DOMAIN f : f[i] = f[j] => i = j
         /\ \A x \in S : \E i \in DOMAIN f : f[i] = x
  <1> DEFINE N == Cardinality(S)
             D == 1..N
  <1>1. N \in Nat BY FS_CardinalityType
  <1>2. f \in [D -> S] /\ \A i, j \in D : f[i] = f[j] => i = j BY DEF Orders
  <1>4. IsFiniteSet(D) /\ Cardinality(D) = N BY <1>1, FS_Interval
  <1> HIDE DEF D, N
  <1>3. f \in Injection(D, S) BY <1>2, Fun_IsInj
  <1>5. f \in Surjection(D, S) BY <1>3, <1>4, FS_Injection DEF N
  <1>6. \A x \in S : \E i \in D : f[i] = x BY <1>5, Fun_SurjectionProperties
  <1> QED BY <1>1, <1>2, <1>6 DEF D, N

-----------------------------------------------------------------------------
(* The state *)

(* Lists and offers are what the database holds. *)
DataOK ==
  /\ \E n \in Nat : lists \in [1..n -> Watchlists]
  /\ offers \subseteq Listings

(* The first list that matches is one that matches, and there is one.       *)
LEMMA FirstMatches ==
  ASSUME DataOK, NEW o, NEW k \in DOMAIN lists, Matches(o, lists[k])
  PROVE  /\ FirstMatch(o) \in DOMAIN lists /\ FirstMatch(o) # None
         /\ Matches(o, lists[FirstMatch(o)])
  <1> DEFINE hits == {i \in DOMAIN lists : Matches(o, lists[i])}
  <1>1. PICK n \in Nat : lists \in [1..n -> Watchlists] BY DEF DataOK
  <1>2. hits \in SUBSET Nat /\ IsFiniteSet(hits) /\ hits # {}
    <2>1. IsFiniteSet(1..n) BY FS_Interval
    <2>2. hits \subseteq 1..n BY <1>1
    <2> QED BY <2>1, <2>2, FS_Subset
  <1>3. \E i \in hits : \A j \in hits : i =< j BY <1>2, LeastOne
  <1>4. FirstMatch(o) \in hits
    <2>1. FirstMatch(o) = CHOOSE i \in hits : \A j \in hits : i =< j
      BY <1>2 DEF FirstMatch
    <2> HIDE DEF hits
    <2> QED BY <1>3, <2>1
  <1>5. FirstMatch(o) \in Nat BY <1>2, <1>4
  <1> QED BY <1>4, <1>5, MatchingRulesAssumption

(* A score is an integer, positive for whatever matches a list.             *)
LEMMA ScoreType ==
  ASSUME NEW o \in Listings
  PROVE  Score(o) \in Int /\ ("Matches watchlist" \in Reasons(o) => Score(o) > 0)
  <1> DEFINE P(r, n) == IF r \in Reasons(o) THEN n ELSE 0
             d == IF "Discount" \notin Reasons(o) THEN 0
                  ELSE IF o.discount > 60 THEN 60 ELSE o.discount
  <1>1. "Discount" \in Reasons(o) => o.discount \in Int /\ o.discount > 0
    <2>1. "Discount" \in Reasons(o) => o.discount # None /\ o.discount > 0 BY DEF Reasons
    <2> QED BY <2>1, MatchingRulesAssumption
  <1>2. d \in Nat
    <2> HIDE DEF P
    <2>1. CASE "Discount" \notin Reasons(o) BY <2>1
    <2>2. CASE "Discount" \in Reasons(o) BY <1>1, <2>2
    <2> QED BY <2>1, <2>2
  <1>3. \A r : \A n \in Nat : P(r, n) \in Nat OBVIOUS
  <1>4. "Matches watchlist" \in Reasons(o) => P("Matches watchlist", 20) = 20 OBVIOUS
  <1>5. Score(o) = d + P("Historical minimum", 35) + P("Lowest 10%", 25)
                     + P("Matches watchlist", 20) + P("Target price reached", 30)
                     + P("Discount threshold reached", 20)
    BY DEF Score
  <1> DEFINE h == P("Historical minimum", 35)
             l == P("Lowest 10%", 25)
             w == P("Matches watchlist", 20)
             t == P("Target price reached", 30)
             g == P("Discount threshold reached", 20)
  <1>6. h \in Nat /\ l \in Nat /\ w \in Nat /\ t \in Nat /\ g \in Nat
    <2> HIDE DEF P
    <2> QED BY <1>3
  <1>7. Score(o) = d + h + l + w + t + g BY <1>5
  <1>8. "Matches watchlist" \in Reasons(o) => w = 20 BY <1>4
  <1> HIDE DEF d, h, l, w, t, g
  <1>9. d + h + l + w + t + g \in Int /\ (w = 20 => d + h + l + w + t + g > 0)
    BY <1>2, <1>6
  <1> QED BY <1>7, <1>8, <1>9

(* Deals are finitely many of the listings.                                 *)
LEMMA DealsListed ==
  ASSUME DataOK
  PROVE  Deals \subseteq Listings /\ IsFiniteSet(Deals)
  BY FS_Subset, MatchingRulesAssumption DEF DataOK, Deals

(* An order of several queries sees the same deals and scores. *)
LEMMA SameDeals ==
  ASSUME UNCHANGED <<lists, offers, ask>>
  PROVE  Deals' = Deals /\ \A o : Score(o)' = Score(o)
  <1>1. \A o : FirstMatch(o)' = FirstMatch(o) BY DEF FirstMatch
  <1>2. \A o : Reasons(o)' = Reasons(o) BY <1>1 DEF Reasons
  <1>3. ASSUME NEW o PROVE Score(o)' = Score(o)
    <2>1. Reasons(o)' = Reasons(o) BY <1>2
    <2> QED BY <2>1 DEF Score
  <1>4. \A o : InFilter(o)' = InFilter(o) BY DEF InFilter
  <1> QED BY <1>3, <1>4 DEF Deals

-----------------------------------------------------------------------------
(* Alerts and deals *)

AlertsMatch ==
  \A a \in alerts : /\ a[1] \in DOMAIN lists /\ a[2] \in offers
                    /\ ForSale(a[2]) /\ Matches(a[2], lists[a[1]])

(* What a list with a criterion alerts to passes the filter of the deals.   *)
LEMMA AlertsAreDeals ==
  ASSUME DataOK, AlertsMatch
  PROVE  AlertedIsDeal
  <1> SUFFICES ASSUME AllAsked, NEW a \in alerts,
                      NEW c \in Criteria, lists[a[1]][c] # None
               PROVE  a[2] \in Deals
    BY DEF AlertedIsDeal
  <1> DEFINE o == a[2]
  <1>1. /\ a[1] \in DOMAIN lists /\ o \in offers /\ o \in Listings
        /\ ForSale(o) /\ Matches(o, lists[a[1]])
    BY DEF AlertsMatch, DataOK
  <1> HIDE DEF o
  <1>2. lists[a[1]][c] = o[c] BY <1>1 DEF Matches
  <1>3. InFilter(o) BY <1>1, <1>2 DEF InFilter
  <1>4. FirstMatch(o) # None BY <1>1, FirstMatches
  <1>5. "Matches watchlist" \in Reasons(o) BY <1>4 DEF Reasons
  <1>6. Score(o) > 0 BY <1>1, <1>5, ScoreType
  <1>7. o \in Deals BY <1>1, <1>3, <1>6 DEF Deals, AllAsked
  <1> QED BY <1>7 DEF o

(* If every list that matches has its target reached, so has the first.     *)
LEMMA TargetsAreShown ==
  ASSUME DataOK
  PROVE  TargetShown
  <1> SUFFICES ASSUME NEW o \in Deals, NEW k \in DOMAIN lists, Matches(o, lists[k]),
                      \A i \in DOMAIN lists : Matches(o, lists[i]) => TargetReached(o, lists[i])
               PROVE  "Target price reached" \in Reasons(o)
    BY DEF TargetShown
  <1>1. FirstMatch(o) # None /\ TargetReached(o, lists[FirstMatch(o)]) BY FirstMatches
  <1> QED BY <1>1 DEF Reasons

-----------------------------------------------------------------------------
(* Pages of deals *)

Above(o)  == {x \in Deals : Score(x) > Score(o)}
Rank(o)   == 1 + Cardinality(Above(o))
Unique(o) == \A x \in Deals \ {o} : Score(x) # Score(o)
OnPage(o, n) == (n - 1) * PageSize < Rank(o) /\ Rank(o) =< n * PageSize

PagesRanked ==
  /\ pages \in Seq(SUBSET Listings)
  /\ \A n \in 1..Len(pages) : \A o \in Deals :
        Unique(o) => (o \in pages[n] <=> OnPage(o, n))

(* In whatever order the rows come, a deal whose score no other has is      *)
(* placed by the number of better ones.                                     *)
LEMMA PlacedByRank ==
  ASSUME DataOK, NEW rows \in Orders(Deals), NEW o \in Deals, Unique(o), NEW n \in Nat
  PROVE  o \in PageOf(rows, n) <=> OnPage(o, n)
  <1> DEFINE Earlier(i) == {j \in DOMAIN rows :
                             \/ Score(rows[j]) > Score(rows[i])
                             \/ Score(rows[j]) = Score(rows[i]) /\ j < i}
             Place(i) == 1 + Cardinality(Earlier(i))
  <1>1. /\ rows \in [DOMAIN rows -> Deals] /\ IsFiniteSet(DOMAIN rows)
        /\ DOMAIN rows \subseteq Nat
        /\ \A i, j \in DOMAIN rows : rows[i] = rows[j] => i = j
        /\ \A x \in Deals : \E i \in DOMAIN rows : rows[i] = x
    <2>1. IsFiniteSet(Deals) BY DealsListed
    <2> DEFINE D == 1..Cardinality(Deals)
    <2>2. Cardinality(Deals) \in Nat /\ DOMAIN rows = D BY <2>1, OrdersCover
    <2>3. /\ rows \in [DOMAIN rows -> Deals]
          /\ \A i, j \in DOMAIN rows : rows[i] = rows[j] => i = j
          /\ \A x \in Deals : \E i \in DOMAIN rows : rows[i] = x
      BY <2>1, <2>2, OrdersCover
    <2>4. IsFiniteSet(D) /\ D \subseteq Nat BY <2>2, FS_Interval
    <2> HIDE DEF D
    <2> QED BY <2>2, <2>3, <2>4
  <1>2. PICK i \in DOMAIN rows : rows[i] = o BY <1>1
  <1>3. Earlier(i) = {j \in DOMAIN rows : Score(rows[j]) > Score(o)}
    <2>1. ASSUME NEW j \in DOMAIN rows, Score(rows[j]) = Score(o) PROVE j = i
      BY <1>1, <1>2, <2>1 DEF Unique
    <2>2. ~(i < i) BY <1>1
    <2> QED BY <1>2, <2>1, <2>2
  <1>4. Place(i) = Rank(o)
    <2> DEFINE J == {j \in DOMAIN rows : Score(rows[j]) > Score(o)}
               f == [j \in J |-> rows[j]]
    <2>1. f \in [J -> Above(o)] BY <1>1 DEF Above
    <2>2. \A j, k \in J : f[j] = f[k] => j = k BY <1>1
    <2>3. \A x \in Above(o) : \E j \in J : f[j] = x BY <1>1 DEF Above
    <2> HIDE DEF f
    <2>4. f \in Bijection(J, Above(o)) BY <2>1, <2>2, <2>3, Fun_IsBij
    <2>5. IsFiniteSet(J) BY <1>1, FS_Subset
    <2> HIDE DEF J
    <2>6. Cardinality(Above(o)) = Cardinality(J)
      BY <2>4, <2>5, FS_Bijection, Fun_ExistsBij
    <2> QED BY <1>3, <2>6 DEF Rank, J
  <1>5. PageOf(rows, n) =
          {rows[k] : k \in {j \in DOMAIN rows :
                              (n - 1) * PageSize < Place(j) /\ Place(j) <= n * PageSize}}
    BY DEF PageOf
  <1> HIDE DEF Place
  <1>6. o \in PageOf(rows, n) <=> (n - 1) * PageSize < Place(i) /\ Place(i) <= n * PageSize
    BY <1>1, <1>2, <1>5
  <1> QED BY <1>4, <1>6 DEF OnPage

(* The ranks of the deals go from one to their number.                      *)
LEMMA RankBounds ==
  ASSUME DataOK, NEW o \in Deals
  PROVE  Rank(o) \in Nat /\ 1 =< Rank(o) /\ Rank(o) =< Cardinality(Deals)
         /\ Cardinality(Deals) \in Nat
  <1>1. IsFiniteSet(Deals) /\ o \in Listings BY DealsListed
  <1>2. Above(o) \subseteq Deals \ {o}
    <2>1. Score(o) \in Int BY <1>1, ScoreType
    <2>2. ~(Score(o) > Score(o)) BY <2>1
    <2> QED BY <2>2 DEF Above
  <1>3. IsFiniteSet(Deals \ {o}) /\ Cardinality(Deals \ {o}) = Cardinality(Deals) - 1
    BY <1>1, FS_RemoveElement
  <1>4. IsFiniteSet(Above(o)) /\ Cardinality(Above(o)) =< Cardinality(Deals \ {o})
    BY <1>2, <1>3, FS_Subset
  <1> QED BY <1>1, <1>3, <1>4, FS_CardinalityType DEF Rank

(* A rank is on one page. *)
LEMMA OnePage ==
  ASSUME NEW L \in Nat, NEW r \in Nat, NEW p \in Nat \ {0}, 1 =< r, r =< L * p
  PROVE  \E n \in 1..L : /\ (n - 1) * p < r /\ r =< n * p
                         /\ \A m \in 1..L : (m - 1) * p < r /\ r =< m * p => m = n
  <1> DEFINE S == {n \in 0..L : r =< n * p}
  <1>a. S \subseteq 0..L /\ S \subseteq Nat OBVIOUS
  <1>b. L \in S OBVIOUS
  <1>c. IsFiniteSet(S)
    <2>1. IsFiniteSet(0..L) BY FS_Interval
    <2> HIDE DEF S
    <2> QED BY <1>a, <2>1, FS_Subset
  <1>2. PICK n \in S : \A j \in S : n =< j
    <2> HIDE DEF S
    <2> QED BY <1>a, <1>b, <1>c, LeastOne
  <1>3. n \in 1..L /\ r =< n * p
    <2>1. n \in 0..L /\ r =< n * p OBVIOUS
    <2>2. 0 * p = 0 OBVIOUS
    <2> QED BY <2>1, <2>2
  <1>4. n - 1 \in 0..L /\ n - 1 \notin S
    <2>1. ~(n =< n - 1) /\ n - 1 \in 0..L BY <1>3
    <2> QED BY <1>2, <2>1
  <1>5. (n - 1) * p < r
    <2>1. ~(r =< (n - 1) * p) BY <1>4
    <2>2. (n - 1) * p \in Int BY <1>3
    <2> QED BY <2>1, <2>2
  <1>6. ASSUME NEW m \in 1..L, (m - 1) * p < r, r =< m * p PROVE m = n
    <2>1. m \in S BY <1>6
    <2>2. n =< m BY <1>2, <2>1
    <2>3. ASSUME n < m PROVE FALSE
      <3>1. n =< m - 1 BY <1>3, <2>3
      <3>2. n * p =< (m - 1) * p
        <4>1. \A d \in Nat : d * p \in Nat OBVIOUS
        <4>2. (m - 1 - n) \in Nat BY <1>3, <3>1
        <4>3. (m - 1) * p = n * p + (m - 1 - n) * p BY <1>3, <4>2
        <4>4. n * p \in Nat /\ (m - 1 - n) * p \in Nat BY <1>3, <4>1, <4>2
        <4> QED BY <4>3, <4>4
      <3>3. n * p \in Int /\ (m - 1) * p \in Int BY <1>3
      <3> QED BY <1>3, <1>6, <3>2, <3>3
    <2> QED BY <1>3, <2>2, <2>3
  <1> QED BY <1>3, <1>5, <1>6

(* A deal that ranks alone is met on one page, and on no other.             *)
LEMMA PagesAreComplete ==
  ASSUME DataOK, PagesRanked
  PROVE  PagesCover
  <1> SUFFICES ASSUME Paged, NEW o \in Deals, Unique(o)
               PROVE  Cardinality({n \in DOMAIN pages : o \in pages[n]}) = 1
    BY DEF PagesCover, Unique
  <1> DEFINE L == Len(pages)
  <1>1. L \in Nat /\ DOMAIN pages = 1..L BY DEF PagesRanked
  <1>2. PageSize \in Nat \ {0} BY MatchingRulesAssumption
  <1>3. Rank(o) \in Nat /\ 1 =< Rank(o) /\ Rank(o) =< L * PageSize
    BY <1>1, <1>2, RankBounds DEF Paged
  <1> HIDE DEF L
  <1>4. PICK n \in 1..L : /\ OnPage(o, n)
                          /\ \A m \in 1..L : OnPage(o, m) => m = n
    BY <1>1, <1>2, <1>3, OnePage DEF OnPage
  <1>5. {m \in DOMAIN pages : o \in pages[m]} = {n}
    BY <1>1, <1>4 DEF PagesRanked, L
  <1> QED BY <1>5, FS_Singleton

-----------------------------------------------------------------------------
RulesInv == DataOK /\ AlertsMatch /\ PagesRanked

(* Pages and alerts made so far stay as they are, new ones are right.       *)
LEMMA RulesInvStep == RulesInv /\ [Next]_vars => RulesInv'
  <1> SUFFICES ASSUME RulesInv, [Next]_vars PROVE RulesInv'
    OBVIOUS
  <1>1. UNCHANGED <<lists, offers, ask>> BY DEF Next, NextPage, Generate, vars
  <1>2. DataOK' BY <1>1 DEF RulesInv, DataOK
  <1>3. AlertsMatch'
    <2>1. CASE alerts' = alerts
      BY <1>1, <2>1 DEF RulesInv, AlertsMatch, ForSale, Matches
    <2>2. CASE Generate
      BY <1>1, <2>2 DEF Generate, AlertsMatch, ForSale, Matches
    <2> QED BY <2>1, <2>2 DEF Next, NextPage, vars
  <1>4. /\ Deals' = Deals
        /\ \A o, n : OnPage(o, n)' = OnPage(o, n) /\ Unique(o)' = Unique(o)
    BY <1>1, SameDeals DEF OnPage, Rank, Above, Unique
  <1>5. PagesRanked'
    <2>1. CASE pages' = pages
      BY <1>4, <2>1 DEF RulesInv, PagesRanked
    <2>2. CASE NextPage
      <3> DEFINE k == Len(pages) + 1
      <3>1. PICK rows \in Orders(Deals) : pages' = Append(pages, PageOf(rows, k))
        BY <2>2 DEF NextPage
      <3>2. PageOf(rows, k) \subseteq Listings
        <4>1. IsFiniteSet(Deals) /\ Deals \subseteq Listings BY DealsListed DEF RulesInv
        <4>2. \A i \in DOMAIN rows : rows[i] \in Deals BY <4>1, OrdersCover
        <4> QED BY <4>1, <4>2 DEF PageOf
      <3>3. pages \in Seq(SUBSET Listings) BY DEF RulesInv, PagesRanked
      <3>4. /\ pages' \in Seq(SUBSET Listings) /\ Len(pages') = k /\ k \in Nat
            /\ pages'[k] = PageOf(rows, k)
            /\ \A n \in 1..Len(pages) : pages'[n] = pages[n]
        BY <3>1, <3>2, <3>3
      <3>5. \A o \in Deals : Unique(o) => (o \in PageOf(rows, k) <=> OnPage(o, k))
        BY <3>4, PlacedByRank DEF RulesInv
      <3>6. \A n \in 1..k : n = k \/ n \in 1..Len(pages) BY <3>3
      <3> QED BY <1>4, <3>4, <3>5, <3>6 DEF RulesInv, PagesRanked
    <2> QED BY <2>1, <2>2 DEF Next, Generate, vars
  <1> QED BY <1>2, <1>3, <1>5 DEF RulesInv

(* RulesInv holds in every reachable state.                                 *)
LEMMA RulesInvariant == Spec => []RulesInv
  <1>1. Init => RulesInv
    <2> SUFFICES ASSUME Init PROVE RulesInv OBVIOUS
    <2>1. \E n \in 0..MaxLists : lists \in [1..n -> Watchlists] BY DEF Init
    <2>2. DataOK BY <2>1, MatchingRulesAssumption DEF Init, DataOK
    <2>3. AlertsMatch /\ PagesRanked BY DEF Init, AlertsMatch, PagesRanked
    <2> QED BY <2>2, <2>3 DEF RulesInv
  <1> QED BY <1>1, RulesInvStep, PTL DEF Spec

(* What a user finds among the deals is complete: what the alerts told of   *)
(* is among them, says that its target is reached if it reaches those of    *)
(* all its lists, and is met once by leafing through the pages.             *)
THEOREM DealsAreComplete == Spec => []DealsComplete
  <1>1. RulesInv => DealsComplete
    BY AlertsAreDeals, TargetsAreShown, PagesAreComplete DEF RulesInv, DealsComplete
  <1> QED BY <1>1, RulesInvariant, PTL

-----------------------------------------------------------------------------
(* ProductIdentity: syncs make no duplicates *)

IdentityInv ==
  /\ known \in Seq(Items) /\ admin \in 0..Len(known)
  /\ SyncMakesNoCandidates

(* A product that the admin would be shown beside an item is one of those  *)
(* the item may be taken for                                               *)
LEMMA CandidatesAreFound ==
  ASSUME known \in Seq(Items), NEW x \in Items, NEW n \in DOMAIN known, Candidate(known[n], x)
  PROVE  OfIdentity(x) # {}
  <1> DEFINE same == {k \in DOMAIN known :
                         /\ known[k].category = x.category /\ known[k].brand = x.brand
                         /\ Identity(x) # None /\ IdentityMatches(known[k], x)}
  <1>1. n \in same BY DEF Candidate, Identity, IdentityMatches
  <1>2. DOMAIN known = 1..Len(known) /\ Len(known) \in Nat OBVIOUS
  <1>3. same \in SUBSET Nat /\ IsFiniteSet(same)
    <2>1. IsFiniteSet(1..Len(known)) BY <1>2, FS_Interval
    <2>2. same \subseteq 1..Len(known) BY <1>2
    <2> QED BY <2>1, <2>2, FS_Subset
  <1>4. OfIdentity(x) = {i \in same : \A k \in same : i <= k} BY DEF OfIdentity
  <1> HIDE DEF same
  <1> QED BY <1>1, <1>3, <1>4, LeastOne

(* An item that resembles a product is mapped to one, others are appended.  *)
LEMMA ResolveKeeps == ASSUME IdentityInv, NEW x \in Items, Resolve(x) PROVE IdentityInv'
  <1> DEFINE found == IF OfSku(x) # {} THEN OfSku(x)
                      ELSE IF OfIdentity(x) # {} THEN OfIdentity(x) ELSE {Len(known) + 1}
  <1>1. PICK n \in found : known' = IF n \in DOMAIN known THEN known ELSE Append(known, x)
    BY DEF Resolve
  <1>2. admin' = admin /\ known \in Seq(Items) /\ admin \in 0..Len(known)
    BY DEF Resolve, IdentityInv
  <1>3. CASE n \in DOMAIN known
    BY <1>1, <1>2, <1>3 DEF IdentityInv, SyncMakesNoCandidates, CandidatePairs
  <1>4. CASE n \notin DOMAIN known
    <2>1. OfSku(x) \subseteq DOMAIN known /\ OfIdentity(x) \subseteq DOMAIN known
      BY DEF OfSku, OfIdentity
    <2>2. OfIdentity(x) = {} BY <1>4, <2>1
    <2>3. known' = Append(known, x) BY <1>1, <1>4
    <2>4. /\ known' \in Seq(Items) /\ Len(known') = Len(known) + 1
          /\ DOMAIN known = 1..Len(known) /\ DOMAIN known' = 1..Len(known) + 1
          /\ known'[Len(known) + 1] = x /\ \A k \in 1..Len(known) : known'[k] = known[k]
      BY <1>2, <2>3
    <2>5. ASSUME NEW a \in DOMAIN known', NEW b \in DOMAIN known', a < b,
                 Candidate(known'[a], known'[b])
          PROVE  b <= admin
      <3>1. a \in DOMAIN known BY <2>4, <2>5
      <3>2. CASE b = Len(known) + 1
        BY <1>2, <2>2, <2>4, <2>5, <3>1, <3>2, CandidatesAreFound
      <3>3. CASE b # Len(known) + 1
        <4>1. b \in DOMAIN known BY <2>4, <3>3
        <4>2. Candidate(known[a], known[b]) BY <2>4, <2>5, <3>1, <4>1
        <4>3. <<a, b>> \in CandidatePairs BY <2>5, <3>1, <4>1, <4>2 DEF CandidatePairs
        <4> QED BY <4>3 DEF IdentityInv, SyncMakesNoCandidates
      <3> QED BY <3>2, <3>3
    <2>6. SyncMakesNoCandidates'
      <3>1. ASSUME NEW c \in CandidatePairs' PROVE c[2] <= admin
        <4>1. PICK a \in DOMAIN known', b \in DOMAIN known' :
                 c = <<a, b>> /\ a < b /\ Candidate(known'[a], known'[b])
          BY DEF CandidatePairs, Candidate
        <4> QED BY <4>1, <2>5
      <3> QED BY <3>1, <1>2 DEF SyncMakesNoCandidates
    <2>7. admin \in 0..Len(known') BY <1>2, <2>4
    <2> QED BY <1>2, <2>4, <2>6, <2>7 DEF IdentityInv
  <1> QED BY <1>3, <1>4

(* Syncs, one after the other, leave the admin no new duplicates, whatever  *)
(* the admin entered and whatever the shops list.                           *)
THEOREM SyncsMakeNoDuplicates == IdentitySpec => []SyncMakesNoCandidates
  <1>1. IdentityInit => IdentityInv
    <2> SUFFICES ASSUME IdentityInit PROVE IdentityInv OBVIOUS
    <2>1. known \in Seq(Items) /\ admin = Len(known)
      BY ProductIdentityAssumption DEF IdentityInit
    <2>2. DOMAIN known = 1..Len(known) /\ Len(known) \in Nat BY <2>1
    <2>3. SyncMakesNoCandidates
      BY <2>1, <2>2 DEF SyncMakesNoCandidates, CandidatePairs
    <2> QED BY <2>1, <2>2, <2>3 DEF IdentityInv
  <1>2. IdentityInv /\ [IdentityNext]_identityVars => IdentityInv'
    <2> SUFFICES ASSUME IdentityInv, [IdentityNext]_identityVars PROVE IdentityInv' OBVIOUS
    <2>1. CASE UNCHANGED identityVars
      BY <2>1 DEF identityVars, IdentityInv, SyncMakesNoCandidates, CandidatePairs
    <2> QED BY <2>1, ResolveKeeps DEF IdentityNext
  <1> QED BY <1>1, <1>2, PTL DEF IdentitySpec, IdentityInv

-----------------------------------------------------------------------------
(* Recommendations: the drafts serve the wish *)

Places(S) == [a \in S |-> Cardinality({b \in S : Before(b, a)})]

Sorted(S) ==
  /\ IsFiniteSet(S)
  /\ \A a \in S : a.score \in Nat /\ a.of \in Nat
  /\ \A a, b \in S : a.of = b.of => a = b

(* What comes before another has a lower place *)
LEMMA PlacesGrow ==
  ASSUME NEW S, Sorted(S)
  PROVE  /\ \A a \in S : Places(S)[a] \in Nat /\ Places(S)[a] < Cardinality(S)
         /\ \A a, b \in S : Before(a, b) => Places(S)[a] < Places(S)[b]
  <1> DEFINE Ahead(a) == {b \in S : Before(b, a)}
  <1>1. ASSUME NEW a \in S
        PROVE  /\ IsFiniteSet(Ahead(a)) /\ Cardinality(Ahead(a)) \in Nat
               /\ Cardinality(Ahead(a) \cup {a}) = Cardinality(Ahead(a)) + 1
               /\ IsFiniteSet(Ahead(a) \cup {a})
    <2>1. IsFiniteSet(Ahead(a)) BY FS_Subset DEF Sorted
    <2>2. a \notin Ahead(a) BY DEF Before, Sorted
    <2> HIDE DEF Ahead
    <2> QED BY <2>1, <2>2, FS_AddElement, FS_CardinalityType
  <1>2. ASSUME NEW a \in S PROVE Cardinality(Ahead(a)) < Cardinality(S)
    <2>1. Ahead(a) \cup {a} \subseteq S OBVIOUS
    <2>2. Cardinality(Ahead(a) \cup {a}) <= Cardinality(S) BY <2>1, FS_Subset DEF Sorted
    <2>3. Cardinality(S) \in Nat BY FS_CardinalityType DEF Sorted
    <2> HIDE DEF Ahead
    <2> QED BY <1>1, <2>2, <2>3
  <1>3. ASSUME NEW a \in S, NEW b \in S, Before(a, b)
        PROVE  Cardinality(Ahead(a)) < Cardinality(Ahead(b))
    <2>1. Ahead(a) \cup {a} \subseteq Ahead(b) BY <1>3 DEF Before, Sorted
    <2>2. IsFiniteSet(Ahead(b)) /\ Cardinality(Ahead(b)) \in Nat BY <1>1
    <2> HIDE DEF Ahead
    <2>3. Cardinality(Ahead(a) \cup {a}) <= Cardinality(Ahead(b)) BY <2>1, <2>2, FS_Subset
    <2> QED BY <1>1, <2>2, <2>3
  <1>4. \A a \in S : Places(S)[a] = Cardinality(Ahead(a)) BY DEF Places
  <1> HIDE DEF Ahead
  <1> QED BY <1>1, <1>2, <1>3, <1>4

(* The places are 0, 1, 2, ..., so that as many come first as there is room *)
(* for.                                                                     *)
LEMMA FirstOnesFill ==
  ASSUME NEW S, Sorted(S), NEW n \in Nat
  PROVE  Cardinality({a \in S : Places(S)[a] < n})
           = IF Cardinality(S) < n THEN Cardinality(S) ELSE n
  <1> DEFINE N == Cardinality(S)
             P == Places(S)
             T == {a \in S : P[a] < n}
             m == IF N < n THEN N ELSE n
  <1>1. N \in Nat /\ IsFiniteSet(S) BY FS_CardinalityType DEF Sorted
  <1>2. \A a \in S : P[a] \in 0..N-1 BY <1>1, PlacesGrow
  <1>3. \A a, b \in S : P[a] = P[b] => a = b
    <2>1. \A a, b \in S : a # b => Before(a, b) \/ Before(b, a) BY DEF Before, Sorted
    <2>2. \A a, b \in S : Before(a, b) => P[a] < P[b] BY PlacesGrow
    <2>3. \A a \in S : P[a] \in Nat BY PlacesGrow
    <2> HIDE DEF P
    <2> QED BY <2>1, <2>2, <2>3
  <1>4. P \in [S -> 0..N-1] BY <1>2 DEF Places
  <1> HIDE DEF P
  <1>5. P \in Injection(S, 0..N-1) BY <1>3, <1>4 DEF Injection, IsInjective
  <1>6. IsFiniteSet(0..N-1) /\ Cardinality(0..N-1) = N BY <1>1, FS_Interval
  <1>7. P \in Surjection(S, 0..N-1) BY <1>1, <1>5, <1>6, FS_Injection
  <1>8. \A k \in 0..N-1 : \E a \in S : P[a] = k BY <1>7 DEF Surjection
  <1>9. m \in Nat /\ m <= N /\ m <= n BY <1>1
  <1> DEFINE g == [a \in T |-> P[a]]
  <1>10. g \in [T -> 0..m-1] BY <1>1, <1>2
  <1>11. \A a, b \in T : g[a] = g[b] => a = b BY <1>3
  <1>12. \A k \in 0..m-1 : \E a \in T : g[a] = k
    <2> SUFFICES ASSUME NEW k \in 0..m-1 PROVE \E a \in T : g[a] = k OBVIOUS
    <2>1. k \in 0..N-1 /\ k < n BY <1>1, <1>9
    <2>2. PICK a \in S : P[a] = k BY <1>8, <2>1
    <2>3. a \in T BY <2>1, <2>2
    <2> QED BY <2>2, <2>3
  <1>13. IsFiniteSet(T) BY <1>1, FS_Subset
  <1>14. IsFiniteSet(0..m-1) /\ Cardinality(0..m-1) = m
    <2> HIDE DEF m
    <2> QED BY <1>9, FS_Interval
  <1> HIDE DEF T, g, m, N
  <1>15. g \in Bijection(T, 0..m-1)
    BY <1>10, <1>11, <1>12 DEF Bijection, Injection, Surjection, IsInjective
  <1>16. Cardinality(T) = m BY <1>13, <1>14, <1>15, FS_Bijection DEF ExistsBijection
  <1> QED BY <1>16 DEF T, P, m, N

-----------------------------------------------------------------------------
AllReasons ==
  {"category", "brand", "model_text", "use_case", "size_in_stock", "within_budget"}

(* One reason more is a higher score *)
LEMMA TotalScoreGrows ==
  ASSUME NEW R \in SUBSET AllReasons, NEW Q \in SUBSET AllReasons, R \subseteq Q
  PROVE  /\ TotalScore(R) \in Nat
         /\ R # Q => TotalScore(R) < TotalScore(Q)
  <1> DEFINE P(X, r) == IF r \in X THEN Points[r] ELSE 0
  <1>1. /\ Points["category"] = 50 /\ Points["brand"] = 25 /\ Points["model_text"] = 15
        /\ Points["use_case"] = 10 /\ Points["size_in_stock"] = 10
        /\ Points["within_budget"] = 10
    BY DEF Points
  <1>2. \A X \in SUBSET AllReasons :
           TotalScore(X) = P(X, "category") + P(X, "brand") + P(X, "model_text")
             + P(X, "use_case") + P(X, "size_in_stock") + P(X, "within_budget")
    BY DEF TotalScore
  <1>3. \A r \in AllReasons : /\ P(R, r) \in Nat /\ P(Q, r) \in Nat /\ P(R, r) <= P(Q, r)
                              /\ r \in Q \ R => P(R, r) < P(Q, r)
    BY <1>1 DEF AllReasons
  <1>4. R # Q => \E r \in AllReasons : r \in Q \ R OBVIOUS
  <1> HIDE DEF P
  <1> QED BY <1>2, <1>3, <1>4 DEF AllReasons

(* How the facts about a product are related to its reasons.                *)
LEMMA ReasonsKnown ==
  ASSUME NEW p, NEW best
  PROVE  /\ DraftReasons(p, best) \subseteq AllReasons
         /\ Facts(p) = DraftReasons(p, best) \ {"size_in_stock", "within_budget"}
         /\ "size_in_stock" \in DraftReasons(p, best) <=> wish.size # None /\ HasSizeOffer(p)
         /\ "within_budget" \in DraftReasons(p, best) <=> WithinBudget(best)
  <1>1. Facts(p) \subseteq {"category", "brand", "model_text", "use_case"} BY DEF Facts
  <1> QED BY <1>1 DEF DraftReasons, AllReasons

-----------------------------------------------------------------------------
(* The offers picked, and the drafts made with them *)
Picked(pick) ==
  /\ pick \in [DOMAIN catalogue -> UNION {p.offers : p \in Products} \cup {None}]
  /\ \A i \in DOMAIN catalogue :
        pick[i] \in IF catalogue[i].offers = {} THEN {None} ELSE BestOffers(catalogue[i])

Scored(pick) == {ScoreProduct(i, pick[i]) : i \in DOMAIN catalogue}

KeptOf(pick) ==
  {a \in Scored(pick) : Cardinality({b \in Scored(pick) : Before(b, a)}) < Limit}

DraftInv ==
  /\ wish \in Wishes
  /\ catalogue \in UNION {[1..n -> Products] : n \in 0..Length}
  /\ drafts = {Undrafted} \/ \E pick : Picked(pick) /\ drafts = KeptOf(pick)

(* Each product is scored once, under its number in the catalogue.          *)
LEMMA ScoredProducts ==
  ASSUME DraftInv, NEW pick, Picked(pick)
  PROVE  /\ \A i \in DOMAIN catalogue :
              LET d == ScoreProduct(i, pick[i])
              IN  /\ d.of = i /\ d.offer = pick[i] /\ d.reasons = DraftReasons(catalogue[i], pick[i])
                  /\ d.score = TotalScore(d.reasons)
         /\ \A a \in Scored(pick) : a.of \in DOMAIN catalogue /\ a = ScoreProduct(a.of, pick[a.of])
         /\ Len(catalogue) \in Nat /\ DOMAIN catalogue = 1..Len(catalogue)
         /\ \A i \in DOMAIN catalogue : catalogue[i] \in Products
         /\ Sorted(Scored(pick)) /\ Cardinality(Scored(pick)) = Len(catalogue)
  <1>1. /\ Len(catalogue) \in Nat /\ DOMAIN catalogue = 1..Len(catalogue)
        /\ \A i \in DOMAIN catalogue : catalogue[i] \in Products
    BY DEF DraftInv
  <1>2. ASSUME NEW i \in DOMAIN catalogue, NEW d, d = ScoreProduct(i, pick[i])
        PROVE  /\ d.of = i /\ d.offer = pick[i] /\ d.reasons = DraftReasons(catalogue[i], pick[i])
               /\ d.score = TotalScore(d.reasons)
    BY <1>2 DEF ScoreProduct
  <1>3. \A a \in Scored(pick) : a.of \in DOMAIN catalogue /\ a = ScoreProduct(a.of, pick[a.of])
    BY <1>2 DEF Scored
  <1>4. \A a \in Scored(pick) : a.score \in Nat
    BY <1>2, <1>3, ReasonsKnown, TotalScoreGrows
  <1> DEFINE f == [i \in 1..Len(catalogue) |-> ScoreProduct(i, pick[i])]
  <1>5. f \in [1..Len(catalogue) -> Scored(pick)] BY <1>1 DEF Scored
  <1>6. \A i, j \in 1..Len(catalogue) : f[i] = f[j] => i = j
    BY <1>1, <1>2
  <1>7. \A a \in Scored(pick) : \E i \in 1..Len(catalogue) : f[i] = a BY <1>1, <1>3
  <1> HIDE DEF f
  <1>8. f \in Bijection(1..Len(catalogue), Scored(pick))
    BY <1>5, <1>6, <1>7 DEF Bijection, Injection, Surjection, IsInjective
  <1>9. IsFiniteSet(1..Len(catalogue)) /\ Cardinality(1..Len(catalogue)) = Len(catalogue)
    BY <1>1, FS_Interval
  <1>10. IsFiniteSet(Scored(pick)) /\ Cardinality(Scored(pick)) = Len(catalogue)
    BY <1>8, <1>9, FS_Bijection DEF ExistsBijection
  <1>11. Sorted(Scored(pick)) BY <1>1, <1>3, <1>4, <1>10 DEF Sorted
  <1> QED BY <1>1, <1>2, <1>3, <1>10, <1>11

(* A product has an offer linked if it has any.                             *)
LEMMA PicksServe ==
  ASSUME DraftInv, NEW pick, Picked(pick), NEW i \in DOMAIN catalogue
  PROVE  /\ pick[i] = None <=> catalogue[i].offers = {}
         /\ pick[i] # None => /\ pick[i] \in BestOffers(catalogue[i])
                              /\ pick[i] \in catalogue[i].offers
                              /\ pick[i].price \in Nat
  <1>1. catalogue[i] \in Products BY ScoredProducts
  <1>2. \A o \in catalogue[i].offers : o # None /\ o.price \in Nat
    BY <1>1, RecommendationsAssumption
  <1>3. BestOffers(catalogue[i]) \subseteq catalogue[i].offers BY DEF BestOffers, Candidates
  <1> QED BY <1>2, <1>3 DEF Picked

(* The offer linked is in stock if one is, and the cheapest of those.       *)
LEMMA OffersServe ==
  ASSUME DraftInv, NEW pick, Picked(pick), drafts = KeptOf(pick)
  PROVE  OfferServes
  <1> SUFFICES ASSUME NEW d \in drafts
               PROVE  LET offered == catalogue[d.of].offers IN
                      /\ d.offer = None <=> offered = {}
                      /\ d.offer # None =>
                            /\ \A o \in offered : o.availability = "in_stock" =>
                                  d.offer.availability = "in_stock" /\ d.offer.price <= o.price
                            /\ "within_budget" \in d.reasons => d.offer.price <= wish.budget
    BY DEF OfferServes
  <1>1. d \in Scored(pick) BY DEF KeptOf
  <1>2. PICK i \in DOMAIN catalogue : i = d.of /\ d = ScoreProduct(i, pick[i])
    BY <1>1, ScoredProducts
  <1>3. d.offer = pick[i] /\ d.reasons = DraftReasons(catalogue[i], pick[i])
    BY <1>2, ScoredProducts
  <1>4. pick[i] = None <=> catalogue[i].offers = {} BY PicksServe
  <1>5. ASSUME pick[i] # None, NEW o \in catalogue[i].offers, o.availability = "in_stock"
        PROVE  pick[i].availability = "in_stock" /\ pick[i].price <= o.price
    <2>1. pick[i] \in BestOffers(catalogue[i]) BY <1>5, PicksServe
    <2> QED BY <1>5, <2>1 DEF BestOffers, Candidates
  <1>6. "within_budget" \in d.reasons => pick[i].price <= wish.budget
    BY <1>3, ReasonsKnown DEF WithinBudget
  <1> QED BY <1>2, <1>3, <1>4, <1>5, <1>6

(* Products with the same offers are within the budget together *)
LEMMA SameOffersSamePrice ==
  ASSUME DraftInv, NEW pick, Picked(pick), NEW i \in DOMAIN catalogue, NEW j \in DOMAIN catalogue,
         catalogue[i].offers = catalogue[j].offers
  PROVE  /\ WithinBudget(pick[i]) <=> WithinBudget(pick[j])
         /\ HasSizeOffer(catalogue[i]) <=> HasSizeOffer(catalogue[j])
  <1>1. HasSizeOffer(catalogue[i]) <=> HasSizeOffer(catalogue[j]) BY DEF HasSizeOffer
  <1>2. CASE pick[i] = None
    <2>1. pick[j] = None BY <1>2, PicksServe
    <2> QED BY <1>1, <1>2, <2>1
  <1>3. CASE pick[i] # None
    <2>1. pick[j] # None BY <1>3, PicksServe
    <2>2. BestOffers(catalogue[i]) = BestOffers(catalogue[j]) BY DEF BestOffers, Candidates
    <2>3. /\ pick[i] \in BestOffers(catalogue[i]) /\ pick[j] \in BestOffers(catalogue[i])
          /\ pick[i].price \in Nat /\ pick[j].price \in Nat
      BY <1>3, <2>1, <2>2, PicksServe
    <2>4. pick[i].price <= pick[j].price /\ pick[j].price <= pick[i].price
      BY <2>3 DEF BestOffers
    <2>5. pick[i].price = pick[j].price BY <2>3, <2>4
    <2> QED BY <1>1, <1>3, <2>1, <2>5 DEF WithinBudget
  <1> QED BY <1>2, <1>3

(* A better fit has a higher score, so it comes before and is kept.         *)
LEMMA BetterFitsStay ==
  ASSUME DraftInv, NEW pick, Picked(pick), drafts = KeptOf(pick)
  PROVE  BetterFitKept
  <1> DEFINE S == Scored(pick)
  <1>1. Sorted(S) /\ Cardinality(S) = Len(catalogue) BY ScoredProducts
  <1>2. Limit \in Nat BY RecommendationsAssumption
  <1>3. drafts = {a \in S : Places(S)[a] < Limit} BY DEF KeptOf, Places
  <1>4. Cardinality(drafts) = IF Len(catalogue) < Limit THEN Len(catalogue) ELSE Limit
    <2> HIDE DEF S
    <2> QED BY <1>1, <1>2, <1>3, FirstOnesFill
  <1>5. ASSUME NEW d \in drafts, NEW j \in DOMAIN catalogue \ {e.of : e \in drafts},
               catalogue[d.of].offers = catalogue[j].offers,
               Facts(catalogue[d.of]) # Facts(catalogue[j]),
               Facts(catalogue[d.of]) \subseteq Facts(catalogue[j])
        PROVE  FALSE
    <2>1. d \in S BY <1>3
    <2>2. PICK i \in DOMAIN catalogue : i = d.of /\ d = ScoreProduct(i, pick[i])
      BY <2>1, ScoredProducts
    <2>3. PICK e : e = ScoreProduct(j, pick[j]) OBVIOUS
    <2>4. e \in S BY <2>3 DEF Scored
    <2> DEFINE R == DraftReasons(catalogue[i], pick[i])
               Q == DraftReasons(catalogue[j], pick[j])
    <2>5. /\ d.of = i /\ d.score = TotalScore(R)
          /\ e.of = j /\ e.score = TotalScore(Q)
      BY <2>2, <2>3, ScoredProducts
    <2>6. R \in SUBSET AllReasons /\ Q \in SUBSET AllReasons BY ReasonsKnown
    <2>7. R \subseteq Q /\ R # Q
      <3>1. /\ WithinBudget(pick[i]) <=> WithinBudget(pick[j])
            /\ HasSizeOffer(catalogue[i]) <=> HasSizeOffer(catalogue[j])
        BY <1>5, <2>2, SameOffersSamePrice
      <3>2. /\ Facts(catalogue[i]) = R \ {"size_in_stock", "within_budget"}
            /\ Facts(catalogue[j]) = Q \ {"size_in_stock", "within_budget"}
        BY ReasonsKnown
      <3>3. /\ "size_in_stock" \in R <=> wish.size # None /\ HasSizeOffer(catalogue[i])
            /\ "size_in_stock" \in Q <=> wish.size # None /\ HasSizeOffer(catalogue[j])
            /\ "within_budget" \in R <=> WithinBudget(pick[i])
            /\ "within_budget" \in Q <=> WithinBudget(pick[j])
        BY ReasonsKnown
      <3> HIDE DEF R, Q
      <3> QED BY <1>5, <2>2, <3>1, <3>2, <3>3
    <2>8. d.score \in Nat /\ e.score \in Nat /\ d.score < e.score
      <3> HIDE DEF R, Q
      <3>1. TotalScore(R) < TotalScore(Q) BY <2>6, <2>7, TotalScoreGrows
      <3> QED BY <1>1, <2>1, <2>4, <2>5, <3>1 DEF Sorted
    <2>9. Before(e, d) BY <2>8 DEF Before
    <2> HIDE DEF S
    <2>10. Places(S)[e] < Places(S)[d] /\ Places(S)[e] \in Nat /\ Places(S)[d] \in Nat
      BY <1>1, <2>1, <2>4, <2>9, PlacesGrow
    <2>11. Places(S)[d] < Limit BY <1>3
    <2>12. e \in drafts BY <1>2, <1>3, <2>4, <2>10, <2>11
    <2> QED BY <1>5, <2>5, <2>12
  <1> QED BY <1>4, <1>5 DEF BetterFitKept

(* The drafts serve the wish, of however many products and offers.          *)
THEOREM RecommendationsServe == DraftSpec => []DraftsServe
  <1>1. DraftInit => DraftInv BY DEF DraftInit, DraftInv
  <1>2. DraftInv /\ [DraftNext]_draftVars => DraftInv'
    <2> SUFFICES ASSUME DraftInv, [DraftNext]_draftVars PROVE DraftInv' OBVIOUS
    <2>1. UNCHANGED <<wish, catalogue>> BY DEF DraftNext, Draft, draftVars
    <2>2. \A pick : Picked(pick)' <=> Picked(pick)
      BY <2>1 DEF Picked, BestOffers, Candidates
    <2>3. \A pick : KeptOf(pick)' = KeptOf(pick)
      BY <2>1 DEF KeptOf, Scored, ScoreProduct, DraftReasons, Facts, HasSizeOffer, MatchesSize,
                  WithinBudget
    <2>4. drafts' = {Undrafted} \/ \E pick : Picked(pick) /\ drafts' = KeptOf(pick)
      <3>1. CASE Draft
        BY <3>1 DEF Draft, Picked, KeptOf, Scored
      <3>2. CASE UNCHANGED draftVars BY <3>2 DEF draftVars, DraftInv
      <3> QED BY <3>1, <3>2 DEF DraftNext
    <2> QED BY <2>1, <2>2, <2>3, <2>4 DEF DraftInv
  <1>3. DraftInv => DraftsServe
    <2> SUFFICES ASSUME DraftInv PROVE DraftsServe OBVIOUS
    <2>1. CASE drafts = {Undrafted}
      BY <2>1 DEF DraftsServe, OfferServes, BetterFitKept, Drafted
    <2>2. CASE \E pick : Picked(pick) /\ drafts = KeptOf(pick)
      BY <2>2, OffersServe, BetterFitsStay DEF DraftsServe
    <2> QED BY <2>1, <2>2 DEF DraftInv
  <1> QED BY <1>1, <1>2, <1>3, PTL DEF DraftSpec

-----------------------------------------------------------------------------
(* FeedRecords: a record says what the shop meant *)

FeedInv ==
  /\ sold \subseteq Shoes /\ text \in Texts
  /\ \A f \in Formats : fetched[f] \in {Unfetched, Offers(f)}
  /\ DOMAIN fetched = Formats

RecordsRead(f) == UNION {RecordsOf(f, s) : s \in sold}

(* A feed that was read has a record for everything sold, none refused.     *)
LEMMA WhatIsRead ==
  ASSUME FeedInv, NEW f \in Formats, Read(f)
  PROVE  /\ fetched[f].records = RecordsRead(f)
         /\ \A r \in RecordsRead(f) : r.price # Refused
  <1>1. fetched[f] # Unfetched BY DEF Read, Unfetched
  <1>2. fetched[f] = Offers(f) BY <1>1 DEF FeedInv
  <1> QED BY <1>2 DEF Read, Offers, RecordsRead

(* The fields of the records of each format *)
LEMMA RecordFields ==
  ASSUME NEW i, NEW p, NEW z, NEW a, NEW c, NEW o, NEW d, NEW r, r = Record(i, p, z, a, c, o, d)
  PROVE  r.product = p /\ r.sizes = z /\ r.price = c /\ r.old = o /\ r.discount = d
  BY DEF Record

(* The price of a record is the number its format reads.                    *)
LEMMA PricesRead ==
  ASSUME NEW f \in Formats \ {"srovname_api"}, NEW s, NEW r \in RecordsOf(f, s)
  PROVE  r.price = ReadNumber(f)
  <1>1. CASE f = "http_csv" BY <1>1, RecordFields DEF RecordsOf, CsvRecords
  <1>2. CASE f = "static_json" BY <1>2, RecordFields DEF RecordsOf, JsonRecords
  <1>3. CASE f = "heureka_xml"
    <2>1. r \in HeurekaRecords(s) BY <1>3 DEF RecordsOf
    <2>2. \/ \E size \in s.sizes :
               r = Record(<<s.id, size>>, HeurekaProduct(s, size), {size}, Availability(s.days),
                          ReadNumber("heureka_xml"), None, None)
          \/ r = Record(<<s.id, None>>, HeurekaProduct(s, None), {}, Availability(s.days),
                        ReadNumber("heureka_xml"), None, None)
      BY <2>1 DEF HeurekaRecords
    <2> QED BY <1>3, <2>2 DEF Record
  <1> QED BY <1>1, <1>2, <1>3 DEF Formats

(* Marks that would move the decimal point are refused.                     *)
LEMMA NumbersAreMeant == ASSUME FeedInv PROVE NumberAsMeant
  <1> SUFFICES ASSUME NEW f \in Formats \ {"srovname_api"}, fetched[f] # Unfetched,
                      text.decimals # None
               PROVE  /\ Read(f) => \A r \in fetched[f].records : r.price = "decimals"
                      /\ f # "static_json" /\ text.thousands \in {None, Space}
                         /\ text.decimals = Comma => Read(f)
    BY DEF NumberAsMeant
  <1> USE FeedRecordsAssumption
  <1>1. text \in Texts /\ text.decimals \in {Comma, Dot} BY DEF FeedInv
  <1>2. ReadNumber(f) \in {Refused, "decimals"}
    <2> DEFINE a == Folded(f, text.thousands)
               b == Folded(f, text.decimals)
    <2>1. b # None BY <1>1 DEF Folded
    <2>2. ReadNumber(f) =
            IF ~({a, b} \subseteq {None, Dot}) \/ (a = Dot /\ b = Dot) THEN Refused
            ELSE IF a = Dot THEN "thousands" ELSE IF b = Dot THEN "decimals" ELSE "whole"
      BY DEF ReadNumber
    <2> HIDE DEF a, b
    <2> QED BY <2>1, <2>2
  <1>3. ASSUME Read(f), NEW r \in fetched[f].records PROVE r.price = "decimals"
    <2>1. r \in RecordsRead(f) /\ r.price # Refused BY <1>3, WhatIsRead
    <2>2. PICK s \in sold : r \in RecordsOf(f, s) BY <2>1 DEF RecordsRead
    <2>3. r.price = ReadNumber(f) BY <2>2, PricesRead
    <2> QED BY <1>2, <2>1, <2>3
  <1>4. ASSUME f # "static_json", text.thousands \in {None, Space}, text.decimals = Comma
        PROVE  Read(f)
    <2>1. FoldsCommas(f) BY <1>4 DEF FoldsCommas, Formats
    <2>2. Folded(f, text.thousands) = None BY <1>4 DEF Folded
    <2>3. Folded(f, text.decimals) = Dot BY <1>4, <2>1 DEF Folded
    <2>4. ReadNumber(f) # Refused BY <2>2, <2>3 DEF ReadNumber
    <2>5. \A r \in RecordsRead(f) : r.price # Refused BY <2>4, PricesRead DEF RecordsRead
    <2>6. fetched[f] = Offers(f) BY DEF FeedInv
    <2> QED BY <2>5, <2>6 DEF Offers, RecordsRead, Read
  <1> QED BY <1>3, <1>4

-----------------------------------------------------------------------------
(* The CSV row of a shoe names its group and all its sizes.                 *)
LEMMA SizesOfCsv ==
  ASSUME NEW s, s.group # None, NEW p, NEW x
  PROVE  (\E r \in RecordsOf("http_csv", s) : r.product = p /\ x \in r.sizes)
           <=> p = <<s.group, None>> /\ x \in s.sizes
  BY RecordFields DEF RecordsOf, CsvRecords

(* The SHOPITEMs of a shoe name its group, and each of its sizes once.      *)
LEMMA SizesOfHeureka ==
  ASSUME NEW s, s.group # None, NEW p, NEW x
  PROVE  (\E r \in RecordsOf("heureka_xml", s) : r.product = p /\ x \in r.sizes)
           <=> p = <<s.group, None>> /\ x \in s.sizes
  <1> DEFINE R(z, Z) == Record(<<s.id, z>>, <<s.group, None>>, Z, Availability(s.days),
                               ReadNumber("heureka_xml"), None, None)
  <1>1. RecordsOf("heureka_xml", s) =
          {R(z, {z}) : z \in s.sizes} \cup IF s.sizes # {} THEN {} ELSE {R(None, {})}
    BY DEF RecordsOf, HeurekaRecords, HeurekaProduct
  <1>2. \A z, Z : R(z, Z).product = <<s.group, None>> /\ R(z, Z).sizes = Z
    BY RecordFields
  <1>3. \A r : r \in RecordsOf("heureka_xml", s)
                 <=> (\E z \in s.sizes : r = R(z, {z})) \/ (s.sizes = {} /\ r = R(None, {}))
    BY <1>1
  <1>4. ASSUME NEW r \in RecordsOf("heureka_xml", s), r.product = p, x \in r.sizes
        PROVE  p = <<s.group, None>> /\ x \in s.sizes
    <2>1. CASE s.sizes = {} /\ r = R(None, {})
      <3> HIDE DEF R
      <3> QED BY <1>2, <1>4, <2>1
    <2>2. CASE \E z \in s.sizes : r = R(z, {z})
      <3>1. PICK z \in s.sizes : r = R(z, {z}) BY <2>2
      <3>2. r.product = <<s.group, None>> /\ r.sizes = {z} BY <1>2, <3>1
      <3> QED BY <1>4, <3>1, <3>2
    <2> HIDE DEF R
    <2> QED BY <1>3, <2>1, <2>2
  <1>5. ASSUME p = <<s.group, None>>, x \in s.sizes
        PROVE  \E r \in RecordsOf("heureka_xml", s) : r.product = p /\ x \in r.sizes
    <2>1. R(x, {x}) \in RecordsOf("heureka_xml", s) BY <1>3, <1>5
    <2> HIDE DEF R
    <2> QED BY <1>2, <1>5, <2>1
  <1> QED BY <1>4, <1>5

(* Both formats give a group the sizes of the shoes in it.                  *)
LEMMA SizesReach == ASSUME FeedInv PROVE SizesReachProduct
  <1> SUFFICES ASSUME Read("http_csv"), Read("heureka_xml"), \A s \in sold : s.group # None
               PROVE  \A p : UNION {h[2] : h \in {x \in {<<r.product, r.sizes>> :
                                       r \in fetched["http_csv"].records} : x[1] = p}}
                           = UNION {h[2] : h \in {x \in {<<r.product, r.sizes>> :
                                       r \in fetched["heureka_xml"].records} : x[1] = p}}
    BY DEF SizesReachProduct
  <1> DEFINE Has(f) == {<<r.product, r.sizes>> : r \in fetched[f].records}
             Sizes(f, p) == UNION {h[2] : h \in {x \in Has(f) : x[1] = p}}
  <1>1. ASSUME NEW f, NEW p, NEW x
        PROVE  x \in Sizes(f, p)
                 <=> \E r \in fetched[f].records : r.product = p /\ x \in r.sizes
    <2>1. \A h : h \in Has(f) <=> \E r \in fetched[f].records : h = <<r.product, r.sizes>>
      OBVIOUS
    <2>2. x \in Sizes(f, p) <=> \E h \in Has(f) : h[1] = p /\ x \in h[2] OBVIOUS
    <2>3. \A r : <<r.product, r.sizes>>[1] = r.product /\ <<r.product, r.sizes>>[2] = r.sizes
      OBVIOUS
    <2> HIDE DEF Has, Sizes
    <2>4. ASSUME x \in Sizes(f, p)
          PROVE  \E r \in fetched[f].records : r.product = p /\ x \in r.sizes
      BY <2>1, <2>2, <2>3, <2>4
    <2>5. ASSUME NEW r \in fetched[f].records, r.product = p, x \in r.sizes
          PROVE  x \in Sizes(f, p)
      <3>1. <<r.product, r.sizes>> \in Has(f) BY <2>1
      <3> QED BY <2>2, <2>3, <2>5, <3>1
    <2> QED BY <2>4, <2>5
  <1> HIDE DEF Has, Sizes
  <1>2. ASSUME NEW f \in {"http_csv", "heureka_xml"}, NEW p, NEW x
        PROVE  x \in Sizes(f, p) <=> \E s \in sold : p = <<s.group, None>> /\ x \in s.sizes
    <2>1. fetched[f].records = RecordsRead(f) BY WhatIsRead DEF Formats
    <2>2. x \in Sizes(f, p)
            <=> \E s \in sold : \E r \in RecordsOf(f, s) : r.product = p /\ x \in r.sizes
      BY <1>1, <2>1 DEF RecordsRead
    <2>3. CASE f = "http_csv"
      <3>1. \A s \in sold : s.group # None =>
               ((\E r \in RecordsOf("http_csv", s) : r.product = p /\ x \in r.sizes)
                  <=> p = <<s.group, None>> /\ x \in s.sizes)
        BY SizesOfCsv
      <3>2. \A s \in sold : s.group # None OBVIOUS
      <3> QED BY <2>2, <2>3, <3>1, <3>2, Zenon
    <2>4. CASE f = "heureka_xml"
      <3>1. \A s \in sold : s.group # None =>
               ((\E r \in RecordsOf("heureka_xml", s) : r.product = p /\ x \in r.sizes)
                  <=> p = <<s.group, None>> /\ x \in s.sizes)
        BY SizesOfHeureka
      <3>2. \A s \in sold : s.group # None OBVIOUS
      <3> QED BY <2>2, <2>4, <3>1, <3>2, Zenon
    <2> QED BY <2>3, <2>4
  <1>3. \A p : \A x : x \in Sizes("http_csv", p) <=> x \in Sizes("heureka_xml", p) BY <1>2
  <1>4. ASSUME NEW p PROVE Sizes("http_csv", p) = Sizes("heureka_xml", p) BY <1>3
  <1> QED BY <1>4 DEF Sizes, Has

-----------------------------------------------------------------------------
(* A discount of a lower price is one between nothing and everything *)
LEMMA DiscountInRange ==
  \A price, old \in Nat : old > price =>
     (2 * Everything * (old - price) + old) \div (2 * old) \in 0..Everything
  <1>1. Everything \in Nat BY DEF Everything
  <1> SUFFICES ASSUME NEW price \in Nat, NEW old \in Nat, old > price
               PROVE  (2 * Everything * (old - price) + old) \div (2 * old) \in 0..Everything
    OBVIOUS
  <1> DEFINE e == Everything * (old - price)
             a == 2 * Everything * (old - price) + old
             b == 2 * old
  <1>2. e \in Nat /\ e <= Everything * old
    <2>1. old - price \in Nat /\ old - price <= old OBVIOUS
    <2>2. \A n, x, y \in Nat : x <= y => n * x \in Nat /\ n * x <= n * y OBVIOUS
    <2> QED BY <1>1, <2>1, <2>2
  <1>3. a = 2 * e + old BY <1>1
  <1>4. a \in Nat /\ b \in Nat /\ b > 0 BY <1>2, <1>3
  <1>5. a < (Everything + 1) * b
    <2>1. (Everything + 1) * b = 2 * (Everything * old) + 2 * old BY <1>1
    <2>2. Everything * old \in Nat BY <1>1
    <2> HIDE DEF e, b, a
    <2> QED BY <1>2, <1>3, <2>1, <2>2
  <1> HIDE DEF a, b
  <1>6. a \div b \in Nat /\ b * (a \div b) <= a BY <1>4
  <1>7. a \div b <= Everything
    <2>1. PICK q \in Nat : q = a \div b BY <1>6
    <2>2. b * q <= a /\ a < (Everything + 1) * b BY <1>5, <1>6, <2>1
    <2>3. ASSUME q >= Everything + 1 PROVE FALSE
      <3>1. \A n, x, y \in Nat : x <= y => x * n <= y * n OBVIOUS
      <3>2. (Everything + 1) * b <= q * b BY <1>1, <1>4, <2>3, <3>1
      <3> QED BY <1>1, <1>4, <2>2, <3>2
    <2> QED BY <1>1, <2>1, <2>3
  <1> QED BY <1>1, <1>6, <1>7 DEF a, b

(* An old price is kept only if it is higher, so the discount is in range.  *)
LEMMA SalesAreHonest == ASSUME FeedInv PROVE SaleIsHonest
  <1> SUFFICES ASSUME Read("srovname_api"), NEW r \in fetched["srovname_api"].records
               PROVE  /\ r.old # None => r.old > r.price
                      /\ (r.old = None) = (r.discount = None)
                      /\ r.discount # None => r.discount \in 0..Everything
    BY DEF SaleIsHonest
  <1> USE FeedRecordsAssumption
  <1>1. r \in RecordsRead("srovname_api") /\ r.price # Refused BY WhatIsRead DEF Formats
  <1>2. PICK s \in sold : r \in SrovnameRecords(s)
    BY <1>1 DEF RecordsRead, RecordsOf
  <1>3. s.price \in Nat \cup {None} /\ s.sale \in Nat \cup {None} BY DEF FeedInv
  <1> DEFINE price == IF s.sale # None THEN s.sale ELSE s.price
             old == OldPrice(price, s.price)
  <1>4. r = Record(<<s.id, None>>, <<s.id, None>>, {}, "in_stock",
                   IF price = None THEN Refused ELSE price, old, Discount(price, old))
    BY <1>2 DEF SrovnameRecords
  <1>5. r.price = (IF price = None THEN Refused ELSE price) /\ r.old = old
        /\ r.discount = Discount(price, old)
    BY <1>4, RecordFields
  <1>6. price # None /\ price \in Nat /\ r.price = price BY <1>1, <1>3, <1>5
  <1>7. old = None \/ (old \in Nat /\ old > price) BY <1>3, <1>6 DEF OldPrice
  <1> HIDE DEF price, old
  <1>8. CASE old = None BY <1>5, <1>8 DEF Discount
  <1>9. CASE old # None
    <2>1. old \in Nat /\ old > price BY <1>7, <1>9
    <2>2. Discount(price, old) = (2 * Everything * (old - price) + old) \div (2 * old)
      BY <1>6, <1>9, <2>1 DEF Discount
    <2>3. Discount(price, old) \in 0..Everything BY <1>6, <2>1, <2>2, DiscountInRange
    <2> QED BY <1>5, <1>6, <1>9, <2>1, <2>3
  <1> QED BY <1>8, <1>9

(* A record of a feed says what the shop means by it, whatever it sells and *)
(* whatever its prices are.                                                 *)
THEOREM RecordsAreMeant == FeedSpec => []RecordAsMeant
  <1>1. FeedInit => FeedInv BY DEF FeedInit, FeedInv
  <1>2. FeedInv /\ [FeedNext]_feedVars => FeedInv'
    <2> SUFFICES ASSUME FeedInv, [FeedNext]_feedVars PROVE FeedInv' OBVIOUS
    <2>1. UNCHANGED <<sold, text>> BY DEF FeedNext, Fetch, feedVars
    <2>2. \A f \in Formats : Offers(f)' = Offers(f)
      BY <2>1 DEF Offers, RecordsOf, CsvRecords, JsonRecords, HeurekaRecords, SrovnameRecords,
                  ReadNumber, Folded, FoldsCommas
    <2>3. \A f \in Formats : fetched'[f] \in {fetched[f], Offers(f)}
      BY DEF FeedNext, Fetch, feedVars, FeedInv
    <2>4. DOMAIN fetched' = Formats BY DEF FeedNext, Fetch, feedVars, FeedInv
    <2> QED BY <2>1, <2>2, <2>3, <2>4 DEF FeedInv
  <1>3. FeedInv => RecordAsMeant
    BY NumbersAreMeant, SizesReach, SalesAreHonest DEF RecordAsMeant
  <1> QED BY <1>1, <1>2, <1>3, PTL DEF FeedSpec

-----------------------------------------------------------------------------
(* PagedListing: what a shop has all the time is fetched, and once *)

(* What a slice of a sequence holds.                                        *)
LEMMA SlicesOfSequences ==
  ASSUME NEW S
  PROVE  \A s \in Seq(S) : \A m, n \in Nat : m <= n /\ n <= Len(s) =>
            /\ SubSeq(s, m + 1, n) \in Seq(S) /\ Len(SubSeq(s, m + 1, n)) = n - m
            /\ \A i \in 1..(n - m) : SubSeq(s, m + 1, n)[i] = s[m + i]
  OBVIOUS

(* What two joined sequences hold.                                          *)
LEMMA JoinedSequences ==
  ASSUME NEW S
  PROVE  \A a, b \in Seq(S) :
            /\ a \o b \in Seq(S) /\ Len(a \o b) = Len(a) + Len(b)
            /\ \A i \in 1..Len(a) : (a \o b)[i] = a[i]
            /\ \A i \in 1..Len(b) : (a \o b)[Len(a) + i] = b[i]
  OBVIOUS

(* Without its n-th element, what comes after it moves up.                  *)
LEMMA RemovedAt ==
  ASSUME NEW S
  PROVE  \A s \in Seq(S) : \A n \in 1..Len(s) :
            /\ RemoveAt(s, n) \in Seq(S) /\ DOMAIN RemoveAt(s, n) = 1..Len(s) - 1
            /\ \A i \in 1..Len(s) - 1 :
                  RemoveAt(s, n)[i] = IF i < n THEN s[i] ELSE s[i + 1]
  <1> SUFFICES ASSUME NEW s \in Seq(S), NEW n \in 1..Len(s)
               PROVE  /\ RemoveAt(s, n) \in Seq(S) /\ DOMAIN RemoveAt(s, n) = 1..Len(s) - 1
                      /\ \A i \in 1..Len(s) - 1 :
                            RemoveAt(s, n)[i] = IF i < n THEN s[i] ELSE s[i + 1]
    OBVIOUS
  <1>1. PICK A : A = SubSeq(s, 1, n - 1) OBVIOUS
  <1>2. PICK B : B = SubSeq(s, n + 1, Len(s)) OBVIOUS
  <1>3. A \in Seq(S) /\ Len(A) = n - 1 /\ \A i \in 1..(n - 1) : A[i] = s[i] BY <1>1
  <1>4. B \in Seq(S) /\ Len(B) = Len(s) - n /\ \A i \in 1..(Len(s) - n) : B[i] = s[n + i]
    BY <1>2
  <1>5. RemoveAt(s, n) = A \o B BY <1>1, <1>2 DEF RemoveAt
  <1>6. PICK r : r = A \o B OBVIOUS
  <1>7. /\ r \in Seq(S) /\ Len(r) = Len(A) + Len(B)
        /\ \A i \in 1..Len(A) : r[i] = A[i]
        /\ \A i \in 1..Len(B) : r[Len(A) + i] = B[i]
    <2>1. A \in Seq(S) /\ B \in Seq(S) BY <1>3, <1>4
    <2> QED BY <2>1, <1>6, JoinedSequences
  <1>8. ASSUME NEW i \in 1..Len(s) - 1 PROVE r[i] = IF i < n THEN s[i] ELSE s[i + 1]
    <2>1. CASE i < n
      <3>1. i \in 1..(n - 1) BY <2>1
      <3> QED BY <1>3, <1>7, <2>1, <3>1
    <2>2. CASE i >= n
      <3>1. PICK j : j = i - (n - 1) OBVIOUS
      <3>2. j \in 1..(Len(s) - n) /\ n + j = i + 1 /\ n - 1 + j = i BY <2>2, <3>1
      <3>3. r[i] = B[j] BY <1>3, <1>4, <1>7, <3>2
      <3> QED BY <1>4, <3>2, <3>3, <2>2
    <2> QED BY <2>1, <2>2
  <1>9. Len(r) = Len(s) - 1 /\ DOMAIN r = 1..Len(r) BY <1>3, <1>4, <1>7
  <1> QED BY <1>5, <1>6, <1>7, <1>8, <1>9

(* With a new n-th element, what came from there on moves down.             *)
LEMMA InsertedAt ==
  ASSUME NEW S
  PROVE  \A s \in Seq(S), x \in S : \A n \in 1..Len(s) + 1 :
            /\ InsertAt(s, n, x) \in Seq(S) /\ DOMAIN InsertAt(s, n, x) = 1..Len(s) + 1
            /\ \A i \in 1..Len(s) + 1 :
                  InsertAt(s, n, x)[i] = IF i < n THEN s[i] ELSE IF i = n THEN x ELSE s[i - 1]
  <1> SUFFICES ASSUME NEW s \in Seq(S), NEW x \in S, NEW n \in 1..Len(s) + 1
               PROVE  /\ InsertAt(s, n, x) \in Seq(S)
                      /\ DOMAIN InsertAt(s, n, x) = 1..Len(s) + 1
                      /\ \A i \in 1..Len(s) + 1 :
                            InsertAt(s, n, x)[i]
                               = IF i < n THEN s[i] ELSE IF i = n THEN x ELSE s[i - 1]
    OBVIOUS
  <1>1. PICK A : A = SubSeq(s, 1, n - 1) OBVIOUS
  <1>2. PICK B : B = SubSeq(s, n, Len(s)) OBVIOUS
  <1>3. PICK C : C = A \o <<x>> OBVIOUS
  <1>4. A \in Seq(S) /\ Len(A) = n - 1 /\ \A i \in 1..(n - 1) : A[i] = s[i] BY <1>1
  <1>5. /\ B \in Seq(S) /\ Len(B) = Len(s) - n + 1
        /\ \A i \in 1..(Len(s) - n + 1) : B[i] = s[n - 1 + i]
    BY <1>2
  <1>6. InsertAt(s, n, x) = C \o B BY <1>1, <1>2, <1>3 DEF InsertAt
  <1>7. C \in Seq(S) /\ Len(C) = n /\ C[n] = x /\ \A i \in 1..(n - 1) : C[i] = s[i]
    BY <1>3, <1>4
  <1>8. PICK r : r = C \o B OBVIOUS
  <1>9. /\ r \in Seq(S) /\ Len(r) = Len(C) + Len(B)
        /\ \A i \in 1..Len(C) : r[i] = C[i]
        /\ \A i \in 1..Len(B) : r[Len(C) + i] = B[i]
    BY <1>5, <1>7, <1>8, JoinedSequences
  <1>10. ASSUME NEW i \in 1..Len(s) + 1
         PROVE  r[i] = IF i < n THEN s[i] ELSE IF i = n THEN x ELSE s[i - 1]
    <2>1. CASE i <= n
      <3>1. i \in 1..n /\ (i = n \/ i \in 1..(n - 1)) BY <2>1
      <3> QED BY <1>7, <1>9, <3>1
    <2>2. CASE i > n
      <3>1. PICK j : j = i - n OBVIOUS
      <3>2. j \in 1..(Len(s) - n + 1) /\ n - 1 + j = i - 1 /\ n + j = i BY <2>2, <3>1
      <3>3. r[i] = B[j] BY <1>5, <1>7, <1>9, <3>2
      <3> QED BY <1>5, <3>2, <3>3, <2>2
    <2> QED BY <2>1, <2>2
  <1>11. Len(r) = Len(s) + 1 /\ DOMAIN r = 1..Len(r) BY <1>5, <1>7, <1>9
  <1> QED BY <1>6, <1>8, <1>9, <1>10, <1>11

(* SetToSeq lists every element of a finite set once.                       *)
LEMMA OrderedSets ==
  ASSUME NEW S, IsFiniteSet(S)
  PROVE  SetToSeq(S) \in Seq(S) /\ IsInjective(SetToSeq(S))
  <1> DEFINE n == Cardinality(S)
  <1>1. n \in Nat /\ ExistsBijection(1..n, S) BY FS_CardinalityType
  <1> HIDE DEF n
  <1>2. PICK f : f \in Bijection(1..n, S) BY <1>1 DEF ExistsBijection
  <1>3. f \in [1..n -> S] /\ IsInjective(f) BY <1>2 DEF Bijection, Injection
  <1>4. SetToSeq(S) \in [1..n -> S] /\ IsInjective(SetToSeq(S)) BY <1>3 DEF SetToSeq, n
  <1> QED BY <1>1, <1>4

-----------------------------------------------------------------------------
Fetches == [pc : {"idle", "page", "done", "failed"}, page : Nat \ {0}, records : Seq(Goods),
            tellsTotal : BOOLEAN]

LeafTypeOK ==
  /\ listing \in Seq(Goods) /\ IsInjective(listing)
  /\ fetch \in Fetches
  /\ changed \in Seq({"listed", "removed"})

(* Every page that was not the last was full. *)
PagesFull == fetch.pc = "page" => Len(fetch.records) = (fetch.page - 1) * PerPage

(* Nothing that was there from the start has moved up: what stands where    *)
(* was read is among what was read.                                         *)
NoneMissed ==
  fetch.pc = "page" /\ ~Listed("removed") =>
     /\ atStart \subseteq ToSet(listing)
     /\ \A n \in DOMAIN listing :
           n <= Len(fetch.records) /\ listing[n] \in atStart
             => listing[n] \in ToSet(fetch.records)

(* Nothing that was read has moved down: what is still to be read is new. *)
NoneAgain ==
  fetch.pc = "page" /\ ~Listed("listed") =>
     /\ IsInjective(fetch.records)
     /\ \A n \in DOMAIN listing :
           n > Len(fetch.records) => listing[n] \notin ToSet(fetch.records)

LeafInv ==
  /\ LeafTypeOK /\ PagesFull /\ NoneMissed /\ NoneAgain
  /\ fetch.pc = "idle" => fetch.page = 1 /\ fetch.records = <<>>
  /\ FetchedOnce

-----------------------------------------------------------------------------
(* At first nothing is read, and the shop lists each product once.          *)
LEMMA LeafStarts == LeafInit => LeafInv
  <1> SUFFICES ASSUME LeafInit PROVE LeafInv OBVIOUS
  <1>1. PICK S \in SUBSET Goods : listing = SetToSeq(S) BY DEF LeafInit
  <1>2. IsFiniteSet(S) BY PagedListingAssumption, FS_Subset
  <1>3. listing \in Seq(Goods) /\ IsInjective(listing) BY <1>1, <1>2, OrderedSets
  <1>4. /\ fetch.pc = "idle" /\ fetch.page = 1 /\ fetch.records = <<>>
        /\ fetch.tellsTotal = FALSE /\ fetch \in Fetches
    BY DEF LeafInit, Fetches
  <1>5. changed \in Seq({"listed", "removed"}) BY DEF LeafInit
  <1> QED BY <1>3, <1>4, <1>5
          DEF LeafInv, LeafTypeOK, PagesFull, NoneMissed, NoneAgain, FetchedOnce, NothingSkipped,
              NoneTwice

(* A fetch begins with the products there are.                              *)
LEMMA StartKeeps == ASSUME LeafInv, StartLeafing PROVE LeafInv'
  <1>1. /\ fetch \in Fetches /\ fetch.pc = "idle" /\ fetch.page = 1 /\ fetch.records = <<>>
    BY DEF LeafInv, LeafTypeOK, StartLeafing
  <1>2. /\ fetch' \in Fetches /\ fetch'.pc = "page" /\ fetch'.page = 1 /\ fetch'.records = <<>>
    BY <1>1 DEF StartLeafing, Fetches
  <1>3. LeafTypeOK' BY <1>2 DEF LeafInv, LeafTypeOK, StartLeafing
  <1>4. PagesFull' BY <1>2, PagedListingAssumption DEF PagesFull
  <1>5. DOMAIN listing = 1..Len(listing) /\ Len(listing) \in Nat BY DEF LeafInv, LeafTypeOK
  <1>6. NoneMissed' BY <1>2, <1>5 DEF NoneMissed, StartLeafing, ToSet
  <1>7. NoneAgain' BY <1>2 DEF NoneAgain, IsInjective, ToSet
  <1> QED BY <1>2, <1>3, <1>4, <1>6, <1>7
          DEF LeafInv, FetchedOnce, NothingSkipped, NoneTwice

(* A page is what stands behind what was read *)
LEMMA PagesFollow ==
  ASSUME LeafInv, fetch.pc = "page"
  PROVE  LET R == Len(fetch.records)
             L == Len(listing)
             last == IF R + PerPage < L THEN R + PerPage ELSE L
             got == ListingPage(fetch.page)
         IN  /\ R \in Nat /\ L \in Nat /\ got \in Seq(Goods) /\ fetch.page * PerPage = R + PerPage
             /\ Len(got) = IF R < last THEN last - R ELSE 0
             /\ \A i \in 1..Len(got) : got[i] = listing[R + i]
  <1> DEFINE R == Len(fetch.records)
             L == Len(listing)
             last == IF R + PerPage < L THEN R + PerPage ELSE L
             p == fetch.page
  <1>1. /\ R \in Nat /\ L \in Nat /\ listing \in Seq(Goods) /\ p \in Nat \ {0}
        /\ R = (p - 1) * PerPage /\ PerPage \in Nat \ {0}
    BY PagedListingAssumption DEF LeafInv, LeafTypeOK, Fetches, PagesFull
  <1>2. p * PerPage = R + PerPage BY <1>1
  <1>3. ListingPage(p) = SubSeq(listing, R + 1, last) BY <1>1, <1>2 DEF ListingPage
  <1> HIDE DEF R, L, p
  <1>4. last \in Nat /\ last <= L BY <1>1
  <1>5. CASE R <= last
    <2> HIDE DEF last
    <2>1. /\ ListingPage(p) \in Seq(Goods) /\ Len(ListingPage(p)) = last - R
          /\ \A i \in 1..(last - R) : ListingPage(p)[i] = listing[R + i]
      BY <1>1, <1>3, <1>4, <1>5, SlicesOfSequences DEF L
    <2>2. Len(ListingPage(p)) = IF R < last THEN last - R ELSE 0 BY <1>1, <1>4, <1>5, <2>1
    <2> QED BY <1>1, <1>2, <2>1, <2>2 DEF R, L, last, p
  <1>6. CASE last < R
    <2>1. ListingPage(p) = <<>> BY <1>1, <1>3, <1>4, <1>6
    <2> QED BY <1>1, <1>2, <1>6, <2>1 DEF R, L, last, p
  <1> QED BY <1>1, <1>4, <1>5, <1>6

(* A full page moves the place read up to, any other ends the fetch.        *)
LEMMA FetchPageKeeps == ASSUME LeafInv, FetchPage PROVE LeafInv'
  <1> DEFINE R == Len(fetch.records)
             L == Len(listing)
             end == IF R + PerPage < L THEN R + PerPage ELSE L
             got == ListingPage(fetch.page)
             last == Len(got) < PerPage \/ LastPage(fetch.page) \/ R >= (MaxPages - 1) * PerPage
  <1>1. fetch.pc = "page" /\ fetch \in Fetches /\ UNCHANGED <<listing, atStart, changed>>
    BY DEF FetchPage, LeafInv, LeafTypeOK
  <1>2. /\ R \in Nat /\ L \in Nat /\ got \in Seq(Goods) /\ fetch.page * PerPage = R + PerPage
        /\ Len(got) = IF R < end THEN end - R ELSE 0
        /\ \A i \in 1..Len(got) : got[i] = listing[R + i]
    BY <1>1, PagesFollow
  <1>3. PICK records : records = fetch.records \o got OBVIOUS
  <1>4. /\ fetch.records \in Seq(Goods) /\ fetch.page \in Nat \ {0}
        /\ PerPage \in Nat \ {0} /\ MaxPages \in Nat \ {0}
    BY <1>1, PagedListingAssumption DEF Fetches
  <1>5. /\ records \in Seq(Goods) /\ Len(records) = R + Len(got)
        /\ \A i \in 1..R : records[i] = fetch.records[i]
        /\ \A i \in 1..Len(got) : records[R + i] = listing[R + i]
    <2> HIDE DEF got
    <2>1. PICK a, b \in Seq(Goods) : a = fetch.records /\ b = got BY <1>2, <1>4
    <2>2. records = a \o b BY <1>3, <2>1
    <2>3. /\ records \in Seq(Goods) /\ Len(records) = Len(a) + Len(b)
          /\ \A i \in 1..Len(a) : records[i] = a[i]
          /\ \A i \in 1..Len(b) : records[Len(a) + i] = b[i]
      BY <2>2, JoinedSequences
    <2>4. R = Len(a) /\ Len(got) = Len(b) BY <2>1
    <2> QED BY <1>2, <2>1, <2>3, <2>4
  <1>6. /\ fetch' \in Fetches /\ fetch'.records = records
        /\ fetch'.pc = IF last THEN "done" ELSE "page"
        /\ ~last => fetch'.page = fetch.page + 1
    <2>1. fetch' = [fetch EXCEPT !.pc = IF last THEN "done" ELSE "page",
                                 !.page = IF last THEN fetch.page ELSE fetch.page + 1,
                                 !.records = records]
      BY <1>3 DEF FetchPage, Following
    <2> HIDE DEF last
    <2>2. fetch.page + 1 \in Nat \ {0} BY <1>4
    <2>3. PICK pc \in {"done", "page"}, n \in Nat \ {0} :
             /\ pc = (IF last THEN "done" ELSE "page")
             /\ n = (IF last THEN fetch.page ELSE fetch.page + 1)
      BY <1>4, <2>2
    <2>4. fetch' = [fetch EXCEPT !.pc = pc, !.page = n, !.records = records] BY <2>1, <2>3
    <2>5. fetch' \in Fetches /\ fetch'.pc = pc /\ fetch'.page = n /\ fetch'.records = records
      BY <1>1, <1>5, <2>4 DEF Fetches
    <2> QED BY <2>3, <2>5
  <1>7. DOMAIN listing = 1..L /\ listing \in Seq(Goods) /\ IsInjective(listing)
    BY DEF LeafInv, LeafTypeOK
  <1> HIDE DEF R, L, got
  <1>8. Len(got) \in Nat /\ R + Len(got) >= end /\ (end < R \/ R + Len(got) = end)
    BY <1>2, <1>4
  (* Positions read so far hold what was read. *)
  <1>9. ASSUME ~Listed("removed")
        PROVE  /\ atStart \subseteq ToSet(listing)
               /\ \A n \in 1..L : n <= R + Len(got) /\ listing[n] \in atStart
                     => listing[n] \in ToSet(records)
    <2>1. /\ atStart \subseteq ToSet(listing)
          /\ \A n \in 1..L : n <= R /\ listing[n] \in atStart => listing[n] \in ToSet(fetch.records)
      BY <1>1, <1>7, <1>9 DEF LeafInv, NoneMissed, R
    <2>2. ASSUME NEW n \in 1..L, n <= R, listing[n] \in atStart
          PROVE  listing[n] \in ToSet(records)
      <3>1. PICK i \in 1..R : fetch.records[i] = listing[n] BY <2>1, <2>2, <1>4 DEF ToSet, R
      <3>2. i \in 1..Len(records) /\ records[i] = listing[n] BY <3>1, <1>2, <1>5, <1>8
      <3> QED BY <3>2, <1>5 DEF ToSet
    <2>3. ASSUME NEW n \in 1..L, n > R, n <= R + Len(got) PROVE listing[n] \in ToSet(records)
      <3>1. n - R \in 1..Len(got) /\ R + (n - R) = n BY <2>3, <1>2, <1>8
      <3>2. records[n] = listing[n] /\ n \in 1..Len(records) BY <3>1, <1>2, <1>5, <1>8
      <3> QED BY <3>2, <1>5 DEF ToSet
    <2> QED BY <2>1, <2>2, <2>3, <1>2
  <1>10. ASSUME ~Listed("listed")
         PROVE  /\ IsInjective(records)
                /\ \A n \in 1..L : n > R + Len(got) => listing[n] \notin ToSet(records)
    <2>1. /\ IsInjective(fetch.records)
          /\ \A n \in 1..L : n > R => listing[n] \notin ToSet(fetch.records)
      BY <1>1, <1>7, <1>10 DEF LeafInv, NoneAgain, R
    <2>2. ASSUME NEW i \in 1..Len(records)
          PROVE  \/ i \in 1..R /\ records[i] = fetch.records[i] /\ records[i] \in ToSet(fetch.records)
                 \/ i \in 1..L /\ i > R /\ i <= R + Len(got) /\ records[i] = listing[i]
      <3>1. CASE i <= R
        <4>1. i \in 1..R /\ records[i] = fetch.records[i] BY <3>1, <1>2, <1>5
        <4>2. i \in DOMAIN fetch.records BY <4>1, <1>4 DEF R
        <4> QED BY <4>1, <4>2 DEF ToSet
      <3>2. CASE i > R
        <4>1. i - R \in 1..Len(got) /\ R + (i - R) = i BY <3>2, <1>2, <1>5, <1>8
        <4>2. records[i] = listing[i] BY <4>1, <1>5
        <4>3. i <= R + Len(got) BY <1>2, <1>5, <1>8
        <4>4. Len(got) = end - R BY <3>2, <4>3, <1>2
        <4>5. end <= L BY <1>2, <1>4
        <4>6. i <= L BY <4>3, <4>4, <4>5, <1>2, <1>4
        <4> QED BY <3>2, <4>2, <4>3, <4>6, <1>2
      <3> QED BY <3>1, <3>2, <1>2
    <2>3. ASSUME NEW i \in 1..Len(records), NEW j \in 1..Len(records), records[i] = records[j]
          PROVE  i = j
      <3>1. CASE i \in 1..R /\ j \in 1..R /\ records[i] = fetch.records[i]
                 /\ records[j] = fetch.records[j]
        <4>1. DOMAIN fetch.records = 1..R BY <1>4 DEF R
        <4> QED BY <2>1, <2>3, <3>1, <4>1 DEF IsInjective
      <3>2. CASE i \in 1..L /\ j \in 1..L /\ records[i] = listing[i] /\ records[j] = listing[j]
        BY <2>3, <3>2, <1>7 DEF IsInjective
      <3> QED BY <2>1, <2>2, <2>3, <3>1, <3>2
    <2>4. DOMAIN records = 1..Len(records) BY <1>5
    <2>5. IsInjective(records) BY <2>3, <2>4 DEF IsInjective
    <2>6. ASSUME NEW n \in 1..L, n > R + Len(got), NEW i \in 1..Len(records),
                 records[i] = listing[n]
          PROVE  FALSE
      <3>1. n > R BY <2>6, <1>2, <1>8
      <3>2. CASE records[i] \in ToSet(fetch.records) BY <2>1, <2>6, <3>1, <3>2
      <3>3. CASE i \in 1..L /\ i <= R + Len(got) /\ records[i] = listing[i]
        <4>1. i = n BY <2>6, <3>3, <1>7 DEF IsInjective
        <4> QED BY <2>6, <3>3, <4>1, <1>2, <1>8
      <3> QED BY <2>2, <3>2, <3>3
    <2> QED BY <2>4, <2>5, <2>6 DEF ToSet
  <1>11. LeafTypeOK' BY <1>1, <1>6, <1>7 DEF LeafInv, LeafTypeOK
  <1>12. Listed("removed")' = Listed("removed") /\ Listed("listed")' = Listed("listed")
    BY <1>1 DEF Listed
  <1>13. CASE ~last
    <2>1. fetch'.pc = "page" /\ fetch'.page = fetch.page + 1 BY <1>6, <1>13
    <2>2. Len(got) >= PerPage BY <1>13, <1>4, <1>8
    <2>3. Len(got) = PerPage BY <2>2, <1>2, <1>4
    <2>4. Len(records) = (fetch'.page - 1) * PerPage BY <2>1, <2>3, <1>2, <1>4, <1>5
    <2>5. PagesFull' BY <2>4, <1>6 DEF PagesFull
    <2>6. NoneMissed' BY <1>1, <1>5, <1>6, <1>7, <1>9, <1>12 DEF NoneMissed
    <2>7. NoneAgain' BY <1>1, <1>5, <1>6, <1>7, <1>10, <1>12 DEF NoneAgain
    <2>8. FetchedOnce' BY <2>1 DEF FetchedOnce, NothingSkipped, NoneTwice
    <2> QED BY <2>1, <2>5, <2>6, <2>7, <2>8, <1>11 DEF LeafInv
  <1>14. CASE last
    <2>1. fetch'.pc = "done" BY <1>6, <1>14
    <2>2. ASSUME ~Listed("removed"), L <= MaxPages * PerPage
          PROVE  atStart \subseteq ToSet(records)
      <3>1. R + PerPage >= L
        <4>1. CASE Len(got) < PerPage BY <4>1, <1>2, <1>4
        <4>2. CASE LastPage(fetch.page) BY <4>2, <1>2, <1>4 DEF LastPage, L
        <4>3. CASE R >= (MaxPages - 1) * PerPage
          <5>1. MaxPages * PerPage = (MaxPages - 1) * PerPage + PerPage BY <1>4
          <5>2. (MaxPages - 1) * PerPage \in Nat BY <1>4
          <5> QED BY <2>2, <4>3, <5>1, <5>2, <1>2, <1>4
        <4> QED BY <1>14, <4>1, <4>2, <4>3
      <3>2. R + Len(got) >= L BY <3>1, <1>2, <1>4, <1>8
      <3>3. \A n \in 1..L : n <= R + Len(got) BY <3>2, <1>2, <1>8
      <3>4. \A x \in ToSet(listing) : \E n \in 1..L : listing[n] = x BY <1>7 DEF ToSet
      <3> QED BY <2>2, <3>3, <3>4, <1>9
    <2>3. FetchedOnce'
      BY <2>1, <2>2, <1>1, <1>6, <1>10, <1>12 DEF FetchedOnce, NothingSkipped, NoneTwice, L
    <2> QED BY <2>1, <2>3, <1>11 DEF LeafInv, PagesFull, NoneMissed, NoneAgain
  <1> QED BY <1>13, <1>14

-----------------------------------------------------------------------------
(* A change is remembered with those before it.                             *)
LEMMA ChangeGrows ==
  ASSUME LeafInv, NEW kind \in {"listed", "removed"}, Change(kind)
  PROVE  /\ fetch.pc = "page" /\ UNCHANGED <<fetch, atStart>>
         /\ changed' \in Seq({"listed", "removed"}) /\ Listed(kind)'
         /\ \A k : Listed(k) => \E n \in DOMAIN changed' : changed'[n] = k
  <1>1. /\ changed \in Seq({"listed", "removed"}) /\ changed' = Append(changed, kind)
        /\ fetch.pc = "page" /\ UNCHANGED <<fetch, atStart>>
    BY DEF Change, LeafInv, LeafTypeOK
  <1>2. /\ DOMAIN changed = 1..Len(changed) /\ Len(changed) \in Nat
        /\ DOMAIN changed' = 1..Len(changed) + 1 /\ changed'[Len(changed) + 1] = kind
        /\ \A n \in 1..Len(changed) : changed'[n] = changed[n]
    BY <1>1
  <1>3. Listed(kind)' BY <1>2 DEF Listed
  <1>4. \A k : Listed(k) => \E n \in DOMAIN changed' : changed'[n] = k BY <1>2 DEF Listed
  <1>5. changed' \in Seq({"listed", "removed"}) BY <1>1
  <1> QED BY <1>1, <1>3, <1>4, <1>5

(* A product listed anew moves others down: none is missed.                 *)
LEMMA ListingKeeps ==
  ASSUME LeafInv, NEW x \in Goods, NEW n, ShopLists(x, n)
  PROVE  LeafInv'
  <1>1. /\ fetch.pc = "page" /\ UNCHANGED <<fetch, atStart>>
        /\ changed' \in Seq({"listed", "removed"}) /\ Listed("listed")'
        /\ \A k : Listed(k) => \E i \in DOMAIN changed' : changed'[i] = k
    BY ChangeGrows DEF ShopLists
  <1>2. /\ listing \in Seq(Goods) /\ IsInjective(listing) /\ fetch \in Fetches
        /\ DOMAIN listing = 1..Len(listing) /\ Len(listing) \in Nat
    BY DEF LeafInv, LeafTypeOK
  <1>3. /\ n \in 1..Len(listing) + 1 /\ x \notin ToSet(listing)
        /\ listing' = InsertAt(listing, n, x)
    BY DEF ShopLists
  <1>4. /\ listing' \in Seq(Goods) /\ DOMAIN listing' = 1..Len(listing) + 1
        /\ \A i \in 1..Len(listing) + 1 :
              listing'[i] = IF i < n THEN listing[i] ELSE IF i = n THEN x ELSE listing[i - 1]
    <2>1. PICK r : r = InsertAt(listing, n, x) OBVIOUS
    <2>2. listing' = r BY <1>3, <2>1
    <2>3. /\ r \in Seq(Goods) /\ DOMAIN r = 1..Len(listing) + 1
          /\ \A i \in 1..Len(listing) + 1 :
                r[i] = IF i < n THEN listing[i] ELSE IF i = n THEN x ELSE listing[i - 1]
      <3>1. listing \in Seq(Goods) /\ n \in 1..Len(listing) + 1 BY <1>2, <1>3
      <3>2. /\ InsertAt(listing, n, x) \in Seq(Goods)
            /\ DOMAIN InsertAt(listing, n, x) = 1..Len(listing) + 1
            /\ \A i \in 1..Len(listing) + 1 :
                  InsertAt(listing, n, x)[i]
                     = IF i < n THEN listing[i] ELSE IF i = n THEN x ELSE listing[i - 1]
        <4>1. x \in Goods OBVIOUS
        <4> QED BY <3>1, <4>1, InsertedAt
      <3> QED BY <2>1, <3>2
    <2> QED BY <2>2, <2>3
  <1>5. \A i \in 1..Len(listing) : listing[i] # x /\ listing[i] \in ToSet(listing)
    BY <1>2, <1>3 DEF ToSet
  <1>6. IsInjective(listing')
    <2>1. ASSUME NEW i \in 1..Len(listing) + 1, NEW j \in 1..Len(listing) + 1,
                 listing'[i] = listing'[j]
          PROVE  i = j
      <3>1. CASE i = n \/ j = n BY <2>1, <3>1, <1>2, <1>3, <1>4, <1>5
      <3>2. CASE i # n /\ j # n
        <4> DEFINE f(k) == IF k < n THEN k ELSE k - 1
        <4>1. /\ f(i) \in 1..Len(listing) /\ f(j) \in 1..Len(listing)
              /\ listing'[i] = listing[f(i)] /\ listing'[j] = listing[f(j)]
          BY <3>2, <1>2, <1>3, <1>4
        <4>2. f(i) = f(j) BY <2>1, <4>1, <1>2 DEF IsInjective
        <4> QED BY <3>2, <4>2, <1>2, <1>3
      <3> QED BY <3>1, <3>2
    <2> QED BY <2>1, <1>4 DEF IsInjective
  <1>7. LeafTypeOK' BY <1>1, <1>2, <1>4, <1>6 DEF LeafTypeOK
  <1>8. PagesFull' BY <1>1 DEF PagesFull, LeafInv
  <1>9. ASSUME ~Listed("removed")'
        PROVE  /\ atStart \subseteq ToSet(listing')
               /\ \A i \in 1..Len(listing) + 1 :
                     i <= Len(fetch.records) /\ listing'[i] \in atStart
                       => listing'[i] \in ToSet(fetch.records)
    <2>1. ~Listed("removed") BY <1>1, <1>9 DEF Listed
    <2>2. /\ atStart \subseteq ToSet(listing)
          /\ \A i \in 1..Len(listing) : i <= Len(fetch.records) /\ listing[i] \in atStart
                 => listing[i] \in ToSet(fetch.records)
      BY <2>1, <1>1, <1>2 DEF LeafInv, NoneMissed
    <2>3. ASSUME NEW y \in ToSet(listing) PROVE y \in ToSet(listing')
      <3>1. PICK i \in 1..Len(listing) : listing[i] = y BY <2>3, <1>2 DEF ToSet
      <3>2. CASE i < n
        <4>1. i \in 1..Len(listing) + 1 /\ listing'[i] = y BY <3>1, <3>2, <1>2, <1>4
        <4> QED BY <4>1, <1>4 DEF ToSet
      <3>3. CASE i >= n
        <4>1. i + 1 \in 1..Len(listing) + 1 /\ listing'[i + 1] = y
          BY <3>1, <3>3, <1>2, <1>3, <1>4
        <4> QED BY <4>1, <1>4 DEF ToSet
      <3> QED BY <3>2, <3>3, <1>3, <1>2
    <2>4. ASSUME NEW i \in 1..Len(listing) + 1, i <= Len(fetch.records), listing'[i] \in atStart
          PROVE  listing'[i] \in ToSet(fetch.records)
      <3>1. x \notin atStart BY <2>2, <1>3
      <3>2. Len(fetch.records) \in Nat BY <1>2 DEF Fetches
      <3>3. CASE i < n
        <4>1. i \in 1..Len(listing) /\ listing'[i] = listing[i] BY <3>3, <1>2, <1>3, <1>4
        <4> QED BY <2>2, <2>4, <4>1
      <3>4. CASE i > n
        <4>1. /\ i - 1 \in 1..Len(listing) /\ listing'[i] = listing[i - 1]
              /\ i - 1 <= Len(fetch.records)
          BY <2>4, <3>2, <3>4, <1>2, <1>3, <1>4
        <4> QED BY <2>2, <2>4, <4>1
      <3>5. i # n BY <2>4, <3>1, <1>3, <1>4
      <3> QED BY <3>3, <3>4, <3>5, <1>2, <1>3
    <2> QED BY <2>2, <2>3, <2>4
  <1>10. NoneMissed' BY <1>1, <1>4, <1>9 DEF NoneMissed
  <1>11. NoneAgain' BY <1>1 DEF NoneAgain
  <1>12. fetch'.pc = "page" BY <1>1
  <1> QED BY <1>7, <1>8, <1>10, <1>11, <1>12
          DEF LeafInv, FetchedOnce, NothingSkipped, NoneTwice

(* A product taken away moves others up: none comes again.                  *)
LEMMA TakingAwayKeeps ==
  ASSUME LeafInv, NEW n, ShopTakesAway(n)
  PROVE  LeafInv'
  <1>1. /\ fetch.pc = "page" /\ UNCHANGED <<fetch, atStart>>
        /\ changed' \in Seq({"listed", "removed"}) /\ Listed("removed")'
        /\ \A k : Listed(k) => \E i \in DOMAIN changed' : changed'[i] = k
    BY ChangeGrows DEF ShopTakesAway
  <1>2. /\ listing \in Seq(Goods) /\ IsInjective(listing) /\ fetch \in Fetches
        /\ DOMAIN listing = 1..Len(listing) /\ Len(listing) \in Nat
    BY DEF LeafInv, LeafTypeOK
  <1>3. n \in 1..Len(listing) /\ listing' = RemoveAt(listing, n) BY <1>2 DEF ShopTakesAway
  <1>4. /\ listing' \in Seq(Goods) /\ DOMAIN listing' = 1..Len(listing) - 1
        /\ \A i \in 1..Len(listing) - 1 :
              listing'[i] = IF i < n THEN listing[i] ELSE listing[i + 1]
    <2>1. PICK r : r = RemoveAt(listing, n) OBVIOUS
    <2>2. listing' = r BY <1>3, <2>1
    <2>3. /\ r \in Seq(Goods) /\ DOMAIN r = 1..Len(listing) - 1
          /\ \A i \in 1..Len(listing) - 1 :
                r[i] = IF i < n THEN listing[i] ELSE listing[i + 1]
      BY <1>2, <1>3, <2>1, RemovedAt
    <2> QED BY <2>2, <2>3
  <1> DEFINE f(k) == IF k < n THEN k ELSE k + 1
  <1>5. \A i \in 1..Len(listing) - 1 : f(i) \in 1..Len(listing) /\ f(i) >= i
                                       /\ listing'[i] = listing[f(i)]
    BY <1>2, <1>3, <1>4
  <1>6. IsInjective(listing')
    <2>1. ASSUME NEW i \in 1..Len(listing) - 1, NEW j \in 1..Len(listing) - 1,
                 listing'[i] = listing'[j]
          PROVE  i = j
      <3>1. f(i) = f(j)
        <4> HIDE DEF f
        <4> QED BY <2>1, <1>2, <1>5 DEF IsInjective
      <3> QED BY <3>1, <1>2, <1>3
    <2> QED BY <2>1, <1>4 DEF IsInjective
  <1>7. LeafTypeOK' BY <1>1, <1>2, <1>4, <1>6 DEF LeafTypeOK
  <1>8. PagesFull' BY <1>1 DEF PagesFull, LeafInv
  <1>9. NoneMissed' BY <1>1 DEF NoneMissed
  <1>10. ASSUME ~Listed("listed")'
         PROVE  /\ IsInjective(fetch.records)
                /\ \A i \in 1..Len(listing) - 1 :
                      i > Len(fetch.records) => listing'[i] \notin ToSet(fetch.records)
    <2>1. ~Listed("listed") BY <1>1, <1>10 DEF Listed
    <2>2. /\ IsInjective(fetch.records)
          /\ \A i \in 1..Len(listing) : i > Len(fetch.records)
                => listing[i] \notin ToSet(fetch.records)
      BY <2>1, <1>1, <1>2 DEF LeafInv, NoneAgain
    <2>3. Len(fetch.records) \in Nat BY <1>2 DEF Fetches
    <2>4. ASSUME NEW i \in 1..Len(listing) - 1, i > Len(fetch.records)
          PROVE  listing'[i] \notin ToSet(fetch.records)
      <3>1. f(i) \in 1..Len(listing) /\ f(i) >= i /\ listing'[i] = listing[f(i)] BY <1>5
      <3> HIDE DEF f
      <3>2. f(i) > Len(fetch.records) BY <2>3, <2>4, <3>1, <1>2
      <3> QED BY <2>2, <3>1, <3>2
    <2> QED BY <2>2, <2>4
  <1>11. NoneAgain' BY <1>1, <1>4, <1>10 DEF NoneAgain
  <1>12. fetch'.pc = "page" BY <1>1
  <1> QED BY <1>7, <1>8, <1>9, <1>11, <1>12
          DEF LeafInv, FetchedOnce, NothingSkipped, NoneTwice

(* A fetch that fails promises nothing.                                     *)
LEMMA FailingKeeps == ASSUME LeafInv, FetchFails PROVE LeafInv'
  <1>1. fetch \in Fetches /\ UNCHANGED <<listing, atStart, changed>>
    BY DEF LeafInv, LeafTypeOK, FetchFails
  <1>2. fetch' \in Fetches /\ fetch'.pc = "failed"
    <2>1. <<>> \in Seq(Goods) OBVIOUS
    <2> QED BY <1>1, <2>1 DEF FetchFails, Fetches
  <1>3. LeafTypeOK' BY <1>1, <1>2 DEF LeafInv, LeafTypeOK
  <1> QED BY <1>2, <1>3
          DEF LeafInv, PagesFull, NoneMissed, NoneAgain, FetchedOnce, NothingSkipped, NoneTwice

(* What a shop has all the time is fetched, and once, however long its      *)
(* pages are and however often it changes meanwhile.                        *)
THEOREM FetchesAreComplete == LeafSpec => []FetchedOnce
  <1>1. LeafInv /\ [LeafNext]_leafVars => LeafInv'
    <2> SUFFICES ASSUME LeafInv, [LeafNext]_leafVars PROVE LeafInv' OBVIOUS
    <2>1. CASE UNCHANGED leafVars
      BY <2>1 DEF leafVars, LeafInv, LeafTypeOK, PagesFull, NoneMissed, NoneAgain, Listed,
                  FetchedOnce, NothingSkipped, NoneTwice
    <2> QED BY <2>1, StartKeeps, FetchPageKeeps, FailingKeeps, ListingKeeps, TakingAwayKeeps
            DEF LeafNext
  <1> QED BY <1>1, LeafStarts, PTL DEF LeafSpec, LeafInv

=============================================================================
