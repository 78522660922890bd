--------------------------- MODULE PriceAnalytics ---------------------------
(* Price snapshots and the analytics computed from them: by the writers of  *)
(* offers (a sync, the admin routes), for the product and for the product   *)
(* at its store, and by the hourly job, for products only.                  *)
(*                                                                          *)
(* Transactions are at READ COMMITTED.  Nothing makes an analytics row      *)
(* unique.  The ORM keeps the rows a session has loaded and writes the      *)
(* columns that changed against them.                                       *)
EXTENDS Naturals, FiniteSets, Sequences

CONSTANTS
    Workers,      \* sessions
    Offers, ProductOf, StoreOf,
    All,          \* the store of a row that is for all stores
    None,
    Plans,        \* offers a writer writes in one transaction, in order
    Runs,         \* products the job recomputes, in order
    Prices, High, \* High: what Existing rows and offers start with
    Existing,     \* is there a row for each key at first
    Window,       \* days a snapshot counts as recent
    AtOnce,       \* bound: sessions open at a time
    MaxNow,       \* bound: days
    MaxWrites,    \* bound: transactions of writers
    MaxRows,      \* bound: rows inserted
    MaxFaults     \* bound: sessions that break off

Products == {ProductOf[o] : o \in Offers}
Keys     ==
    {<<ProductOf[o], All>> : o \in Offers} \cup {<<ProductOf[o], StoreOf[o]>> : o \in Offers}

ASSUME PriceAnalyticsAssumption ==
    /\ IsFiniteSet(Offers) /\ DOMAIN ProductOf = Offers /\ DOMAIN StoreOf = Offers
    /\ All \notin {StoreOf[o] : o \in Offers}
    /\ Plans \subseteq Seq(Offers) /\ Runs \subseteq Seq(Products)
    /\ Prices \subseteq Nat /\ High \in Nat /\ Existing \in BOOLEAN
    /\ {Window, AtOnce, MaxNow, MaxWrites, MaxRows, MaxFaults} \subseteq Nat
    /\ Existing => Cardinality(Keys) <= MaxRows

VARIABLES
    now,
    price,        \* eur_price of an offer
    snaps,        \* price_snapshots
    rows,         \* price_analytics
    issued,       \* rows inserted so far; a row is its number
    tx,           \* what each session has in hand
    overlapped,   \* history: has a session begun while another was open
    writes, faults

vars == <<now, price, snaps, rows, issued, tx, overlapped, writes, faults>>

Columns == {"low", "recent"}

(* low: eur_min_all_time; recent stands for the minima of the windows.      *)
Row(id, key, low, recent) == [id |-> id, key |-> key, low |-> low, recent |-> recent]

Idle == [todo |-> <<>>, pc |-> "next", own |-> {}, price |-> [o \in {} |-> 0],
         view |-> {}, wrote |-> {}, held |-> {}, fresh |-> {}, found |-> <<>>, row |-> 0]

Min(S) == CHOOSE x \in S : \A y \in S : x <= y

Init ==
    /\ now = 0
    /\ price = [o \in Offers |-> High]
    /\ IF Existing
       THEN /\ snaps = {[of |-> o, price |-> High, at |-> 0] : o \in Offers}
            /\ rows = LET id == CHOOSE f \in [Keys -> 1..Cardinality(Keys)] :
                                    \A j, k \in Keys : j # k => f[j] # f[k]
                      IN  {Row(id[k], k, High, High) : k \in Keys}
            /\ issued = Cardinality(Keys)
       ELSE snaps = {} /\ rows = {} /\ issued = 0
    /\ tx = [w \in Workers |-> Idle]
    /\ overlapped = FALSE
    /\ writes = 0
    /\ faults = 0

Price(o)     == [do |-> "price", of |-> o]
Recompute(k) == [do |-> "recompute", of |-> k]

(* Mutants: only the row for all stores; and the store's row first.         *)
RecomputesAfterAll(o) == <<Recompute(<<ProductOf[o], All>>)>>
RecomputesAfterSwapped(o) ==
    <<Recompute(<<ProductOf[o], StoreOf[o]>>), Recompute(<<ProductOf[o], All>>)>>

(* recompute_offer_analytics.                                               *)
RecomputesAfter(o) ==
    <<Recompute(<<ProductOf[o], All>>), Recompute(<<ProductOf[o], StoreOf[o]>>)>>

(* Mutant: the filter on the store is dropped.                              *)
OffersOfAny(k) == {o \in Offers : ProductOf[o] = k[1]}

OffersOf(k) == {o \in Offers : ProductOf[o] = k[1] /\ k[2] \in {All, StoreOf[o]}}

SnapsOf(k, S) == {s \in S : s.of \in OffersOf(k)}

LowOf(S)    == IF S = {} THEN None ELSE Min({s.price : s \in S})
RecentOf(S) == LowOf({s \in S : s.at + Window >= now})

HeldByOthers(w) == UNION {tx[v].held : v \in Workers \ {w}}

-----------------------------------------------------------------------------
Begin(w, steps) ==
    /\ tx[w] = Idle
    /\ Cardinality({v \in Workers : tx[v] # Idle}) < AtOnce
    /\ tx' = [tx EXCEPT ![w].todo = steps]
    /\ overlapped' = (overlapped \/ \E v \in Workers : tx[v] # Idle)
    /\ UNCHANGED <<now, price, snaps, rows, issued, faults>>

StartWriting(w, plan) ==
    /\ writes < MaxWrites
    /\ writes' = writes + 1
    /\ Begin(w, [i \in DOMAIN plan |-> Price(plan[i])])

(* analytics.recompute_all; the products are in no particular order.        *)
StartJob(w, run) ==
    /\ Begin(w, [i \in DOMAIN run |-> Recompute(<<run[i], All>>)])
    /\ UNCHANGED writes

(* The offer's row is updated and locked, and the snapshot inserted.        *)
WritePrice(w) ==
    LET o == Head(tx[w].todo).of IN
    /\ tx[w].todo # <<>> /\ Head(tx[w].todo).do = "price"
    /\ o \notin HeldByOthers(w)
    /\ \E p \in Prices :
          tx' = [tx EXCEPT
            ![w].todo = RecomputesAfter(o) \o Tail(tx[w].todo),
            ![w].held = @ \cup {o},
            ![w].price = [x \in DOMAIN @ \cup {o} |-> IF x = o THEN p ELSE @[x]],
            ![w].own = @ \cup {[of |-> o, price |-> p, at |-> now]}]
    /\ UNCHANGED <<now, price, snaps, rows, issued, overlapped, writes, faults>>

(* compute_price_analytics, one query at a time: the snapshots ...          *)
ReadPrices(w) ==
    /\ tx[w].pc = "next" /\ tx[w].todo # <<>> /\ Head(tx[w].todo).do = "recompute"
    /\ LET found == SnapsOf(Head(tx[w].todo).of, snaps \cup tx[w].own)
       IN  tx' = [tx EXCEPT ![w].pc = "row", ![w].found = <<LowOf(found), RecentOf(found)>>]
    /\ UNCHANGED <<now, price, snaps, rows, issued, overlapped, writes, faults>>

(* ... the row, whichever the query returns first; one that is loaded       *)
(* already is not read again ...                                            *)
ReadRow(w) ==
    LET k    == Head(tx[w].todo).of
        mine == {r \in tx[w].view : r.key = k}
        seen == {r.id : r \in {x \in rows : x.key = k}} \cup {r.id : r \in mine}
    IN
    /\ tx[w].pc = "row"
    /\ IF seen = {}
       THEN tx' = [tx EXCEPT ![w].pc = "write", ![w].row = 0]
       ELSE \E id \in seen :
              tx' = [tx EXCEPT ![w].pc = "write", ![w].row = id,
                       ![w].view = @ \cup (IF \E r \in mine : r.id = id THEN {}
                                           ELSE {r \in rows : r.id = id})]
    /\ UNCHANGED <<now, price, snaps, rows, issued, overlapped, writes, faults>>

(* ... and the flush.  calculated_at changes every time, so the row is      *)
(* locked whatever else is written.                                         *)
WriteRow(w) ==
    LET k   == Head(tx[w].todo).of
        id  == IF tx[w].row = 0 THEN issued + 1 ELSE tx[w].row
        old == {r \in tx[w].view : r.id = id}
        new == Row(id, k, tx[w].found[1], tx[w].found[2])
        changed == {c \in Columns : \A r \in old : r[c] # new[c]}
    IN
    /\ tx[w].pc = "write"
    /\ tx[w].row = 0 => issued < MaxRows
    /\ id \notin HeldByOthers(w)
    /\ issued' = IF tx[w].row = 0 THEN issued + 1 ELSE issued
    /\ tx' = [tx EXCEPT ![w].pc = "next", ![w].todo = Tail(@), ![w].found = <<>>, ![w].row = 0,
                ![w].view = (@ \ old) \cup {new},
                ![w].wrote = @ \cup ({id} \X changed),
                ![w].held = @ \cup {id},
                ![w].fresh = @ \cup (IF tx[w].row = 0 THEN {id} ELSE {})]
    /\ UNCHANGED <<now, price, snaps, rows, overlapped, writes, faults>>

(* Mutant: a row that is there is not written again.                        *)
StoredOnce(w, r) == r

Stored(w, r) ==
    LET v == CHOOSE x \in tx[w].view : x.id = r.id
        Kept(c) == IF <<r.id, c>> \in tx[w].wrote THEN v[c] ELSE r[c]
    IN  IF r.id \in tx[w].held THEN Row(r.id, r.key, Kept("low"), Kept("recent")) ELSE r

Commit(w) ==
    /\ tx[w] # Idle /\ tx[w].todo = <<>>
    /\ price' = [o \in Offers |-> IF o \in DOMAIN tx[w].price THEN tx[w].price[o] ELSE price[o]]
    /\ snaps' = snaps \cup tx[w].own
    /\ rows' = {Stored(w, r) : r \in rows} \cup {r \in tx[w].view : r.id \in tx[w].fresh}
    /\ tx' = [tx EXCEPT ![w] = Idle]
    /\ UNCHANGED <<now, issued, overlapped, writes, faults>>

(* What a session waits for, and who has it.                                *)
Wants(w) ==
    IF tx[w].pc = "write" THEN {tx[w].row}
    ELSE IF tx[w].todo # <<>> /\ Head(tx[w].todo).do = "price" THEN {Head(tx[w].todo).of} ELSE {}

WaitsFor(v, w) == v # w /\ Wants(v) \cap tx[w].held # {}

(* Mutant: nobody breaks a circle of waiting sessions.                      *)
StuckNever(w) == FALSE

Stuck(w) == \E v \in Workers : WaitsFor(w, v) /\ WaitsFor(v, w)

(* The database ends one of two sessions that wait for each other; a worker *)
(* may also die.  Either way nothing of the transaction stays.              *)
Rollback(w) ==
    /\ tx[w] # Idle
    /\ IF Stuck(w) THEN faults' = faults ELSE faults < MaxFaults /\ faults' = faults + 1
    /\ tx' = [tx EXCEPT ![w] = Idle]
    /\ UNCHANGED <<now, price, snaps, rows, issued, overlapped, writes>>

DayPasses ==
    /\ now < MaxNow
    /\ now' = now + 1
    /\ UNCHANGED <<price, snaps, rows, issued, tx, overlapped, writes, faults>>

Step(w) == WritePrice(w) \/ ReadPrices(w) \/ ReadRow(w) \/ WriteRow(w) \/ Commit(w)

Next ==
    \/ \E w \in Workers :
          \/ \E plan \in Plans : StartWriting(w, plan)
          \/ \E run \in Runs : StartJob(w, run)
          \/ Step(w) \/ Rollback(w)
    \/ DayPasses

(* Sessions go on, and a row that is freed goes to one that waits for it;   *)
(* the database resolves deadlocks; beat starts the job.                    *)
Fairness ==
    /\ \A w \in Workers : SF_vars(Step(w)) /\ WF_vars(Stuck(w) /\ Rollback(w))
    /\ \A w \in Workers : SF_vars(\E run \in Runs : StartJob(w, run))

Spec == Init /\ [][Next]_vars /\ Fairness

-----------------------------------------------------------------------------
(* The shape of the state.                                                  *)
TypeOK ==
    LET Price0 == Prices \cup {High, None} IN
    /\ now \in 0..MaxNow
    /\ price \in [Offers -> Prices \cup {High}]
    /\ \A s \in snaps : s.of \in Offers /\ s.price \in Prices \cup {High} /\ s.at \in 0..now
    /\ rows \subseteq [id: 1..issued, key: Keys, low: Price0, recent: Price0]
    /\ issued \in 0..MaxRows
    /\ \A w \in Workers :
          /\ tx[w].pc \in {"next", "row", "write"}
          /\ tx[w].held \subseteq Offers \cup 1..issued
          /\ tx[w].fresh \subseteq 1..issued
          /\ tx[w].view \subseteq [id: 1..issued, key: Keys, low: Price0, recent: Price0]
          /\ tx[w].wrote \subseteq (1..issued) \X Columns
    /\ overlapped \in BOOLEAN /\ writes \in 0..MaxWrites /\ faults \in 0..MaxFaults

(* The all-time minimum of a row is a price the product was offered at, and *)
(* never lower than any: however sessions overlap, lose columns to each     *)
(* other and break off, no minimum is invented.                             *)
NoInventedMinimum ==
    \A r \in rows : r.low # None =>
        \E s \in snaps : /\ s.price = r.low
                         /\ ProductOf[s.of] = r.key[1]
                         /\ r.key[2] \in {All, StoreOf[s.of]}

(* As long as no two sessions have been open at once: one row per key, with *)
(* the minimum of all its snapshots, for every offer that has one - also    *)
(* while a session is open, and after some have broken off.                 *)
Exact ==
    ~overlapped =>
        /\ \A r, q \in rows : r.key = q.key => r = q
        /\ \A r \in rows : r.low = LowOf(SnapsOf(r.key, snaps))
        /\ \A k \in Keys : SnapsOf(k, snaps) # {} => \E r \in rows : r.key = k

(* Once prices stay as they are, the hourly job makes the rows of the       *)
(* products right, with the windows that have moved since.                  *)
ProductRowsRepaired ==
    <>[](\A r \in rows : r.key[2] = All =>
            r.low = LowOf(SnapsOf(r.key, snaps)) /\ r.recent = RecentOf(SnapsOf(r.key, snaps)))

(* Every transaction ends, also when sessions lock rows in opposite order.  *)
SessionsEnd == \A w \in Workers : tx[w] # Idle ~> tx[w] = Idle

(* is_historical_min, as attach_offer_flags has it: of the store's row.     *)
IsHistoricalMin(o) ==
    \E r \in rows : r.key = <<ProductOf[o], StoreOf[o]>> /\ r.low # None /\ price[o] <= r.low

(* No offer is said to be at its historical minimum while a lower price of  *)
(* its store is on record, however writers overlap: the product's row for   *)
(* all stores, that each of them locks first, keeps them apart - as long as *)
(* it is one row.  Asserted in backend/tests/test_offers.py.                *)
OneRowForAll(p) == \A r, q \in rows : r.key = <<p, All>> /\ q.key = <<p, All>> => r = q

HistoricalMinHonest ==
    \A o \in Offers : OneRowForAll(ProductOf[o]) /\ IsHistoricalMin(o) =>
        \A s \in SnapsOf(<<ProductOf[o], StoreOf[o]>>, snaps) : price[o] <= s.price

=============================================================================
