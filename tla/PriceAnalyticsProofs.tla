------------------------ MODULE PriceAnalyticsProofs ------------------------
(* Proofs about PriceAnalytics: for any offers, sessions and prices,        *)
(* whatever sessions overlap and whichever of them break off.               *)
EXTENDS PriceAnalytics, FiniteSetTheorems, TLAPS

-----------------------------------------------------------------------------
(* The shape of what a session has in hand.                                 *)
Todos == {Price(o) : o \in Offers} \cup {Recompute(k) : k \in Keys}
Lows  == Prices \cup {High, None}
Snaps == [of: Offers, price: Prices \cup {High}, at: Nat]
AnalyticsRows == [id: Nat, key: Keys, low: Lows, recent: Lows]

Txn == [todo  : Seq(Todos),
        pc    : {"next", "row", "write"},
        own   : SUBSET Snaps,
        price : UNION {[D -> Prices] : D \in SUBSET Offers},
        view  : SUBSET AnalyticsRows,
        wrote : SUBSET (Nat \X Columns),
        held  : SUBSET (Offers \cup Nat),
        fresh : SUBSET Nat,
        found : {<<>>} \cup Lows \X Lows,
        row   : Nat]

(* With n rows inserted and d days gone by.                                 *)
Shaped(t, n, d) ==
  /\ t \in Txn
  /\ t.held \subseteq Offers \cup 1..n /\ t.fresh \subseteq 1..n
  /\ t.row <= n
  /\ \A r \in t.view : r.id \in 1..n
  /\ \A p \in t.wrote : p[1] \in 1..n /\ \E r \in t.view : r.id = p[1]
  /\ \A s \in t.own : s.at <= d
  /\ t.pc # "next" => t.todo # <<>> /\ \E k \in Keys : t.todo[1] = Recompute(k)
  /\ t.pc # "next" => t.found \in Lows \X Lows

TypeInv ==
  /\ now \in 0..MaxNow /\ writes \in 0..MaxWrites /\ faults \in 0..MaxFaults
  /\ overlapped \in BOOLEAN
  /\ issued \in 0..MaxRows
  /\ price \in [Offers -> Prices \cup {High}]
  /\ snaps \subseteq Snaps /\ \A s \in snaps : s.at <= now
  /\ rows \subseteq AnalyticsRows /\ \A r \in rows : r.id \in 1..issued
  /\ tx \in [Workers -> Txn] /\ \A w \in Workers : Shaped(tx[w], issued, now)

-----------------------------------------------------------------------------
(* Minima *)

LEMMA MinExists ==
  ASSUME NEW S \in SUBSET Nat, S # {}
  PROVE  Min(S) \in S /\ \A y \in S : Min(S) <= y
  <1> DEFINE U == {0..x : x \in S}
  <1>1. U \subseteq FiniteSubsetsOf(Nat) /\ U # {}
    <2>1. ASSUME NEW x \in S PROVE 0..x \in FiniteSubsetsOf(Nat)
      <3>1. IsFiniteSet(0..x) /\ 0..x \subseteq Nat BY FS_Interval
      <3> QED BY <3>1 DEF FiniteSubsetsOf
    <2> QED BY <2>1
  <1>2. PICK I \in U : \A J \in U : ~(<<J, I>> \in StrictSubsetOrdering(Nat))
    BY <1>1, FS_StrictSubsetOrderingWellFounded, WFMin
  <1>3. PICK m \in S : I = 0..m OBVIOUS
  <1>4. \A y \in S : m <= y
    <2> SUFFICES ASSUME NEW y \in S, y < m PROVE FALSE
      OBVIOUS
    <2>1. 0..y \subseteq 0..m /\ 0..y # 0..m
      <3>1. m \in 0..m /\ m \notin 0..y OBVIOUS
      <3> QED BY <3>1
    <2>2. 0..y \in SUBSET Nat /\ 0..m \in SUBSET Nat OBVIOUS
    <2>3. <<0..y, 0..m>> \in StrictSubsetOrdering(Nat) BY <2>1, <2>2 DEF StrictSubsetOrdering
    <2>4. 0..y \in U OBVIOUS
    <2> HIDE DEF U
    <2> QED BY <1>2, <1>3, <2>3, <2>4
  <1> QED BY <1>4 DEF Min

LEMMA LowIn ==
  ASSUME NEW S \in SUBSET Snaps
  PROVE  /\ LowOf(S) \in Lows /\ RecentOf(S) \in Lows
         /\ S = {} => LowOf(S) = None
         /\ S # {} => /\ \E s \in S : s.price = LowOf(S)
                      /\ LowOf(S) \in Nat /\ \A s \in S : LowOf(S) <= s.price
  <1>1. ASSUME NEW T \in SUBSET Snaps
        PROVE  /\ LowOf(T) \in Lows
               /\ T = {} => LowOf(T) = None
               /\ T # {} => /\ \E s \in T : s.price = LowOf(T)
                            /\ LowOf(T) \in Nat /\ \A s \in T : LowOf(T) <= s.price
    <2> DEFINE P == {s.price : s \in T}
    <2>1. P \in SUBSET Nat /\ P \subseteq Lows
      BY PriceAnalyticsAssumption DEF Snaps, Lows
    <2>2. CASE T = {}
      <3>1. LowOf(T) = None BY <2>2 DEF LowOf
      <3>2. None \in Lows BY DEF Lows
      <3> QED BY <2>2, <3>1, <3>2
    <2>3. CASE T # {}
      <3>1. P # {} BY <2>3
      <3>2. Min(P) \in P /\ \A y \in P : Min(P) <= y BY <2>1, <3>1, MinExists
      <3>3. LowOf(T) = Min(P) BY <2>3 DEF LowOf
      <3> QED BY <2>1, <2>3, <3>2, <3>3
    <2> QED BY <2>2, <2>3
  <1>2. {s \in S : s.at + Window >= now} \in SUBSET Snaps OBVIOUS
  <1>3. LowOf({s \in S : s.at + Window >= now}) \in Lows BY <1>1, <1>2
  <1> QED BY <1>1, <1>3 DEF RecentOf

LEMMA KeysFinite == IsFiniteSet(Keys) /\ Cardinality(Keys) \in Nat
  <1> DEFINE A == {<<ProductOf[o], All>> : o \in Offers}
             B == {<<ProductOf[o], StoreOf[o]>> : o \in Offers}
             f == [o \in Offers |-> <<ProductOf[o], All>>]
             g == [o \in Offers |-> <<ProductOf[o], StoreOf[o]>>]
  <1>1. f \in Surjection(Offers, A) /\ g \in Surjection(Offers, B) BY DEF Surjection
  <1>2. IsFiniteSet(Offers) BY PriceAnalyticsAssumption
  <1>3. IsFiniteSet(A) /\ IsFiniteSet(B) BY <1>1, <1>2, FS_Surjection
  <1>4. Keys = A \cup B BY DEF Keys
  <1>5. IsFiniteSet(Keys) BY <1>3, <1>4, FS_Union
  <1> QED BY <1>5, FS_CardinalityType

LEMMA KeyOf ==
  ASSUME NEW o \in Offers
  PROVE  <<ProductOf[o], All>> \in Keys /\ <<ProductOf[o], StoreOf[o]>> \in Keys
         /\ StoreOf[o] # All
  BY PriceAnalyticsAssumption DEF Keys

(* The rows that are there at first have a number each.                     *)
LEMMA FirstNumbers ==
  \E f \in [Keys -> 1..Cardinality(Keys)] : \A j, k \in Keys : j # k => f[j] # f[k]
  <1> DEFINE n == Cardinality(Keys)
  <1>1. ExistsBijection(1..n, Keys) /\ n \in Nat BY KeysFinite, FS_CardinalityType
  <1>2. PICK b \in Bijection(1..n, Keys) : TRUE BY <1>1 DEF ExistsBijection
  <1>3. /\ b \in [1..n -> Keys] /\ \A k \in Keys : \E i \in 1..n : b[i] = k
    BY <1>2 DEF Bijection, Surjection
  <1> HIDE DEF n
  <1> DEFINE f == [k \in Keys |-> CHOOSE i \in 1..n : b[i] = k]
  <1>4. f \in [Keys -> 1..n] /\ \A k \in Keys : b[f[k]] = k BY <1>3
  <1>5. \A j, k \in Keys : j # k => f[j] # f[k]
    <2> HIDE DEF f
    <2> QED BY <1>4
  <1> HIDE DEF f
  <1> QED BY <1>4, <1>5 DEF n

-----------------------------------------------------------------------------
(* What each step does to the session that takes it, as facts about the     *)
(* parts of its transaction; the others keep theirs.                        *)
Alone(w) == \A x \in Workers \ {w} : tx'[x] = tx[x]

LEMMA Todo ==
  /\ \A o \in Offers : Price(o) \in Todos /\ Price(o).do = "price" /\ Price(o).of = o
  /\ \A k \in Keys : Recompute(k) \in Todos /\ Recompute(k).do = "recompute" /\ Recompute(k).of = k
  /\ \A o \in Offers : \A k : Price(o) # Recompute(k)
  /\ \A j, k : Recompute(j) = Recompute(k) => j = k
  BY DEF Todos, Price, Recompute

LEMMA TodoPrice ==
  ASSUME NEW p \in Todos, p.do = "price"
  PROVE  \E o \in Offers : p = Price(o)
  BY Todo DEF Todos

LEMMA TodoRecompute ==
  ASSUME NEW p \in Todos, p.do = "recompute"
  PROVE  \E k \in Keys : p = Recompute(k)
  BY Todo DEF Todos

LEMMA IdleIn == Idle \in Txn
  <1> DEFINE e == [o \in {} |-> 0]
  <1>1. e \in [{} -> Prices] OBVIOUS
  <1>2. e \in UNION {[D -> Prices] : D \in SUBSET Offers} BY <1>1
  <1>3. Idle = [todo |-> <<>>, pc |-> "next", own |-> {}, price |-> e, view |-> {}, wrote |-> {},
                held |-> {}, fresh |-> {}, found |-> <<>>, row |-> 0]
    BY DEF Idle
  <1> HIDE DEF e
  <1>4. <<>> \in Seq(Todos) OBVIOUS
  <1> QED BY <1>2, <1>3, <1>4 DEF Txn

BeginStep(w) ==
  /\ tx' \in [Workers -> Txn] /\ Alone(w)
  /\ tx'[w].pc = "next" /\ tx'[w].own = {} /\ tx'[w].view = {} /\ tx'[w].wrote = {}
  /\ tx'[w].held = {} /\ tx'[w].fresh = {} /\ tx'[w].row = 0
  /\ \A k \in Keys, i \in 1..Len(tx'[w].todo) : tx'[w].todo[i] = Recompute(k) => k[2] = All
  /\ UNCHANGED <<now, price, snaps, rows, issued, faults>> /\ writes' \in 0..MaxWrites
  /\ overlapped' = (overlapped \/ \E v \in Workers : tx[v] # Idle)

LEMMA BeginDoes ==
  ASSUME TypeInv, NEW w \in Workers,
         (\E plan \in Plans : StartWriting(w, plan)) \/ (\E run \in Runs : StartJob(w, run))
  PROVE  BeginStep(w)
  <1>1. tx \in [Workers -> Txn] /\ tx[w] \in Txn /\ writes \in 0..MaxWrites BY DEF TypeInv
  <1>2. ASSUME NEW steps \in Seq(Todos), Begin(w, steps),
               \A k \in Keys, i \in 1..Len(steps) : steps[i] = Recompute(k) => k[2] = All,
               writes' \in 0..MaxWrites
        PROVE  BeginStep(w)
    <2> DEFINE u == [Idle EXCEPT !.todo = steps]
    <2>1. /\ tx' = [tx EXCEPT ![w] = u] /\ UNCHANGED <<now, price, snaps, rows, issued, faults>>
          /\ overlapped' = (overlapped \/ \E v \in Workers : tx[v] # Idle)
      BY <1>1, <1>2 DEF Begin
    <2>2. /\ u.pc = "next" /\ u.own = {} /\ u.view = {} /\ u.wrote = {}
          /\ u.held = {} /\ u.fresh = {} /\ u.row = 0 /\ u.todo = steps
      BY DEF Idle
    <2>3. u \in Txn
      <3>1. Idle \in Txn BY IdleIn
      <3> QED BY <1>2, <3>1 DEF Txn
    <2> HIDE DEF u
    <2> QED BY <1>1, <1>2, <2>1, <2>2, <2>3 DEF Alone, BeginStep
  <1>3. CASE \E plan \in Plans : StartWriting(w, plan)
    <2>1. PICK plan \in Plans : StartWriting(w, plan) BY <1>3
    <2> DEFINE steps == [i \in DOMAIN plan |-> Price(plan[i])]
    <2>2. plan \in Seq(Offers) BY PriceAnalyticsAssumption
    <2>3. steps \in Seq(Todos) /\ \A i \in 1..Len(steps) : \E o \in Offers : steps[i] = Price(o)
      BY <2>2, Todo
    <2>4. Begin(w, steps) /\ writes' \in 0..MaxWrites
      <3>1. MaxWrites \in Nat BY PriceAnalyticsAssumption
      <3> QED BY <1>1, <2>1, <3>1 DEF StartWriting
    <2>5. \A k \in Keys, i \in 1..Len(steps) : steps[i] = Recompute(k) => k[2] = All
      BY <2>3, Todo
    <2> HIDE DEF steps
    <2> QED BY <1>2, <2>3, <2>4, <2>5
  <1>4. CASE \E run \in Runs : StartJob(w, run)
    <2>1. PICK run \in Runs : StartJob(w, run) BY <1>4
    <2> DEFINE steps == [i \in DOMAIN run |-> Recompute(<<run[i], All>>)]
    <2>2. run \in Seq(Products) BY PriceAnalyticsAssumption
    <2>3. \A p \in Products : <<p, All>> \in Keys BY KeyOf DEF Products
    <2>4. steps \in Seq(Todos)
      <3>1. \A p \in Products : Recompute(<<p, All>>) \in Todos BY <2>3, Todo
      <3>2. DOMAIN run = 1..Len(run) /\ Len(run) \in Nat /\ \A i \in 1..Len(run) : run[i] \in Products
        BY <2>2
      <3>3. \A i \in 1..Len(run) : steps[i] \in Todos BY <3>1, <3>2
      <3>4. steps \in [1..Len(run) -> Todos] BY <3>2, <3>3
      <3> HIDE DEF steps
      <3> QED BY <3>2, <3>4
    <2>5. Begin(w, steps) /\ writes' \in 0..MaxWrites BY <1>1, <2>1 DEF StartJob
    <2>6. \A k \in Keys, i \in 1..Len(steps) : steps[i] = Recompute(k) => k[2] = All
      <3> SUFFICES ASSUME NEW k \in Keys, NEW i \in 1..Len(steps), steps[i] = Recompute(k)
                   PROVE  k[2] = All
        OBVIOUS
      <3>1. Len(steps) = Len(run) /\ Len(run) \in Nat BY <2>2
      <3>2. Recompute(<<run[i], All>>) = Recompute(k) BY <2>2, <3>1
      <3>3. k = <<run[i], All>> BY <3>2, Todo
      <3> QED BY <3>3
    <2> HIDE DEF steps
    <2> QED BY <1>2, <2>4, <2>5, <2>6
  <1> QED BY <1>3, <1>4

PriceStep(w, o, p) ==
  /\ tx' \in [Workers -> Txn] /\ Alone(w)
  /\ tx[w].todo # <<>> /\ tx[w].todo[1] = Price(o) /\ tx[w].pc = "next"
  /\ o \notin HeldByOthers(w)
  /\ Len(tx'[w].todo) = Len(tx[w].todo) + 1
  /\ tx'[w].todo[1] = Recompute(<<ProductOf[o], All>>)
  /\ tx'[w].todo[2] = Recompute(<<ProductOf[o], StoreOf[o]>>)
  /\ \A i \in 2..Len(tx[w].todo) : tx'[w].todo[i + 1] = tx[w].todo[i]
  /\ tx'[w].held = tx[w].held \cup {o}
  /\ tx'[w].own = tx[w].own \cup {[of |-> o, price |-> p, at |-> now]}
  /\ tx'[w].pc = tx[w].pc /\ tx'[w].view = tx[w].view /\ tx'[w].wrote = tx[w].wrote
  /\ tx'[w].fresh = tx[w].fresh /\ tx'[w].row = tx[w].row
  /\ UNCHANGED <<now, price, snaps, rows, issued, overlapped, writes, faults>>

LEMMA PriceDoes ==
  ASSUME TypeInv, NEW w \in Workers, WritePrice(w)
  PROVE  \E o \in Offers, p \in Prices : PriceStep(w, o, p)
  <1> DEFINE t == tx[w]
  <1>1. tx \in [Workers -> Txn] /\ t \in Txn /\ Shaped(t, issued, now) BY DEF TypeInv
  <1>2. t.todo \in Seq(Todos) /\ t.todo # <<>> /\ Head(t.todo).do = "price" BY <1>1 DEF WritePrice, Txn
  <1>3. Head(t.todo) \in Todos /\ Head(t.todo) = t.todo[1] BY <1>2
  <1>4. PICK o \in Offers : t.todo[1] = Price(o) BY <1>2, <1>3, TodoPrice
  <1>5. Head(t.todo).of = o /\ o \notin HeldByOthers(w)
    <2>1. Head(t.todo).of = o BY <1>3, <1>4, Todo
    <2> QED BY <2>1 DEF WritePrice
  <1>6. t.pc = "next" BY <1>1, <1>4, Todo DEF Shaped
  <1> DEFINE T == RecomputesAfter(o) \o Tail(t.todo)
             H == t.held \cup {o}
  <1>7. /\ T \in Seq(Todos) /\ Len(T) = Len(t.todo) + 1
        /\ T[1] = Recompute(<<ProductOf[o], All>>) /\ T[2] = Recompute(<<ProductOf[o], StoreOf[o]>>)
        /\ \A i \in 2..Len(t.todo) : T[i + 1] = t.todo[i]
    <2> DEFINE a == Recompute(<<ProductOf[o], All>>)
               b == Recompute(<<ProductOf[o], StoreOf[o]>>)
    <2>1. a \in Todos /\ b \in Todos BY KeyOf, Todo
    <2>2. RecomputesAfter(o) = <<a, b>> BY DEF RecomputesAfter
    <2> HIDE DEF a, b
    <2>3. <<a, b>> \in Seq(Todos) /\ Tail(t.todo) \in Seq(Todos) /\ Len(Tail(t.todo)) = Len(t.todo) - 1
          /\ \A i \in 2..Len(t.todo) : Tail(t.todo)[i - 1] = t.todo[i]
      BY <1>2, <2>1
    <2> DEFINE V == Tail(t.todo)
               s == t.todo
    <2>4. s \in Seq(Todos) /\ Len(s) \in Nat BY <1>2
    <2>5. V \in Seq(Todos) /\ Len(V) = Len(s) - 1 /\ \A i \in 2..Len(s) : V[i - 1] = s[i] BY <2>3
    <2> HIDE DEF V, s, t
    <2>6. /\ <<a, b>> \o V \in Seq(Todos) /\ Len(<<a, b>> \o V) = Len(s) + 1
          /\ (<<a, b>> \o V)[1] = a /\ (<<a, b>> \o V)[2] = b
      BY <2>1, <2>4, <2>5
    <2>7. ASSUME NEW i \in 2..Len(s) PROVE (<<a, b>> \o V)[i + 1] = s[i]
      BY <2>1, <2>4, <2>5
    <2> QED BY <2>2, <2>6, <2>7 DEF a, b, V, s
  <1>8. PICK p \in Prices :
          LET P == [x \in DOMAIN t.price \cup {o} |-> IF x = o THEN p ELSE t.price[x]]
              O == t.own \cup {[of |-> o, price |-> p, at |-> now]}
          IN  tx' = [tx EXCEPT ![w] = [t EXCEPT !.todo = T, !.held = H, !.price = P, !.own = O]]
    <2>1. PICK p \in Prices :
            tx' = [tx EXCEPT
              ![w].todo = RecomputesAfter(o) \o Tail(tx[w].todo),
              ![w].held = @ \cup {o},
              ![w].price = [x \in DOMAIN @ \cup {o} |-> IF x = o THEN p ELSE @[x]],
              ![w].own = @ \cup {[of |-> o, price |-> p, at |-> now]}]
      BY <1>5 DEF WritePrice
    <2>2. LET P == [x \in DOMAIN t.price \cup {o} |-> IF x = o THEN p ELSE t.price[x]]
              O == t.own \cup {[of |-> o, price |-> p, at |-> now]}
          IN  tx' = [tx EXCEPT ![w] = [t EXCEPT !.todo = T, !.held = H, !.price = P, !.own = O]]
      <3> DEFINE P == [x \in DOMAIN t.price \cup {o} |-> IF x = o THEN p ELSE t.price[x]]
                 O == t.own \cup {[of |-> o, price |-> p, at |-> now]}
      <3>1. tx' = [tx EXCEPT ![w].todo = T, ![w].held = H, ![w].price = P, ![w].own = O]
        BY <1>1, <2>1 DEF Txn
      <3> HIDE DEF P, O, T, H
      <3>2. tx' = [tx EXCEPT ![w] = [t EXCEPT !.todo = T, !.held = H, !.price = P, !.own = O]]
        BY <1>1, <3>1 DEF Txn
      <3> QED BY <3>2 DEF P, O
    <2> QED BY <2>2
  <1> DEFINE P == [x \in DOMAIN t.price \cup {o} |-> IF x = o THEN p ELSE t.price[x]]
             O == t.own \cup {[of |-> o, price |-> p, at |-> now]}
             u == [t EXCEPT !.todo = T, !.held = H, !.price = P, !.own = O]
  <1>9. tx' = [tx EXCEPT ![w] = u] BY <1>8
  <1>10. P \in UNION {[D -> Prices] : D \in SUBSET Offers}
    <2>1. PICK D \in SUBSET Offers : t.price \in [D -> Prices] BY <1>1 DEF Txn
    <2>2. P \in [D \cup {o} -> Prices] /\ D \cup {o} \in SUBSET Offers BY <2>1
    <2> HIDE DEF P
    <2> QED BY <2>2
  <1>11. O \in SUBSET Snaps /\ H \in SUBSET (Offers \cup Nat)
    <2>1. [of |-> o, price |-> p, at |-> now] \in Snaps
      BY PriceAnalyticsAssumption DEF Snaps, TypeInv
    <2> QED BY <1>1, <2>1 DEF Txn
  <1> HIDE DEF T, H, P, O
  <1>12. /\ u \in Txn /\ u.todo = T /\ u.held = H /\ u.own = O
         /\ u.pc = t.pc /\ u.view = t.view /\ u.wrote = t.wrote /\ u.fresh = t.fresh /\ u.row = t.row
    BY <1>1, <1>7, <1>10, <1>11 DEF Txn
  <1> HIDE DEF u
  <1>13. tx' \in [Workers -> Txn] /\ Alone(w) /\ tx'[w] = u BY <1>1, <1>9, <1>12 DEF Alone
  <1>14. UNCHANGED <<now, price, snaps, rows, issued, overlapped, writes, faults>> BY DEF WritePrice
  <1> QED BY <1>2, <1>4, <1>5, <1>6, <1>7, <1>12, <1>13, <1>14 DEF H, O, PriceStep

ReadStep(w, k) ==
  /\ tx' \in [Workers -> Txn] /\ Alone(w)
  /\ tx[w].todo # <<>> /\ tx[w].todo[1] = Recompute(k) /\ tx[w].pc = "next"
  /\ tx'[w].pc = "row"
  /\ tx'[w].found \in Lows \X Lows
  /\ tx'[w].found[1] = LowOf(SnapsOf(k, snaps \cup tx[w].own))
  /\ tx'[w].todo = tx[w].todo /\ tx'[w].held = tx[w].held /\ tx'[w].own = tx[w].own
  /\ tx'[w].view = tx[w].view /\ tx'[w].wrote = tx[w].wrote
  /\ tx'[w].fresh = tx[w].fresh /\ tx'[w].row = tx[w].row
  /\ UNCHANGED <<now, price, snaps, rows, issued, overlapped, writes, faults>>

LEMMA ReadDoes ==
  ASSUME TypeInv, NEW w \in Workers, ReadPrices(w)
  PROVE  \E k \in Keys : ReadStep(w, k)
  <1> DEFINE t == tx[w]
  <1>1. tx \in [Workers -> Txn] /\ t \in Txn BY DEF TypeInv
  <1>2. t.todo \in Seq(Todos) /\ t.todo # <<>> /\ Head(t.todo).do = "recompute" /\ t.pc = "next"
    BY <1>1 DEF ReadPrices, Txn
  <1>3. Head(t.todo) \in Todos /\ Head(t.todo) = t.todo[1] BY <1>2
  <1>4. PICK k \in Keys : t.todo[1] = Recompute(k) BY <1>2, <1>3, TodoRecompute
  <1>5. Head(t.todo).of = k BY <1>3, <1>4, Todo
  <1> DEFINE S == SnapsOf(k, snaps \cup t.own)
             F == <<LowOf(S), RecentOf(S)>>
             u == [t EXCEPT !.pc = "row", !.found = F]
  <1>6. S \in SUBSET Snaps BY <1>1 DEF SnapsOf, TypeInv, Txn
  <1>7. F \in Lows \X Lows BY <1>6, LowIn
  <1>8. tx' = [tx EXCEPT ![w] = u] BY <1>1, <1>5 DEF ReadPrices
  <1>9. F[1] = LowOf(S) OBVIOUS
  <1> HIDE DEF F
  <1>10. /\ u \in Txn /\ u.pc = "row" /\ u.found = F
         /\ u.todo = t.todo /\ u.held = t.held /\ u.own = t.own /\ u.view = t.view /\ u.wrote = t.wrote
         /\ u.fresh = t.fresh /\ u.row = t.row
    BY <1>1, <1>7 DEF Txn
  <1> HIDE DEF u, S
  <1>11. tx' \in [Workers -> Txn] /\ Alone(w) /\ tx'[w] = u BY <1>1, <1>8, <1>10 DEF Alone
  <1>12. UNCHANGED <<now, price, snaps, rows, issued, overlapped, writes, faults>> BY DEF ReadPrices
  <1> QED BY <1>2, <1>4, <1>7, <1>9, <1>10, <1>11, <1>12 DEF S, ReadStep

(* There is no row of the key, or one that is loaded already, or one that   *)
(* is loaded now.                                                           *)
NoRow(w, k) ==
  tx'[w].row = 0 /\ tx'[w].view = tx[w].view /\ \A r \in rows \cup tx[w].view : r.key # k

LoadedRow(w, k, r) == r.key = k /\ tx'[w].row = r.id /\ tx'[w].view = tx[w].view

FoundRow(w, k, r) ==
  /\ r.key = k /\ tx'[w].row = r.id
  /\ \A q \in tx[w].view : q.key = k => q.id # r.id
  /\ tx'[w].view = tx[w].view \cup {q \in rows : q.id = r.id}

RowStep(w, k) ==
  /\ tx' \in [Workers -> Txn] /\ Alone(w)
  /\ tx[w].todo # <<>> /\ tx[w].todo[1] = Recompute(k) /\ tx[w].pc = "row"
  /\ tx'[w].pc = "write"
  /\ tx'[w].view \in SUBSET (tx[w].view \cup rows) /\ tx[w].view \in SUBSET tx'[w].view
  /\ \/ NoRow(w, k)
     \/ \E r \in tx[w].view : LoadedRow(w, k, r)
     \/ \E r \in rows : FoundRow(w, k, r)
  /\ tx'[w].todo = tx[w].todo /\ tx'[w].held = tx[w].held /\ tx'[w].own = tx[w].own
  /\ tx'[w].found = tx[w].found /\ tx'[w].wrote = tx[w].wrote
  /\ tx'[w].fresh = tx[w].fresh
  /\ UNCHANGED <<now, price, snaps, rows, issued, overlapped, writes, faults>>

LEMMA RowDoes ==
  ASSUME TypeInv, NEW w \in Workers, ReadRow(w)
  PROVE  \E k \in Keys : RowStep(w, k)
  <1> DEFINE t == tx[w]
  <1>1. tx \in [Workers -> Txn] /\ t \in Txn /\ Shaped(t, issued, now) BY DEF TypeInv
  <1>2. t.pc = "row" /\ t.todo \in Seq(Todos) /\ t.todo # <<>> BY <1>1 DEF ReadRow, Txn, Shaped
  <1>3. PICK k \in Keys : t.todo[1] = Recompute(k) BY <1>1, <1>2 DEF Shaped
  <1>4. Head(t.todo).of = k BY <1>2, <1>3, Todo
  <1> DEFINE mine == {r \in t.view : r.key = Head(t.todo).of}
             seen == {r.id : r \in {x \in rows : x.key = Head(t.todo).of}} \cup {r.id : r \in mine}
             More(id) == IF \E r \in mine : r.id = id THEN {} ELSE {r \in rows : r.id = id}
  <1>5. /\ t.view \subseteq AnalyticsRows /\ rows \subseteq AnalyticsRows
        /\ \A r \in AnalyticsRows : r.id \in Nat
    BY <1>1 DEF TypeInv, Txn, AnalyticsRows
  <1> DEFINE Loads(id, V) ==
        /\ tx' \in [Workers -> Txn] /\ Alone(w)
        /\ tx'[w].pc = "write" /\ tx'[w].row = id /\ tx'[w].view = V
        /\ tx'[w].todo = t.todo /\ tx'[w].held = t.held /\ tx'[w].own = t.own
        /\ tx'[w].found = t.found /\ tx'[w].wrote = t.wrote /\ tx'[w].fresh = t.fresh
  <1>6. ASSUME NEW id \in Nat, NEW V \in SUBSET AnalyticsRows,
               tx' = [tx EXCEPT ![w].pc = "write", ![w].row = id, ![w].view = V]
        PROVE  Loads(id, V)
    <2> DEFINE u == [t EXCEPT !.pc = "write", !.row = id, !.view = V]
    <2>1. /\ u \in Txn /\ u.pc = "write" /\ u.row = id /\ u.view = V
          /\ u.todo = t.todo /\ u.held = t.held /\ u.own = t.own
          /\ u.found = t.found /\ u.wrote = t.wrote /\ u.fresh = t.fresh
      BY <1>1, <1>6 DEF Txn
    <2>2. tx' = [tx EXCEPT ![w] = u] BY <1>1, <1>6 DEF Txn
    <2> HIDE DEF u
    <2> QED BY <1>1, <2>1, <2>2 DEF Alone
  <1>7. UNCHANGED <<now, price, snaps, rows, issued, overlapped, writes, faults>> BY DEF ReadRow
  <1>8. CASE seen = {}
    <2>1. tx' = [tx EXCEPT ![w].pc = "write", ![w].row = 0] BY <1>8 DEF ReadRow
    <2>2. tx' = [tx EXCEPT ![w].pc = "write", ![w].row = 0, ![w].view = t.view] BY <1>1, <2>1 DEF Txn
    <2>3. Loads(0, t.view)
      <3> HIDE DEF Loads
      <3> QED BY <1>5, <1>6, <2>2
    <2>4. \A r \in rows \cup t.view : r.key # k BY <1>4, <1>8
    <2> QED BY <1>2, <1>3, <1>7, <2>3, <2>4 DEF RowStep, NoRow
  <1>9. CASE seen # {}
    <2>1. PICK id \in seen :
            tx' = [tx EXCEPT ![w].pc = "write", ![w].row = id, ![w].view = @ \cup More(id)]
      BY <1>9 DEF ReadRow
    <2>2. id \in Nat /\ t.view \cup More(id) \in SUBSET AnalyticsRows BY <1>5
    <2>3. Loads(id, t.view \cup More(id))
      <3> DEFINE V == t.view \cup More(id)
      <3>1. tx' = [tx EXCEPT ![w].pc = "write", ![w].row = id, ![w].view = V]
        <4> HIDE DEF seen, mine, More
        <4> QED BY <1>1, <2>1 DEF Txn
      <3>2. V \in SUBSET AnalyticsRows BY <2>2
      <3> HIDE DEF Loads, V
      <3>3. Loads(id, V) BY <1>6, <2>2, <3>1, <3>2
      <3> QED BY <3>3 DEF V
    <2>4. CASE \E r \in mine : r.id = id
      <3>1. t.view \cup More(id) = t.view BY <2>4
      <3>2. Loads(id, t.view) BY <2>3, <3>1
      <3>3. PICK r \in t.view : r.key = k /\ r.id = id BY <1>4, <2>4
      <3> QED BY <1>2, <1>3, <1>7, <3>2, <3>3 DEF RowStep, LoadedRow
    <2>5. CASE ~(\E r \in mine : r.id = id)
      <3>1. PICK r \in rows : r.key = k /\ r.id = id BY <1>4, <2>5
      <3>2. \A q \in t.view : q.key = k => q.id # r.id BY <1>4, <2>5, <3>1
      <3>3. More(id) = {q \in rows : q.id = r.id} BY <2>5, <3>1
      <3>4. Loads(id, t.view \cup {q \in rows : q.id = r.id}) BY <2>3, <3>3
      <3>5. FoundRow(w, k, r) BY <3>1, <3>2, <3>4 DEF FoundRow
      <3> HIDE DEF seen, mine, More
      <3> QED BY <1>2, <1>3, <1>7, <3>4, <3>5 DEF RowStep
    <2> QED BY <2>4, <2>5
  <1> QED BY <1>8, <1>9

WriteStep(w, k, id) ==
  /\ tx' \in [Workers -> Txn] /\ Alone(w)
  /\ tx[w].todo # <<>> /\ tx[w].todo[1] = Recompute(k) /\ tx[w].pc = "write"
  /\ id = IF tx[w].row = 0 THEN issued + 1 ELSE tx[w].row
  /\ tx[w].row = 0 => issued < MaxRows
  /\ issued' = IF tx[w].row = 0 THEN issued + 1 ELSE issued
  /\ id \notin HeldByOthers(w)
  /\ tx'[w].pc = "next" /\ tx'[w].row = 0
  /\ Len(tx'[w].todo) = Len(tx[w].todo) - 1
  /\ \A i \in 1..Len(tx'[w].todo) : tx'[w].todo[i] = tx[w].todo[i + 1]
  /\ tx'[w].view = {r \in tx[w].view : r.id # id}
                     \cup {Row(id, k, tx[w].found[1], tx[w].found[2])}
  /\ tx'[w].held = tx[w].held \cup {id}
  /\ tx'[w].fresh = tx[w].fresh \cup (IF tx[w].row = 0 THEN {id} ELSE {})
  /\ tx'[w].own = tx[w].own
  /\ tx[w].wrote \subseteq tx'[w].wrote
  /\ \A p \in tx'[w].wrote : p \in tx[w].wrote \/ p[1] = id
  /\ \/ <<id, "low">> \in tx'[w].wrote
     \/ \E r \in tx[w].view : r.id = id /\ r.low = tx[w].found[1]
  /\ UNCHANGED <<now, price, snaps, rows, overlapped, writes, faults>>

LEMMA WriteDoes ==
  ASSUME TypeInv, NEW w \in Workers, WriteRow(w)
  PROVE  \E k \in Keys, id \in Nat : WriteStep(w, k, id)
  <1> DEFINE t == tx[w]
  <1>1. /\ tx \in [Workers -> Txn] /\ t \in Txn /\ Shaped(t, issued, now) /\ issued \in Nat
        /\ MaxRows \in Nat
    BY PriceAnalyticsAssumption DEF TypeInv
  <1>2. t.pc = "write" /\ t.todo \in Seq(Todos) /\ t.todo # <<>> BY <1>1 DEF WriteRow, Txn, Shaped
  <1>3. PICK k \in Keys : t.todo[1] = Recompute(k) BY <1>1, <1>2 DEF Shaped
  <1>4. Head(t.todo).of = k BY <1>2, <1>3, Todo
  <1>5. t.found \in Lows \X Lows BY <1>1, <1>2 DEF Shaped
  <1> DEFINE id  == IF t.row = 0 THEN issued + 1 ELSE t.row
             old == {r \in t.view : r.id = id}
             new == Row(id, Head(t.todo).of, t.found[1], t.found[2])
             changed == {c \in Columns : \A r \in old : r[c] # new[c]}
             T == Tail(t.todo)
             V == (t.view \ old) \cup {new}
             W == t.wrote \cup ({id} \X changed)
             H == t.held \cup {id}
             F == t.fresh \cup (IF t.row = 0 THEN {id} ELSE {})
             u == [t EXCEPT !.pc = "next", !.todo = T, !.found = <<>>, !.row = 0,
                            !.view = V, !.wrote = W, !.held = H, !.fresh = F]
  <1>6. tx' = [tx EXCEPT ![w].pc = "next", ![w].todo = T, ![w].found = <<>>, ![w].row = 0,
                         ![w].view = V, ![w].wrote = W, ![w].held = H, ![w].fresh = F]
    <2>1. tx' = [tx EXCEPT ![w].pc = "next", ![w].todo = Tail(@), ![w].found = <<>>, ![w].row = 0,
                   ![w].view = (@ \ old) \cup {new},
                   ![w].wrote = @ \cup ({id} \X changed),
                   ![w].held = @ \cup {id},
                   ![w].fresh = @ \cup (IF tx[w].row = 0 THEN {id} ELSE {})]
      BY DEF WriteRow
    <2> DEFINE a == {id} \X changed
               b == IF tx[w].row = 0 THEN {id} ELSE {}
               c == {id}
               d == {new}
    <2>2. tx' = [tx EXCEPT ![w].pc = "next", ![w].todo = Tail(@), ![w].found = <<>>, ![w].row = 0,
                   ![w].view = (@ \ old) \cup d, ![w].wrote = @ \cup a,
                   ![w].held = @ \cup c, ![w].fresh = @ \cup b]
      BY <2>1
    <2>3. V = (t.view \ old) \cup d /\ W = t.wrote \cup a /\ H = t.held \cup c /\ F = t.fresh \cup b
      OBVIOUS
    <2> HIDE DEF old, a, b, c, d, V, W, H, F
    <2> QED BY <1>1, <2>2, <2>3 DEF Txn
  <1>7. tx' = [tx EXCEPT ![w] = u]
    <2> HIDE DEF T, V, W, H, F
    <2> QED BY <1>1, <1>6 DEF Txn
  <1>8. id \in Nat /\ (t.row = 0 => issued < MaxRows) /\ id \notin HeldByOthers(w)
        /\ issued' = IF t.row = 0 THEN issued + 1 ELSE issued
    <2>1. id \in Nat BY <1>1 DEF Txn
    <2>2. (t.row = 0 => issued < MaxRows) /\ issued' = IF t.row = 0 THEN issued + 1 ELSE issued
      BY DEF WriteRow
    <2>3. id \notin HeldByOthers(w) BY DEF WriteRow
    <2> QED BY <2>1, <2>2, <2>3
  <1>9. /\ T \in Seq(Todos) /\ Len(T) = Len(t.todo) - 1
        /\ \A i \in 1..Len(T) : T[i] = t.todo[i + 1]
    <2> DEFINE s == t.todo
    <2>1. s \in Seq(Todos) /\ s # <<>> BY <1>2
    <2> HIDE DEF s, t
    <2>2. /\ Tail(s) \in Seq(Todos) /\ Len(Tail(s)) = Len(s) - 1
          /\ \A i \in 1..Len(Tail(s)) : Tail(s)[i] = s[i + 1]
      BY <2>1
    <2> QED BY <2>2 DEF s
  <1>10. new = Row(id, k, t.found[1], t.found[2]) /\ new \in AnalyticsRows
         /\ new.low = t.found[1]
    <2> HIDE DEF id
    <2> QED BY <1>4, <1>5, <1>8 DEF Row, AnalyticsRows
  <1>11. /\ V \in SUBSET AnalyticsRows /\ V = {r \in t.view : r.id # id} \cup {new}
    <2> HIDE DEF new, id
    <2> QED BY <1>1, <1>10 DEF Txn
  <1>12. /\ W \in SUBSET (Nat \X Columns) /\ t.wrote \subseteq W
         /\ \A p \in W : p \in t.wrote \/ p[1] = id
    <2> HIDE DEF new, id
    <2> QED BY <1>1, <1>8 DEF Txn
  <1>13. <<id, "low">> \in W \/ \E r \in t.view : r.id = id /\ r.low = t.found[1]
    <2>1. "low" \in Columns BY DEF Columns
    <2>2. CASE \A r \in old : r.low # new.low
      <3>1. "low" \in changed BY <2>1, <2>2
      <3> HIDE DEF changed, id
      <3> QED BY <3>1
    <2>3. CASE ~(\A r \in old : r.low # new.low)
      <3> HIDE DEF new, id
      <3> QED BY <1>10, <2>3
    <2> QED BY <2>2, <2>3
  <1>14. H \in SUBSET (Offers \cup Nat) /\ F \in SUBSET Nat
    <2> HIDE DEF id
    <2> QED BY <1>1, <1>8 DEF Txn
  <1> HIDE DEF T, V, W, H, F, id
  <1>15. /\ u \in Txn /\ u.pc = "next" /\ u.todo = T /\ u.row = 0 /\ u.view = V
         /\ u.wrote = W /\ u.held = H /\ u.fresh = F /\ u.own = t.own
    BY <1>1, <1>9, <1>11, <1>12, <1>14 DEF Txn
  <1> HIDE DEF u
  <1>16. tx' \in [Workers -> Txn] /\ Alone(w) /\ tx'[w] = u BY <1>1, <1>7, <1>15 DEF Alone
  <1>17. UNCHANGED <<now, price, snaps, rows, overlapped, writes, faults>> BY DEF WriteRow
  <1>18. V = {r \in t.view : r.id # id} \cup {Row(id, k, t.found[1], t.found[2])} BY <1>10, <1>11
  <1>19. H = t.held \cup {id} /\ F = t.fresh \cup (IF t.row = 0 THEN {id} ELSE {}) BY DEF H, F
  <1>20. id = IF t.row = 0 THEN issued + 1 ELSE t.row BY DEF id
  <1> WITNESS k \in Keys
  <1>21. id \in Nat BY <1>8
  <1> USE <1>21
  <1> WITNESS id \in Nat
  <1> QED BY <1>2, <1>3, <1>8, <1>9, <1>12, <1>13, <1>15, <1>16, <1>17, <1>18, <1>19, <1>20 DEF WriteStep

EndStep(w) ==
  /\ tx' \in [Workers -> Txn] /\ Alone(w)
  /\ tx'[w] = Idle /\ tx'[w].pc = "next" /\ tx'[w].todo = <<>> /\ tx'[w].own = {}
  /\ tx'[w].view = {} /\ tx'[w].wrote = {} /\ tx'[w].held = {} /\ tx'[w].fresh = {}
  /\ tx'[w].row = 0
  /\ UNCHANGED <<now, issued, overlapped, writes>>
  /\ Rollback(w) => UNCHANGED <<price, snaps, rows>> /\ faults' \in 0..MaxFaults
  /\ Commit(w) => UNCHANGED faults /\ snaps' = snaps \cup tx[w].own

LEMMA EndDoes ==
  ASSUME TypeInv, NEW w \in Workers, Commit(w) \/ Rollback(w)
  PROVE  EndStep(w)
  <1>1. tx \in [Workers -> Txn] /\ faults \in 0..MaxFaults /\ MaxFaults \in Nat
    BY PriceAnalyticsAssumption DEF TypeInv
  <1>2. /\ Idle \in Txn /\ Idle.pc = "next" /\ Idle.todo = <<>> /\ Idle.own = {}
        /\ Idle.view = {} /\ Idle.wrote = {} /\ Idle.held = {} /\ Idle.fresh = {} /\ Idle.row = 0
    BY IdleIn DEF Idle
  <1>3. tx' = [tx EXCEPT ![w] = Idle] BY DEF Commit, Rollback
  <1>4. tx' \in [Workers -> Txn] /\ Alone(w) /\ tx'[w] = Idle BY <1>1, <1>2, <1>3 DEF Alone
  <1>5. UNCHANGED <<now, issued, overlapped, writes>> BY DEF Commit, Rollback
  <1>6. Rollback(w) => UNCHANGED <<price, snaps, rows>> /\ faults' \in 0..MaxFaults
    BY <1>1 DEF Rollback
  <1>7. Commit(w) => UNCHANGED faults /\ snaps' = snaps \cup tx[w].own BY DEF Commit
  <1> QED BY <1>2, <1>4, <1>5, <1>6, <1>7 DEF EndStep

(* What a commit makes of a row that is there.                              *)
LEMMA StoredIs ==
  ASSUME TypeInv, NEW w \in Workers, NEW r \in rows
  PROVE  /\ Stored(w, r) \in AnalyticsRows
         /\ Stored(w, r).id = r.id /\ Stored(w, r).key = r.key
         /\ r.id \notin tx[w].held => Stored(w, r) = r
         /\ <<r.id, "low">> \notin tx[w].wrote => Stored(w, r).low = r.low
         /\ r.id \in tx[w].held /\ <<r.id, "low">> \in tx[w].wrote =>
               \E v \in tx[w].view : v.id = r.id /\ Stored(w, r).low = v.low
  <1> DEFINE t == tx[w]
             v == CHOOSE x \in t.view : x.id = r.id
             Kept(c) == IF <<r.id, c>> \in t.wrote THEN v[c] ELSE r[c]
             q == Row(r.id, r.key, Kept("low"), Kept("recent"))
  <1>1. t \in Txn /\ Shaped(t, issued, now) /\ r \in AnalyticsRows /\ t.view \subseteq AnalyticsRows
    BY DEF TypeInv, Txn
  <1>2. Stored(w, r) = IF r.id \in t.held THEN q ELSE r BY DEF Stored
  <1>3. CASE r.id \notin t.held BY <1>1, <1>2, <1>3
  <1>4. CASE r.id \in t.held
    <2>1. ASSUME NEW c \in Columns, <<r.id, c>> \in t.wrote
          PROVE  v \in t.view /\ v.id = r.id
      <3>1. \E x \in t.view : x.id = r.id
        <4>1. \E x \in t.view : x.id = <<r.id, c>>[1] BY <1>1, <2>1 DEF Shaped
        <4> QED BY <4>1
      <3> QED BY <3>1
    <2>2. ASSUME NEW x \in AnalyticsRows
          PROVE  x.low \in Lows /\ x.recent \in Lows /\ x["low"] = x.low /\ x["recent"] = x.recent
                 /\ x.id \in Nat /\ x.key \in Keys
      BY DEF AnalyticsRows
    <2> DEFINE a == Kept("low")
               b == Kept("recent")
    <2>3. a \in Lows /\ (<<r.id, "low">> \notin t.wrote => a = r.low)
          /\ (<<r.id, "low">> \in t.wrote => v \in t.view /\ v.id = r.id /\ a = v.low)
      <3>1. "low" \in Columns BY DEF Columns
      <3>2. CASE <<r.id, "low">> \in t.wrote
        <4>1. v \in t.view /\ v.id = r.id BY <2>1, <3>1, <3>2
        <4>2. a = v["low"] BY <3>2
        <4> HIDE DEF v, a
        <4> QED BY <1>1, <2>2, <3>2, <4>1, <4>2
      <3>3. CASE <<r.id, "low">> \notin t.wrote
        <4>1. a = r["low"] BY <3>3
        <4> HIDE DEF v, a
        <4> QED BY <1>1, <2>2, <3>3, <4>1
      <3> QED BY <3>2, <3>3
    <2>4. b \in Lows
      <3>1. "recent" \in Columns BY DEF Columns
      <3>2. CASE <<r.id, "recent">> \in t.wrote
        <4>1. v \in t.view /\ v.id = r.id BY <2>1, <3>1, <3>2
        <4>2. b = v["recent"] BY <3>2
        <4> HIDE DEF v, b
        <4> QED BY <1>1, <2>2, <4>1, <4>2
      <3>3. CASE <<r.id, "recent">> \notin t.wrote
        <4>1. b = r["recent"] BY <3>3
        <4> HIDE DEF v, b
        <4> QED BY <1>1, <2>2, <4>1
      <3> QED BY <3>2, <3>3
    <2>5. Stored(w, r) = Row(r.id, r.key, a, b) BY <1>2, <1>4
    <2> HIDE DEF a, b, v
    <2>6. /\ Stored(w, r) \in AnalyticsRows /\ Stored(w, r).id = r.id /\ Stored(w, r).key = r.key
          /\ Stored(w, r).low = a
      BY <1>1, <2>2, <2>3, <2>4, <2>5 DEF Row, AnalyticsRows
    <2> QED BY <1>4, <2>3, <2>6
  <1> QED BY <1>3, <1>4

LEMMA CommitDoes ==
  ASSUME TypeInv, NEW w \in Workers, Commit(w)
  PROVE  /\ tx[w].todo = <<>> /\ tx[w].pc = "next"
         /\ snaps' = snaps \cup tx[w].own
         /\ rows' = {Stored(w, r) : r \in rows} \cup {r \in tx[w].view : r.id \in tx[w].fresh}
  <1>1. Shaped(tx[w], issued, now) /\ tx[w] \in Txn BY DEF TypeInv
  <1> QED BY <1>1 DEF Commit, Shaped, Txn

-----------------------------------------------------------------------------
(* Type correctness *)

LEMMA ShapedOn ==
  ASSUME NEW t, NEW n \in Nat, NEW m \in Nat, NEW d \in Nat, NEW e \in Nat,
         Shaped(t, n, d), n <= m, d <= e
  PROVE  Shaped(t, m, e)
  <1>1. t \in Txn /\ 1..n \subseteq 1..m /\ t.row \in Nat BY DEF Shaped, Txn
  <1>2. \A s \in t.own : s.at \in Nat BY <1>1 DEF Txn, Snaps
  <1>3. \A s \in t.own : s.at <= e BY <1>2 DEF Shaped
  <1>4. t.row <= m BY <1>1 DEF Shaped
  <1>5. t.held \subseteq Offers \cup 1..m /\ t.fresh \subseteq 1..m BY <1>1 DEF Shaped
  <1> QED BY <1>1, <1>3, <1>4, <1>5 DEF Shaped

LEMMA TypeKept ==
  ASSUME TypeInv, NEW w \in Workers, tx' \in [Workers -> Txn], Alone(w),
         Shaped(tx'[w], issued', now), issued' \in issued..MaxRows,
         UNCHANGED <<now, price, snaps, rows>>, overlapped' \in BOOLEAN,
         writes' \in 0..MaxWrites, faults' \in 0..MaxFaults
  PROVE  TypeInv'
  <1>1. now \in Nat /\ issued \in Nat /\ issued' \in Nat /\ issued <= issued'
        /\ issued' \in 0..MaxRows
    BY PriceAnalyticsAssumption DEF TypeInv
  <1>2. \A x \in Workers : Shaped(tx'[x], issued', now')
    <2>1. ASSUME NEW x \in Workers, x # w PROVE Shaped(tx'[x], issued', now')
      <3>1. tx'[x] = tx[x] /\ Shaped(tx[x], issued, now) BY <2>1 DEF Alone, TypeInv
      <3> QED BY <1>1, <3>1, ShapedOn
    <2> QED BY <2>1
  <1>3. \A r \in rows' : r.id \in 1..issued' BY <1>1 DEF TypeInv
  <1> QED BY <1>1, <1>2, <1>3 DEF TypeInv

LEMMA TypeNext == TypeInv /\ [Next]_vars => TypeInv'
  <1> SUFFICES ASSUME TypeInv, [Next]_vars PROVE TypeInv'
    OBVIOUS
  <1>1. /\ now \in Nat /\ issued \in Nat /\ issued \in issued..MaxRows
        /\ MaxWrites \in Nat /\ MaxFaults \in Nat /\ MaxRows \in Nat /\ MaxNow \in Nat
        /\ writes \in 0..MaxWrites /\ faults \in 0..MaxFaults /\ issued <= MaxRows
        /\ overlapped \in BOOLEAN
    BY PriceAnalyticsAssumption DEF TypeInv
  <1>2. \A x \in Workers : tx[x] \in Txn /\ Shaped(tx[x], issued, now) BY DEF TypeInv
  <1>3. ASSUME NEW w \in Workers,
               (\E plan \in Plans : StartWriting(w, plan)) \/ (\E run \in Runs : StartJob(w, run))
        PROVE  TypeInv'
    <2>1. BeginStep(w) BY <1>3, BeginDoes
    <2>2. Shaped(tx'[w], issued', now) BY <1>1, <2>1 DEF Shaped, BeginStep
    <2>3. overlapped' \in BOOLEAN BY <2>1 DEF BeginStep
    <2> QED BY <1>1, <2>1, <2>2, <2>3, TypeKept DEF BeginStep
  <1>4. ASSUME NEW w \in Workers, WritePrice(w) PROVE TypeInv'
    <2> DEFINE t == tx[w]
               u == tx'[w]
    <2>0. PICK o \in Offers, p \in Prices : PriceStep(w, o, p) BY <1>4, PriceDoes
    <2>1. /\ tx' \in [Workers -> Txn] /\ Alone(w)
          /\ t.pc = "next"
          /\ u.held = t.held \cup {o}
          /\ u.own = t.own \cup {[of |-> o, price |-> p, at |-> now]}
          /\ u.pc = t.pc /\ u.view = t.view /\ u.wrote = t.wrote
          /\ u.fresh = t.fresh /\ u.row = t.row
          /\ UNCHANGED <<now, price, snaps, rows, issued, overlapped, writes, faults>>
      BY <2>0 DEF PriceStep
    <2>2. u \in Txn BY <2>1
    <2>3. \A s \in u.own : s.at <= now
      <3>1. [of |-> o, price |-> p, at |-> now].at = now OBVIOUS
      <3> QED BY <1>1, <1>2, <2>1, <3>1 DEF Shaped
    <2>4. Shaped(u, issued', now)
      <3> HIDE DEF u
      <3> QED BY <1>2, <2>1, <2>2, <2>3 DEF Shaped
    <2> QED BY <1>1, <2>1, <2>4, TypeKept
  <1>5. ASSUME NEW w \in Workers, ReadPrices(w) PROVE TypeInv'
    <2> DEFINE t == tx[w]
               u == tx'[w]
    <2>0. PICK k \in Keys : ReadStep(w, k) BY <1>5, ReadDoes
    <2>1. /\ tx' \in [Workers -> Txn] /\ Alone(w)
          /\ t.todo # <<>> /\ t.todo[1] = Recompute(k) /\ t.pc = "next"
          /\ u.pc = "row" /\ u.found \in Lows \X Lows
          /\ u.todo = t.todo /\ u.held = t.held /\ u.own = t.own
          /\ u.view = t.view /\ u.wrote = t.wrote
          /\ u.fresh = t.fresh /\ u.row = t.row
          /\ UNCHANGED <<now, price, snaps, rows, issued, overlapped, writes, faults>>
      BY <2>0 DEF ReadStep
    <2>2. u \in Txn BY <2>1
    <2>3. Shaped(u, issued', now)
      <3> HIDE DEF u
      <3> QED BY <1>2, <2>1, <2>2 DEF Shaped
    <2> QED BY <1>1, <2>1, <2>3, TypeKept
  <1>6. ASSUME NEW w \in Workers, ReadRow(w) PROVE TypeInv'
    <2> DEFINE t == tx[w]
               u == tx'[w]
    <2>0. PICK k \in Keys : RowStep(w, k) BY <1>6, RowDoes
    <2>1. /\ tx' \in [Workers -> Txn] /\ Alone(w)
          /\ t.todo # <<>> /\ t.todo[1] = Recompute(k) /\ t.pc = "row" /\ u.pc = "write"
          /\ t.view \subseteq u.view /\ u.view \subseteq t.view \cup rows
          /\ u.todo = t.todo /\ u.held = t.held /\ u.own = t.own
          /\ u.found = t.found /\ u.wrote = t.wrote /\ u.fresh = t.fresh
          /\ UNCHANGED <<now, price, snaps, rows, issued, overlapped, writes, faults>>
      BY <2>0 DEF RowStep
    <2>6. u.row = 0 \/ \E r \in rows \cup t.view : u.row = r.id
      BY <2>0 DEF RowStep, NoRow, LoadedRow, FoundRow
    <2>2. u \in Txn BY <2>1
    <2>3. \A r \in rows \cup t.view : r.id \in 1..issued BY <1>2 DEF TypeInv, Shaped
    <2>4. u.row <= issued /\ (\A r \in u.view : r.id \in 1..issued) /\ t.view \subseteq u.view
      BY <1>1, <2>1, <2>6, <2>3
    <2>5. Shaped(u, issued', now)
      <3> HIDE DEF u
      <3> QED BY <1>2, <2>1, <2>2, <2>4 DEF Shaped
    <2> QED BY <1>1, <2>1, <2>5, TypeKept
  <1>7. ASSUME NEW w \in Workers, WriteRow(w) PROVE TypeInv'
    <2> DEFINE t == tx[w]
               u == tx'[w]
    <2>0. PICK k \in Keys, id \in Nat : WriteStep(w, k, id) BY <1>7, WriteDoes
    <2>1. /\ tx' \in [Workers -> Txn] /\ Alone(w)
          /\ id = IF t.row = 0 THEN issued + 1 ELSE t.row
          /\ t.row = 0 => issued < MaxRows
          /\ issued' = IF t.row = 0 THEN issued + 1 ELSE issued
          /\ u.pc = "next" /\ u.row = 0
          /\ u.view = {r \in t.view : r.id # id} \cup {Row(id, k, t.found[1], t.found[2])}
          /\ u.held = t.held \cup {id}
          /\ u.fresh = t.fresh \cup (IF t.row = 0 THEN {id} ELSE {})
          /\ u.own = t.own
          /\ \A p \in u.wrote : p \in t.wrote \/ p[1] = id
          /\ UNCHANGED <<now, price, snaps, rows, overlapped, writes, faults>>
      BY <2>0 DEF WriteStep
    <2>2. u \in Txn BY <2>1
    <2>3. t.row \in Nat /\ t.row <= issued BY <1>2 DEF Shaped, Txn
    <2>4. issued' \in issued..MaxRows /\ issued' \in Nat /\ id \in 1..issued'
      BY <1>1, <2>1, <2>3
    <2>5. Shaped(t, issued', now) BY <1>1, <1>2, <2>4, ShapedOn
    <2>6. Row(id, k, t.found[1], t.found[2]).id = id BY DEF Row
    <2>7. (\A r \in u.view : r.id \in 1..issued') /\ u.row <= issued' BY <2>1, <2>4, <2>5, <2>6 DEF Shaped
    <2>8. \A p \in u.wrote : p[1] \in 1..issued' /\ \E r \in u.view : r.id = p[1]
      <3> SUFFICES ASSUME NEW p \in u.wrote PROVE p[1] \in 1..issued' /\ \E r \in u.view : r.id = p[1]
        OBVIOUS
      <3>1. CASE p[1] = id BY <2>1, <2>4, <2>6, <3>1
      <3>2. CASE p \in t.wrote /\ p[1] # id
        <4>1. p[1] \in 1..issued' /\ \E r \in t.view : r.id = p[1] BY <2>5, <3>2 DEF Shaped
        <4> QED BY <2>1, <3>2, <4>1
      <3> QED BY <2>1, <3>1, <3>2
    <2>9. u.held \subseteq Offers \cup 1..issued' /\ u.fresh \subseteq 1..issued'
          /\ (\A s \in u.own : s.at <= now)
      BY <2>1, <2>4, <2>5 DEF Shaped
    <2>10. Shaped(u, issued', now)
      <3>1. u.pc = "next" BY <2>1
      <3> HIDE DEF u
      <3> QED BY <2>2, <2>7, <2>8, <2>9, <3>1 DEF Shaped
    <2> QED BY <1>1, <2>1, <2>4, <2>10, TypeKept
  <1>8. ASSUME NEW w \in Workers, Commit(w) \/ Rollback(w) PROVE Shaped(tx'[w], issued', now)
    <2>1. EndStep(w) BY <1>8, EndDoes
    <2> QED BY <1>1, <2>1 DEF EndStep, Shaped
  <1>9. ASSUME NEW w \in Workers, Rollback(w) PROVE TypeInv'
    BY <1>1, <1>8, <1>9, EndDoes, TypeKept DEF EndStep
  <1>10. ASSUME NEW w \in Workers, Commit(w) PROVE TypeInv'
    <2>1. /\ tx' \in [Workers -> Txn] /\ Alone(w)
          /\ UNCHANGED <<now, issued, overlapped, writes, faults>> /\ snaps' = snaps \cup tx[w].own
          /\ rows' = {Stored(w, r) : r \in rows} \cup {r \in tx[w].view : r.id \in tx[w].fresh}
      BY <1>10, EndDoes, CommitDoes DEF EndStep
    <2>2. rows' \subseteq AnalyticsRows /\ \A r \in rows' : r.id \in 1..issued
      <3>1. \A r \in rows : /\ Stored(w, r) \in AnalyticsRows
                            /\ Stored(w, r).id = r.id /\ r.id \in 1..issued
        BY StoredIs DEF TypeInv
      <3>2. tx[w].view \subseteq AnalyticsRows /\ \A r \in tx[w].view : r.id \in 1..issued
        BY <1>2 DEF Txn, Shaped
      <3> QED BY <2>1, <3>1, <3>2
    <2>3. snaps' \subseteq Snaps /\ \A s \in snaps' : s.at <= now BY <1>2, <2>1 DEF TypeInv, Txn, Shaped
    <2>4. price' \in [Offers -> Prices \cup {High}]
      <3>1. PICK D \in SUBSET Offers : tx[w].price \in [D -> Prices] BY <1>2 DEF Txn
      <3>2. price' = [o \in Offers |-> IF o \in DOMAIN tx[w].price THEN tx[w].price[o] ELSE price[o]]
        BY <1>10 DEF Commit
      <3> QED BY <3>1, <3>2 DEF TypeInv
    <2>5. \A x \in Workers : Shaped(tx'[x], issued', now')
      BY <1>8, <1>10, <2>1 DEF Alone, TypeInv
    <2> QED BY <2>1, <2>2, <2>3, <2>4, <2>5 DEF TypeInv
  <1>11. CASE DayPasses
    <2>1. now' = now + 1 /\ now' \in 0..MaxNow /\ now' \in Nat /\ now <= now'
          /\ UNCHANGED <<price, snaps, rows, issued, tx, overlapped, writes, faults>>
      BY <1>1, <1>11 DEF DayPasses, TypeInv
    <2>2. \A x \in Workers : Shaped(tx'[x], issued', now')
      BY <1>1, <1>2, <2>1, ShapedOn
    <2>3. \A s \in snaps' : s.at <= now'
      <3>1. \A s \in snaps : s.at \in Nat /\ s.at <= now BY DEF TypeInv, Snaps
      <3> QED BY <1>1, <2>1, <3>1
    <2> QED BY <2>1, <2>2, <2>3 DEF TypeInv
  <1>12. CASE UNCHANGED vars BY <1>12 DEF TypeInv, vars
  <1> QED BY <1>3, <1>4, <1>5, <1>6, <1>7, <1>9, <1>10, <1>11, <1>12 DEF Next, Step

(* The rows at first, and that each of them has a number of its own.       *)
LEMMA FirstRows ==
  ASSUME Init
  PROVE  /\ IF Existing
            THEN /\ snaps = {[of |-> o, price |-> High, at |-> 0] : o \in Offers}
                 /\ issued = Cardinality(Keys)
                 /\ \E f \in [Keys -> 1..issued] :
                       /\ \A j, k \in Keys : j # k => f[j] # f[k]
                       /\ rows = {Row(f[k], k, High, High) : k \in Keys}
            ELSE snaps = {} /\ rows = {} /\ issued = 0
         /\ now = 0 /\ writes = 0 /\ faults = 0 /\ price = [o \in Offers |-> High]
         /\ tx = [w \in Workers |-> Idle] /\ overlapped = FALSE
  <1> DEFINE n == Cardinality(Keys)
             f == CHOOSE f \in [Keys -> 1..n] : \A j, k \in Keys : j # k => f[j] # f[k]
  <1>1. f \in [Keys -> 1..n] /\ \A j, k \in Keys : j # k => f[j] # f[k]
    BY FirstNumbers
  <1>2. Existing => rows = {Row(f[k], k, High, High) : k \in Keys} BY DEF Init
  <1>3. Existing => issued = n /\ snaps = {[of |-> o, price |-> High, at |-> 0] : o \in Offers}
    BY DEF Init
  <1> HIDE DEF f
  <1>4. Existing => \E g \in [Keys -> 1..n] : /\ \A j, k \in Keys : j # k => g[j] # g[k]
                                              /\ rows = {Row(g[k], k, High, High) : k \in Keys}
    BY <1>1, <1>2
  <1> HIDE DEF n
  <1>5. Existing \in BOOLEAN BY PriceAnalyticsAssumption
  <1>6. now = 0 /\ writes = 0 /\ faults = 0 /\ price = [o \in Offers |-> High]
        /\ tx = [w \in Workers |-> Idle] /\ overlapped = FALSE /\ (~Existing => snaps = {} /\ rows = {} /\ issued = 0)
    BY DEF Init
  <1> QED BY <1>3, <1>4, <1>5, <1>6 DEF n

LEMMA TypeFirst == Init => TypeInv
  <1> SUFFICES ASSUME Init PROVE TypeInv
    OBVIOUS
  <1>1. /\ now = 0 /\ writes = 0 /\ faults = 0 /\ price = [o \in Offers |-> High]
        /\ tx = [w \in Workers |-> Idle] /\ overlapped = FALSE
    BY FirstRows
  <1>2. {MaxNow, MaxWrites, MaxRows, MaxFaults} \subseteq Nat /\ Existing \in BOOLEAN /\ High \in Nat
    BY PriceAnalyticsAssumption
  <1>3. now \in 0..MaxNow /\ writes \in 0..MaxWrites /\ faults \in 0..MaxFaults
        /\ price \in [Offers -> Prices \cup {High}]
    BY <1>1, <1>2
  <1>4. /\ issued \in 0..MaxRows /\ snaps \subseteq Snaps /\ (\A s \in snaps : s.at <= now)
        /\ rows \subseteq AnalyticsRows /\ \A r \in rows : r.id \in 1..issued
    <2>1. CASE Existing
      <3>1. snaps = {[of |-> o, price |-> High, at |-> 0] : o \in Offers} /\ issued = Cardinality(Keys)
        BY <2>1, FirstRows
      <3>2. PICK f \in [Keys -> 1..issued] : rows = {Row(f[k], k, High, High) : k \in Keys}
        BY <2>1, FirstRows
      <3>3. issued \in 0..MaxRows BY <1>2, <2>1, <3>1, KeysFinite, PriceAnalyticsAssumption
      <3>4. \A o \in Offers : [of |-> o, price |-> High, at |-> 0] \in Snaps
                              /\ [of |-> o, price |-> High, at |-> 0].at = 0
        BY <1>2 DEF Snaps
      <3>5. \A k \in Keys : Row(f[k], k, High, High) \in AnalyticsRows
                            /\ Row(f[k], k, High, High).id \in 1..issued
        BY <3>2, <3>3 DEF Row, AnalyticsRows, Lows
      <3> QED BY <1>1, <3>1, <3>2, <3>3, <3>4, <3>5
    <2>2. CASE ~Existing
      <3>1. snaps = {} /\ rows = {} /\ issued = 0 BY <2>2, FirstRows
      <3> QED BY <1>2, <3>1
    <2> QED BY <1>2, <2>1, <2>2
  <1>5. Shaped(Idle, issued, now)
    <2>1. /\ Idle.pc = "next" /\ Idle.todo = <<>> /\ Idle.own = {}
          /\ Idle.view = {} /\ Idle.wrote = {} /\ Idle.held = {} /\ Idle.fresh = {} /\ Idle.row = 0
      BY DEF Idle
    <2>2. issued \in Nat BY <1>4
    <2> QED BY <2>1, <2>2, IdleIn DEF Shaped
  <1> QED BY <1>1, <1>3, <1>4, <1>5, IdleIn DEF TypeInv

LEMMA TypeAlways == Spec => []TypeInv
  BY TypeFirst, TypeNext, PTL DEF Spec

(* The state has its shape: whatever rows, snapshots and transactions there *)
(* are, a row a session has loaded or written has been inserted.            *)
THEOREM TypeCorrect == Spec => []TypeOK
  <1>1. TypeInv => TypeOK
    <2> SUFFICES ASSUME TypeInv PROVE TypeOK
      OBVIOUS
    <2>1. \A s \in snaps : s.of \in Offers /\ s.price \in Prices \cup {High} /\ s.at \in 0..now
      BY DEF TypeInv, Snaps
    <2> DEFINE Price0 == Prices \cup {High, None}
               R == [id: 1..issued, key: Keys, low: Price0, recent: Price0]
    <2>2. \A r \in AnalyticsRows : r.id \in 1..issued => r \in R BY DEF AnalyticsRows, Lows
    <2>3. rows \subseteq R BY <2>2 DEF TypeInv
    <2>4. ASSUME NEW w \in Workers
          PROVE  /\ tx[w].pc \in {"next", "row", "write"}
                 /\ tx[w].held \subseteq Offers \cup 1..issued
                 /\ tx[w].fresh \subseteq 1..issued
                 /\ tx[w].view \subseteq R
                 /\ tx[w].wrote \subseteq (1..issued) \X Columns
      <3>1. tx[w] \in Txn /\ Shaped(tx[w], issued, now) BY DEF TypeInv
      <3>2. tx[w].view \subseteq R BY <2>2, <3>1 DEF Txn, Shaped
      <3>3. tx[w].wrote \subseteq (1..issued) \X Columns BY <3>1 DEF Txn, Shaped
      <3> QED BY <3>1, <3>2, <3>3 DEF Txn, Shaped
    <2> QED BY <2>1, <2>3, <2>4 DEF TypeInv, TypeOK
  <1> QED BY <1>1, TypeAlways, PTL

-----------------------------------------------------------------------------
(* No minimum is invented *)

(* A snapshot of the key in S has this price, if there is one.              *)
Backs(low, key, S) ==
  low # None => \E s \in S : /\ s.price = low
                             /\ ProductOf[s.of] = key[1] /\ key[2] \in {All, StoreOf[s.of]}

(* A row has the same key wherever it is loaded.                            *)
OneKey ==
  \A x, y \in Workers : \A r \in rows \cup tx[x].view, q \in rows \cup tx[y].view :
     r.id = q.id => r.key = q.key

TxnBacked(t, S) ==
  /\ \A r \in t.view : Backs(r.low, r.key, S \cup t.own)
  /\ t.pc # "next" => \E k \in Keys : t.todo[1] = Recompute(k) /\ Backs(t.found[1], k, S \cup t.own)
  /\ t.pc = "write" /\ t.row # 0 => \E r \in t.view : r.id = t.row /\ t.todo[1] = Recompute(r.key)

BackedInv ==
  /\ OneKey
  /\ \A r \in rows : Backs(r.low, r.key, snaps)
  /\ \A w \in Workers : TxnBacked(tx[w], snaps)

LEMMA BacksOn ==
  ASSUME NEW S, NEW T, S \subseteq T
  PROVE  /\ \A low, key : Backs(low, key, S) => Backs(low, key, T)
         /\ \A t : TxnBacked(t, S) => TxnBacked(t, T)
  <1>1. \A low, key : Backs(low, key, S) => Backs(low, key, T) BY DEF Backs
  <1>2. ASSUME NEW t, TxnBacked(t, S) PROVE TxnBacked(t, T)
    <2>1. \A low, key : Backs(low, key, S \cup t.own) => Backs(low, key, T \cup t.own)
      BY DEF Backs
    <2> QED BY <1>2, <2>1 DEF TxnBacked
  <1> QED BY <1>1, <1>2

LEMMA OneKeyKept ==
  ASSUME OneKey,
         \A x \in Workers : \A r \in rows' \cup tx'[x].view :
            \E y \in Workers : \E q \in rows \cup tx[y].view : q.id = r.id /\ q.key = r.key
  PROVE  OneKey'
  <1> SUFFICES ASSUME NEW x \in Workers, NEW y \in Workers,
                      NEW r \in rows' \cup tx'[x].view, NEW q \in rows' \cup tx'[y].view,
                      r.id = q.id
               PROVE  r.key = q.key
    BY DEF OneKey
  <1>1. PICK v \in Workers : \E b \in rows \cup tx[v].view : b.id = r.id /\ b.key = r.key OBVIOUS
  <1>2. PICK z \in Workers : \E b \in rows \cup tx[z].view : b.id = q.id /\ b.key = q.key OBVIOUS
  <1> QED BY <1>1, <1>2 DEF OneKey

(* A step of one session that leaves the tables alone.                      *)
LEMMA BackedKept ==
  ASSUME BackedInv, NEW w \in Workers, Alone(w), UNCHANGED <<snaps, rows>>,
         TxnBacked(tx'[w], snaps), OneKey'
  PROVE  BackedInv'
  BY DEF BackedInv, Alone

LEMMA BackedNext == TypeInv /\ TypeInv' /\ BackedInv /\ [Next]_vars => BackedInv'
  <1> SUFFICES ASSUME TypeInv, TypeInv', BackedInv, [Next]_vars PROVE BackedInv'
    OBVIOUS
  <1>1. OneKey /\ \A x \in Workers : TxnBacked(tx[x], snaps) BY DEF BackedInv
  <1>2. \A x \in Workers : tx[x] \in Txn /\ Shaped(tx[x], issued, now) BY DEF TypeInv
  <1>3. ASSUME NEW w \in Workers,
               (\E plan \in Plans : StartWriting(w, plan)) \/ (\E run \in Runs : StartJob(w, run))
        PROVE  BackedInv'
    <2>1. BeginStep(w) BY <1>3, BeginDoes
    <2>2. TxnBacked(tx'[w], snaps) BY <2>1 DEF BeginStep, TxnBacked
    <2>3. OneKey' BY <1>1, <2>1, OneKeyKept DEF BeginStep, Alone
    <2> QED BY <2>1, <2>2, <2>3, BackedKept DEF BeginStep
  <1>4. ASSUME NEW w \in Workers, WritePrice(w) PROVE BackedInv'
    <2>1. PICK o \in Offers, p \in Prices : PriceStep(w, o, p) BY <1>4, PriceDoes
    <2>2. /\ Alone(w) /\ tx[w].pc = "next" /\ tx'[w].pc = "next" /\ tx'[w].view = tx[w].view
          /\ tx[w].own \subseteq tx'[w].own /\ UNCHANGED <<snaps, rows>>
      BY <2>1 DEF PriceStep
    <2>3. TxnBacked(tx'[w], snaps)
      <3>1. \A low, key : Backs(low, key, snaps \cup tx[w].own) => Backs(low, key, snaps \cup tx'[w].own)
        BY <2>2 DEF Backs
      <3> QED BY <1>1, <2>2, <3>1 DEF TxnBacked
    <2>4. OneKey' BY <1>1, <2>2, OneKeyKept DEF Alone
    <2> QED BY <2>2, <2>3, <2>4, BackedKept
  <1>5. ASSUME NEW w \in Workers, ReadPrices(w) PROVE BackedInv'
    <2>1. PICK k \in Keys : ReadStep(w, k) BY <1>5, ReadDoes
    <2>2. /\ Alone(w) /\ tx'[w].pc = "row" /\ tx'[w].view = tx[w].view /\ tx'[w].own = tx[w].own
          /\ tx'[w].todo[1] = Recompute(k)
          /\ tx'[w].found[1] = LowOf(SnapsOf(k, snaps \cup tx[w].own)) /\ UNCHANGED <<snaps, rows>>
      BY <2>1 DEF ReadStep
    <2>3. Backs(tx'[w].found[1], k, snaps \cup tx'[w].own)
      <3> DEFINE S == SnapsOf(k, snaps \cup tx[w].own)
      <3>1. S \in SUBSET Snaps BY <1>2 DEF SnapsOf, TypeInv, Txn
      <3>2. LowOf(S) # None => \E s \in S : s.price = LowOf(S) BY <3>1, LowIn
      <3>3. \A s \in S : /\ s \in snaps \cup tx[w].own
                         /\ ProductOf[s.of] = k[1] /\ k[2] \in {All, StoreOf[s.of]}
        BY DEF SnapsOf, OffersOf
      <3> HIDE DEF S
      <3> QED BY <2>2, <3>2, <3>3 DEF Backs, S
    <2>4. TxnBacked(tx'[w], snaps) BY <1>1, <2>2, <2>3 DEF TxnBacked
    <2>5. OneKey' BY <1>1, <2>2, OneKeyKept DEF Alone
    <2> QED BY <2>2, <2>4, <2>5, BackedKept
  <1>6. ASSUME NEW w \in Workers, ReadRow(w) PROVE BackedInv'
    <2>1. PICK k \in Keys : RowStep(w, k) BY <1>6, RowDoes
    <2>2. /\ Alone(w) /\ tx[w].pc = "row" /\ tx'[w].pc = "write"
          /\ tx'[w].todo = tx[w].todo /\ tx[w].todo[1] = Recompute(k)
          /\ tx'[w].own = tx[w].own /\ tx'[w].found = tx[w].found
          /\ tx'[w].view \in SUBSET (tx[w].view \cup rows) /\ UNCHANGED <<snaps, rows>>
      BY <2>1 DEF RowStep
    <2>3. \A r \in tx'[w].view : Backs(r.low, r.key, snaps \cup tx'[w].own)
      <3>1. \A r \in rows : Backs(r.low, r.key, snaps \cup tx[w].own)
        BY BacksOn, snaps \subseteq snaps \cup tx[w].own DEF BackedInv
      <3> QED BY <1>1, <2>2, <3>1 DEF TxnBacked
    <2>4. tx'[w].row # 0 => \E r \in tx'[w].view : r.id = tx'[w].row /\ r.key = k
      BY <2>1 DEF RowStep, NoRow, LoadedRow, FoundRow
    <2>5. TxnBacked(tx'[w], snaps)
      <3>1. \E j \in Keys : /\ tx[w].todo[1] = Recompute(j)
                            /\ Backs(tx[w].found[1], j, snaps \cup tx[w].own)
        BY <1>1, <2>2 DEF TxnBacked
      <3> QED BY <2>2, <2>3, <2>4, <3>1 DEF TxnBacked
    <2>6. OneKey' BY <1>1, <2>2, OneKeyKept DEF Alone
    <2> QED BY <2>2, <2>5, <2>6, BackedKept
  <1>7. ASSUME NEW w \in Workers, WriteRow(w) PROVE BackedInv'
    <2>1. PICK k \in Keys, id \in Nat : WriteStep(w, k, id) BY <1>7, WriteDoes
    <2> DEFINE new == Row(id, k, tx[w].found[1], tx[w].found[2])
    <2>2. /\ Alone(w) /\ tx[w].pc = "write" /\ tx'[w].pc = "next" /\ tx[w].todo[1] = Recompute(k)
          /\ tx'[w].own = tx[w].own /\ UNCHANGED <<snaps, rows>>
          /\ id = IF tx[w].row = 0 THEN issued + 1 ELSE tx[w].row
          /\ tx'[w].view = {r \in tx[w].view : r.id # id} \cup {new}
      BY <2>1 DEF WriteStep
    <2>3. new.id = id /\ new.key = k /\ new.low = tx[w].found[1] BY DEF Row
    <2>4. Backs(tx[w].found[1], k, snaps \cup tx[w].own)
      <3>1. PICK j \in Keys : /\ tx[w].todo[1] = Recompute(j)
                              /\ Backs(tx[w].found[1], j, snaps \cup tx[w].own)
        BY <1>1, <2>2 DEF TxnBacked
      <3>2. Recompute(j) = Recompute(k) BY <2>2, <3>1
      <3>3. j = k BY <3>2, Todo
      <3> QED BY <3>1, <3>3
    <2>5. TxnBacked(tx'[w], snaps)
      <3> HIDE DEF new
      <3> QED BY <1>1, <2>2, <2>3, <2>4 DEF TxnBacked
    <2>6. \A x \in Workers : \A r \in rows \cup tx[x].view : r.id \in Nat /\ r.id <= issued
      BY <1>2 DEF TypeInv, Shaped
    <2>7. CASE tx[w].row = 0
      <3>1. id = issued + 1 /\ issued \in Nat BY <2>2, <2>7 DEF TypeInv
      <3>2. \A x \in Workers : \A r \in rows \cup tx'[x].view :
               (r = new /\ x = w) \/ r \in rows \cup tx[x].view
        <4> HIDE DEF new
        <4> QED BY <2>2 DEF Alone
      <3>3. \A x \in Workers : \A r \in rows \cup tx[x].view : r.id # new.id
        BY <2>3, <2>6, <3>1
      <3> HIDE DEF new
      <3>4. OneKey' BY <1>1, <2>2, <3>2, <3>3 DEF OneKey
      <3> QED BY <2>2, <2>5, <3>4, BackedKept
    <2>8. CASE tx[w].row # 0
      <3>1. PICK b \in tx[w].view : b.id = id /\ b.key = k
        <4>1. PICK b \in tx[w].view : b.id = tx[w].row /\ tx[w].todo[1] = Recompute(b.key)
          BY <1>1, <2>2, <2>8 DEF TxnBacked
        <4>2. Recompute(b.key) = Recompute(k) BY <2>2, <4>1
        <4>3. b.key = k BY <4>2, Todo
        <4> QED BY <2>2, <2>8, <4>1, <4>3
      <3> HIDE DEF new
      <3>2. ASSUME NEW x \in Workers, NEW r \in rows' \cup tx'[x].view
            PROVE  \E y \in Workers : \E q \in rows \cup tx[y].view : q.id = r.id /\ q.key = r.key
        <4>1. CASE r = new BY <2>3, <3>1, <4>1
        <4>2. CASE r # new
          <5>1. r \in rows \cup tx[x].view BY <2>2, <3>2, <4>2 DEF Alone
          <5> QED BY <5>1
        <4> QED BY <4>1, <4>2
      <3>3. OneKey' BY <1>1, <3>2, OneKeyKept
      <3> QED BY <2>2, <2>5, <3>3, BackedKept
    <2> QED BY <2>7, <2>8
  <1>8. ASSUME NEW w \in Workers, Commit(w) \/ Rollback(w) PROVE \A S : TxnBacked(tx'[w], S)
    BY <1>8, EndDoes DEF EndStep, TxnBacked
  <1>9. ASSUME NEW w \in Workers, Rollback(w) PROVE BackedInv'
    <2>1. EndStep(w) BY <1>9, EndDoes
    <2>2. Alone(w) /\ UNCHANGED <<snaps, rows>> /\ tx'[w].view = {} BY <1>9, <2>1 DEF EndStep
    <2>3. OneKey' BY <1>1, <2>2, OneKeyKept DEF Alone
    <2> QED BY <1>8, <1>9, <2>2, <2>3, BackedKept
  <1>10. ASSUME NEW w \in Workers, Commit(w) PROVE BackedInv'
    <2>1. EndStep(w) BY <1>10, EndDoes
    <2>2. /\ Alone(w) /\ tx'[w].view = {} /\ snaps' = snaps \cup tx[w].own
          /\ rows' = {Stored(w, r) : r \in rows} \cup {r \in tx[w].view : r.id \in tx[w].fresh}
      BY <1>10, <2>1, CommitDoes DEF EndStep
    <2>3. ASSUME NEW r \in rows'
          PROVE  Backs(r.low, r.key, snaps') /\ \E q \in rows \cup tx[w].view : q.id = r.id /\ q.key = r.key
      <3>1. CASE r \in tx[w].view
        BY <1>1, <2>2, <3>1 DEF TxnBacked
      <3>2. CASE \E b \in rows : r = Stored(w, b)
        <4>1. PICK b \in rows : r = Stored(w, b) BY <3>2
        <4>2. r.id = b.id /\ r.key = b.key BY <4>1, StoredIs
        <4>3. CASE r.low = b.low
          <5>1. Backs(b.low, b.key, snaps) BY DEF BackedInv
          <5>2. Backs(b.low, b.key, snaps') BY <2>2, <5>1 DEF Backs
          <5> QED BY <4>2, <4>3, <5>2
        <4>4. CASE r.low # b.low
          <5>1. PICK v \in tx[w].view : v.id = b.id /\ r.low = v.low BY <4>1, <4>2, <4>4, StoredIs
          <5>2. v.key = b.key BY <1>1, <5>1 DEF OneKey
          <5>3. Backs(v.low, v.key, snaps') BY <1>1, <2>2 DEF TxnBacked
          <5> QED BY <4>2, <5>1, <5>2, <5>3
        <4> QED BY <4>3, <4>4
      <3> QED BY <2>2, <3>1, <3>2
    <2>4. OneKey'
      <3>1. ASSUME NEW x \in Workers, NEW r \in rows' \cup tx'[x].view
            PROVE  \E y \in Workers : \E q \in rows \cup tx[y].view : q.id = r.id /\ q.key = r.key
        BY <2>2, <2>3, <3>1 DEF Alone
      <3> QED BY <1>1, <3>1, OneKeyKept
    <2>5. \A x \in Workers : TxnBacked(tx'[x], snaps')
      <3>1. \A x \in Workers : TxnBacked(tx[x], snaps') BY <1>1, <2>2, BacksOn
      <3> QED BY <1>8, <1>10, <2>2, <3>1 DEF Alone
    <2> QED BY <2>3, <2>4, <2>5 DEF BackedInv
  <1>11. CASE DayPasses BY <1>11 DEF DayPasses, BackedInv, OneKey
  <1>12. CASE UNCHANGED vars BY <1>12 DEF BackedInv, OneKey, vars
  <1> QED BY <1>3, <1>4, <1>5, <1>6, <1>7, <1>9, <1>10, <1>11, <1>12 DEF Next, Step

LEMMA BackedFirst == Init => BackedInv
  <1> SUFFICES ASSUME Init PROVE BackedInv
    OBVIOUS
  <1>1. tx = [w \in Workers |-> Idle] /\ Idle.view = {} /\ Idle.pc = "next" BY FirstRows DEF Idle
  <1>2. \A w \in Workers : TxnBacked(tx[w], snaps) BY <1>1 DEF TxnBacked
  <1>3. CASE Existing
    <2>1. PICK f \in [Keys -> 1..issued] :
            /\ \A j, k \in Keys : j # k => f[j] # f[k]
            /\ rows = {Row(f[k], k, High, High) : k \in Keys}
      BY <1>3, FirstRows
    <2>2. \A k \in Keys : LET r == Row(f[k], k, High, High) IN r.id = f[k] /\ r.key = k /\ r.low = High
      BY DEF Row
    <2>3. OneKey
      <3>1. \A r, q \in rows : r.id = q.id => r.key = q.key BY <2>1, <2>2
      <3> QED BY <1>1, <3>1 DEF OneKey
    <2>4. ASSUME NEW r \in rows PROVE Backs(r.low, r.key, snaps)
      <3>1. PICK k \in Keys : r.key = k /\ r.low = High BY <2>1, <2>2
      <3>2. PICK o \in Offers : k = <<ProductOf[o], All>> \/ k = <<ProductOf[o], StoreOf[o]>>
        BY DEF Keys
      <3>3. [of |-> o, price |-> High, at |-> 0] \in snaps BY <1>3, FirstRows
      <3> QED BY <3>1, <3>2, <3>3 DEF Backs
    <2> QED BY <1>2, <2>3, <2>4 DEF BackedInv
  <1>4. CASE ~Existing
    <2>1. rows = {} BY <1>4, FirstRows
    <2> QED BY <1>1, <1>2, <2>1 DEF BackedInv, OneKey
  <1> QED BY <1>3, <1>4

LEMMA BackedAlways == Spec => []BackedInv
  <1>1. TypeInv /\ BackedInv /\ [Next]_vars => BackedInv' BY TypeNext, BackedNext
  <1> QED BY <1>1, TypeAlways, BackedFirst, PTL DEF Spec

(* However many sessions overlap, lose columns to each other and break      *)
(* off, the all-time minimum of a row is the price of a snapshot of it.     *)
THEOREM MinimaAreReal == Spec => []NoInventedMinimum
  <1>1. BackedInv => NoInventedMinimum BY DEF BackedInv, NoInventedMinimum, Backs
  <1> QED BY <1>1, BackedAlways, PTL

-----------------------------------------------------------------------------
(* The historical minimum is honest *)

(* What a minimum says of the snapshots of the key in S: it is theirs, as   *)
(* long as sessions have not overlapped; and no higher than any, otherwise. *)
Agrees(exact, low, k, S) ==
  IF exact THEN low = LowOf(SnapsOf(k, S))
  ELSE low # None => \A s \in SnapsOf(k, S) : low <= s.price

KeysOf(o) == {<<ProductOf[o], All>>, <<ProductOf[o], StoreOf[o]>>}

Pending(t, k) == \E i \in 1..Len(t.todo) : t.todo[i] = Recompute(k)

(* The session has locked a row for all stores of the product; it has       *)
(* inserted one although there is one, which its commit would show.         *)
Done(t, p) == \E v \in t.view : v.key = <<p, All>> /\ v.id \in t.held

Doomed(t, R, p) ==
  /\ \E v \in t.view : v.key = <<p, All>> /\ v.id \in t.fresh
  /\ \E r \in R : r.key = <<p, All>>

(* What a session has loaded and inserted, against the rows there are.      *)
Loaded(t, R) ==
  /\ t.fresh \subseteq t.held /\ \A p \in t.wrote : p[1] \in t.held
  /\ \A r \in R : r.id \notin t.fresh
  /\ \A u, v \in t.view : u.id = v.id => u = v
  /\ \A v \in t.view : v.id \in t.fresh \/ \E r \in R : r.id = v.id

(* The row of a store comes after the one for all stores, which is locked   *)
(* then; and a snapshot is followed by both.                                *)
Ordered(t) ==
  /\ \A i \in 1..Len(t.todo), k \in Keys :
        k[2] # All /\ t.todo[i] = Recompute(k) =>
           Done(t, k[1]) \/ \E j \in 1..i : t.todo[j] = Recompute(<<k[1], All>>)
  /\ \A v \in t.view : v.key[2] # All => Done(t, v.key[1])
  /\ \A s \in t.own : \A k \in KeysOf(s.of) : Pending(t, k) \/ \E v \in t.view : v.key = k

LockInv ==
  /\ \A r, q \in rows : r.id = q.id => r = q
  /\ \A x, y \in Workers : x # y => tx[x].held \cap tx[y].held = {}
  /\ \A w \in Workers : Loaded(tx[w], rows) /\ Ordered(tx[w])

(* What a session knows of the row k: if it is a store's, as long as the    *)
(* session has not lost the race for the one for all stores.                *)
Right(exact, t, R, S, k) ==
  /\ \A u, v \in t.view : u.key = k /\ v.key = k => u = v
  /\ \A v \in t.view : v.key = k =>
        /\ Pending(t, k) \/ Agrees(exact, v.low, k, S \cup t.own)
        /\ v.id \in t.fresh => \A r \in R : r.key # k
        /\ v.id \notin t.fresh /\ <<v.id, "low">> \notin t.wrote =>
              \A r \in R : r.id = v.id => r.low = v.low
  /\ t.pc # "next" /\ t.todo[1] = Recompute(k) => Agrees(exact, t.found[1], k, S \cup t.own)
  /\ t.pc = "write" /\ t.row = 0 /\ t.todo[1] = Recompute(k) => \A r \in R \cup t.view : r.key # k

Committed(exact, R, S, k) ==
  /\ \A r, q \in R : r.key = k /\ q.key = k => r = q
  /\ \A r \in R : r.key = k => Agrees(exact, r.low, k, S)
  /\ exact /\ SnapsOf(k, S) # {} => \E r \in R : r.key = k

HonestInv ==
  \A k \in Keys : k[2] # All /\ OneRowForAll(k[1]) =>
     /\ Committed(FALSE, rows, snaps, k)
     /\ \A w \in Workers : ~Doomed(tx[w], rows, k[1]) => Right(FALSE, tx[w], rows, snaps, k)

LEMMA OfferKeys ==
  ASSUME NEW k \in Keys, NEW o \in OffersOf(k)
  PROVE  o \in Offers /\ k \in KeysOf(o) /\ (k[2] # All => k = <<ProductOf[o], StoreOf[o]>>)
  <1>1. k = <<k[1], k[2]>> BY DEF Keys
  <1>2. o \in Offers /\ ProductOf[o] = k[1] /\ k[2] \in {All, StoreOf[o]} BY DEF OffersOf
  <1> QED BY <1>1, <1>2 DEF KeysOf

(* The next to recompute is the row of a store: the product is locked.      *)
LEMMA LedByAll ==
  ASSUME NEW t \in Txn, Ordered(t), NEW k \in Keys, k[2] # All, t.todo # <<>>,
         t.todo[1] = Recompute(k)
  PROVE  Done(t, k[1])
  <1>1. 1 \in 1..Len(t.todo) BY DEF Txn
  <1>2. Done(t, k[1]) \/ \E j \in 1..1 : t.todo[j] = Recompute(<<k[1], All>>)
    BY <1>1 DEF Ordered
  <1>3. t.todo[1] # Recompute(<<k[1], All>>)
    <2> SUFFICES ASSUME t.todo[1] = Recompute(<<k[1], All>>) PROVE FALSE
      OBVIOUS
    <2>1. Recompute(k) = Recompute(<<k[1], All>>) OBVIOUS
    <2>2. k = <<k[1], All>> BY <2>1, Todo
    <2> QED BY <2>2
  <1> QED BY <1>2, <1>3

LEMMA LockKept ==
  ASSUME LockInv, NEW w \in Workers, Alone(w), UNCHANGED rows,
         tx'[w].held \subseteq tx[w].held \/ \E x : /\ x \notin HeldByOthers(w)
                                                   /\ tx'[w].held = tx[w].held \cup {x},
         Loaded(tx'[w], rows), Ordered(tx'[w])
  PROVE  LockInv'
  <1>1. \A x \in Workers : Loaded(tx'[x], rows') /\ Ordered(tx'[x]) BY DEF LockInv, Alone
  <1>2. \A y \in Workers \ {w} : tx'[w].held \cap tx'[y].held = {}
    <2> SUFFICES ASSUME NEW y \in Workers \ {w}, NEW z \in tx'[w].held, z \in tx'[y].held
                 PROVE  FALSE
      OBVIOUS
    <2>1. z \in tx[y].held /\ z \notin tx[w].held BY DEF LockInv, Alone
    <2>2. z \in HeldByOthers(w) BY <2>1 DEF HeldByOthers
    <2> QED BY <2>1, <2>2
  <1>3. \A x, y \in Workers : x # y => tx'[x].held \cap tx'[y].held = {}
    BY <1>2 DEF LockInv, Alone
  <1>4. \A r, q \in rows' : r.id = q.id => r = q BY DEF LockInv
  <1> QED BY <1>1, <1>3, <1>4 DEF LockInv

(* The row that is written, and what the session has of it.                 *)
LEMMA Written ==
  ASSUME TypeInv, BackedInv, LockInv, NEW w \in Workers, NEW k \in Keys, NEW id \in Nat,
         WriteStep(w, k, id)
  PROVE  /\ \A v \in tx[w].view : v.id = id => v.key = k /\ tx[w].row # 0
         /\ tx[w].row = 0 => \A r \in rows : r.id # id
         /\ tx[w].row # 0 => id = tx[w].row /\ \E b \in tx[w].view : b.id = id /\ b.key = k
         /\ \A v \in tx[w].view : \E u \in tx'[w].view : u.id = v.id /\ u.key = v.key
         /\ \E u \in tx'[w].view : u.id = id /\ u.key = k
  <1> DEFINE t == tx[w]
             new == Row(id, k, t.found[1], t.found[2])
  <1>1. t \in Txn /\ Shaped(t, issued, now) /\ TxnBacked(t, snaps) /\ Loaded(t, rows) /\ OneKey
    BY DEF TypeInv, BackedInv, LockInv
  <1>2. /\ t.pc = "write" /\ t.todo[1] = Recompute(k)
        /\ id = IF t.row = 0 THEN issued + 1 ELSE t.row
        /\ tx'[w].view = {r \in t.view : r.id # id} \cup {new}
    BY DEF WriteStep
  <1>3. new.id = id /\ new.key = k BY DEF Row
  <1>4. t.row = 0 => \A r \in rows \cup t.view : r.id # id BY <1>1, <1>2 DEF TypeInv, Shaped
  <1>5. t.row # 0 => \E b \in t.view : b.id = id /\ b.key = k
    <2> SUFFICES ASSUME t.row # 0 PROVE \E b \in t.view : b.id = id /\ b.key = k
      OBVIOUS
    <2>1. PICK b \in t.view : b.id = t.row /\ t.todo[1] = Recompute(b.key)
      BY <1>1, <1>2 DEF TxnBacked
    <2>2. Recompute(b.key) = Recompute(k) BY <1>2, <2>1
    <2>3. b.key = k BY <2>2, Todo
    <2> QED BY <1>2, <2>1, <2>3
  <1>6. \A v \in t.view : v.id = id => v.key = k /\ t.row # 0
    BY <1>1, <1>4, <1>5 DEF Loaded
  <1> HIDE DEF new
  <1>7. \A v \in t.view : \E u \in tx'[w].view : u.id = v.id /\ u.key = v.key
    BY <1>2, <1>3, <1>6
  <1> QED BY <1>2, <1>3, <1>4, <1>5, <1>6, <1>7

LEMMA LockNext == TypeInv /\ TypeInv' /\ BackedInv /\ LockInv /\ [Next]_vars => LockInv'
  <1> SUFFICES ASSUME TypeInv, TypeInv', BackedInv, LockInv, [Next]_vars PROVE LockInv'
    OBVIOUS
  <1>1. \A x \in Workers : /\ tx[x] \in Txn /\ Shaped(tx[x], issued, now)
                           /\ Loaded(tx[x], rows) /\ Ordered(tx[x])
    BY DEF TypeInv, LockInv
  <1>2. \A x \in Workers : tx[x].todo \in Seq(Todos) /\ Len(tx[x].todo) \in Nat
    BY <1>1 DEF Txn
  <1>3. ASSUME NEW w \in Workers,
               (\E plan \in Plans : StartWriting(w, plan)) \/ (\E run \in Runs : StartJob(w, run))
        PROVE  LockInv'
    <2>1. BeginStep(w) BY <1>3, BeginDoes
    <2>2. Loaded(tx'[w], rows) BY <2>1 DEF BeginStep, Loaded
    <2>3. Ordered(tx'[w]) BY <2>1 DEF BeginStep, Ordered
    <2> QED BY <2>1, <2>2, <2>3, LockKept DEF BeginStep
  <1>4. ASSUME NEW w \in Workers, WritePrice(w) PROVE LockInv'
    <2>1. PICK o \in Offers, p \in Prices : PriceStep(w, o, p) BY <1>4, PriceDoes
    <2> DEFINE t == tx[w]
               u == tx'[w]
               a == <<ProductOf[o], All>>
               b == <<ProductOf[o], StoreOf[o]>>
    <2>2. /\ Alone(w) /\ UNCHANGED rows /\ o \notin HeldByOthers(w) /\ t.todo[1] = Price(o)
          /\ Len(u.todo) = Len(t.todo) + 1 /\ u.todo[1] = Recompute(a) /\ u.todo[2] = Recompute(b)
          /\ \A i \in 2..Len(t.todo) : u.todo[i + 1] = t.todo[i]
          /\ u.held = t.held \cup {o} /\ u.view = t.view /\ u.wrote = t.wrote /\ u.fresh = t.fresh
          /\ \A s \in u.own : s \in t.own \/ s.of = o
          /\ t.todo # <<>>
      BY <2>1 DEF PriceStep
    <2>3. Loaded(u, rows) BY <1>1, <2>2 DEF Loaded
    <2>4. \A q : Done(t, q) => Done(u, q) BY <2>2 DEF Done
    <2>5. ASSUME NEW i \in 1..Len(u.todo), NEW k \in Keys, k[2] # All, u.todo[i] = Recompute(k)
          PROVE  Done(u, k[1]) \/ \E j \in 1..i : u.todo[j] = Recompute(<<k[1], All>>)
      <3>1. i # 1
        <4> SUFFICES ASSUME i = 1 PROVE FALSE
          OBVIOUS
        <4>1. Recompute(k) = Recompute(a) BY <2>2, <2>5
        <4>2. k = a BY <4>1, Todo
        <4> QED BY <2>5, <4>2
      <3>2. CASE i = 2
        <4>1. Recompute(k) = Recompute(b) BY <2>2, <2>5, <3>2
        <4>2. k = b BY <4>1, Todo
        <4> QED BY <2>2, <3>2, <4>2
      <3>3. CASE i > 2
        <4>1. i - 1 \in 2..Len(t.todo) /\ i - 1 \in 1..Len(t.todo) BY <1>2, <2>2, <3>3
        <4>2. t.todo[i - 1] = Recompute(k)
          <5>1. (i - 1) + 1 = i BY <4>1
          <5>2. u.todo[(i - 1) + 1] = t.todo[i - 1] BY <2>2, <4>1
          <5> QED BY <2>5, <5>1, <5>2
        <4>3. Done(t, k[1]) \/ \E j \in 1..(i - 1) : t.todo[j] = Recompute(<<k[1], All>>)
          BY <1>1, <2>5, <4>1, <4>2 DEF Ordered
        <4>4. CASE \E j \in 1..(i - 1) : t.todo[j] = Recompute(<<k[1], All>>)
          <5>1. PICK j \in 1..(i - 1) : t.todo[j] = Recompute(<<k[1], All>>) BY <4>4
          <5>2. j # 1 BY <2>2, <5>1, Todo
          <5>3. j \in 2..Len(t.todo) /\ j + 1 \in 1..i BY <4>1, <5>1, <5>2
          <5> QED BY <2>2, <5>1, <5>3
        <4> QED BY <2>4, <4>3, <4>4
      <3>4. i = 2 \/ i > 2
        <4> HIDE DEF u
        <4> QED BY <3>1
      <3> QED BY <3>2, <3>3, <3>4
    <2>6. \A k : Pending(t, k) => Pending(u, k)
      <3> SUFFICES ASSUME NEW k, NEW i \in 1..Len(t.todo), t.todo[i] = Recompute(k) PROVE Pending(u, k)
        BY DEF Pending
      <3>1. i # 1 BY <2>2, Todo
      <3>2. i \in 2..Len(t.todo) /\ i + 1 \in 1..Len(u.todo) BY <1>2, <2>2, <3>1
      <3> QED BY <2>2, <3>2 DEF Pending
    <2>7. \A k \in KeysOf(o) : Pending(u, k)
      <3>1. 1 \in 1..Len(u.todo) /\ 2 \in 1..Len(u.todo)
        <4>1. Len(t.todo) >= 1 BY <1>2, <2>2
        <4> QED BY <1>2, <2>2, <4>1
      <3> QED BY <2>2, <3>1 DEF Pending, KeysOf
    <2>8. ASSUME NEW s \in u.own, NEW k \in KeysOf(s.of)
          PROVE  Pending(u, k) \/ \E v \in u.view : v.key = k
      <3>1. CASE s.of = o BY <2>7, <2>8, <3>1
      <3>2. CASE s \in t.own BY <1>1, <2>2, <2>6, <2>8, <3>2 DEF Ordered
      <3> QED BY <2>2, <3>1, <3>2
    <2>9. \A v \in u.view : v.key[2] # All => Done(u, v.key[1]) BY <1>1, <2>2, <2>4 DEF Ordered
    <2>10. Ordered(u)
      <3> HIDE DEF u
      <3> QED BY <2>5, <2>8, <2>9 DEF Ordered
    <2> QED BY <2>2, <2>3, <2>10, LockKept
  <1>5. ASSUME NEW w \in Workers, ReadPrices(w) PROVE LockInv'
    <2>1. PICK k \in Keys : ReadStep(w, k) BY <1>5, ReadDoes
    <2>2. /\ Alone(w) /\ UNCHANGED rows
          /\ tx'[w].todo = tx[w].todo /\ tx'[w].held = tx[w].held /\ tx'[w].own = tx[w].own
          /\ tx'[w].view = tx[w].view /\ tx'[w].wrote = tx[w].wrote /\ tx'[w].fresh = tx[w].fresh
      BY <2>1 DEF ReadStep
    <2>3. Loaded(tx'[w], rows) BY <1>1, <2>2 DEF Loaded
    <2>4. Ordered(tx'[w])
      <3>1. \A q : Done(tx[w], q) => Done(tx'[w], q) BY <2>2 DEF Done
      <3>2. \A j : Pending(tx[w], j) => Pending(tx'[w], j) BY <2>2 DEF Pending
      <3> DEFINE u == tx'[w]
      <3>3. \A i \in 1..Len(u.todo), j \in Keys :
               j[2] # All /\ u.todo[i] = Recompute(j) =>
                  Done(u, j[1]) \/ \E n \in 1..i : u.todo[n] = Recompute(<<j[1], All>>)
        BY <1>1, <2>2, <3>1 DEF Ordered
      <3>4. \A v \in u.view : v.key[2] # All => Done(u, v.key[1]) BY <1>1, <2>2, <3>1 DEF Ordered
      <3>5. \A s \in u.own : \A j \in KeysOf(s.of) : Pending(u, j) \/ \E v \in u.view : v.key = j
        BY <1>1, <2>2, <3>2 DEF Ordered
      <3> HIDE DEF u
      <3> QED BY <3>3, <3>4, <3>5 DEF Ordered, u
    <2> QED BY <2>2, <2>3, <2>4, LockKept
  <1>6. ASSUME NEW w \in Workers, ReadRow(w) PROVE LockInv'
    <2>1. PICK k \in Keys : RowStep(w, k) BY <1>6, RowDoes
    <2> DEFINE t == tx[w]
               u == tx'[w]
    <2>2. /\ Alone(w) /\ UNCHANGED rows /\ t.todo[1] = Recompute(k) /\ t.todo # <<>>
          /\ u.todo = t.todo /\ u.held = t.held /\ u.own = t.own
          /\ u.wrote = t.wrote /\ u.fresh = t.fresh /\ t.view \subseteq u.view
      BY <2>1 DEF RowStep
    <2>3. \/ u.view = t.view
          \/ \E r \in rows : /\ r.key = k /\ u.view = t.view \cup {r}
                             /\ \A q \in t.view : q.id # r.id
      <3>1. CASE \E r \in rows : FoundRow(w, k, r)
        <4>1. PICK r \in rows : FoundRow(w, k, r) BY <3>1
        <4>2. /\ r.key = k /\ (\A q \in t.view : q.key = k => q.id # r.id)
              /\ u.view = t.view \cup {q \in rows : q.id = r.id}
          BY <4>1 DEF FoundRow
        <4>3. {q \in rows : q.id = r.id} = {r} BY DEF LockInv
        <4>4. \A q \in t.view : q.id = r.id => q.key = k BY <4>2 DEF BackedInv, OneKey
        <4> QED BY <4>2, <4>3, <4>4
      <3> QED BY <2>1, <3>1 DEF RowStep, NoRow, LoadedRow
    <2>4. \A q : Done(t, q) => Done(u, q) BY <2>2 DEF Done
    <2>5. Loaded(u, rows)
      <3> HIDE DEF u
      <3>1. \A a, v \in u.view : a.id = v.id => a = v BY <1>1, <2>3 DEF Loaded
      <3>2. \A v \in u.view : v.id \in u.fresh \/ \E r \in rows : r.id = v.id BY <1>1, <2>2, <2>3 DEF Loaded
      <3> QED BY <1>1, <2>2, <3>1, <3>2 DEF Loaded
    <2>6. \A v \in u.view : v.key[2] # All => Done(u, v.key[1])
      <3> SUFFICES ASSUME NEW v \in u.view, v.key[2] # All PROVE Done(u, v.key[1])
        OBVIOUS
      <3>1. CASE v \in t.view BY <1>1, <2>4, <3>1 DEF Ordered
      <3>2. CASE v \notin t.view
        <4>1. v.key = k BY <2>3, <3>2
        <4>2. Done(t, k[1]) BY <1>1, <2>2, <4>1, LedByAll
        <4> QED BY <2>4, <4>1, <4>2
      <3> QED BY <3>1, <3>2
    <2>7. Ordered(u)
      <3> HIDE DEF u
      <3>1. \A j : Pending(t, j) => Pending(u, j) BY <2>2 DEF Pending
      <3>2. \A i \in 1..Len(u.todo), j \in Keys :
               j[2] # All /\ u.todo[i] = Recompute(j) =>
                  Done(u, j[1]) \/ \E n \in 1..i : u.todo[n] = Recompute(<<j[1], All>>)
        BY <1>1, <2>2, <2>4 DEF Ordered
      <3>3. \A s \in u.own : \A j \in KeysOf(s.of) : Pending(u, j) \/ \E v \in u.view : v.key = j
        BY <1>1, <2>2, <3>1 DEF Ordered
      <3> QED BY <2>6, <3>2, <3>3 DEF Ordered
    <2> QED BY <2>2, <2>5, <2>7, LockKept
  <1>7. ASSUME NEW w \in Workers, WriteRow(w) PROVE LockInv'
    <2>1. PICK k \in Keys, id \in Nat : WriteStep(w, k, id) BY <1>7, WriteDoes
    <2> DEFINE t == tx[w]
               u == tx'[w]
               new == Row(id, k, t.found[1], t.found[2])
    <2>2. /\ Alone(w) /\ UNCHANGED rows /\ t.todo[1] = Recompute(k) /\ t.todo # <<>>
          /\ id \notin HeldByOthers(w)
          /\ Len(u.todo) = Len(t.todo) - 1 /\ \A i \in 1..Len(u.todo) : u.todo[i] = t.todo[i + 1]
          /\ u.view = {r \in t.view : r.id # id} \cup {new}
          /\ u.held = t.held \cup {id} /\ u.own = t.own
          /\ u.fresh = t.fresh \cup (IF t.row = 0 THEN {id} ELSE {})
          /\ \A p \in u.wrote : p \in t.wrote \/ p[1] = id
      BY <2>1 DEF WriteStep
    <2>3. /\ t.row = 0 => \A r \in rows : r.id # id
          /\ t.row # 0 => id = t.row /\ \E b \in t.view : b.id = id /\ b.key = k
          /\ \A v \in t.view : \E z \in u.view : z.id = v.id /\ z.key = v.key
          /\ \E z \in u.view : z.id = id /\ z.key = k
      BY <2>1, Written
    <2>4. new.id = id /\ new.key = k BY DEF Row
    <2> HIDE DEF new
    <2>5. \A q : Done(t, q) => Done(u, q)
      <3> HIDE DEF u
      <3> QED BY <2>2, <2>3 DEF Done
    <2>6. k[2] = All => Done(u, k[1])
      <3>1. k = <<k[1], k[2]>> BY DEF Keys
      <3> HIDE DEF u
      <3> QED BY <2>2, <2>3, <3>1 DEF Done
    <2>7. Loaded(u, rows)
      <3> HIDE DEF u
      <3>1. \A a, v \in u.view : a.id = v.id => a = v BY <1>1, <2>2, <2>4 DEF Loaded
      <3>2. \A v \in u.view : v.id \in u.fresh \/ \E r \in rows : r.id = v.id
        <4>1. id \in u.fresh \/ \E r \in rows : r.id = id
          <5>1. CASE t.row = 0 BY <2>2, <5>1
          <5>2. CASE t.row # 0
            <6>1. PICK b \in t.view : b.id = id BY <2>3, <5>2
            <6> QED BY <1>1, <2>2, <6>1 DEF Loaded
          <5> QED BY <5>1, <5>2
        <4> QED BY <1>1, <2>2, <2>4, <4>1 DEF Loaded
      <3>3. \A r \in rows : r.id \notin u.fresh BY <1>1, <2>2, <2>3 DEF Loaded
      <3>4. u.fresh \subseteq u.held /\ \A p \in u.wrote : p[1] \in u.held BY <1>1, <2>2 DEF Loaded
      <3> QED BY <3>1, <3>2, <3>3, <3>4 DEF Loaded
    <2>8. ASSUME NEW i \in 1..Len(u.todo), NEW j \in Keys, j[2] # All, u.todo[i] = Recompute(j)
          PROVE  Done(u, j[1]) \/ \E n \in 1..i : u.todo[n] = Recompute(<<j[1], All>>)
      <3>1. i + 1 \in 1..Len(t.todo) /\ t.todo[i + 1] = Recompute(j) BY <1>2, <2>2, <2>8
      <3>2. Done(t, j[1]) \/ \E n \in 1..(i + 1) : t.todo[n] = Recompute(<<j[1], All>>)
        BY <1>1, <2>8, <3>1 DEF Ordered
      <3>3. CASE \E n \in 1..(i + 1) : t.todo[n] = Recompute(<<j[1], All>>)
        <4>1. PICK n \in 1..(i + 1) : t.todo[n] = Recompute(<<j[1], All>>) BY <3>3
        <4>2. CASE n = 1
          <5>1. Recompute(k) = Recompute(<<j[1], All>>) BY <2>2, <4>1, <4>2
          <5>2. k = <<j[1], All>> BY <5>1, Todo
          <5> QED BY <2>6, <5>2
        <4>3. CASE n # 1
          <5>1. n - 1 \in 1..i /\ n - 1 \in 1..Len(u.todo) /\ (n - 1) + 1 = n BY <1>2, <2>2, <4>3
          <5> QED BY <2>2, <4>1, <5>1
        <4> QED BY <4>2, <4>3
      <3> QED BY <2>5, <3>2, <3>3
    <2>9. \A v \in u.view : v.key[2] # All => Done(u, v.key[1])
      <3> SUFFICES ASSUME NEW v \in u.view, v.key[2] # All PROVE Done(u, v.key[1])
        OBVIOUS
      <3>1. CASE v \in t.view BY <1>1, <2>5, <3>1 DEF Ordered
      <3>2. CASE v = new
        <4>1. v.key = k BY <2>4, <3>2
        <4>2. Done(t, k[1]) BY <1>1, <2>2, <4>1, LedByAll
        <4> QED BY <2>5, <4>1, <4>2
      <3> QED BY <2>2, <3>1, <3>2
    <2>10. ASSUME NEW s \in u.own, NEW j \in KeysOf(s.of)
           PROVE  Pending(u, j) \/ \E v \in u.view : v.key = j
      <3>1. Pending(t, j) \/ \E v \in t.view : v.key = j BY <1>1, <2>2, <2>10 DEF Ordered
      <3>2. CASE Pending(t, j)
        <4>1. PICK i \in 1..Len(t.todo) : t.todo[i] = Recompute(j) BY <3>2 DEF Pending
        <4>2. CASE i = 1
          <5>1. Recompute(k) = Recompute(j) BY <2>2, <4>1, <4>2
          <5>2. k = j BY <5>1, Todo
          <5> QED BY <2>3, <5>2
        <4>3. CASE i # 1
          <5>1. i - 1 \in 1..Len(u.todo) /\ (i - 1) + 1 = i BY <1>2, <2>2, <4>3
          <5>2. u.todo[i - 1] = Recompute(j) BY <2>2, <4>1, <5>1
          <5> QED BY <5>1, <5>2 DEF Pending
        <4> QED BY <4>2, <4>3
      <3>3. CASE \E v \in t.view : v.key = j
        <4>1. PICK v \in t.view : v.key = j BY <3>3
        <4>2. PICK z \in u.view : z.key = v.key BY <2>3
        <4> QED BY <4>1, <4>2
      <3> QED BY <3>1, <3>2, <3>3
    <2>11. Ordered(u)
      <3> HIDE DEF u
      <3> QED BY <2>8, <2>9, <2>10 DEF Ordered
    <2> QED BY <2>2, <2>7, <2>11, LockKept
  <1>8. ASSUME NEW w \in Workers, Commit(w) \/ Rollback(w)
        PROVE  Ordered(tx'[w]) /\ \A R : Loaded(tx'[w], R)
    <2>1. EndStep(w) BY <1>8, EndDoes
    <2>2. /\ tx'[w].todo = <<>> /\ tx'[w].own = {} /\ tx'[w].view = {} /\ tx'[w].wrote = {}
          /\ tx'[w].held = {} /\ tx'[w].fresh = {}
      BY <2>1 DEF EndStep
    <2> QED BY <2>2 DEF Ordered, Loaded
  <1>9. ASSUME NEW w \in Workers, Rollback(w) PROVE LockInv'
    <2>1. EndStep(w) BY <1>9, EndDoes
    <2> QED BY <1>8, <1>9, <2>1, LockKept DEF EndStep
  <1>10. ASSUME NEW w \in Workers, Commit(w) PROVE LockInv'
    <2>1. EndStep(w) BY <1>10, EndDoes
    <2>2. /\ Alone(w) /\ tx'[w].held = {}
          /\ rows' = {Stored(w, r) : r \in rows} \cup {r \in tx[w].view : r.id \in tx[w].fresh}
      BY <1>10, <2>1, CommitDoes DEF EndStep
    <2>3. \A r \in rows : Stored(w, r) \in rows' /\ Stored(w, r).id = r.id BY <2>2, StoredIs
    <2>4. \A r \in rows' : \/ \E b \in rows : r = Stored(w, b) /\ r.id = b.id
                           \/ r \in tx[w].view /\ r.id \in tx[w].fresh
      BY <2>2, <2>3
    <2>5. \A r, q \in rows' : r.id = q.id => r = q
      <3>1. \A r, q \in rows : r.id = q.id => r = q BY DEF LockInv
      <3>2. \A r \in rows : r.id \notin tx[w].fresh BY <1>1 DEF Loaded
      <3>3. \A u, v \in tx[w].view : u.id = v.id => u = v BY <1>1 DEF Loaded
      <3> QED BY <2>4, <3>1, <3>2, <3>3
    <2>6. ASSUME NEW x \in Workers, x # w PROVE Loaded(tx[x], rows')
      <3>1. tx[w].held \cap tx[x].held = {} BY <2>6 DEF LockInv
      <3>2. tx[w].fresh \cap tx[x].fresh = {} BY <1>1, <3>1 DEF Loaded
      <3>3. \A r \in rows' : r.id \notin tx[x].fresh BY <1>1, <2>4, <3>2 DEF Loaded
      <3>4. \A v \in tx[x].view : v.id \in tx[x].fresh \/ \E r \in rows' : r.id = v.id
        BY <1>1, <2>3 DEF Loaded
      <3> QED BY <1>1, <3>3, <3>4 DEF Loaded
    <2>7. \A x \in Workers : Loaded(tx'[x], rows') /\ Ordered(tx'[x])
      BY <1>1, <1>8, <1>10, <2>2, <2>6 DEF Alone
    <2>8. \A x, y \in Workers : x # y => tx'[x].held \cap tx'[y].held = {}
      BY <2>2 DEF Alone, LockInv
    <2> QED BY <2>5, <2>7, <2>8 DEF LockInv
  <1>11. CASE DayPasses BY <1>11 DEF DayPasses, LockInv
  <1>12. CASE UNCHANGED vars BY <1>12 DEF LockInv, vars
  <1> QED BY <1>3, <1>4, <1>5, <1>6, <1>7, <1>9, <1>10, <1>11, <1>12 DEF Next, Step

LEMMA LockFirst == Init => LockInv
  <1> SUFFICES ASSUME Init PROVE LockInv
    OBVIOUS
  <1>1. tx = [w \in Workers |-> Idle] BY FirstRows
  <1>2. Ordered(Idle) /\ (\A R : Loaded(Idle, R)) /\ Idle.held = {}
    <2>1. /\ Idle.todo = <<>> /\ Idle.own = {} /\ Idle.view = {} /\ Idle.wrote = {}
          /\ Idle.held = {} /\ Idle.fresh = {}
      BY DEF Idle
    <2> QED BY <2>1 DEF Ordered, Loaded
  <1>3. \A r, q \in rows : r.id = q.id => r = q
    <2>1. CASE Existing
      <3>1. PICK f \in [Keys -> 1..issued] :
              /\ \A j, k \in Keys : j # k => f[j] # f[k]
              /\ rows = {Row(f[k], k, High, High) : k \in Keys}
        BY <2>1, FirstRows
      <3>2. \A k \in Keys : Row(f[k], k, High, High).id = f[k] BY DEF Row
      <3> QED BY <3>1, <3>2
    <2>2. CASE ~Existing BY <2>2, FirstRows
    <2> QED BY <2>1, <2>2
  <1> QED BY <1>1, <1>2, <1>3 DEF LockInv

LEMMA LockAlways == Spec => []LockInv
  <1>1. TypeInv /\ BackedInv /\ LockInv /\ [Next]_vars => LockInv' BY TypeNext, LockNext
  <1> QED BY <1>1, TypeAlways, BackedAlways, LockFirst, PTL DEF Spec

(* A step of one session that leaves the tables alone.                      *)
LEMMA HonestKept ==
  ASSUME HonestInv, NEW w \in Workers, Alone(w), UNCHANGED <<snaps, rows>>,
         \A k \in Keys : /\ k[2] # All /\ ~Doomed(tx'[w], rows, k[1])
                         /\ Committed(FALSE, rows, snaps, k)
                         /\ ~Doomed(tx[w], rows, k[1]) => Right(FALSE, tx[w], rows, snaps, k)
                         => Right(FALSE, tx'[w], rows, snaps, k)
  PROVE  HonestInv'
  <1> SUFFICES ASSUME NEW k \in Keys, k[2] # All, OneRowForAll(k[1])'
               PROVE  /\ Committed(FALSE, rows', snaps', k)
                      /\ \A x \in Workers :
                            ~Doomed(tx'[x], rows', k[1]) => Right(FALSE, tx'[x], rows', snaps', k)
    BY DEF HonestInv
  <1>1. OneRowForAll(k[1]) BY DEF OneRowForAll
  <1>2. /\ Committed(FALSE, rows, snaps, k)
        /\ \A x \in Workers : ~Doomed(tx[x], rows, k[1]) => Right(FALSE, tx[x], rows, snaps, k)
    BY <1>1 DEF HonestInv
  <1>3. ASSUME NEW x \in Workers, ~Doomed(tx'[x], rows, k[1])
        PROVE  Right(FALSE, tx'[x], rows, snaps, k)
    <2>1. CASE x = w BY <1>2, <1>3, <2>1
    <2>2. CASE x # w BY <1>2, <1>3, <2>2 DEF Alone
    <2> QED BY <2>1, <2>2
  <1> QED BY <1>2, <1>3

LEMMA LowAgrees ==
  ASSUME NEW exact \in BOOLEAN, NEW k, NEW S \in SUBSET Snaps
  PROVE  Agrees(exact, LowOf(SnapsOf(k, S)), k, S)
  <1>1. SnapsOf(k, S) \in SUBSET Snaps BY DEF SnapsOf
  <1> DEFINE T == SnapsOf(k, S)
  <1>2. T \in SUBSET Snaps BY <1>1
  <1> HIDE DEF T
  <1>3. \A s \in T : LowOf(T) <= s.price BY <1>2, LowIn
  <1> QED BY <1>3 DEF Agrees, T

(* A write of a price makes the numbers of its keys pending.                *)
LEMMA PriceRight ==
  ASSUME NEW exact \in BOOLEAN, TypeInv, NEW w \in Workers, NEW o \in Offers, NEW p \in Prices, PriceStep(w, o, p),
         NEW k \in Keys, Right(exact, tx[w], rows, snaps, k)
  PROVE  Right(exact, tx'[w], rows, snaps, k)
  <1> DEFINE t == tx[w]
             u == tx'[w]
             b == <<ProductOf[o], StoreOf[o]>>
             s == [of |-> o, price |-> p, at |-> now]
  <1>1. /\ t.todo[1] = Price(o) /\ Len(u.todo) = Len(t.todo) + 1 /\ u.todo[2] = Recompute(b)
        /\ u.todo[1] = Recompute(<<ProductOf[o], All>>)
        /\ \A i \in 2..Len(t.todo) : u.todo[i + 1] = t.todo[i]
        /\ u.pc = "next" /\ u.view = t.view /\ u.wrote = t.wrote /\ u.fresh = t.fresh
        /\ u.own = t.own \cup {s} /\ t.todo # <<>>
    BY DEF PriceStep
  <1>2. t.todo \in Seq(Todos) /\ Len(t.todo) \in Nat BY DEF TypeInv, Txn
  <1>3. Pending(t, k) => Pending(u, k)
    <2> SUFFICES ASSUME NEW i \in 1..Len(t.todo), t.todo[i] = Recompute(k) PROVE Pending(u, k)
      BY DEF Pending
    <2>1. i # 1 BY <1>1, Todo
    <2>2. i \in 2..Len(t.todo) /\ i + 1 \in 1..Len(u.todo) BY <1>1, <1>2, <2>1
    <2> QED BY <1>1, <2>2 DEF Pending
  <1>4. o \in OffersOf(k) => Pending(u, k)
    <2> SUFFICES ASSUME o \in OffersOf(k) PROVE Pending(u, k)
      OBVIOUS
    <2>1. k \in KeysOf(o) BY OfferKeys
    <2>2. 1 \in 1..Len(u.todo) /\ 2 \in 1..Len(u.todo)
      <3>1. Len(t.todo) >= 1 BY <1>1, <1>2
      <3> QED BY <1>1, <1>2, <3>1
    <2> QED BY <1>1, <2>1, <2>2 DEF Pending, KeysOf
  <1>5. s.of = o OBVIOUS
  <1> HIDE DEF s
  <1>6. o \notin OffersOf(k) => SnapsOf(k, snaps \cup u.own) = SnapsOf(k, snaps \cup t.own)
    BY <1>1, <1>5 DEF SnapsOf
  <1>7. \A low : Pending(t, k) \/ Agrees(exact, low, k, snaps \cup t.own) =>
                 Pending(u, k) \/ Agrees(exact, low, k, snaps \cup u.own)
    BY <1>3, <1>4, <1>6 DEF Agrees
  <1> QED BY <1>1, <1>7 DEF Right

LEMMA ReadRight ==
  ASSUME NEW exact \in BOOLEAN, TypeInv, NEW w \in Workers, NEW j \in Keys, ReadStep(w, j),
         NEW k \in Keys, Right(exact, tx[w], rows, snaps, k)
  PROVE  Right(exact, tx'[w], rows, snaps, k)
  <1> DEFINE t == tx[w]
             u == tx'[w]
  <1>1. /\ t.todo[1] = Recompute(j) /\ u.pc = "row"
        /\ u.found[1] = LowOf(SnapsOf(j, snaps \cup t.own))
        /\ u.todo = t.todo /\ u.own = t.own
        /\ u.view = t.view /\ u.wrote = t.wrote /\ u.fresh = t.fresh
    BY DEF ReadStep
  <1>2. u.todo[1] = Recompute(k) => Agrees(exact, u.found[1], k, snaps \cup u.own)
    <2> SUFFICES ASSUME u.todo[1] = Recompute(k) PROVE Agrees(exact, u.found[1], k, snaps \cup u.own)
      OBVIOUS
    <2>1. Recompute(j) = Recompute(k) BY <1>1
    <2>2. j = k BY <2>1, Todo
    <2>3. snaps \cup t.own \in SUBSET Snaps BY DEF TypeInv, Txn
    <2> QED BY <1>1, <2>2, <2>3, LowAgrees
  <1>3. Pending(t, k) => Pending(u, k) BY <1>1 DEF Pending
  <1> QED BY <1>1, <1>2, <1>3 DEF Right

LEMMA RowRight ==
  ASSUME NEW exact \in BOOLEAN, TypeInv, BackedInv, LockInv,
         NEW w \in Workers, NEW j \in Keys, RowStep(w, j),
         NEW k \in Keys, Right(exact, tx[w], rows, snaps, k), Committed(exact, rows, snaps, k)
  PROVE  Right(exact, tx'[w], rows, snaps, k)
  <1> DEFINE t == tx[w]
             u == tx'[w]
  <1>1. /\ t.todo[1] = Recompute(j) /\ t.todo # <<>> /\ t.pc = "row" /\ u.pc = "write"
        /\ u.todo = t.todo /\ u.own = t.own /\ u.found = t.found
        /\ u.wrote = t.wrote /\ u.fresh = t.fresh
    BY DEF RowStep
  <1>2. Pending(t, k) => Pending(u, k) BY <1>1 DEF Pending
  <1>3. t.todo[1] = Recompute(k) => Pending(u, k) /\ j = k
    <2> SUFFICES ASSUME t.todo[1] = Recompute(k) PROVE Pending(u, k) /\ j = k
      OBVIOUS
    <2>1. 1 \in 1..Len(u.todo) BY <1>1 DEF TypeInv, Txn
    <2>2. Recompute(j) = Recompute(k) BY <1>1
    <2>3. j = k BY <2>2, Todo
    <2>4. Pending(u, k) BY <1>1, <2>1 DEF Pending
    <2> QED BY <2>3, <2>4
  <1>4. t.todo[1] = Recompute(k) => Agrees(exact, u.found[1], k, snaps \cup u.own)
    BY <1>1 DEF Right
  <1>5. (\A r \in rows : r.id # 0) /\ \A r \in t.view : r.id # 0 BY DEF TypeInv, Shaped
  <1>6. CASE u.view = t.view
    <2>1. u.row = 0 => \A r \in rows \cup u.view : r.key # j
      BY <1>5, <1>6 DEF RowStep, NoRow, LoadedRow, FoundRow
    <2> QED BY <1>1, <1>2, <1>3, <1>4, <1>6, <2>1 DEF Right
  <1>7. CASE u.view # t.view
    <2>1. PICK r \in rows : FoundRow(w, j, r) BY <1>7 DEF RowStep, NoRow, LoadedRow
    <2>2. /\ r.key = j /\ (\A q \in t.view : q.key = j => q.id # r.id) /\ u.row = r.id
          /\ u.view = t.view \cup {q \in rows : q.id = r.id}
      BY <2>1 DEF FoundRow
    <2>3. {q \in rows : q.id = r.id} = {r} BY DEF LockInv
    <2>4. u.view = t.view \cup {r} BY <2>2, <2>3
    <2>5. u.row # 0 BY <1>5, <2>2
    <2>6. CASE r.key # k
      <3>1. \A v \in u.view : v.key = k => v \in t.view BY <2>4, <2>6
      <3>2. t.todo[1] # Recompute(k) BY <1>3, <2>2, <2>6
      <3> QED BY <1>1, <1>2, <2>5, <3>1, <3>2 DEF Right
    <2>7. CASE r.key = k
      <3>1. \A v \in t.view : v.key # k
        <4> SUFFICES ASSUME NEW v \in t.view, v.key = k PROVE FALSE
          OBVIOUS
        <4>1. v.id \notin t.fresh BY <2>7 DEF Right
        <4>2. PICK b \in rows : b.id = v.id BY <4>1 DEF LockInv, Loaded
        <4>3. b.key = k BY <4>2 DEF BackedInv, OneKey
        <4>4. b = r BY <2>7, <4>3 DEF Committed
        <4> QED BY <2>2, <2>7, <4>2, <4>4
      <3>2. \A v \in u.view : v.key = k => v = r BY <2>4, <3>1
      <3>3. r.id \notin u.fresh BY <1>1 DEF LockInv, Loaded
      <3>4. \A q \in rows : q.id = r.id => q.low = r.low BY DEF LockInv
      <3>5. Pending(u, k) BY <1>1, <1>3, <2>2, <2>7
      <3> QED BY <1>1, <1>4, <2>5, <3>2, <3>3, <3>4, <3>5 DEF Right
    <2> QED BY <2>6, <2>7
  <1> QED BY <1>6, <1>7

LEMMA WriteRight ==
  ASSUME NEW exact \in BOOLEAN, TypeInv, BackedInv, LockInv,
         NEW w \in Workers, NEW j \in Keys, NEW id \in Nat,
         WriteStep(w, j, id), NEW k \in Keys, Right(exact, tx[w], rows, snaps, k)
  PROVE  Right(exact, tx'[w], rows, snaps, k)
  <1> DEFINE t == tx[w]
             u == tx'[w]
             new == Row(id, j, t.found[1], t.found[2])
  <1>1. /\ t.todo[1] = Recompute(j) /\ t.todo # <<>> /\ t.pc = "write" /\ u.pc = "next"
        /\ Len(u.todo) = Len(t.todo) - 1 /\ \A i \in 1..Len(u.todo) : u.todo[i] = t.todo[i + 1]
        /\ u.view = {r \in t.view : r.id # id} \cup {new} /\ u.own = t.own
        /\ u.fresh = t.fresh \cup (IF t.row = 0 THEN {id} ELSE {})
        /\ t.wrote \subseteq u.wrote
        /\ \/ <<id, "low">> \in u.wrote
           \/ \E r \in t.view : r.id = id /\ r.low = t.found[1]
    BY DEF WriteStep
  <1>2. /\ \A v \in t.view : v.id = id => v.key = j /\ t.row # 0
        /\ t.row = 0 => \A r \in rows : r.id # id
        /\ t.row # 0 => id = t.row /\ \E b \in t.view : b.id = id /\ b.key = j
    BY Written
  <1>3. new.id = id /\ new.key = j /\ new.low = t.found[1] BY DEF Row
  <1> HIDE DEF new
  <1>4. CASE k # j
    <2>1. Pending(t, k) => Pending(u, k)
      <3> SUFFICES ASSUME NEW i \in 1..Len(t.todo), t.todo[i] = Recompute(k) PROVE Pending(u, k)
        BY DEF Pending
      <3>1. i # 1
        <4> SUFFICES ASSUME i = 1 PROVE FALSE
          OBVIOUS
        <4>1. Recompute(k) = Recompute(j) BY <1>1
        <4> QED BY <1>4, <4>1, Todo
      <3>2. Len(t.todo) \in Nat BY DEF TypeInv, Txn
      <3>3. i - 1 \in 1..Len(u.todo) /\ (i - 1) + 1 = i BY <1>1, <3>1, <3>2
      <3>4. u.todo[i - 1] = Recompute(k) BY <1>1, <3>3
      <3> QED BY <3>3, <3>4 DEF Pending
    <2>2. \A v \in u.view : v.key = k => v \in t.view /\ v.id # id BY <1>1, <1>3, <1>4
    <2>3. \A v \in u.view : v.key = k => (v.id \in u.fresh <=> v.id \in t.fresh) BY <1>1, <2>2
    <2> QED BY <1>1, <2>1, <2>2, <2>3 DEF Right
  <1>5. CASE k = j
    <2>1. \A v \in u.view : v.key = k => v = new
      <3> SUFFICES ASSUME NEW v \in t.view, v.id # id, v.key = k PROVE FALSE
        BY <1>1
      <3>1. t.row # 0 BY <1>1, <1>5 DEF Right
      <3>2. PICK b \in t.view : b.id = id /\ b.key = k BY <1>2, <1>5, <3>1
      <3>3. b = v BY <3>2 DEF Right
      <3> QED BY <3>2, <3>3
    <2>2. Agrees(exact, new.low, k, snaps \cup u.own) BY <1>1, <1>3, <1>5 DEF Right
    <2>3. id \in u.fresh => \A r \in rows : r.key # k
      <3>1. CASE t.row = 0 BY <1>1, <1>5, <3>1 DEF Right
      <3>2. CASE t.row # 0
        <4>1. PICK b \in t.view : b.id = id /\ b.key = k BY <1>2, <1>5, <3>2
        <4> QED BY <1>1, <3>2, <4>1 DEF Right
      <3> QED BY <3>1, <3>2
    <2>4. id \notin u.fresh /\ <<id, "low">> \notin u.wrote =>
             \A r \in rows : r.id = id => r.low = new.low
      <3> SUFFICES ASSUME id \notin u.fresh, <<id, "low">> \notin u.wrote
                   PROVE  \A r \in rows : r.id = id => r.low = new.low
        OBVIOUS
      <3>1. PICK b \in t.view : b.id = id /\ b.low = t.found[1] BY <1>1
      <3>2. b.key = k BY <1>2, <1>5, <3>1
      <3>3. b.id \notin t.fresh /\ <<b.id, "low">> \notin t.wrote BY <1>1, <3>1
      <3>4. \A r \in rows : r.id = b.id => r.low = b.low BY <3>2, <3>3 DEF Right
      <3> QED BY <1>3, <3>1, <3>4
    <2> QED BY <1>1, <1>3, <2>1, <2>2, <2>3, <2>4 DEF Right
  <1> QED BY <1>4, <1>5

(* Two sessions that have both locked the product: one of them has          *)
(* inserted a row where there is one, or will have when the other commits.  *)
LEMMA Rivals ==
  ASSUME TypeInv, BackedInv, LockInv, NEW w \in Workers, NEW x \in Workers, x # w, NEW p,
         rows' = {Stored(w, r) : r \in rows} \cup {r \in tx[w].view : r.id \in tx[w].fresh},
         Done(tx[w], p), Done(tx[x], p), OneRowForAll(p)'
  PROVE  Doomed(tx[x], rows', p)
  <1>1. PICK a \in tx[w].view : a.key = <<p, All>> /\ a.id \in tx[w].held BY DEF Done
  <1>2. PICK b \in tx[x].view : b.key = <<p, All>> /\ b.id \in tx[x].held BY DEF Done
  <1>3. a.id # b.id BY <1>1, <1>2 DEF LockInv
  <1>4. \A r \in rows : Stored(w, r) \in rows' /\ Stored(w, r).id = r.id /\ Stored(w, r).key = r.key
    BY StoredIs
  <1>5. PICK q \in rows' : q.id = a.id /\ q.key = <<p, All>>
    <2>1. CASE a.id \in tx[w].fresh BY <1>1, <2>1
    <2>2. CASE a.id \notin tx[w].fresh
      <3>1. PICK r \in rows : r.id = a.id BY <2>2 DEF LockInv, Loaded
      <3>2. r.key = <<p, All>> BY <1>1, <3>1 DEF BackedInv, OneKey
      <3> QED BY <1>4, <3>1, <3>2
    <2> QED BY <2>1, <2>2
  <1>6. b.id \in tx[x].fresh
    <2> SUFFICES ASSUME b.id \notin tx[x].fresh PROVE FALSE
      OBVIOUS
    <2>1. PICK r \in rows : r.id = b.id BY DEF LockInv, Loaded
    <2>2. r.key = <<p, All>> BY <1>2, <2>1 DEF BackedInv, OneKey
    <2>3. Stored(w, r) = q BY <1>4, <1>5, <2>2 DEF OneRowForAll
    <2> QED BY <1>3, <1>4, <1>5, <2>1, <2>3
  <1> QED BY <1>2, <1>5, <1>6 DEF Doomed

(* Where the rows after a commit come from.                                 *)
LEMMA CommitFrom ==
  ASSUME TypeInv, NEW w \in Workers, Commit(w)
  PROVE  /\ Alone(w) /\ tx'[w] = Idle /\ tx'[w].pc = "next" /\ tx'[w].view = {}
         /\ \A k : ~Pending(tx[w], k)
         /\ snaps' = snaps \cup tx[w].own
         /\ \A r \in rows : Stored(w, r) \in rows' /\ Stored(w, r).id = r.id /\ Stored(w, r).key = r.key
         /\ \A v \in tx[w].view : v.id \in tx[w].fresh => v \in rows'
         /\ \A r \in rows' : \/ \E b \in rows : r = Stored(w, b) /\ r.id = b.id /\ r.key = b.key
                             \/ r \in tx[w].view /\ r.id \in tx[w].fresh
         /\ rows' = {Stored(w, r) : r \in rows} \cup {r \in tx[w].view : r.id \in tx[w].fresh}
  <1> DEFINE t == tx[w]
  <1>1. /\ Alone(w) /\ tx'[w] = Idle /\ tx'[w].pc = "next" /\ tx'[w].view = {}
        /\ t.todo = <<>> /\ snaps' = snaps \cup t.own
        /\ rows' = {Stored(w, r) : r \in rows} \cup {r \in t.view : r.id \in t.fresh}
    BY EndDoes, CommitDoes DEF EndStep
  <1>2. \A r \in rows : Stored(w, r) \in rows' /\ Stored(w, r).id = r.id /\ Stored(w, r).key = r.key
    BY <1>1, StoredIs
  <1>3. \A r \in rows' : \/ \E b \in rows : r = Stored(w, b) /\ r.id = b.id /\ r.key = b.key
                         \/ r \in t.view /\ r.id \in t.fresh
    BY <1>1, <1>2
  <1>4. \A k : ~Pending(t, k) BY <1>1 DEF Pending
  <1> QED BY <1>1, <1>2, <1>3, <1>4

(* A commit leaves alone the keys the session has no row of.                *)
LEMMA CommitElsewhere ==
  ASSUME TypeInv, BackedInv, LockInv, NEW w \in Workers, Commit(w), NEW k \in Keys,
         \A v \in tx[w].view : v.key # k
  PROVE  /\ \A S : SnapsOf(k, S \cup tx[w].own) = SnapsOf(k, S)
         /\ \A b \in rows : b.key = k => Stored(w, b).low = b.low
  <1>1. ASSUME NEW s \in tx[w].own, s.of \in OffersOf(k) PROVE FALSE
    <2>1. k \in KeysOf(s.of) BY <1>1, OfferKeys
    <2>2. Pending(tx[w], k) \/ \E v \in tx[w].view : v.key = k BY <2>1 DEF LockInv, Ordered
    <2> QED BY <2>2, CommitFrom
  <1>2. \A S : SnapsOf(k, S \cup tx[w].own) = SnapsOf(k, S) BY <1>1 DEF SnapsOf
  <1>3. ASSUME NEW b \in rows, b.key = k, Stored(w, b).low # b.low PROVE FALSE
    <2>1. <<b.id, "low">> \in tx[w].wrote BY <1>3, StoredIs
    <2>2. PICK u \in tx[w].view : u.id = <<b.id, "low">>[1] BY <2>1 DEF TypeInv, Shaped
    <2>3. u.key = b.key BY <2>2 DEF BackedInv, OneKey
    <2> QED BY <1>3, <2>3
  <1> QED BY <1>2, <1>3

LEMMA CommitRight ==
  ASSUME NEW exact \in BOOLEAN, TypeInv, BackedInv, LockInv, NEW w \in Workers, Commit(w),
         NEW k \in Keys, Committed(exact, rows, snaps, k), Right(exact, tx[w], rows, snaps, k)
  PROVE  Committed(exact, rows', snaps', k)
  <1> DEFINE t == tx[w]
  <1>1. snaps' = snaps \cup t.own /\ ~Pending(t, k) BY CommitFrom
  <1>2. \A r \in rows : Stored(w, r) \in rows' /\ Stored(w, r).id = r.id /\ Stored(w, r).key = r.key
    BY CommitFrom
  <1>3. \A r \in rows' : \/ \E b \in rows : r = Stored(w, b) /\ r.id = b.id /\ r.key = b.key
                         \/ r \in t.view /\ r.id \in t.fresh
    BY CommitFrom
  <1>4. \A v \in t.view : v.key = k => Agrees(exact, v.low, k, snaps') BY <1>1 DEF Right
  <1>5. ASSUME NEW v \in t.view, v.key = k, v.id \notin t.fresh
        PROVE  \E r \in rows : r.id = v.id /\ r.key = k
    <2>1. PICK r \in rows : r.id = v.id BY <1>5 DEF LockInv, Loaded
    <2> QED BY <1>5, <2>1 DEF BackedInv, OneKey
  <1>6. ASSUME NEW v \in t.view, v.key = k, NEW b \in rows, b.key = k
        PROVE  v.id = b.id /\ Stored(w, b).low = v.low
    <2>1. v.id \notin t.fresh BY <1>6 DEF Right
    <2>2. PICK r \in rows : r.id = v.id /\ r.key = k BY <1>5, <1>6, <2>1
    <2>3. r = b BY <1>6, <2>2 DEF Committed
    <2>4. CASE <<b.id, "low">> \in t.wrote
      <3>1. <<b.id, "low">>[1] \in t.held BY <2>4 DEF LockInv, Loaded
      <3>2. b.id \in t.held BY <3>1
      <3>3. PICK u \in t.view : u.id = b.id /\ Stored(w, b).low = u.low BY <2>4, <3>2, StoredIs
      <3>4. u = v BY <2>2, <2>3, <3>3 DEF LockInv, Loaded
      <3> QED BY <2>2, <2>3, <3>3, <3>4
    <2>5. CASE <<b.id, "low">> \notin t.wrote
      <3>1. Stored(w, b).low = b.low BY <2>5, StoredIs
      <3>2. b.low = v.low BY <1>6, <2>1, <2>2, <2>3, <2>5 DEF Right
      <3> QED BY <2>2, <2>3, <3>1, <3>2
    <2> QED BY <2>4, <2>5
  <1>7. ASSUME NEW r \in rows', r.key = k PROVE Agrees(exact, r.low, k, snaps')
    <2>1. CASE r \in t.view BY <1>4, <1>7, <2>1
    <2>2. CASE r \notin t.view
      <3>1. PICK b \in rows : r = Stored(w, b) /\ b.key = k BY <1>3, <1>7, <2>2
      <3>2. CASE \E v \in t.view : v.key = k
        <4>1. PICK v \in t.view : v.key = k BY <3>2
        <4>2. Stored(w, b).low = v.low BY <1>6, <3>1, <4>1
        <4> QED BY <1>4, <3>1, <4>1, <4>2
      <3>3. CASE \A v \in t.view : v.key # k
        <4>1. SnapsOf(k, snaps') = SnapsOf(k, snaps) BY <1>1, <3>3, CommitElsewhere
        <4>2. r.low = b.low BY <3>1, <3>3, CommitElsewhere
        <4>3. Agrees(exact, b.low, k, snaps) BY <3>1 DEF Committed
        <4> QED BY <4>1, <4>2, <4>3 DEF Agrees
      <3> QED BY <3>2, <3>3
    <2> QED BY <2>1, <2>2
  <1>8. ASSUME NEW r \in rows', NEW q \in rows', r.key = k, q.key = k PROVE r = q
    <2>1. \A b, c \in rows : b.key = k /\ c.key = k => b = c BY DEF Committed
    <2>2. \A u, v \in t.view : u.key = k /\ v.key = k => u = v BY DEF Right
    <2>3. \A v \in t.view : v.key = k /\ v.id \in t.fresh => \A b \in rows : b.key # k
      BY DEF Right
    <2> QED BY <1>3, <1>8, <2>1, <2>2, <2>3
  <1>9. ASSUME exact, SnapsOf(k, snaps') # {} PROVE \E r \in rows' : r.key = k
    <2>1. CASE \E b \in rows : b.key = k BY <1>2, <2>1
    <2>2. CASE \E v \in t.view : v.key = k
      <3>1. PICK v \in t.view : v.key = k BY <2>2
      <3>2. CASE v.id \in t.fresh BY <3>1, <3>2, CommitFrom
      <3>3. CASE v.id \notin t.fresh BY <1>2, <1>5, <3>1, <3>3
      <3> QED BY <3>2, <3>3
    <2>3. CASE \A v \in t.view : v.key # k
      <3>1. SnapsOf(k, snaps') = SnapsOf(k, snaps) BY <1>1, <2>3, CommitElsewhere
      <3>2. \E b \in rows : b.key = k BY <1>9, <3>1 DEF Committed
      <3> QED BY <2>1, <3>2
    <2> QED BY <2>2, <2>3
  <1> QED BY <1>7, <1>8, <1>9 DEF Committed

LEMMA HonestCommit ==
  ASSUME TypeInv, BackedInv, LockInv, HonestInv, NEW w \in Workers, Commit(w)
  PROVE  HonestInv'
  <1> DEFINE t == tx[w]
  <1>1. /\ Alone(w) /\ tx'[w].pc = "next" /\ tx'[w].view = {} /\ snaps' = snaps \cup t.own
        /\ rows' = {Stored(w, r) : r \in rows} \cup {r \in t.view : r.id \in t.fresh}
    BY CommitFrom
  <1>2. \A r \in rows : Stored(w, r) \in rows' /\ Stored(w, r).id = r.id /\ Stored(w, r).key = r.key
    BY CommitFrom
  <1>3. \A r \in rows' : \/ \E b \in rows : r = Stored(w, b) /\ r.id = b.id /\ r.key = b.key
                         \/ r \in t.view /\ r.id \in t.fresh
    BY CommitFrom
  <1> SUFFICES ASSUME NEW k \in Keys, k[2] # All, OneRowForAll(k[1])'
               PROVE  /\ Committed(FALSE, rows', snaps', k)
                      /\ \A x \in Workers :
                            ~Doomed(tx'[x], rows', k[1]) => Right(FALSE, tx'[x], rows', snaps', k)
    BY DEF HonestInv
  <1>4. OneRowForAll(k[1])
    <2> SUFFICES ASSUME NEW r \in rows, NEW q \in rows, r.key = <<k[1], All>>, q.key = <<k[1], All>>
                 PROVE  r = q
      BY DEF OneRowForAll
    <2>1. Stored(w, r) = Stored(w, q) BY <1>2 DEF OneRowForAll
    <2> QED BY <1>2, <2>1 DEF LockInv
  <1>5. ~Doomed(t, rows, k[1])
    <2> SUFFICES ASSUME NEW v \in t.view, v.key = <<k[1], All>>, v.id \in t.fresh,
                        NEW r \in rows, r.key = <<k[1], All>>
                 PROVE  FALSE
      BY DEF Doomed
    <2>1. v \in rows' BY <1>1
    <2>2. Stored(w, r) = v BY <1>2, <2>1 DEF OneRowForAll
    <2> QED BY <1>2, <2>2 DEF LockInv, Loaded
  <1>6. Committed(FALSE, rows, snaps, k) /\ Right(FALSE, t, rows, snaps, k)
    BY <1>4, <1>5 DEF HonestInv
  <1>7. \A y \in Workers : \A r \in rows \cup t.view, q \in rows \cup tx[y].view :
           r.id = q.id => r.key = q.key
    BY DEF BackedInv, OneKey
  <1>8. Committed(FALSE, rows', snaps', k) BY <1>6, CommitRight
  <1>9. Right(FALSE, tx'[w], rows', snaps', k) BY <1>1 DEF Right
  <1>10. ASSUME NEW x \in Workers, x # w, ~Doomed(tx[x], rows', k[1])
         PROVE  Right(FALSE, tx[x], rows', snaps', k)
    <2> DEFINE z == tx[x]
    <2>1. ~Doomed(z, rows, k[1]) BY <1>2, <1>10 DEF Doomed
    <2>2. Right(FALSE, z, rows, snaps, k) BY <1>4, <2>1 DEF HonestInv
    <2>3. Ordered(z) /\ z \in Txn /\ Shaped(z, issued, now) BY DEF LockInv, TypeInv
    <2>4. CASE ~Done(z, k[1])
      <3>1. \A v \in z.view : v.key # k BY <2>3, <2>4 DEF Ordered
      <3>2. ~(z.pc # "next" /\ z.todo[1] = Recompute(k)) BY <2>3, <2>4, LedByAll DEF Shaped
      <3>3. ~(z.pc = "write" /\ z.row = 0 /\ z.todo[1] = Recompute(k)) BY <3>2
      <3> QED BY <3>1, <3>2, <3>3 DEF Right
    <2>5. CASE Done(z, k[1])
      <3>1. ~Done(t, k[1]) BY <1>1, <1>10, <2>5, Rivals
      <3>2. \A v \in t.view : v.key # k BY <3>1 DEF LockInv, Ordered
      <3>3. SnapsOf(k, snaps' \cup z.own) = SnapsOf(k, snaps \cup z.own)
        <4>1. SnapsOf(k, (snaps \cup z.own) \cup t.own) = SnapsOf(k, snaps \cup z.own)
          BY <3>2, CommitElsewhere
        <4>2. snaps' \cup z.own = (snaps \cup z.own) \cup t.own BY <1>1
        <4> QED BY <4>1, <4>2
      <3>4. \A low : Agrees(FALSE, low, k, snaps \cup z.own) => Agrees(FALSE, low, k, snaps' \cup z.own)
        BY <3>3 DEF Agrees
      <3>5. ASSUME NEW r \in rows', r.key = k
            PROVE  \E b \in rows : b.id = r.id /\ b.key = k /\ b.low = r.low
        <4>1. PICK b \in rows : r = Stored(w, b) /\ r.id = b.id /\ b.key = k BY <1>3, <3>2, <3>5
        <4> QED BY <3>2, <4>1, CommitElsewhere
      <3>6. ASSUME NEW v \in z.view, v.key = k, NEW r \in rows', r.id = v.id
            PROVE  r.key = k
        <4>1. \E b \in rows \cup t.view : b.id = r.id /\ b.key = r.key BY <1>3
        <4> QED BY <1>7, <3>6, <4>1
      <3>7. ASSUME NEW v \in z.view, v.key = k
            PROVE  /\ Pending(z, k) \/ Agrees(FALSE, v.low, k, snaps' \cup z.own)
                   /\ v.id \in z.fresh => \A r \in rows' : r.key # k
                   /\ v.id \notin z.fresh /\ <<v.id, "low">> \notin z.wrote =>
                        \A r \in rows' : r.id = v.id => r.low = v.low
        <4>1. Pending(z, k) \/ Agrees(FALSE, v.low, k, snaps' \cup z.own) BY <2>2, <3>4, <3>7 DEF Right
        <4>2. v.id \in z.fresh => \A r \in rows' : r.key # k BY <2>2, <3>5, <3>7 DEF Right
        <4>3. v.id \notin z.fresh /\ <<v.id, "low">> \notin z.wrote =>
                \A r \in rows' : r.id = v.id => r.low = v.low
          BY <2>2, <3>5, <3>6, <3>7 DEF Right
        <4> QED BY <4>1, <4>2, <4>3
      <3>8. z.pc # "next" /\ z.todo[1] = Recompute(k) => Agrees(FALSE, z.found[1], k, snaps' \cup z.own)
        BY <2>2, <3>4 DEF Right
      <3>9. z.pc = "write" /\ z.row = 0 /\ z.todo[1] = Recompute(k) =>
              \A r \in rows' \cup z.view : r.key # k
        BY <2>2, <3>5 DEF Right
      <3>10. \A u, v \in z.view : u.key = k /\ v.key = k => u = v BY <2>2 DEF Right
      <3> QED BY <3>7, <3>8, <3>9, <3>10 DEF Right
    <2> QED BY <2>4, <2>5
  <1> QED BY <1>1, <1>8, <1>9, <1>10 DEF Alone

LEMMA HonestNext == TypeInv /\ BackedInv /\ LockInv /\ HonestInv /\ [Next]_vars => HonestInv'
  <1> SUFFICES ASSUME TypeInv, BackedInv, LockInv, HonestInv, [Next]_vars PROVE HonestInv'
    OBVIOUS
  <1>1. ASSUME NEW w \in Workers, tx'[w].pc = "next", tx'[w].view = {}
        PROVE  \A k : Right(FALSE, tx'[w], rows, snaps, k)
    BY <1>1 DEF Right
  <1>2. ASSUME NEW w \in Workers, tx[w].view \subseteq tx'[w].view, tx'[w].fresh = tx[w].fresh
        PROVE  \A p : Doomed(tx[w], rows, p) => Doomed(tx'[w], rows, p)
    BY <1>2 DEF Doomed
  <1>3. ASSUME NEW w \in Workers,
               (\E plan \in Plans : StartWriting(w, plan)) \/ (\E run \in Runs : StartJob(w, run))
        PROVE  HonestInv'
    <2>1. BeginStep(w) BY <1>3, BeginDoes
    <2>2. Alone(w) /\ UNCHANGED <<snaps, rows>> /\ tx'[w].pc = "next" /\ tx'[w].view = {}
      BY <2>1 DEF BeginStep
    <2> QED BY <1>1, <2>2, HonestKept
  <1>4. ASSUME NEW w \in Workers, WritePrice(w) PROVE HonestInv'
    <2>1. PICK o \in Offers, p \in Prices : PriceStep(w, o, p) BY <1>4, PriceDoes
    <2>2. Alone(w) /\ UNCHANGED <<snaps, rows>> /\ tx'[w].view = tx[w].view /\ tx'[w].fresh = tx[w].fresh
      BY <2>1 DEF PriceStep
    <2>3. \A q : Doomed(tx[w], rows, q) => Doomed(tx'[w], rows, q) BY <1>2, <2>2
    <2>4. \A k \in Keys : Right(FALSE, tx[w], rows, snaps, k) => Right(FALSE, tx'[w], rows, snaps, k)
      BY <2>1, PriceRight
    <2> QED BY <2>2, <2>3, <2>4, HonestKept
  <1>5. ASSUME NEW w \in Workers, ReadPrices(w) PROVE HonestInv'
    <2>1. PICK j \in Keys : ReadStep(w, j) BY <1>5, ReadDoes
    <2>2. Alone(w) /\ UNCHANGED <<snaps, rows>> /\ tx'[w].view = tx[w].view /\ tx'[w].fresh = tx[w].fresh
      BY <2>1 DEF ReadStep
    <2>3. \A q : Doomed(tx[w], rows, q) => Doomed(tx'[w], rows, q) BY <1>2, <2>2
    <2>4. \A k \in Keys : Right(FALSE, tx[w], rows, snaps, k) => Right(FALSE, tx'[w], rows, snaps, k)
      BY <2>1, ReadRight
    <2> QED BY <2>2, <2>3, <2>4, HonestKept
  <1>6. ASSUME NEW w \in Workers, ReadRow(w) PROVE HonestInv'
    <2>1. PICK j \in Keys : RowStep(w, j) BY <1>6, RowDoes
    <2>2. Alone(w) /\ UNCHANGED <<snaps, rows>> /\ tx[w].view \subseteq tx'[w].view
          /\ tx'[w].fresh = tx[w].fresh
      BY <2>1 DEF RowStep
    <2>3. \A q : Doomed(tx[w], rows, q) => Doomed(tx'[w], rows, q) BY <1>2, <2>2
    <2>4. \A k \in Keys : Committed(FALSE, rows, snaps, k) /\ Right(FALSE, tx[w], rows, snaps, k) =>
                          Right(FALSE, tx'[w], rows, snaps, k)
      BY <2>1, RowRight
    <2> QED BY <2>2, <2>3, <2>4, HonestKept
  <1>7. ASSUME NEW w \in Workers, WriteRow(w) PROVE HonestInv'
    <2>1. PICK j \in Keys, id \in Nat : WriteStep(w, j, id) BY <1>7, WriteDoes
    <2>2. Alone(w) /\ UNCHANGED <<snaps, rows>> /\ tx[w].fresh \subseteq tx'[w].fresh
      BY <2>1 DEF WriteStep
    <2>3. \A v \in tx[w].view : \E u \in tx'[w].view : u.id = v.id /\ u.key = v.key
      BY <2>1, Written
    <2>4. \A q : Doomed(tx[w], rows, q) => Doomed(tx'[w], rows, q) BY <2>2, <2>3 DEF Doomed
    <2>5. \A k \in Keys : Right(FALSE, tx[w], rows, snaps, k) => Right(FALSE, tx'[w], rows, snaps, k)
      BY <2>1, WriteRight
    <2> QED BY <2>2, <2>4, <2>5, HonestKept
  <1>8. ASSUME NEW w \in Workers, Rollback(w) PROVE HonestInv'
    <2>1. EndStep(w) BY <1>8, EndDoes
    <2>2. Alone(w) /\ UNCHANGED <<snaps, rows>> /\ tx'[w].pc = "next" /\ tx'[w].view = {}
      BY <1>8, <2>1 DEF EndStep
    <2> QED BY <1>1, <2>2, HonestKept
  <1>9. ASSUME NEW w \in Workers, Commit(w) PROVE HonestInv' BY <1>9, HonestCommit
  <1>10. CASE DayPasses BY <1>10 DEF DayPasses, HonestInv, OneRowForAll
  <1>11. CASE UNCHANGED vars BY <1>11 DEF HonestInv, OneRowForAll, vars
  <1> QED BY <1>3, <1>4, <1>5, <1>6, <1>7, <1>8, <1>9, <1>10, <1>11 DEF Next, Step

LEMMA HonestFirst == Init => HonestInv
  <1> SUFFICES ASSUME Init PROVE HonestInv
    OBVIOUS
  <1>1. tx = [w \in Workers |-> Idle] /\ Idle.view = {} /\ Idle.pc = "next" BY FirstRows DEF Idle
  <1>2. \A w \in Workers, k \in Keys : Right(FALSE, tx[w], rows, snaps, k) BY <1>1 DEF Right
  <1>3. ASSUME NEW k \in Keys PROVE Committed(FALSE, rows, snaps, k)
    <2>1. CASE Existing
      <3>1. PICK f \in [Keys -> 1..issued] : rows = {Row(f[j], j, High, High) : j \in Keys}
        BY <2>1, FirstRows
      <3>2. \A j \in Keys : LET r == Row(f[j], j, High, High) IN r.key = j /\ r.low = High
        BY DEF Row
      <3>3. snaps = {[of |-> o, price |-> High, at |-> 0] : o \in Offers} BY <2>1, FirstRows
      <3>4. \A s \in SnapsOf(k, snaps) : s.price = High BY <3>3 DEF SnapsOf
      <3>5. High <= High BY PriceAnalyticsAssumption
      <3>6. \A r \in rows : r.low = High BY <3>1, <3>2
      <3>7. \A r, q \in rows : r.key = k /\ q.key = k => r = q BY <3>1, <3>2
      <3> QED BY <3>4, <3>5, <3>6, <3>7 DEF Committed, Agrees
    <2>2. CASE ~Existing
      <3>1. rows = {} BY <2>2, FirstRows
      <3> QED BY <3>1 DEF Committed
    <2> QED BY <2>1, <2>2
  <1> QED BY <1>2, <1>3 DEF HonestInv

(* No offer is said to be at its historical minimum while a lower price of  *)
(* its store is on record, as long as its product has one row for all       *)
(* stores: whoever writes the row of a store has locked that one before,    *)
(* and whoever inserts a second one ends it.                                *)
THEOREM MinimaAreHonest == Spec => []HistoricalMinHonest
  <1>1. TypeInv /\ HonestInv => HistoricalMinHonest
    <2> SUFFICES ASSUME TypeInv, HonestInv, NEW o \in Offers, OneRowForAll(ProductOf[o]),
                        IsHistoricalMin(o),
                        NEW s \in SnapsOf(<<ProductOf[o], StoreOf[o]>>, snaps)
                 PROVE  price[o] <= s.price
      BY DEF HistoricalMinHonest
    <2> DEFINE k == <<ProductOf[o], StoreOf[o]>>
    <2>1. k \in Keys /\ k[1] = ProductOf[o] /\ k[2] # All BY KeyOf
    <2>2. PICK r \in rows : r.key = k /\ r.low # None /\ price[o] <= r.low BY DEF IsHistoricalMin
    <2>3. s \in snaps /\ s.price \in Nat
      BY PriceAnalyticsAssumption DEF SnapsOf, TypeInv, Snaps
    <2>4. s \in SnapsOf(k, snaps) OBVIOUS
    <2> HIDE DEF k
    <2>5. Committed(FALSE, rows, snaps, k) BY <2>1 DEF HonestInv
    <2>6. r.low <= s.price BY <2>2, <2>4, <2>5 DEF Committed, Agrees
    <2>7. r.low \in Nat /\ price[o] \in Nat
      BY <2>2, PriceAnalyticsAssumption DEF TypeInv, AnalyticsRows, Lows
    <2> QED BY <2>2, <2>3, <2>6, <2>7
  <1>2. Spec => [](TypeInv /\ BackedInv /\ LockInv) BY TypeAlways, BackedAlways, LockAlways, PTL
  <1>3. Spec => []HonestInv BY <1>2, HonestFirst, HonestNext, PTL DEF Spec
  <1> QED BY <1>1, <1>2, <1>3, PTL

-----------------------------------------------------------------------------
(* Rows are exact as long as sessions take turns *)

(* One session at most is open, and what it knows of every key is right.    *)
ExactInv ==
  ~overlapped =>
     /\ \A x, y \in Workers : tx[x] # Idle /\ tx[y] # Idle => x = y
     /\ \A k \in Keys : /\ Committed(TRUE, rows, snaps, k)
                        /\ \A w \in Workers : Right(TRUE, tx[w], rows, snaps, k)

LEMMA EmptyRight ==
  ASSUME NEW t, t.pc = "next", t.view = {}
  PROVE  \A R, S, k : Right(TRUE, t, R, S, k)
  BY DEF Right

(* A step of the open session that leaves the tables alone.                 *)
LEMMA ExactKept ==
  ASSUME ExactInv, NEW w \in Workers, tx[w] # Idle, Alone(w), UNCHANGED <<snaps, rows, overlapped>>,
         \A k \in Keys : Committed(TRUE, rows, snaps, k) /\ Right(TRUE, tx[w], rows, snaps, k) =>
                         Right(TRUE, tx'[w], rows, snaps, k)
  PROVE  ExactInv'
  <1> SUFFICES ASSUME ~overlapped
               PROVE  /\ \A x, y \in Workers : tx'[x] # Idle /\ tx'[y] # Idle => x = y
                      /\ \A k \in Keys : /\ Committed(TRUE, rows, snaps, k)
                                         /\ \A x \in Workers : Right(TRUE, tx'[x], rows, snaps, k)
    BY DEF ExactInv
  <1>1. \A x \in Workers : x # w => tx[x] = Idle /\ tx'[x] = Idle BY DEF ExactInv, Alone
  <1>2. ASSUME NEW k \in Keys, NEW x \in Workers PROVE Right(TRUE, tx'[x], rows, snaps, k)
    <2>1. Committed(TRUE, rows, snaps, k) /\ Right(TRUE, tx[x], rows, snaps, k) BY DEF ExactInv
    <2> QED BY <2>1 DEF Alone
  <1> QED BY <1>1, <1>2 DEF ExactInv

LEMMA ExactNext == TypeInv /\ BackedInv /\ LockInv /\ ExactInv /\ [Next]_vars => ExactInv'
  <1> SUFFICES ASSUME TypeInv, BackedInv, LockInv, ExactInv, [Next]_vars PROVE ExactInv'
    OBVIOUS
  <1>0. Idle.todo = <<>> /\ Idle.pc = "next" /\ Idle.view = {} BY DEF Idle
  <1>1. ASSUME NEW w \in Workers,
               (\E plan \in Plans : StartWriting(w, plan)) \/ (\E run \in Runs : StartJob(w, run))
        PROVE  ExactInv'
    <2>1. /\ Alone(w) /\ UNCHANGED <<snaps, rows>> /\ tx'[w].pc = "next" /\ tx'[w].view = {}
          /\ overlapped' = (overlapped \/ \E v \in Workers : tx[v] # Idle)
      BY <1>1, BeginDoes DEF BeginStep
    <2> SUFFICES ASSUME ~overlapped, \A v \in Workers : tx[v] = Idle
                 PROVE  /\ \A x, y \in Workers : tx'[x] # Idle /\ tx'[y] # Idle => x = y
                        /\ \A k \in Keys : /\ Committed(TRUE, rows, snaps, k)
                                           /\ \A x \in Workers : Right(TRUE, tx'[x], rows, snaps, k)
      BY <2>1 DEF ExactInv
    <2>2. \A x \in Workers : x # w => tx'[x] = Idle BY <2>1 DEF Alone
    <2>3. \A x \in Workers : tx'[x].pc = "next" /\ tx'[x].view = {} BY <1>0, <2>1, <2>2
    <2>4. \A k \in Keys : Committed(TRUE, rows, snaps, k) BY DEF ExactInv
    <2> QED BY <2>2, <2>3, <2>4, EmptyRight
  <1>2. ASSUME NEW w \in Workers, WritePrice(w) PROVE ExactInv'
    <2>1. PICK o \in Offers, p \in Prices : PriceStep(w, o, p) BY <1>2, PriceDoes
    <2>2. Alone(w) /\ UNCHANGED <<snaps, rows, overlapped>> /\ tx[w] # Idle
      BY <1>0, <2>1 DEF PriceStep
    <2>3. \A k \in Keys : Right(TRUE, tx[w], rows, snaps, k) => Right(TRUE, tx'[w], rows, snaps, k)
      BY <2>1, PriceRight
    <2> QED BY <2>2, <2>3, ExactKept
  <1>3. ASSUME NEW w \in Workers, ReadPrices(w) PROVE ExactInv'
    <2>1. PICK j \in Keys : ReadStep(w, j) BY <1>3, ReadDoes
    <2>2. Alone(w) /\ UNCHANGED <<snaps, rows, overlapped>> /\ tx[w] # Idle
      BY <1>0, <2>1 DEF ReadStep
    <2>3. \A k \in Keys : Right(TRUE, tx[w], rows, snaps, k) => Right(TRUE, tx'[w], rows, snaps, k)
      BY <2>1, ReadRight
    <2> QED BY <2>2, <2>3, ExactKept
  <1>4. ASSUME NEW w \in Workers, ReadRow(w) PROVE ExactInv'
    <2>1. PICK j \in Keys : RowStep(w, j) BY <1>4, RowDoes
    <2>2. Alone(w) /\ UNCHANGED <<snaps, rows, overlapped>> /\ tx[w] # Idle
      BY <1>0, <2>1 DEF RowStep
    <2>3. \A k \in Keys : Committed(TRUE, rows, snaps, k) /\ Right(TRUE, tx[w], rows, snaps, k) =>
                          Right(TRUE, tx'[w], rows, snaps, k)
      BY <2>1, RowRight
    <2> QED BY <2>2, <2>3, ExactKept
  <1>5. ASSUME NEW w \in Workers, WriteRow(w) PROVE ExactInv'
    <2>1. PICK j \in Keys, id \in Nat : WriteStep(w, j, id) BY <1>5, WriteDoes
    <2>2. Alone(w) /\ UNCHANGED <<snaps, rows, overlapped>> /\ tx[w] # Idle
      BY <1>0, <2>1 DEF WriteStep
    <2>3. \A k \in Keys : Right(TRUE, tx[w], rows, snaps, k) => Right(TRUE, tx'[w], rows, snaps, k)
      BY <2>1, WriteRight
    <2> QED BY <2>2, <2>3, ExactKept
  <1>6. ASSUME NEW w \in Workers, Rollback(w) PROVE ExactInv'
    <2>1. /\ Alone(w) /\ UNCHANGED <<snaps, rows, overlapped>> /\ tx'[w].pc = "next" /\ tx'[w].view = {}
      BY <1>6, EndDoes DEF EndStep
    <2>2. \A k : Right(TRUE, tx'[w], rows, snaps, k) BY <2>1, EmptyRight
    <2>3. tx[w] # Idle BY <1>6 DEF Rollback
    <2> QED BY <2>1, <2>2, <2>3, ExactKept
  <1>7. ASSUME NEW w \in Workers, Commit(w) PROVE ExactInv'
    <2>1. Alone(w) /\ tx'[w] = Idle /\ UNCHANGED overlapped
      BY <1>7, CommitFrom, EndDoes DEF EndStep
    <2> SUFFICES ASSUME ~overlapped
                 PROVE  /\ \A x, y \in Workers : tx'[x] # Idle /\ tx'[y] # Idle => x = y
                        /\ \A k \in Keys : /\ Committed(TRUE, rows', snaps', k)
                                           /\ \A x \in Workers : Right(TRUE, tx'[x], rows', snaps', k)
      BY <2>1 DEF ExactInv
    <2>2. tx[w] # Idle BY <1>7 DEF Commit
    <2>3. \A x \in Workers : tx'[x] = Idle BY <2>1, <2>2 DEF ExactInv, Alone
    <2>4. \A k \in Keys : Committed(TRUE, rows, snaps, k) /\ Right(TRUE, tx[w], rows, snaps, k)
      BY DEF ExactInv
    <2>5. \A k \in Keys : Committed(TRUE, rows', snaps', k) BY <1>7, <2>4, CommitRight
    <2> QED BY <1>0, <2>3, <2>5, EmptyRight
  <1>8. CASE DayPasses BY <1>8 DEF DayPasses, ExactInv
  <1>9. CASE UNCHANGED vars BY <1>9 DEF ExactInv, vars
  <1> QED BY <1>1, <1>2, <1>3, <1>4, <1>5, <1>6, <1>7, <1>8, <1>9 DEF Next, Step

LEMMA ExactFirst == Init => ExactInv
  <1> SUFFICES ASSUME Init PROVE ExactInv
    OBVIOUS
  <1>1. tx = [w \in Workers |-> Idle] /\ Idle.view = {} /\ Idle.pc = "next" BY FirstRows DEF Idle
  <1>2. \A w \in Workers, k \in Keys : Right(TRUE, tx[w], rows, snaps, k) BY <1>1, EmptyRight
  <1>3. ASSUME NEW k \in Keys PROVE Committed(TRUE, rows, snaps, k)
    <2>1. CASE Existing
      <3>1. PICK f \in [Keys -> 1..issued] : rows = {Row(f[j], j, High, High) : j \in Keys}
        BY <2>1, FirstRows
      <3>2. \A j \in Keys : LET r == Row(f[j], j, High, High) IN r.key = j /\ r.low = High
        BY DEF Row
      <3>3. snaps = {[of |-> o, price |-> High, at |-> 0] : o \in Offers} BY <2>1, FirstRows
      <3> DEFINE T == SnapsOf(k, snaps)
      <3>4. T # {}
        <4>1. PICK o \in Offers : k \in KeysOf(o) BY DEF Keys, KeysOf
        <4>2. o \in OffersOf(k) BY <4>1 DEF KeysOf, OffersOf
        <4>3. [of |-> o, price |-> High, at |-> 0] \in snaps BY <3>3
        <4> QED BY <4>2, <4>3 DEF SnapsOf
      <3>5. T \in SUBSET Snaps /\ \A s \in T : s.price = High
        BY <3>3, PriceAnalyticsAssumption DEF SnapsOf, Snaps
      <3> HIDE DEF T
      <3>6. LowOf(T) = High BY <3>4, <3>5, LowIn
      <3>7. \A r, q \in rows : r.key = k /\ q.key = k => r = q BY <3>1, <3>2
      <3>8. \A r \in rows : r.low = High BY <3>1, <3>2
      <3>9. \E r \in rows : r.key = k BY <3>1, <3>2
      <3> QED BY <3>6, <3>7, <3>8, <3>9 DEF Committed, Agrees, T
    <2>2. CASE ~Existing
      <3>1. rows = {} /\ SnapsOf(k, snaps) = {} BY <2>2, FirstRows DEF SnapsOf
      <3> QED BY <3>1 DEF Committed
    <2> QED BY <2>1, <2>2
  <1> QED BY <1>1, <1>2, <1>3 DEF ExactInv

(* Until a session begins while another is open, whatever they write and    *)
(* whichever of them break off, there is one row per key, with the minimum  *)
(* of its snapshots: a session leaves no key it wrote a price for behind.   *)
THEOREM RowsAreExact == Spec => []Exact
  <1>1. TypeInv /\ ExactInv => Exact
    <2> SUFFICES ASSUME TypeInv, ExactInv, ~overlapped PROVE Exact
      BY DEF Exact
    <2>1. \A k \in Keys : Committed(TRUE, rows, snaps, k) BY DEF ExactInv
    <2>2. \A r \in rows : r.key \in Keys BY DEF TypeInv, AnalyticsRows
    <2> QED BY <2>1, <2>2 DEF Committed, Agrees, Exact
  <1>2. Spec => [](TypeInv /\ BackedInv /\ LockInv) BY TypeAlways, BackedAlways, LockAlways, PTL
  <1>3. Spec => []ExactInv BY <1>2, ExactFirst, ExactNext, PTL DEF Spec
  <1> QED BY <1>1, <1>2, <1>3, PTL

=============================================================================
