-------------------------- MODULE SourceSyncProofs --------------------------
(* Proofs about SourceSync: for any number of workers, configs, stores and  *)
(* records, whichever syncs overlap, fail or break off.                     *)
EXTENDS SourceSync, FiniteSetTheorems, TLAPS

-----------------------------------------------------------------------------
(* What a transaction in hand keeps to, in a table and with size lists that *)
(* others may be changing.                                                  *)

(* A row as the transaction sees it.                                        *)
RowOf(t, tab, k) == IF t.put[k] # Absent THEN t.put[k] ELSE tab[k]

Resolving == {"name", "addname", "product", "addmapping"}
InRecord  == Resolving \cup {"offer", "insert", "update"}

(* It is at a config, and at a record of its feed while it handles one.     *)
AtRecord(t) ==
  /\ t \in Txn
  /\ t.pc \notin {"idle", "configs"} => t.at \in Configs \X (Nat \ {0})
  /\ t.pc \in InRecord => t.at[2] =< Len(Records(t))

(* It adds a mapping where none is, for items that are not catalogued, and  *)
(* the product it takes to the offer is the one its mapping leads to.       *)
MapsOnce(t, tab) ==
  /\ \A c \in Configs, i \in Items : t.put[Mapping(c, i)] # Absent =>
        tab[Mapping(c, i)] = Absent /\ i \notin Catalogued
  /\ t.pc \in Resolving => Item(t) \notin Catalogued /\ t.put[MappingOf(t)] = Absent
  /\ t.pc \in {"addmapping", "offer", "insert"} => t.prod # Absent
  /\ t.pc \in {"offer", "insert"} =>
        Item(t) \in Catalogued \/ RowOf(t, tab, MappingOf(t)) = t.prod

OffersMapped(t, tab) ==
  \A c \in Configs, i \in Items :
    SoleConfig(c) /\ i \notin Catalogued /\ t.put[Offer(c, i)] # Absent =>
      RowOf(t, tab, Mapping(c, i)) = t.put[Offer(c, i)]

(* It deletes no size list that is not there, and none of an offer it has   *)
(* not locked.                                                              *)
SizesThere(t, tab, siz) ==
  /\ \A k \in Offers : /\ t.dropped[k] =< siz[k]
                       /\ t.dropped[k] > 0 \/ k \in t.listed => t.put[k] # Absent
  /\ t.pc = "update" =>
        /\ RowOf(t, tab, OfferOf(t)) # Absent
        /\ t.dropped[OfferOf(t)] + t.seen =< siz[OfferOf(t)]

(* What it has made is mapped before anything else happens.                 *)
MadeMapped(t) ==
  \A p \in t.made : \/ \E c \in Configs, i \in Items : t.put[Mapping(c, i)] = p
                    \/ t.pc = "addmapping" /\ t.prod = p

Sound(t, tab, siz) ==
  /\ AtRecord(t) /\ MapsOnce(t, tab) /\ OffersMapped(t, tab)
  /\ SizesThere(t, tab, siz) /\ MadeMapped(t)

(* Two transactions do not write the same row.                              *)
Apart(t, x) == \A k \in Keys : t.put[k] = Absent \/ x.put[k] = Absent

-----------------------------------------------------------------------------
(* What is committed *)

CommittedOK ==
  /\ table \in [Keys -> Values]
  /\ products \subseteq Prods
  /\ sizes \in [Offers -> Nat]
  /\ due \subseteq Configs
  /\ active \subseteq Configs
  /\ report \in [Configs -> Statuses]
  /\ faults \in 0..MaxFaults

TableMapped ==
  \A c \in Configs, i \in Items :
    /\ i \in Catalogued => table[Mapping(c, i)] = Absent
    /\ SoleConfig(c) /\ i \notin Catalogued /\ table[Offer(c, i)] # Absent =>
          table[Mapping(c, i)] = table[Offer(c, i)]

ProductsMapped ==
  \A p \in products : p[2] > 0 => \E c \in Configs, i \in Items : table[Mapping(c, i)] = p

SyncInv ==
  /\ CommittedOK /\ TableMapped /\ ProductsMapped
  /\ tx \in [Workers -> Txn]
  /\ \A w \in Workers : Sound(tx[w], table, sizes)
  /\ \A w, x \in Workers : w # x => Apart(tx[w], tx[x])

-----------------------------------------------------------------------------
(* Keys and values *)

LEMMA KeysApart ==
  ASSUME NEW n, NEW c, NEW i, NEW d, NEW j
  PROVE  /\ Name(n) # Mapping(c, i) /\ Name(n) # Offer(c, i) /\ Name(n) # Config(c)
         /\ Mapping(c, i) # Offer(d, j) /\ Mapping(c, i) # Config(d)
         /\ Offer(c, i) # Config(d)
         /\ Mapping(c, i) = Mapping(d, j) => c = d /\ i = j
         /\ Offer(c, i) = Offer(d, j) => StoreOf[c] = StoreOf[d] /\ i = j
  BY DEF Name, Mapping, Offer, Config

LEMMA KeysIn ==
  ASSUME NEW c \in Configs, NEW i \in Items
  PROVE  Mapping(c, i) \in Keys /\ Offer(c, i) \in Keys /\ Offer(c, i) \in Offers
         /\ Config(c) \in Keys
  BY DEF Keys, Offers

LEMMA ProdsPresent ==
  ASSUME NEW p \in Prods
  PROVE  p # Absent /\ p \in Values
  BY DEF Prods, Absent, Values

LEMMA ItemAt ==
  ASSUME NEW t, AtRecord(t), t.pc \in InRecord \/ (t.pc = "record" /\ t.at[2] =< Len(Records(t)))
  PROVE  Item(t) \in Items /\ ConfigOf(t) \in Configs
  <1>1. t.at[1] \in Configs /\ t.at[2] \in Nat \ {0} BY DEF AtRecord, InRecord, Resolving
  <1>2. Feed[t.at[1]] \in Seq(Items) BY <1>1, SourceSyncAssumption
  <1>3. t.at[2] \in 1..Len(Feed[t.at[1]])
    BY <1>1, <1>2 DEF AtRecord, Records, ConfigOf
  <1> QED BY <1>1, <1>2, <1>3 DEF Item, Records, ConfigOf

LEMMA IdleSound ==
  ASSUME CommittedOK
  PROVE  Idle \in Txn /\ Sound(Idle, table, sizes) /\ \A x : Apart(Idle, x) /\ Apart(x, Idle)
  <1>1. Idle \in Txn
    BY DEF Idle, Txn, Values, Absent, Statuses
  <1>2. \A c \in Configs, i \in Items :
           Idle.put[Mapping(c, i)] = Absent /\ Idle.put[Offer(c, i)] = Absent
    BY KeysIn DEF Idle
  <1>3. AtRecord(Idle) BY <1>1 DEF AtRecord, Idle, InRecord, Resolving
  <1>4. MapsOnce(Idle, table) BY <1>2 DEF MapsOnce, Idle, Resolving
  <1>5. OffersMapped(Idle, table) BY <1>2 DEF OffersMapped
  <1>6. SizesThere(Idle, table, sizes)
    <2>1. \A k \in Offers : Idle.dropped[k] = 0 /\ k \notin Idle.listed BY DEF Idle
    <2>2. \A k \in Offers : sizes[k] \in Nat BY DEF CommittedOK
    <2>3. Idle.pc # "update" BY DEF Idle
    <2> QED BY <2>1, <2>2, <2>3 DEF SizesThere
  <1>7. MadeMapped(Idle) BY DEF MadeMapped, Idle
  <1>8. \A k \in Keys : Idle.put[k] = Absent BY DEF Idle
  <1> QED BY <1>1, <1>3, <1>4, <1>5, <1>6, <1>7, <1>8 DEF Sound, Apart

(* Being queued for a lock is not part of it.                               *)
LEMMA QueuedSound ==
  ASSUME NEW t, NEW tab, NEW siz, Sound(t, tab, siz), NEW b \in BOOLEAN
  PROVE  /\ [t EXCEPT !.queued = b] \in Txn /\ Sound([t EXCEPT !.queued = b], tab, siz)
         /\ [t EXCEPT !.queued = b].put = t.put
  <1> DEFINE u == [t EXCEPT !.queued = b]
  <1>1. t \in Txn BY DEF Sound, AtRecord
  <1>2. u \in Txn BY <1>1 DEF Txn
  <1>3. /\ u.pc = t.pc /\ u.at = t.at /\ u.prod = t.prod /\ u.seen = t.seen /\ u.put = t.put
        /\ u.made = t.made /\ u.dropped = t.dropped /\ u.listed = t.listed
    BY <1>1 DEF Txn
  <1> HIDE DEF u
  <1>4. /\ Records(u) = Records(t) /\ Item(u) = Item(t) /\ MappingOf(u) = MappingOf(t)
        /\ OfferOf(u) = OfferOf(t) /\ \A k : RowOf(u, tab, k) = RowOf(t, tab, k)
    BY <1>3 DEF Records, Item, MappingOf, OfferOf, ConfigOf, RowOf
  <1>5. AtRecord(u) BY <1>2, <1>3, <1>4 DEF Sound, AtRecord
  <1>6. MapsOnce(u, tab) BY <1>3, <1>4 DEF Sound, MapsOnce
  <1>7. OffersMapped(u, tab) BY <1>3, <1>4 DEF Sound, OffersMapped
  <1>8. SizesThere(u, tab, siz) BY <1>3, <1>4 DEF Sound, SizesThere
  <1>9. MadeMapped(u) BY <1>3 DEF Sound, MadeMapped
  <1> QED BY <1>2, <1>3, <1>5, <1>6, <1>7, <1>8, <1>9 DEF Sound, u

(* Nothing is committed while a transaction goes on.                        *)
LEMMA BecomeKeeps ==
  ASSUME SyncInv, NEW w \in Workers, NEW t, Become(w, t), faults' \in 0..MaxFaults,
         Sound(t, table, sizes), \A x \in Workers \ {w} : Apart(t, tx[x])
  PROVE  SyncInv'
  <1> DEFINE u == [t EXCEPT !.queued = FALSE]
  <1>1. u \in Txn /\ Sound(u, table, sizes) /\ u.put = t.put BY QueuedSound
  <1>2. tx' = [tx EXCEPT ![w] = u] /\ UNCHANGED <<table, products, sizes, due, active, report>>
    BY DEF Become
  <1> HIDE DEF u
  <1>3. tx \in [Workers -> Txn] BY DEF SyncInv
  <1>4. tx' \in [Workers -> Txn] /\ tx'[w] = u /\ \A x \in Workers \ {w} : tx'[x] = tx[x]
    BY <1>1, <1>2, <1>3
  <1>5. CommittedOK' /\ TableMapped' /\ ProductsMapped'
    BY <1>2 DEF SyncInv, CommittedOK, TableMapped, ProductsMapped
  <1>6. ASSUME NEW x \in Workers PROVE Sound(tx[x], table, sizes)'
    BY <1>1, <1>2, <1>4 DEF SyncInv
  <1>7. ASSUME NEW x \in Workers, NEW y \in Workers, x # y PROVE Apart(tx[x], tx[y])'
    <2>1. CASE x # w /\ y # w BY <1>4, <1>7, <2>1 DEF SyncInv
    <2>2. CASE x = w BY <1>1, <1>4, <1>7, <2>2 DEF Apart
    <2>3. CASE y = w BY <1>1, <1>4, <1>7, <2>3 DEF Apart
    <2> QED BY <2>1, <2>2, <2>3
  <1> QED BY <1>4, <1>5, <1>6, <1>7 DEF SyncInv

LEMMA RollbackKeeps ==
  ASSUME SyncInv, NEW w \in Workers, Rollback(w), faults' \in 0..MaxFaults
  PROVE  SyncInv'
  <1>1. CommittedOK BY DEF SyncInv
  <1> QED BY <1>1, IdleSound, BecomeKeeps DEF Rollback

(* A step that writes no mapping and no offer.                              *)
LEMMA MovedSound ==
  ASSUME NEW t, Sound(t, table, sizes), t.pc # "addmapping",
         NEW u, AtRecord(u), u.dropped = t.dropped, u.listed = t.listed,
         \A p \in u.made \ t.made : u.pc = "addmapping" /\ u.prod = p,
         \A c \in Configs, i \in Items :
           u.put[Mapping(c, i)] = t.put[Mapping(c, i)] /\ u.put[Offer(c, i)] = t.put[Offer(c, i)],
         u.pc \in Resolving => Item(u) \notin Catalogued /\ u.put[MappingOf(u)] = Absent,
         u.pc \in {"addmapping", "offer", "insert"} => u.prod # Absent,
         u.pc \in {"offer", "insert"} =>
           Item(u) \in Catalogued \/ RowOf(u, table, MappingOf(u)) = u.prod,
         u.pc = "update" =>
           /\ RowOf(u, table, OfferOf(u)) # Absent
           /\ u.dropped[OfferOf(u)] + u.seen =< sizes[OfferOf(u)]
  PROVE  Sound(u, table, sizes)
  <1>1. MapsOnce(u, table) BY DEF Sound, MapsOnce
  <1>2. OffersMapped(u, table) BY DEF Sound, OffersMapped, RowOf
  <1>3. \A k \in Offers : u.put[k] = t.put[k] BY DEF Offers
  <1>4. SizesThere(u, table, sizes) BY <1>3 DEF Sound, SizesThere
  <1>5. MadeMapped(u) BY DEF Sound, MadeMapped
  <1> QED BY <1>1, <1>2, <1>4, <1>5 DEF Sound

LEMMA RecordEnds ==
  ASSUME NEW t, AtRecord(t), t.pc \notin {"idle", "configs"},
         NEW u, u = Failed(t) \/ u = Succeeded(t)
  PROVE  /\ u.pc = "record" /\ u.put = t.put /\ u.made = t.made
         /\ u.dropped = t.dropped /\ u.listed = t.listed
         /\ AtRecord(u)
  <1>1. t \in Txn /\ t.at \in Configs \X (Nat \ {0}) BY DEF AtRecord
  <1>2. [t.at EXCEPT ![2] = @ + 1] \in Configs \X (Nat \ {0}) BY <1>1
  <1> DEFINE n == NextRecord(t)
  <1>3. /\ n \in Txn /\ n.pc = "record" /\ n.at = [t.at EXCEPT ![2] = @ + 1] /\ n.put = t.put
        /\ n.made = t.made /\ n.dropped = t.dropped /\ n.listed = t.listed
    BY <1>1, <1>2 DEF NextRecord, Txn, Values
  <1>4. Failed(t) = [n EXCEPT !.bad = @ \cup {t.at[2]}]
        /\ Succeeded(t) = [n EXCEPT !.good = @ \cup {t.at[2]}]
    BY DEF Failed, Succeeded
  <1>5. t.at[2] \in Nat \ {0} BY <1>1
  <1> HIDE DEF n
  <1>6. /\ u \in Txn /\ u.pc = "record" /\ u.at = n.at /\ u.put = n.put
        /\ u.made = n.made /\ u.dropped = n.dropped /\ u.listed = n.listed
    BY <1>3, <1>4, <1>5 DEF Txn
  <1> QED BY <1>2, <1>3, <1>6 DEF AtRecord, InRecord, Resolving

LEMMA MoveKeeps ==
  ASSUME SyncInv, NEW w \in Workers, NEW u, Become(w, u), faults' = faults,
         tx[w].pc # "addmapping", AtRecord(u), u.put = tx[w].put,
         \A p \in u.made \ tx[w].made : u.pc = "addmapping" /\ u.prod = p,
         u.dropped = tx[w].dropped, u.listed = tx[w].listed,
         u.pc \in Resolving => Item(u) \notin Catalogued /\ u.put[MappingOf(u)] = Absent,
         u.pc \in {"addmapping", "offer", "insert"} => u.prod # Absent,
         u.pc \in {"offer", "insert"} =>
           Item(u) \in Catalogued \/ RowOf(u, table, MappingOf(u)) = u.prod,
         u.pc = "update" =>
           /\ RowOf(u, table, OfferOf(u)) # Absent
           /\ u.dropped[OfferOf(u)] + u.seen =< sizes[OfferOf(u)]
  PROVE  SyncInv'
  <1>1. Sound(tx[w], table, sizes) BY DEF SyncInv
  <1>2. Sound(u, table, sizes) BY <1>1, MovedSound
  <1>3. \A x \in Workers \ {w} : Apart(u, tx[x]) BY DEF SyncInv, Apart
  <1>4. faults' \in 0..MaxFaults BY DEF SyncInv, CommittedOK
  <1> QED BY <1>2, <1>3, <1>4, BecomeKeeps

-----------------------------------------------------------------------------
(* The steps *)

LEMMA BeginStep ==
  ASSUME SyncInv, NEW w \in Workers, NEW chosen \in SUBSET Configs, Begin(w, chosen)
  PROVE  SyncInv'
  <1> DEFINE u == [Idle EXCEPT !.pc = "configs", !.todo = chosen]
  <1>1. CommittedOK BY DEF SyncInv
  <1>2. Idle \in Txn /\ Sound(Idle, table, sizes) /\ \A x : Apart(Idle, x) BY <1>1, IdleSound
  <1>3. /\ u \in Txn /\ u.pc = "configs" /\ u.put = Idle.put /\ u.made = Idle.made
        /\ u.dropped = Idle.dropped /\ u.listed = Idle.listed
    BY <1>2 DEF Txn
  <1>4. Become(w, u) /\ faults' = faults BY DEF Begin
  <1> HIDE DEF u
  <1>5. AtRecord(u) BY <1>3 DEF AtRecord, InRecord, Resolving
  <1>6. Idle.pc # "addmapping" BY DEF Idle
  <1>7. Sound(u, table, sizes) BY <1>2, <1>3, <1>5, <1>6, MovedSound DEF Resolving
  <1>8. \A x : Apart(u, x) BY <1>2, <1>3 DEF Apart
  <1> QED BY <1>1, <1>4, <1>7, <1>8, BecomeKeeps DEF CommittedOK

LEMMA RollbackStep ==
  ASSUME SyncInv, NEW w \in Workers, Rollback(w), faults' = faults
  PROVE  SyncInv'
  BY RollbackKeeps DEF SyncInv, CommittedOK

LEMMA StartConfigStep ==
  ASSUME SyncInv, NEW w \in Workers, NEW c \in Configs, StartConfig(w, c)
  PROVE  SyncInv'
  <1> DEFINE t == tx[w]
             at == <<c, 1>>
             u == [t EXCEPT !.pc = "record", !.at = at, !.good = {}, !.bad = {}]
             v == [t EXCEPT !.pc = "mark", !.at = at, !.said[c] = "failed"]
  <1>1. t \in Txn /\ t.pc = "configs" /\ faults' = faults
    BY DEF SyncInv, StartConfig
  <1>2. Rollback(w) \/ Become(w, u) \/ Become(w, v) BY DEF StartConfig
  <1>a. at \in Configs \X (Nat \ {0}) OBVIOUS
  <1> HIDE DEF at
  <1>3. /\ u \in Txn /\ u.pc = "record" /\ u.at = at /\ u.put = t.put /\ u.made = t.made
        /\ u.dropped = t.dropped /\ u.listed = t.listed
    BY <1>1, <1>a DEF Txn
  <1>b. \A f \in [Configs -> Statuses] : [f EXCEPT ![c] = "failed"] \in [Configs -> Statuses]
    BY DEF Statuses
  <1>4. /\ v \in Txn /\ v.pc = "mark" /\ v.at = at /\ v.put = t.put /\ v.made = t.made
        /\ v.dropped = t.dropped /\ v.listed = t.listed
    BY <1>1, <1>a, <1>b DEF Txn
  <1> HIDE DEF u, v
  <1>5. AtRecord(u) /\ AtRecord(v) BY <1>3, <1>4, <1>a DEF AtRecord, InRecord, Resolving
  <1>6. CASE Become(w, u) BY <1>1, <1>3, <1>5, <1>6, MoveKeeps DEF Resolving
  <1>7. CASE Become(w, v) BY <1>1, <1>4, <1>5, <1>7, MoveKeeps DEF Resolving
  <1> QED BY <1>1, <1>2, <1>6, <1>7, RollbackStep

LEMMA EndRecordsStep ==
  ASSUME SyncInv, NEW w \in Workers, EndRecords(w)
  PROVE  SyncInv'
  <1> DEFINE t == tx[w]
             u == [t EXCEPT !.pc = "mark", !.said[ConfigOf(t)] = RunStatus(t)]
  <1>1. t \in Txn /\ AtRecord(t) /\ t.pc = "record" /\ faults' = faults /\ Become(w, u)
    BY DEF SyncInv, Sound, EndRecords
  <1>2. RunStatus(t) \in Statuses BY DEF RunStatus, Statuses
  <1>3. /\ u \in Txn /\ u.pc = "mark" /\ u.at = t.at /\ u.put = t.put /\ u.made = t.made
        /\ u.dropped = t.dropped /\ u.listed = t.listed
    BY <1>1, <1>2 DEF Txn
  <1> HIDE DEF u
  <1>4. AtRecord(u) BY <1>1, <1>3 DEF AtRecord, InRecord, Resolving
  <1> QED BY <1>1, <1>3, <1>4, MoveKeeps DEF Resolving

LEMMA RecordStep ==
  ASSUME SyncInv, NEW w \in Workers, Record(w)
  PROVE  SyncInv'
  <1> DEFINE t == tx[w]
             P == {<<IdentOf[Item(t)], 0>>, Row(w, MappingOf(t))}
             ToOffer(p) == [t EXCEPT !.pc = "offer", !.prod = p]
             n == [t EXCEPT !.pc = "name", !.names = 0]
  <1>1. /\ t \in Txn /\ AtRecord(t) /\ t.pc = "record" /\ faults' = faults
        /\ t.at[2] =< Len(Records(t)) /\ MapsOnce(t, table) /\ table \in [Keys -> Values]
    BY DEF SyncInv, Sound, Record, CommittedOK
  <1>2. Item(t) \in Items /\ ConfigOf(t) \in Configs BY <1>1, ItemAt
  <1>3. MappingOf(t) \in Keys BY <1>2, KeysIn DEF MappingOf
  <1>4. CASE Become(w, Failed(t))
    BY <1>1, <1>4, RecordEnds, MoveKeeps DEF Resolving
  <1>5. ASSUME NEW p \in Values, p # Absent, Become(w, ToOffer(p)),
               Item(t) \in Catalogued \/ RowOf(t, table, MappingOf(t)) = p
        PROVE  SyncInv'
    <2> DEFINE u == ToOffer(p)
    <2>1. /\ u \in Txn /\ u.pc = "offer" /\ u.at = t.at /\ u.put = t.put /\ u.made = t.made
          /\ u.dropped = t.dropped /\ u.listed = t.listed /\ u.prod = p
      BY <1>1 DEF Txn
    <2>2. Become(w, u) BY <1>5
    <2> HIDE DEF u
    <2>3. /\ Records(u) = Records(t) /\ Item(u) = Item(t) /\ MappingOf(u) = MappingOf(t)
          /\ \A k : RowOf(u, table, k) = RowOf(t, table, k)
      BY <2>1 DEF Records, Item, MappingOf, ConfigOf, RowOf
    <2>4. AtRecord(u) BY <1>1, <2>1, <2>3 DEF AtRecord
    <2> QED BY <1>1, <1>5, <2>1, <2>2, <2>3, <2>4, MoveKeeps DEF Resolving
  <1>6. CASE Item(t) \in Catalogued /\ Become(w, ToOffer(<<IdentOf[Item(t)], 0>>))
    <2>1. <<IdentOf[Item(t)], 0>> \in Prods
      BY <1>2, SourceSyncAssumption DEF Prods
    <2> QED BY <1>5, <1>6, <2>1, ProdsPresent
  <1>7. CASE Row(w, MappingOf(t)) # Absent /\ Become(w, ToOffer(Row(w, MappingOf(t))))
    <2>1. Row(w, MappingOf(t)) = RowOf(t, table, MappingOf(t)) BY DEF Row, RowOf
    <2>2. Row(w, MappingOf(t)) \in Values BY <1>1, <1>3 DEF Row, Txn
    <2> QED BY <1>5, <1>7, <2>1, <2>2
  <1>8. CASE Item(t) \notin Catalogued /\ Row(w, MappingOf(t)) = Absent /\ Become(w, n)
    <2>1. /\ n \in Txn /\ n.pc = "name" /\ n.at = t.at /\ n.put = t.put /\ n.made = t.made
          /\ n.dropped = t.dropped /\ n.listed = t.listed
      BY <1>1 DEF Txn
    <2>2. Become(w, n) BY <1>8
    <2>3. t.put[MappingOf(t)] = Absent BY <1>8 DEF Row
    <2> HIDE DEF n
    <2>4. Records(n) = Records(t) /\ Item(n) = Item(t) /\ MappingOf(n) = MappingOf(t)
      BY <2>1 DEF Records, Item, MappingOf, ConfigOf
    <2>5. AtRecord(n) BY <1>1, <2>1, <2>4 DEF AtRecord
    <2> QED BY <1>1, <1>8, <2>1, <2>2, <2>3, <2>4, <2>5, MoveKeeps
  <1>9. \/ Become(w, Failed(t))
        \/ Item(t) \in Catalogued /\ Become(w, ToOffer(<<IdentOf[Item(t)], 0>>))
        \/ Row(w, MappingOf(t)) # Absent /\ Become(w, ToOffer(Row(w, MappingOf(t))))
        \/ Item(t) \notin Catalogued /\ Row(w, MappingOf(t)) = Absent /\ Become(w, n)
    BY DEF Record
  <1> QED BY <1>4, <1>6, <1>7, <1>8, <1>9

LEMMA WriteApart ==
  ASSUME SyncInv, NEW w \in Workers, CanWrite(w), NEW k \in Target(tx[w]),
         NEW u, \A j \in Keys \ {k} : u.put[j] = tx[w].put[j]
  PROVE  \A x \in Workers \ {w} : Apart(u, tx[x])
  <1> SUFFICES ASSUME NEW x \in Workers \ {w} PROVE Apart(u, tx[x])
    OBVIOUS
  <1>1. tx[x].put[k] = Absent BY DEF CanWrite, Waits
  <1>2. Apart(tx[w], tx[x]) BY DEF SyncInv
  <1> QED BY <1>1, <1>2 DEF Apart

LEMMA ResolveNameStep ==
  ASSUME SyncInv, NEW w \in Workers, ResolveName(w)
  PROVE  SyncInv'
  <1> DEFINE t == tx[w]
  <1>1. /\ t \in Txn /\ AtRecord(t) /\ t.pc = "name" /\ faults' = faults /\ MapsOnce(t, table)
    BY DEF SyncInv, Sound, ResolveName
  <1>2. ASSUME NEW u, Become(w, u),
               \/ u = [t EXCEPT !.pc = "product"]
               \/ u = [t EXCEPT !.names = @ + 1]
               \/ u = [t EXCEPT !.pc = "addname"]
        PROVE  SyncInv'
    <2> DEFINE Good(x) ==
          /\ x \in Txn /\ x.pc \in {"product", "name", "addname"} /\ x.at = t.at /\ x.put = t.put
          /\ x.made = t.made /\ x.dropped = t.dropped /\ x.listed = t.listed
           n == t.names + 1
    <2>a. n \in Nat BY <1>1 DEF Txn
    <2> HIDE DEF n
    <2>b. Good([t EXCEPT !.names = n]) BY <1>1, <2>a DEF Txn
    <2>c. Good([t EXCEPT !.pc = "product"]) BY <1>1 DEF Txn
    <2>d. Good([t EXCEPT !.pc = "addname"]) BY <1>1 DEF Txn
    <2>1. Good(u) BY <1>2, <2>b, <2>c, <2>d DEF n
    <2>2. Records(u) = Records(t) /\ Item(u) = Item(t) /\ MappingOf(u) = MappingOf(t)
      BY <2>1 DEF Records, Item, MappingOf, ConfigOf
    <2>3. AtRecord(u) BY <1>1, <2>1, <2>2 DEF AtRecord, InRecord, Resolving
    <2>4. Item(t) \notin Catalogued /\ t.put[MappingOf(t)] = Absent
      BY <1>1 DEF MapsOnce, Resolving
    <2>5. u.pc \notin {"addmapping", "offer", "insert", "update"} BY <2>1
    <2> QED BY <1>1, <1>2, <2>1, <2>2, <2>3, <2>4, <2>5, MoveKeeps
  <1> QED BY <1>1, <1>2 DEF ResolveName

LEMMA AddNameStep ==
  ASSUME SyncInv, NEW w \in Workers, AddName(w)
  PROVE  SyncInv'
  <1> DEFINE t == tx[w]
             k == NextName(t)
             n == t.names + 1
             u == [t EXCEPT !.pc = "name", !.names = n, !.put[k] = Exists]
  <1>1. /\ t \in Txn /\ Sound(t, table, sizes) /\ AtRecord(t) /\ t.pc = "addname"
        /\ faults' = faults /\ MapsOnce(t, table)
    BY DEF SyncInv, Sound, AddName
  <1>2. CASE Become(w, u) /\ CanWrite(w)
    <2>1. \A f \in [Keys -> Values] :
             [f EXCEPT ![k] = Exists] \in [Keys -> Values]
             /\ \A j \in Keys \ {k} : [f EXCEPT ![k] = Exists][j] = f[j]
      BY DEF Values
    <2>2. \A c \in Configs, i \in Items : Mapping(c, i) \in Keys \ {k} /\ Offer(c, i) \in Keys \ {k}
      BY KeysIn, KeysApart DEF NextName
    <2>3. k \in Target(t) BY <1>1 DEF Target
    <2>5. Become(w, u) /\ CanWrite(w) BY <1>2
    <2>a. n \in Nat BY <1>1 DEF Txn
    <2> HIDE DEF k, n
    <2>4. /\ u \in Txn /\ u.pc = "name" /\ u.at = t.at /\ u.put = [t.put EXCEPT ![k] = Exists]
          /\ u.made = t.made /\ u.dropped = t.dropped /\ u.listed = t.listed
      BY <1>1, <2>1, <2>a DEF Txn
    <2> HIDE DEF u
    <2>6. t.put \in [Keys -> Values] BY <1>1 DEF Txn
    <2>7. \A j \in Keys \ {k} : u.put[j] = t.put[j] BY <2>1, <2>4, <2>6
    <2>8. Records(u) = Records(t) /\ Item(u) = Item(t) /\ MappingOf(u) = MappingOf(t)
      BY <2>4 DEF Records, Item, MappingOf, ConfigOf
    <2>9. AtRecord(u) BY <1>1, <2>4, <2>8 DEF AtRecord, InRecord, Resolving
    <2>10. Item(t) \in Items /\ ConfigOf(t) \in Configs BY <1>1, ItemAt DEF InRecord, Resolving
    <2>11. Item(u) \notin Catalogued /\ u.put[MappingOf(u)] = Absent
      BY <1>1, <2>2, <2>7, <2>8, <2>10 DEF MapsOnce, Resolving, MappingOf
    <2>12. Sound(u, table, sizes)
      <3>1. \A c \in Configs, i \in Items :
              u.put[Mapping(c, i)] = t.put[Mapping(c, i)] /\ u.put[Offer(c, i)] = t.put[Offer(c, i)]
        BY <2>2, <2>7
      <3> QED BY <1>1, <2>4, <2>9, <2>11, <3>1, MovedSound
    <2>13. \A x \in Workers \ {w} : Apart(u, tx[x]) BY <2>3, <2>5, <2>7, WriteApart
    <2> QED BY <1>1, <2>5, <2>12, <2>13, BecomeKeeps DEF SyncInv, CommittedOK
  <1> QED BY <1>1, <1>2, RollbackStep DEF AddName

LEMMA ResolveProductStep ==
  ASSUME SyncInv, NEW w \in Workers, ResolveProduct(w)
  PROVE  SyncInv'
  <1> DEFINE t == tx[w]
  <1>1. /\ t \in Txn /\ AtRecord(t) /\ t.pc = "product" /\ faults' = faults /\ MapsOnce(t, table)
        /\ products \subseteq Prods
    BY DEF SyncInv, CommittedOK, Sound, ResolveProduct
  <1>2. Item(t) \in Items BY <1>1, ItemAt DEF InRecord, Resolving
  <1>3. ASSUME NEW p \in Prods, NEW M \in {t.made, t.made \cup {p}},
               Become(w, [t EXCEPT !.pc = "addmapping", !.prod = p, !.made = M])
        PROVE  SyncInv'
    <2> DEFINE u == [t EXCEPT !.pc = "addmapping", !.prod = p, !.made = M]
    <2>1. p # Absent /\ p \in Values BY ProdsPresent
    <2>2. M \in SUBSET Prods BY <1>1, <1>3 DEF Txn
    <2>3. /\ u \in Txn /\ u.pc = "addmapping" /\ u.at = t.at /\ u.put = t.put /\ u.prod = p
          /\ u.made = M /\ u.dropped = t.dropped /\ u.listed = t.listed
      BY <1>1, <2>1, <2>2 DEF Txn
    <2>4. Become(w, u) BY <1>3
    <2> HIDE DEF u
    <2>5. Records(u) = Records(t) /\ Item(u) = Item(t) /\ MappingOf(u) = MappingOf(t)
      BY <2>3 DEF Records, Item, MappingOf, ConfigOf
    <2>6. AtRecord(u) BY <1>1, <2>3, <2>5 DEF AtRecord, InRecord, Resolving
    <2>7. Item(t) \notin Catalogued /\ t.put[MappingOf(t)] = Absent
      BY <1>1 DEF MapsOnce, Resolving
    <2> QED BY <1>1, <1>3, <2>1, <2>3, <2>4, <2>5, <2>6, <2>7, MoveKeeps
  <1>4. ASSUME NEW p \in Matching(w, Item(t)),
               Become(w, [t EXCEPT !.pc = "addmapping", !.prod = p])
        PROVE  SyncInv'
    <2>1. p \in Prods BY <1>1 DEF Matching, Txn
    <2>2. [t EXCEPT !.pc = "addmapping", !.prod = p]
            = [t EXCEPT !.pc = "addmapping", !.prod = p, !.made = t.made]
      BY <1>1 DEF Txn
    <2> QED BY <1>3, <1>4, <2>1, <2>2
  <1>5. ASSUME NEW p \in NewProduct(Item(t)),
               Become(w, [t EXCEPT !.pc = "addmapping", !.prod = p, !.made = @ \cup {p}])
        PROVE  SyncInv'
    <2>1. p \in Prods BY <1>2, SourceSyncAssumption DEF NewProduct, Prods
    <2> QED BY <1>3, <1>5, <2>1
  <1> QED BY <1>4, <1>5 DEF ResolveProduct

LEMMA AddMappingStep ==
  ASSUME SyncInv, NEW w \in Workers, AddMapping(w)
  PROVE  SyncInv'
  <1> DEFINE t == tx[w]
             m == MappingOf(t)
             u == [t EXCEPT !.pc = "offer", !.put[m] = t.prod]
  <1>1. /\ t \in Txn /\ Sound(t, table, sizes) /\ AtRecord(t) /\ t.pc = "addmapping"
        /\ faults' = faults /\ MapsOnce(t, table)
    BY DEF SyncInv, Sound, AddMapping
  <1>2. CASE Become(w, u) /\ CanWrite(w) /\ table[m] = Absent
    <2>1. Item(t) \in Items /\ ConfigOf(t) \in Configs BY <1>1, ItemAt DEF InRecord, Resolving
    <2>2. /\ m \in Keys /\ \A c \in Configs, i \in Items :
                              /\ Mapping(c, i) \in Keys /\ Offer(c, i) \in Keys \ {m}
                              /\ Mapping(c, i) = m => c = ConfigOf(t) /\ i = Item(t)
      BY <2>1, KeysIn, KeysApart DEF MappingOf
    <2>3. m \in Target(t) BY <1>1 DEF Target
    <2>4. Item(t) \notin Catalogued /\ t.put[m] = Absent /\ t.prod # Absent
      BY <1>1 DEF MapsOnce, Resolving
    <2>5. Become(w, u) /\ CanWrite(w) /\ table[m] = Absent BY <1>2
    <2>6. m = Mapping(ConfigOf(t), Item(t)) BY DEF MappingOf
    <2> HIDE DEF m
    <2>7. t.put \in [Keys -> Values] /\ t.prod \in Values /\ t.made \subseteq Prods BY <1>1 DEF Txn
    <2>8. [t.put EXCEPT ![m] = t.prod] \in [Keys -> Values] BY <2>2, <2>7
    <2>9. /\ u \in Txn /\ u.pc = "offer" /\ u.at = t.at /\ u.put = [t.put EXCEPT ![m] = t.prod]
          /\ u.prod = t.prod /\ u.made = t.made /\ u.dropped = t.dropped /\ u.listed = t.listed
      BY <1>1, <2>8 DEF Txn
    <2> HIDE DEF u
    <2>10. u.put[m] = t.prod /\ \A j \in Keys \ {m} : u.put[j] = t.put[j] BY <2>2, <2>7, <2>9
    <2>11. Records(u) = Records(t) /\ Item(u) = Item(t) /\ MappingOf(u) = m
      BY <2>9 DEF Records, Item, MappingOf, ConfigOf, m
    <2>12. AtRecord(u) BY <1>1, <2>9, <2>11 DEF AtRecord, InRecord, Resolving
    <2>13. MapsOnce(u, table)
      BY <1>1, <2>2, <2>4, <2>5, <2>9, <2>10, <2>11 DEF MapsOnce, Resolving, RowOf
    <2>14. OffersMapped(u, table)
      <3> SUFFICES ASSUME NEW c \in Configs, NEW i \in Items, SoleConfig(c), i \notin Catalogued,
                          u.put[Offer(c, i)] # Absent
                   PROVE  RowOf(u, table, Mapping(c, i)) = u.put[Offer(c, i)]
        BY DEF OffersMapped
      <3>1. u.put[Offer(c, i)] = t.put[Offer(c, i)] BY <2>2, <2>10
      <3>2. RowOf(t, table, Mapping(c, i)) = t.put[Offer(c, i)]
        BY <1>1, <3>1 DEF Sound, OffersMapped
      <3>3. Mapping(c, i) # m BY <2>4, <2>5, <3>1, <3>2 DEF RowOf
      <3> QED BY <2>2, <2>10, <3>1, <3>2, <3>3 DEF RowOf
    <2>15. SizesThere(u, table, sizes)
      <3>1. \A k \in Offers : u.put[k] = t.put[k] BY <2>2, <2>10 DEF Offers
      <3> QED BY <1>1, <2>9, <3>1 DEF Sound, SizesThere
    <2>16. MadeMapped(u)
      <3> SUFFICES ASSUME NEW p \in u.made
                   PROVE  \E c \in Configs, i \in Items : u.put[Mapping(c, i)] = p
        BY DEF MadeMapped
      <3>1. CASE p = t.prod BY <2>1, <2>6, <2>10, <3>1
      <3>2. CASE \E c \in Configs, i \in Items : t.put[Mapping(c, i)] = p
        <4>1. PICK c \in Configs, i \in Items : t.put[Mapping(c, i)] = p BY <3>2
        <4>2. p # Absent BY <2>7, <2>9, ProdsPresent
        <4>3. Mapping(c, i) # m BY <2>4, <4>1, <4>2
        <4> QED BY <2>2, <2>10, <4>1, <4>3
      <3> QED BY <1>1, <2>9, <3>1, <3>2 DEF Sound, MadeMapped
    <2>17. Sound(u, table, sizes) BY <2>12, <2>13, <2>14, <2>15, <2>16 DEF Sound
    <2>18. \A x \in Workers \ {w} : Apart(u, tx[x]) BY <2>3, <2>5, <2>10, WriteApart
    <2> QED BY <1>1, <2>5, <2>17, <2>18, BecomeKeeps DEF SyncInv, CommittedOK
  <1> QED BY <1>1, <1>2, RollbackStep DEF AddMapping, Refused

LEMMA FindOfferStep ==
  ASSUME SyncInv, NEW w \in Workers, FindOffer(w)
  PROVE  SyncInv'
  <1> DEFINE t == tx[w]
             k == OfferOf(t)
             n == sizes[k] - t.dropped[k]
             u == [t EXCEPT !.pc = "insert"]
             v == [t EXCEPT !.pc = "update", !.seen = n]
  <1>1. /\ t \in Txn /\ AtRecord(t) /\ t.pc = "offer" /\ faults' = faults
        /\ MapsOnce(t, table) /\ SizesThere(t, table, sizes) /\ sizes \in [Offers -> Nat]
    BY DEF SyncInv, Sound, FindOffer, CommittedOK
  <1>2. Item(t) \in Items /\ ConfigOf(t) \in Configs BY <1>1, ItemAt DEF InRecord
  <1>3. k \in Offers BY <1>2, KeysIn DEF OfferOf
  <1>4. Become(w, u) \/ (RowOf(t, table, k) # Absent /\ Become(w, v)) BY DEF FindOffer, Row, RowOf
  <1>5. n \in Nat /\ t.dropped[k] + n = sizes[k] /\ sizes[k] \in Nat
    BY <1>1, <1>3 DEF SizesThere, Txn
  <1> HIDE DEF n
  <1>6. /\ u \in Txn /\ u.pc = "insert" /\ u.at = t.at /\ u.put = t.put /\ u.made = t.made
        /\ u.dropped = t.dropped /\ u.listed = t.listed /\ u.prod = t.prod
    BY <1>1 DEF Txn
  <1>7. /\ v \in Txn /\ v.pc = "update" /\ v.at = t.at /\ v.put = t.put /\ v.made = t.made
        /\ v.dropped = t.dropped /\ v.listed = t.listed /\ v.seen = n
    BY <1>1, <1>5 DEF Txn
  <1> HIDE DEF u, v
  <1>8. CASE Become(w, u)
    <2>1. /\ Records(u) = Records(t) /\ Item(u) = Item(t) /\ MappingOf(u) = MappingOf(t)
          /\ \A j : RowOf(u, table, j) = RowOf(t, table, j)
      BY <1>6 DEF Records, Item, MappingOf, ConfigOf, RowOf
    <2>2. AtRecord(u) BY <1>1, <1>6, <2>1 DEF AtRecord, InRecord
    <2>3. u.prod # Absent /\ (Item(u) \in Catalogued \/ RowOf(u, table, MappingOf(u)) = u.prod)
      BY <1>1, <1>6, <2>1 DEF MapsOnce
    <2> QED BY <1>1, <1>6, <1>8, <2>2, <2>3, MoveKeeps DEF Resolving
  <1>9. CASE RowOf(t, table, k) # Absent /\ Become(w, v)
    <2>1. /\ Records(v) = Records(t) /\ OfferOf(v) = k
          /\ \A j : RowOf(v, table, j) = RowOf(t, table, j)
      BY <1>7 DEF Records, Item, OfferOf, ConfigOf, RowOf
    <2>2. AtRecord(v) BY <1>1, <1>7, <2>1 DEF AtRecord, InRecord
    <2>3. v.dropped[OfferOf(v)] + v.seen =< sizes[OfferOf(v)] BY <1>5, <1>7, <2>1
    <2> QED BY <1>1, <1>7, <1>9, <2>1, <2>2, <2>3, MoveKeeps DEF Resolving
  <1> QED BY <1>4, <1>8, <1>9

(* An offer is written with its product, and a size list with it or none.   *)
LEMMA OfferWritten ==
  ASSUME SyncInv, NEW w \in Workers, CanWrite(w), tx[w].pc \in {"insert", "update"},
         NEW p \in Values, p # Absent,
         \A c \in Configs, i \in Items :
           Offer(c, i) = OfferOf(tx[w]) /\ SoleConfig(c) /\ i \notin Catalogued =>
             RowOf(tx[w], table, Mapping(c, i)) = p,
         NEW u, Become(w, u), AtRecord(u), u.pc = "record", u.made = tx[w].made,
         u.put = [tx[w].put EXCEPT ![OfferOf(tx[w])] = p],
         \A j \in Offers \ {OfferOf(tx[w])} :
           u.dropped[j] = tx[w].dropped[j] /\ (j \in u.listed => j \in tx[w].listed),
         u.dropped[OfferOf(tx[w])] =< sizes[OfferOf(tx[w])],
         faults' = faults
  PROVE  SyncInv'
  <1> DEFINE t == tx[w]
             k == OfferOf(t)
  <1>1. t \in Txn /\ Sound(t, table, sizes) /\ AtRecord(t) /\ MapsOnce(t, table)
    BY DEF SyncInv, Sound
  <1>2. Item(t) \in Items /\ ConfigOf(t) \in Configs BY <1>1, ItemAt DEF InRecord
  <1>3. k \in Offers /\ k \in Keys BY <1>2, KeysIn DEF OfferOf
  <1>4. Offers \subseteq Keys /\ \A c \in Configs, i \in Items : Mapping(c, i) \in Keys \ {k}
    BY <1>2, KeysIn, KeysApart DEF OfferOf, Keys
  <1>5. t.put \in [Keys -> Values] BY <1>1 DEF Txn
  <1>6. k \in Target(t) BY DEF Target
  <1>7. u.put[k] = p /\ \A j \in Keys \ {k} : u.put[j] = t.put[j] BY <1>3, <1>5
  <1>8. /\ \A c \in Configs, i \in Items :
             Offer(c, i) = k /\ SoleConfig(c) /\ i \notin Catalogued => RowOf(t, table, Mapping(c, i)) = p
        /\ \A j \in Offers \ {k} : u.dropped[j] = t.dropped[j] /\ (j \in u.listed => j \in t.listed)
        /\ u.dropped[k] =< sizes[k] /\ u.made = t.made
    OBVIOUS
  <1> HIDE DEF t, k
  <1>9. MapsOnce(u, table) BY <1>1, <1>4, <1>7 DEF MapsOnce, Resolving
  <1>10. OffersMapped(u, table)
    <2> SUFFICES ASSUME NEW c \in Configs, NEW i \in Items, SoleConfig(c), i \notin Catalogued,
                        u.put[Offer(c, i)] # Absent
                 PROVE  RowOf(u, table, Mapping(c, i)) = u.put[Offer(c, i)]
      BY DEF OffersMapped
    <2>1. RowOf(u, table, Mapping(c, i)) = RowOf(t, table, Mapping(c, i))
      BY <1>4, <1>7 DEF RowOf
    <2>2. CASE Offer(c, i) = k BY <1>7, <1>8, <2>1, <2>2
    <2>3. CASE Offer(c, i) # k
      <3>1. Offer(c, i) \in Keys \ {k} BY <2>3, KeysIn
      <3> QED BY <1>1, <1>7, <2>1, <3>1 DEF Sound, OffersMapped
    <2> QED BY <2>2, <2>3
  <1>11. SizesThere(u, table, sizes)
    <2> SUFFICES ASSUME NEW j \in Offers
                 PROVE  /\ u.dropped[j] =< sizes[j]
                        /\ u.dropped[j] > 0 \/ j \in u.listed => u.put[j] # Absent
      BY DEF SizesThere
    <2>1. CASE j = k BY <1>7, <1>8, <2>1
    <2>2. CASE j # k BY <1>1, <1>4, <1>7, <1>8, <2>2 DEF Sound, SizesThere
    <2> QED BY <2>1, <2>2
  <1>12. MadeMapped(u)
    <2> SUFFICES ASSUME NEW q \in u.made
                 PROVE  \E c \in Configs, i \in Items : u.put[Mapping(c, i)] = q
      BY DEF MadeMapped
    <2>1. t.pc # "addmapping" BY DEF t
    <2>2. PICK c \in Configs, i \in Items : t.put[Mapping(c, i)] = q
      BY <1>1, <1>8, <2>1 DEF Sound, MadeMapped
    <2> QED BY <1>4, <1>7, <2>2
  <1>13. Sound(u, table, sizes) BY <1>9, <1>10, <1>11, <1>12 DEF Sound
  <1>14. \A x \in Workers \ {w} : Apart(u, tx[x]) BY <1>6, <1>7, WriteApart DEF t
  <1> QED BY <1>13, <1>14, BecomeKeeps DEF SyncInv, CommittedOK

LEMMA InsertOfferStep ==
  ASSUME SyncInv, NEW w \in Workers, InsertOffer(w)
  PROVE  SyncInv'
  <1> DEFINE t == tx[w]
             k == OfferOf(t)
             r == Succeeded(t)
             u == [r EXCEPT !.put[k] = t.prod, !.listed = @ \cup {k}]
  <1>1. /\ t \in Txn /\ AtRecord(t) /\ t.pc = "insert" /\ faults' = faults
        /\ MapsOnce(t, table) /\ SizesThere(t, table, sizes)
    BY DEF SyncInv, Sound, InsertOffer
  <1>2. Item(t) \in Items /\ ConfigOf(t) \in Configs BY <1>1, ItemAt DEF InRecord
  <1>3. k \in Offers /\ k \in Keys BY <1>2, KeysIn DEF OfferOf
  <1>4. CASE Become(w, Failed(t)) BY <1>1, <1>4, RecordEnds, MoveKeeps DEF Resolving
  <1>5. CASE Become(w, u) /\ CanWrite(w)
    <2>1. /\ r.pc = "record" /\ r.put = t.put /\ r.made = t.made
          /\ r.dropped = t.dropped /\ r.listed = t.listed /\ AtRecord(r)
      BY <1>1, RecordEnds
    <2>2. Become(w, u) /\ CanWrite(w) BY <1>5
    <2>3. t.prod \in Values /\ t.prod # Absent BY <1>1 DEF Txn, MapsOnce
    <2>4. \A c \in Configs, i \in Items :
             Offer(c, i) = k /\ SoleConfig(c) /\ i \notin Catalogued =>
               RowOf(t, table, Mapping(c, i)) = t.prod
      <3> SUFFICES ASSUME NEW c \in Configs, NEW i \in Items,
                          Offer(c, i) = k, SoleConfig(c), i \notin Catalogued
                   PROVE  RowOf(t, table, Mapping(c, i)) = t.prod
        OBVIOUS
      <3>1. StoreOf[c] = StoreOf[ConfigOf(t)] /\ i = Item(t) BY KeysApart DEF OfferOf
      <3>2. c = ConfigOf(t) BY <1>2, <3>1 DEF SoleConfig
      <3> QED BY <1>1, <3>1, <3>2 DEF MapsOnce, MappingOf
    <2> HIDE DEF k, r
    <2>5. [t.put EXCEPT ![k] = t.prod] \in [Keys -> Values] BY <1>1, <1>3, <2>3 DEF Txn
    <2>6. /\ u \in Txn /\ u.pc = "record" /\ u.at = r.at /\ u.made = t.made
          /\ u.put = [t.put EXCEPT ![k] = t.prod]
          /\ u.dropped = t.dropped /\ u.listed = t.listed \cup {k}
      <3>1. r \in Txn /\ t.listed \cup {k} \in SUBSET Offers BY <1>1, <1>3, <2>1 DEF AtRecord, Txn
      <3> QED BY <2>1, <2>5, <3>1 DEF Txn
    <2> HIDE DEF u
    <2>7. AtRecord(u) BY <2>1, <2>6 DEF AtRecord, InRecord, Resolving
    <2>8. u.dropped[k] =< sizes[k] BY <1>1, <1>3, <2>6 DEF SizesThere
    <2>9. \A j \in Offers \ {k} : u.dropped[j] = t.dropped[j] /\ (j \in u.listed => j \in t.listed)
      BY <2>6
    <2> HIDE DEF t
    <2> QED BY <1>1, <2>2, <2>3, <2>4, <2>6, <2>7, <2>8, <2>9, OfferWritten DEF k, t
  <1>6. Become(w, Failed(t)) \/ Rollback(w) \/ (Become(w, u) /\ CanWrite(w))
    BY DEF InsertOffer
  <1> QED BY <1>1, <1>4, <1>5, <1>6, RollbackStep

LEMMA UpdateOfferStep ==
  ASSUME SyncInv, NEW w \in Workers, UpdateOffer(w)
  PROVE  SyncInv'
  <1> DEFINE t == tx[w]
             k == OfferOf(t)
             p == Row(w, k)
             d == t.dropped[k] + t.seen
             cleared(s) == [s EXCEPT !.put[k] = p, !.dropped[k] = @ + t.seen]
             late == [cleared(Failed(t)) EXCEPT !.listed = @ \ {k}]
             good == [cleared(Succeeded(t)) EXCEPT !.listed = @ \cup {k}]
  <1>1. /\ t \in Txn /\ AtRecord(t) /\ t.pc = "update" /\ faults' = faults /\ CanWrite(w)
        /\ MapsOnce(t, table) /\ OffersMapped(t, table) /\ SizesThere(t, table, sizes)
        /\ sizes \in [Offers -> Nat] /\ TableMapped /\ table \in [Keys -> Values]
    BY DEF SyncInv, CommittedOK, Sound, UpdateOffer
  <1>2. Item(t) \in Items /\ ConfigOf(t) \in Configs BY <1>1, ItemAt DEF InRecord
  <1>3. k \in Offers /\ k \in Keys BY <1>2, KeysIn DEF OfferOf
  <1>4. p = RowOf(t, table, k) BY DEF Row, RowOf
  <1>5. p \in Values /\ p # Absent BY <1>1, <1>3, <1>4 DEF SizesThere, RowOf, Txn
  <1>6. \A c \in Configs, i \in Items :
           Offer(c, i) = k /\ SoleConfig(c) /\ i \notin Catalogued =>
             RowOf(t, table, Mapping(c, i)) = p
    <2> SUFFICES ASSUME NEW c \in Configs, NEW i \in Items,
                        Offer(c, i) = k, SoleConfig(c), i \notin Catalogued
                 PROVE  RowOf(t, table, Mapping(c, i)) = p
      OBVIOUS
    <2> HIDE DEF k, p
    <2>1. CASE t.put[k] # Absent BY <1>1, <1>4, <2>1 DEF OffersMapped, RowOf
    <2>2. CASE t.put[k] = Absent
      <3>1. table[k] = p BY <1>4, <2>2 DEF RowOf
      <3>2. table[Mapping(c, i)] = p BY <1>1, <1>5, <3>1 DEF TableMapped
      <3>3. t.put[Mapping(c, i)] = Absent BY <1>1, <1>5, <3>2 DEF MapsOnce
      <3> QED BY <3>2, <3>3 DEF RowOf
    <2> QED BY <2>1, <2>2
  <1>7. d \in Nat /\ d =< sizes[k] BY <1>1, <1>3 DEF SizesThere, Txn
  <1>8. ASSUME NEW r, r = Failed(t) \/ r = Succeeded(t), NEW L,
               L \subseteq t.listed \cup {k},
               Become(w, [cleared(r) EXCEPT !.listed = L])
        PROVE  SyncInv'
    <2> DEFINE u == [cleared(r) EXCEPT !.listed = L]
    <2>1. /\ r.pc = "record" /\ r.put = t.put /\ r.made = t.made
          /\ r.dropped = t.dropped /\ r.listed = t.listed /\ AtRecord(r)
      BY <1>1, <1>8, RecordEnds
    <2>2. Become(w, u) BY <1>8
    <2>3. t.dropped \in [Offers -> Nat] /\ t.listed \subseteq Offers /\ t.put \in [Keys -> Values]
      BY <1>1 DEF Txn
    <2>4. cleared(r) = [r EXCEPT !.put[k] = p, !.dropped[k] = d] BY <2>1
    <2> HIDE DEF k, p, d, cleared
    <2>5. [t.put EXCEPT ![k] = p] \in [Keys -> Values] BY <1>3, <1>5, <2>3
    <2>6. [t.dropped EXCEPT ![k] = d] \in [Offers -> Nat] BY <1>7, <2>3
    <2>7. L \in SUBSET Offers BY <1>3, <1>8, <2>3
    <2>8. r \in Txn BY <2>1 DEF AtRecord
    <2> DEFINE q == [r EXCEPT !.put[k] = p, !.dropped[k] = d]
    <2>9. /\ q \in Txn /\ q.pc = "record" /\ q.at = r.at /\ q.made = t.made
          /\ q.put = [t.put EXCEPT ![k] = p] /\ q.dropped = [t.dropped EXCEPT ![k] = d]
      BY <2>1, <2>5, <2>6, <2>8 DEF Txn
    <2>10. u = [q EXCEPT !.listed = L] BY <2>4
    <2> HIDE DEF q, u
    <2>11. /\ u \in Txn /\ u.pc = "record" /\ u.at = r.at /\ u.made = t.made
           /\ u.put = [t.put EXCEPT ![k] = p] /\ u.dropped = [t.dropped EXCEPT ![k] = d]
           /\ u.listed = L
      BY <2>7, <2>9, <2>10 DEF Txn
    <2>12. AtRecord(u) BY <2>1, <2>11 DEF AtRecord, InRecord, Resolving
    <2>13. u.dropped[k] =< sizes[k] BY <1>3, <1>7, <2>3, <2>11
    <2>14. \A j \in Offers \ {k} : u.dropped[j] = t.dropped[j] /\ (j \in u.listed => j \in t.listed)
      BY <1>8, <2>3, <2>11
    <2> HIDE DEF t
    <2> QED BY <1>1, <1>5, <1>6, <2>2, <2>11, <2>12, <2>13, <2>14, OfferWritten DEF k, t
  <1>9. Rollback(w) \/ Become(w, late) \/ Become(w, good) BY DEF UpdateOffer
  <1>10. CASE Become(w, late)
    <2> DEFINE L == t.listed \ {k}
    <2>1. cleared(Failed(t)).listed = t.listed BY <1>1, RecordEnds DEF AtRecord, Txn
    <2>2. late = [cleared(Failed(t)) EXCEPT !.listed = L] BY <2>1
    <2>3. L \subseteq t.listed \cup {k} OBVIOUS
    <2> HIDE DEF cleared, L, late, good
    <2> QED BY <1>8, <1>10, <2>2, <2>3
  <1>11. CASE Become(w, good)
    <2> DEFINE L == t.listed \cup {k}
    <2>1. cleared(Succeeded(t)).listed = t.listed BY <1>1, RecordEnds DEF AtRecord, Txn
    <2>2. good = [cleared(Succeeded(t)) EXCEPT !.listed = L] BY <2>1
    <2>3. L \subseteq t.listed \cup {k} OBVIOUS
    <2> HIDE DEF cleared, L, late, good
    <2> QED BY <1>8, <1>11, <2>2, <2>3
  <1> QED BY <1>1, <1>9, <1>10, <1>11, RollbackStep

LEMMA MarkSyncedStep ==
  ASSUME SyncInv, NEW w \in Workers, MarkSynced(w)
  PROVE  SyncInv'
  <1> DEFINE t == tx[w]
             c == ConfigOf(t)
             k == Config(c)
             u == [t EXCEPT !.pc = "configs", !.at = <<>>, !.todo = @ \ {c},
                            !.good = {}, !.bad = {}, !.put[k] = Exists]
  <1>1. /\ t \in Txn /\ Sound(t, table, sizes) /\ AtRecord(t) /\ t.pc = "mark"
        /\ faults' = faults /\ Become(w, u) /\ CanWrite(w)
    BY DEF SyncInv, Sound, MarkSynced
  <1>2. c \in Configs BY <1>1 DEF AtRecord, ConfigOf
  <1>3. k \in Keys /\ \A d \in Configs, i \in Items :
                          Mapping(d, i) \in Keys \ {k} /\ Offer(d, i) \in Keys \ {k}
    <2>1. k \in Keys BY <1>2 DEF Keys
    <2>2. ASSUME NEW d \in Configs, NEW i \in Items
          PROVE  Mapping(d, i) \in Keys \ {k} /\ Offer(d, i) \in Keys \ {k}
      <3>1. Mapping(d, i) # Config(c) /\ Offer(d, i) # Config(c) BY KeysApart
      <3> QED BY <3>1, KeysIn
    <2> QED BY <2>1, <2>2
  <1>4. k \in Target(t) BY <1>1 DEF Target
  <1>5. t.put \in [Keys -> Values] /\ t.todo \ {c} \in SUBSET Configs BY <1>1 DEF Txn
  <1>6. [t.put EXCEPT ![k] = Exists] \in [Keys -> Values] BY <1>3, <1>5 DEF Values
  <1> HIDE DEF k, c
  <1>7. /\ u \in Txn /\ u.pc = "configs" /\ u.put = [t.put EXCEPT ![k] = Exists]
        /\ u.made = t.made /\ u.dropped = t.dropped /\ u.listed = t.listed
    BY <1>1, <1>5, <1>6 DEF Txn
  <1> HIDE DEF u
  <1>8. \A j \in Keys \ {k} : u.put[j] = t.put[j] BY <1>5, <1>7
  <1>9. AtRecord(u) BY <1>7 DEF AtRecord, InRecord, Resolving
  <1>10. Sound(u, table, sizes)
    <2>1. \A d \in Configs, i \in Items :
            u.put[Mapping(d, i)] = t.put[Mapping(d, i)] /\ u.put[Offer(d, i)] = t.put[Offer(d, i)]
      BY <1>3, <1>8
    <2> QED BY <1>1, <1>7, <1>9, <2>1, MovedSound DEF Resolving
  <1>11. \A x \in Workers \ {w} : Apart(u, tx[x]) BY <1>1, <1>4, <1>8, WriteApart
  <1> QED BY <1>1, <1>10, <1>11, BecomeKeeps DEF SyncInv, CommittedOK

LEMMA QueueStep ==
  ASSUME SyncInv, NEW w \in Workers, Queue(w)
  PROVE  SyncInv'
  <1> DEFINE u == [tx[w] EXCEPT !.queued = TRUE]
  <1>1. Sound(tx[w], table, sizes) /\ tx \in [Workers -> Txn] BY DEF SyncInv
  <1>2. u \in Txn /\ Sound(u, table, sizes) /\ u.put = tx[w].put BY <1>1, QueuedSound
  <1>3. /\ tx' = [tx EXCEPT ![w] = u]
        /\ UNCHANGED <<table, products, sizes, due, active, report, faults>>
    BY <1>1 DEF Queue
  <1> HIDE DEF u
  <1>4. tx' \in [Workers -> Txn] /\ tx'[w] = u /\ \A x \in Workers \ {w} : tx'[x] = tx[x]
    BY <1>1, <1>2, <1>3
  <1>5. CommittedOK' /\ TableMapped' /\ ProductsMapped'
    BY <1>3 DEF SyncInv, CommittedOK, TableMapped, ProductsMapped
  <1>6. ASSUME NEW x \in Workers PROVE Sound(tx[x], table, sizes)'
    BY <1>2, <1>3, <1>4 DEF SyncInv
  <1>7. \A x \in Workers : tx'[x].put = tx[x].put BY <1>2, <1>4
  <1>8. ASSUME NEW x \in Workers, NEW y \in Workers, x # y PROVE Apart(tx[x], tx[y])'
    BY <1>7, <1>8 DEF SyncInv, Apart
  <1> QED BY <1>4, <1>5, <1>6, <1>8 DEF SyncInv

LEMMA CrashStep ==
  ASSUME SyncInv, NEW w \in Workers, Crash(w)
  PROVE  SyncInv'
  <1>1. faults' \in 0..MaxFaults
    <2>1. faults \in 0..MaxFaults /\ faults < MaxFaults /\ faults' = faults + 1
      BY DEF SyncInv, CommittedOK, Crash
    <2> QED BY <2>1, SourceSyncAssumption
  <1> QED BY <1>1, RollbackKeeps DEF Crash

(* A commit by w, as the others see it: the mappings and the offers they    *)
(* rely on are theirs to keep.                                              *)
LEMMA OthersSound ==
  ASSUME SyncInv, NEW w \in Workers, EndTick(w), NEW x \in Workers \ {w}
  PROVE  Sound(tx'[x], table', sizes') /\ tx'[x] \in Txn /\ tx'[x].put = tx[x].put
  <1> DEFINE o == tx[w]
             t == tx[x]
             u == Outlive(t, o.dropped)
  <1>1. /\ o \in Txn /\ t \in Txn /\ Sound(t, table, sizes) /\ Sound(o, table, sizes)
        /\ Apart(t, o) /\ table \in [Keys -> Values] /\ sizes \in [Offers -> Nat]
    BY DEF SyncInv, CommittedOK
  <1>2. /\ tx'[x] = u
        /\ table' = [k \in Keys |-> RowOf(o, table, k)]
        /\ sizes' = [k \in Offers |-> sizes[k] - o.dropped[k] + IF k \in o.listed THEN 1 ELSE 0]
    BY DEF EndTick, Row, RowOf
  <1> DEFINE g == o.dropped[OfferOf(t)]
             n == IF t.seen < g THEN 0 ELSE t.seen - g
  <1>3. t.pc = "update" => OfferOf(t) \in Offers
    <2>1. CASE t.pc = "update"
      <3>1. Item(t) \in Items /\ ConfigOf(t) \in Configs
        BY <1>1, <2>1, ItemAt DEF Sound, InRecord
      <3> QED BY <3>1, KeysIn DEF OfferOf
    <2> QED BY <2>1
  <1>4. t.pc = "update" => g \in Nat /\ t.seen \in Nat /\ n \in Nat
    BY <1>1, <1>3 DEF Txn
  <1>5. u = IF t.pc = "update" THEN [t EXCEPT !.seen = n] ELSE t BY DEF Outlive
  <1> HIDE DEF n
  <1>6. /\ u \in Txn /\ u.pc = t.pc /\ u.at = t.at /\ u.prod = t.prod /\ u.put = t.put
        /\ u.made = t.made /\ u.dropped = t.dropped /\ u.listed = t.listed
        /\ u.pc = "update" => u.seen = n
    <2>1. CASE t.pc # "update" BY <1>1, <1>5, <2>1
    <2>2. CASE t.pc = "update"
      <3>1. n \in Nat /\ u = [t EXCEPT !.seen = n] BY <1>4, <1>5, <2>2
      <3> HIDE DEF u
      <3>2. t \in Txn => [t EXCEPT !.seen = n] \in Txn BY <3>1 DEF Txn
      <3>3. u.seen = n BY <1>1, <3>1 DEF Txn
      <3> HIDE DEF t
      <3> QED BY <1>1, <3>1, <3>2, <3>3 DEF Txn
    <2> QED BY <2>1, <2>2
  <1> HIDE DEF u
  <1>7. /\ Records(u) = Records(t) /\ Item(u) = Item(t) /\ MappingOf(u) = MappingOf(t)
        /\ OfferOf(u) = OfferOf(t) /\ \A k : RowOf(u, table', k) = RowOf(t, table', k)
    BY <1>6 DEF Records, Item, MappingOf, OfferOf, ConfigOf, RowOf
  <1> HIDE DEF o, t
  <1>8. ASSUME NEW c \in Configs, NEW i \in Items, RowOf(t, table, Mapping(c, i)) # Absent
        PROVE  RowOf(t, table', Mapping(c, i)) = RowOf(t, table, Mapping(c, i))
    <2>1. Mapping(c, i) \in Keys BY KeysIn
    <2>2. CASE t.put[Mapping(c, i)] # Absent BY <2>2 DEF RowOf
    <2>3. CASE t.put[Mapping(c, i)] = Absent
      <3>1. table[Mapping(c, i)] # Absent BY <1>8, <2>3 DEF RowOf
      <3>2. o.put[Mapping(c, i)] = Absent BY <1>1, <3>1 DEF Sound, MapsOnce
      <3> QED BY <1>2, <2>1, <2>3, <3>2 DEF RowOf
    <2> QED BY <2>2, <2>3
  <1>9. AtRecord(u) BY <1>1, <1>6, <1>7 DEF Sound, AtRecord
  <1>10. MapsOnce(u, table')
    <2>1. ASSUME NEW c \in Configs, NEW i \in Items, t.put[Mapping(c, i)] # Absent
          PROVE  table'[Mapping(c, i)] = Absent /\ i \notin Catalogued
      <3>1. Mapping(c, i) \in Keys BY KeysIn
      <3>2. table[Mapping(c, i)] = Absent /\ i \notin Catalogued BY <1>1, <2>1 DEF Sound, MapsOnce
      <3>3. o.put[Mapping(c, i)] = Absent BY <1>1, <2>1, <3>1 DEF Apart
      <3> QED BY <1>2, <3>1, <3>2, <3>3 DEF RowOf
    <2>2. ASSUME t.pc \in {"offer", "insert"}, Item(t) \notin Catalogued
          PROVE  RowOf(t, table', MappingOf(t)) = t.prod
      <3>1. Item(t) \in Items /\ ConfigOf(t) \in Configs
        BY <1>1, <2>2, ItemAt DEF Sound, InRecord
      <3>2. RowOf(t, table, MappingOf(t)) = t.prod /\ t.prod # Absent
        BY <1>1, <2>2 DEF Sound, MapsOnce
      <3> QED BY <1>8, <3>1, <3>2 DEF MappingOf
    <2> QED BY <1>1, <1>6, <1>7, <2>1, <2>2 DEF Sound, MapsOnce
  <1>11. OffersMapped(u, table')
    <2> SUFFICES ASSUME NEW c \in Configs, NEW i \in Items, SoleConfig(c), i \notin Catalogued,
                        t.put[Offer(c, i)] # Absent
                 PROVE  RowOf(t, table', Mapping(c, i)) = t.put[Offer(c, i)]
      BY <1>6, <1>7 DEF OffersMapped
    <2>1. RowOf(t, table, Mapping(c, i)) = t.put[Offer(c, i)] BY <1>1 DEF Sound, OffersMapped
    <2> QED BY <1>8, <2>1
  <1>12. SizesThere(u, table', sizes')
    <2>1. ASSUME NEW k \in Offers
          PROVE  /\ t.dropped[k] \in Nat /\ o.dropped[k] \in Nat /\ sizes[k] \in Nat
                 /\ o.dropped[k] =< sizes[k] /\ t.dropped[k] =< sizes[k]
                 /\ sizes'[k] \in Nat /\ sizes'[k] >= sizes[k] - o.dropped[k]
                 /\ t.dropped[k] > 0 => o.dropped[k] = 0
      <3>1. k \in Keys BY DEF Offers, Keys
      <3>2. t.dropped[k] \in Nat /\ o.dropped[k] \in Nat /\ sizes[k] \in Nat BY <1>1 DEF Txn
      <3>3. o.dropped[k] =< sizes[k] /\ t.dropped[k] =< sizes[k] BY <1>1 DEF Sound, SizesThere
      <3>4. sizes'[k] = sizes[k] - o.dropped[k] + IF k \in o.listed THEN 1 ELSE 0 BY <1>2
      <3>5. t.dropped[k] > 0 => t.put[k] # Absent BY <1>1 DEF Sound, SizesThere
      <3>6. t.dropped[k] > 0 => o.put[k] = Absent BY <1>1, <3>1, <3>5 DEF Apart
      <3>7. o.dropped[k] > 0 => o.put[k] # Absent BY <1>1 DEF Sound, SizesThere
      <3>8. t.dropped[k] > 0 => ~(o.dropped[k] > 0) BY <3>6, <3>7
      <3> QED BY <3>2, <3>3, <3>4, <3>8
    <2>2. \A k \in Offers : /\ u.dropped[k] =< sizes'[k]
                            /\ u.dropped[k] > 0 \/ k \in u.listed => u.put[k] # Absent
      <3>1. ASSUME NEW k \in Offers PROVE u.dropped[k] =< sizes'[k]
        BY <1>6, <2>1
      <3> QED BY <1>1, <1>6, <3>1 DEF Sound, SizesThere
    <2>3. ASSUME t.pc = "update"
          PROVE  RowOf(t, table', OfferOf(t)) # Absent
      <3>1. OfferOf(t) \in Keys BY <1>3, <2>3 DEF Offers, Keys
      <3>2. RowOf(t, table, OfferOf(t)) # Absent BY <1>1, <2>3 DEF Sound, SizesThere
      <3> QED BY <1>2, <3>1, <3>2 DEF RowOf
    <2>4. ASSUME t.pc = "update"
          PROVE  u.dropped[OfferOf(t)] + n =< sizes'[OfferOf(t)]
      <3> DEFINE k == OfferOf(t)
      <3>1. k \in Offers BY <1>3, <2>4
      <3>2. t.dropped[k] + t.seen =< sizes[k] BY <1>1, <2>4 DEF Sound, SizesThere
      <3>3. g \in Nat /\ t.seen \in Nat /\ g = o.dropped[k] BY <1>4, <2>4
      <3> HIDE DEF k, g
      <3>4. CASE t.seen < g
        <4>1. n = 0 BY <3>4 DEF n
        <4> QED BY <1>6, <2>1, <3>1, <3>2, <3>3, <3>4, <4>1 DEF k
      <3>5. CASE ~(t.seen < g)
        <4>1. n = t.seen - g BY <3>5 DEF n
        <4> QED BY <1>6, <2>1, <3>1, <3>2, <3>3, <3>5, <4>1 DEF k
      <3> QED BY <3>4, <3>5
    <2> QED BY <1>6, <1>7, <2>2, <2>3, <2>4 DEF SizesThere
  <1>13. MadeMapped(u) BY <1>1, <1>6 DEF Sound, MadeMapped
  <1> QED BY <1>2, <1>6, <1>9, <1>10, <1>11, <1>12, <1>13 DEF Sound, t

LEMMA EndTickStep ==
  ASSUME SyncInv, NEW w \in Workers, EndTick(w)
  PROVE  SyncInv'
  <1> DEFINE t == tx[w]
  <1>1. /\ t \in Txn /\ Sound(t, table, sizes) /\ t.pc = "configs" /\ CommittedOK /\ TableMapped
        /\ ProductsMapped /\ tx \in [Workers -> Txn]
    BY DEF SyncInv, EndTick
  <1>2. /\ table' = [k \in Keys |-> RowOf(t, table, k)]
        /\ products' = products \cup t.made
        /\ sizes' = [k \in Offers |-> sizes[k] - t.dropped[k] + IF k \in t.listed THEN 1 ELSE 0]
        /\ due' = due \ Done(t)
        /\ report' = [c \in Configs |-> IF c \in Done(t) THEN t.said[c] ELSE report[c]]
        /\ tx' = [x \in Workers |-> IF x = w THEN Idle ELSE Outlive(tx[x], t.dropped)]
        /\ active' = active /\ faults' = faults
    BY DEF EndTick, Row, RowOf
  <1> HIDE DEF t
  <1>3. CommittedOK'
    <2>1. table' \in [Keys -> Values] BY <1>1, <1>2 DEF CommittedOK, RowOf, Txn
    <2>2. products' \subseteq Prods BY <1>1, <1>2 DEF CommittedOK, Txn
    <2>3. sizes' \in [Offers -> Nat]
      <3>1. ASSUME NEW k \in Offers
            PROVE  (sizes[k] - t.dropped[k] + IF k \in t.listed THEN 1 ELSE 0) \in Nat
        <4>1. sizes[k] \in Nat /\ t.dropped[k] \in Nat /\ t.dropped[k] =< sizes[k]
          BY <1>1 DEF CommittedOK, Txn, Sound, SizesThere
        <4> QED BY <4>1
      <3> QED BY <1>2, <3>1
    <2>4. report' \in [Configs -> Statuses] BY <1>1, <1>2 DEF CommittedOK, Txn
    <2> QED BY <1>1, <1>2, <2>1, <2>2, <2>3, <2>4 DEF CommittedOK
  <1>4. ASSUME NEW c \in Configs, NEW i \in Items
        PROVE  /\ table[Mapping(c, i)] # Absent => table'[Mapping(c, i)] = table[Mapping(c, i)]
               /\ t.put[Mapping(c, i)] # Absent => table'[Mapping(c, i)] = t.put[Mapping(c, i)]
               /\ table'[Mapping(c, i)] = RowOf(t, table, Mapping(c, i))
               /\ table'[Offer(c, i)] = RowOf(t, table, Offer(c, i))
    <2>1. Mapping(c, i) \in Keys /\ Offer(c, i) \in Keys BY KeysIn
    <2>2. table[Mapping(c, i)] # Absent => t.put[Mapping(c, i)] = Absent
      BY <1>1 DEF Sound, MapsOnce
    <2> QED BY <1>2, <2>1, <2>2 DEF RowOf
  <1>5. TableMapped'
    <2> SUFFICES ASSUME NEW c \in Configs, NEW i \in Items
                 PROVE  /\ i \in Catalogued => table'[Mapping(c, i)] = Absent
                        /\ SoleConfig(c) /\ i \notin Catalogued /\ table'[Offer(c, i)] # Absent =>
                              table'[Mapping(c, i)] = table'[Offer(c, i)]
      BY DEF TableMapped, SoleConfig
    <2>1. ASSUME i \in Catalogued PROVE table'[Mapping(c, i)] = Absent
      BY <1>1, <1>4, <2>1 DEF TableMapped, Sound, MapsOnce, RowOf
    <2>2. ASSUME SoleConfig(c), i \notin Catalogued, table'[Offer(c, i)] # Absent
          PROVE  table'[Mapping(c, i)] = table'[Offer(c, i)]
      <3>1. CASE t.put[Offer(c, i)] # Absent
        BY <1>1, <1>4, <2>2, <3>1 DEF Sound, OffersMapped, RowOf
      <3>2. CASE t.put[Offer(c, i)] = Absent
        <4>1. table'[Offer(c, i)] = table[Offer(c, i)] BY <1>4, <3>2 DEF RowOf
        <4>2. table[Mapping(c, i)] = table[Offer(c, i)] BY <1>1, <2>2, <4>1 DEF TableMapped
        <4> QED BY <1>4, <2>2, <4>1, <4>2
      <3> QED BY <3>1, <3>2
    <2> QED BY <2>1, <2>2
  <1>6. ProductsMapped'
    <2> SUFFICES ASSUME NEW p \in products', p[2] > 0
                 PROVE  \E c \in Configs, i \in Items : table'[Mapping(c, i)] = p
      BY DEF ProductsMapped
    <2>1. p # Absent BY <1>3, ProdsPresent DEF CommittedOK
    <2>2. CASE p \in products
      <3>1. PICK c \in Configs, i \in Items : table[Mapping(c, i)] = p
        BY <1>1, <2>2 DEF ProductsMapped
      <3> QED BY <1>4, <2>1, <3>1
    <2>3. CASE p \in t.made
      <3>1. PICK c \in Configs, i \in Items : t.put[Mapping(c, i)] = p
        BY <1>1, <2>3 DEF Sound, MadeMapped
      <3> QED BY <1>4, <2>1, <3>1
    <2> QED BY <1>2, <2>2, <2>3
  <1>7. tx'[w] = Idle BY <1>2
  <1>8. Idle \in Txn /\ Sound(Idle, table', sizes') /\ \A x : Apart(Idle, x) /\ Apart(x, Idle)
    <2>1. CommittedOK => Idle \in Txn /\ Sound(Idle, table, sizes)
                          /\ \A x : Apart(Idle, x) /\ Apart(x, Idle)
      BY IdleSound
    <2>2. Idle \in Txn /\ \A x : Apart(Idle, x) /\ Apart(x, Idle) BY <1>1, <2>1
    <2>3. AtRecord(Idle) /\ MadeMapped(Idle) BY <1>1, IdleSound DEF Sound
    <2>4. \A c \in Configs, i \in Items :
             Idle.put[Mapping(c, i)] = Absent /\ Idle.put[Offer(c, i)] = Absent
      BY KeysIn DEF Idle
    <2>5. Idle.pc = "idle" /\ \A k \in Offers : Idle.dropped[k] = 0 /\ k \notin Idle.listed
      BY DEF Idle
    <2>6. MapsOnce(Idle, table') BY <2>4, <2>5 DEF MapsOnce, Resolving
    <2>7. OffersMapped(Idle, table') BY <2>4 DEF OffersMapped
    <2>8. SizesThere(Idle, table', sizes')
      <3>1. \A k \in Offers : sizes'[k] \in Nat BY <1>3 DEF CommittedOK
      <3> QED BY <2>5, <3>1 DEF SizesThere
    <2> QED BY <2>2, <2>3, <2>6, <2>7, <2>8 DEF Sound
  <1>9. \A x \in Workers \ {w} :
           Sound(tx'[x], table', sizes') /\ tx'[x] \in Txn /\ tx'[x].put = tx[x].put
    BY OthersSound
  <1>10. tx' \in [Workers -> Txn]
    <2>1. DOMAIN tx' = Workers /\ \A x \in Workers : tx'[x] \in Txn BY <1>2, <1>7, <1>8, <1>9
    <2> QED BY <1>2, <2>1
  <1>11. \A x \in Workers : Sound(tx'[x], table', sizes') BY <1>7, <1>8, <1>9
  <1>12. ASSUME NEW x \in Workers, NEW y \in Workers, x # y PROVE Apart(tx'[x], tx'[y])
    <2>1. CASE x = w \/ y = w BY <1>7, <1>8, <2>1
    <2>2. CASE x # w /\ y # w
      <3>1. Apart(tx[x], tx[y]) BY <1>12 DEF SyncInv
      <3> QED BY <1>9, <2>2, <3>1 DEF Apart
    <2> QED BY <2>1, <2>2
  <1> QED BY <1>3, <1>5, <1>6, <1>10, <1>11, <1>12 DEF SyncInv

LEMMA OutsideStep ==
  ASSUME SyncInv, NEW c \in Configs, TimePasses(c) \/ UpdateSourceConfig(c)
  PROVE  SyncInv'
  <1>1. /\ UNCHANGED <<table, products, sizes, report, tx, faults>>
        /\ due' \subseteq Configs /\ active' \subseteq Configs
    BY DEF SyncInv, CommittedOK, TimePasses, UpdateSourceConfig
  <1> QED BY <1>1 DEF SyncInv, CommittedOK, TableMapped, ProductsMapped

-----------------------------------------------------------------------------
LEMMA SyncInvStep == SyncInv /\ [Next]_vars => SyncInv'
  <1> SUFFICES ASSUME SyncInv, [Next]_vars PROVE SyncInv'
    OBVIOUS
  <1>1. CASE UNCHANGED vars
    BY <1>1 DEF vars, SyncInv, CommittedOK, TableMapped, ProductsMapped
  <1>2. ASSUME NEW w \in Workers, StartTick(w) PROVE SyncInv'
    <2>1. due \cap active \subseteq Configs BY DEF SyncInv, CommittedOK
    <2> QED BY <1>2, <2>1, BeginStep DEF StartTick
  <1>3. ASSUME NEW w \in Workers, NEW c \in Configs, StartManual(w, c) PROVE SyncInv'
    BY <1>3, BeginStep DEF StartManual
  <1>4. ASSUME NEW w \in Workers, Step(w) PROVE SyncInv'
    <2>1. CASE \E c \in Configs : StartConfig(w, c) BY <2>1, StartConfigStep
    <2>2. CASE Record(w) BY <2>2, RecordStep
    <2>3. CASE EndRecords(w) BY <2>3, EndRecordsStep
    <2>4. CASE ResolveName(w) BY <2>4, ResolveNameStep
    <2>5. CASE AddName(w) BY <2>5, AddNameStep
    <2>6. CASE ResolveProduct(w) BY <2>6, ResolveProductStep
    <2>7. CASE AddMapping(w) BY <2>7, AddMappingStep
    <2>8. CASE FindOffer(w) BY <2>8, FindOfferStep
    <2>9. CASE InsertOffer(w) BY <2>9, InsertOfferStep
    <2>10. CASE UpdateOffer(w) BY <2>10, UpdateOfferStep
    <2>11. CASE MarkSynced(w) BY <2>11, MarkSyncedStep
    <2>12. CASE EndTick(w) BY <2>12, EndTickStep
    <2>13. CASE Queue(w) BY <2>13, QueueStep
    <2>14. CASE DeadlockVictim(w) BY <2>14, RollbackStep DEF DeadlockVictim
    <2> QED BY <1>4, <2>1, <2>2, <2>3, <2>4, <2>5, <2>6, <2>7, <2>8, <2>9, <2>10, <2>11, <2>12,
               <2>13, <2>14 DEF Step
  <1>5. ASSUME NEW w \in Workers, Crash(w) PROVE SyncInv' BY <1>5, CrashStep
  <1>6. ASSUME NEW c \in Configs, TimePasses(c) \/ UpdateSourceConfig(c) PROVE SyncInv'
    BY <1>6, OutsideStep
  <1> QED BY <1>1, <1>2, <1>3, <1>4, <1>5, <1>6 DEF Next

LEMMA SyncInvInit == Init => SyncInv
  <1> SUFFICES ASSUME Init PROVE SyncInv
    OBVIOUS
  <1>1. CommittedOK
    <2>1. table \in [Keys -> Values] BY DEF Init, Values
    <2>2. products \subseteq Prods BY SourceSyncAssumption DEF Init, Prods
    <2>3. report \in [Configs -> Statuses] BY DEF Init, Statuses
    <2>4. faults \in 0..MaxFaults BY SourceSyncAssumption DEF Init
    <2> QED BY <2>1, <2>2, <2>3, <2>4 DEF Init, CommittedOK
  <1>2. TableMapped
    <2>1. ASSUME NEW c \in Configs, NEW i \in Items
          PROVE  table[Mapping(c, i)] = Absent /\ table[Offer(c, i)] = Absent
      <3>1. \A d \in Configs : Mapping(c, i) # Config(d) /\ Offer(c, i) # Config(d) BY KeysApart
      <3> QED BY <3>1, KeysIn DEF Init
    <2> QED BY <2>1 DEF TableMapped
  <1>3. ProductsMapped
    <2>1. \A p \in products : p[2] = 0 BY DEF Init
    <2> QED BY <2>1 DEF ProductsMapped
  <1>4. tx = [w \in Workers |-> Idle] BY DEF Init
  <1>5. Idle \in Txn /\ Sound(Idle, table, sizes) /\ \A x : Apart(Idle, x) BY <1>1, IdleSound
  <1> QED BY <1>1, <1>2, <1>3, <1>4, <1>5 DEF SyncInv

LEMMA SyncInvariant == Spec => []SyncInv
  BY SyncInvInit, SyncInvStep, PTL DEF Spec

-----------------------------------------------------------------------------
(* What the recorded runs say *)

UnderWay == InRecord \cup {"record"}

(* A transaction records a run for every config whose offers it has         *)
(* written, once it is through with it; and if it says that the run         *)
(* succeeded, it has stored a size list for every record.                   *)
Told(t) ==
  /\ t.pc \notin {"idle", "configs"} => ConfigOf(t) \in t.todo
  /\ \A c \in t.todo : t.said[c] # "none" => t.pc = "mark" /\ ConfigOf(t) = c
  /\ t.pc = "mark" => t.said[ConfigOf(t)] # "none"
  /\ \A c \in Configs, i \in Items :
       SoleConfig(c) /\ t.put[Offer(c, i)] # Absent /\ t.said[c] = "none" =>
         t.pc \notin {"idle", "configs"} /\ ConfigOf(t) = c
  /\ \A c \in Configs : SoleConfig(c) /\ t.said[c] = "succeeded" =>
       \A i \in ItemsOf(c) : Offer(c, i) \in t.listed
  /\ t.pc \in UnderWay /\ t.bad = {} =>
       \A n \in DOMAIN Records(t) : n < t.at[2] => Offer(ConfigOf(t), Records(t)[n]) \in t.listed

ToldInv == SyncInv /\ (\A w \in Workers : Told(tx[w])) /\ SucceededMeansListed

LEMMA ToldIdle == Told(Idle)
  <1>1. \A c \in Configs, i \in Items : Idle.put[Offer(c, i)] = Absent BY KeysIn DEF Idle
  <1>2. Idle.pc = "idle" /\ Idle.todo = {} /\ \A c \in Configs : Idle.said[c] = "none"
    BY DEF Idle
  <1> QED BY <1>1, <1>2 DEF Told, UnderWay, InRecord, Resolving

LEMMA ToldSame ==
  ASSUME NEW t, Told(t), NEW u,
         u.pc = t.pc \/ {t.pc, u.pc} \subseteq UnderWay,
         u.at = t.at, u.todo = t.todo, u.said = t.said, u.bad = t.bad, u.listed = t.listed,
         \A c \in Configs, i \in Items : u.put[Offer(c, i)] = t.put[Offer(c, i)]
  PROVE  Told(u)
  <1>1. ConfigOf(u) = ConfigOf(t) /\ Records(u) = Records(t) BY DEF ConfigOf, Records
  <1>2. /\ u.pc = "mark" <=> t.pc = "mark"
        /\ u.pc \in {"idle", "configs"} <=> t.pc \in {"idle", "configs"}
        /\ u.pc \in UnderWay <=> t.pc \in UnderWay
    BY DEF UnderWay, InRecord, Resolving
  <1> QED BY <1>1, <1>2 DEF Told

LEMMA ToldBecome ==
  ASSUME SyncInv, NEW w \in Workers, NEW u \in Txn, Told(u), Become(w, u),
         \A x \in Workers : Told(tx[x])
  PROVE  \A x \in Workers : Told(tx'[x])
  <1> DEFINE v == [u EXCEPT !.queued = FALSE]
  <1>1. /\ v.pc = u.pc /\ v.at = u.at /\ v.todo = u.todo /\ v.said = u.said /\ v.bad = u.bad
        /\ v.listed = u.listed /\ v.put = u.put
    BY DEF Txn
  <1>2. tx' = [tx EXCEPT ![w] = v] /\ tx \in [Workers -> Txn] BY DEF Become, SyncInv
  <1> HIDE DEF v
  <1>3. Told(v) BY <1>1, ToldSame
  <1> QED BY <1>2, <1>3

LEMMA ToldRollback ==
  ASSUME SyncInv, NEW w \in Workers, Rollback(w), \A x \in Workers : Told(tx[x])
  PROVE  \A x \in Workers : Told(tx'[x])
  <1>1. Idle \in Txn BY IdleSound DEF SyncInv
  <1> QED BY <1>1, ToldIdle, ToldBecome DEF Rollback

(* A record that ends without a write to its offer.                         *)
LEMMA ToldEnds ==
  ASSUME NEW t, AtRecord(t), Told(t), t.pc \in UnderWay
  PROVE  /\ Failed(t) \in Txn /\ Told(Failed(t))
         /\ \A u \in {Failed(t), Succeeded(t)} :
              /\ u \in Txn /\ u.pc = "record" /\ u.at[1] = t.at[1] /\ u.at[2] = t.at[2] + 1
              /\ u.todo = t.todo /\ u.said = t.said /\ u.listed = t.listed /\ u.put = t.put
              /\ t.bad \subseteq u.bad
         /\ Failed(t).bad # {} /\ Succeeded(t).bad = t.bad
  <1>1. t \in Txn /\ t.at \in Configs \X (Nat \ {0})
    BY DEF AtRecord, UnderWay, InRecord, Resolving
  <1> DEFINE at == [t.at EXCEPT ![2] = @ + 1]
             n == NextRecord(t)
  <1>2. at \in Configs \X (Nat \ {0}) /\ at[1] = t.at[1] /\ at[2] = t.at[2] + 1 BY <1>1
  <1> HIDE DEF at
  <1>3. /\ n \in Txn /\ n.pc = "record" /\ n.at = at /\ n.todo = t.todo /\ n.said = t.said
        /\ n.listed = t.listed /\ n.put = t.put /\ n.bad = t.bad
    BY <1>1, <1>2 DEF NextRecord, Txn, Values, at
  <1>4. Failed(t) = [n EXCEPT !.bad = @ \cup {t.at[2]}]
        /\ Succeeded(t) = [n EXCEPT !.good = @ \cup {t.at[2]}]
    BY DEF Failed, Succeeded
  <1>5. t.at[2] \in Nat \ {0} BY <1>1
  <1> HIDE DEF n
  <1>6. ASSUME NEW u \in {Failed(t), Succeeded(t)}
        PROVE  /\ u \in Txn /\ u.pc = "record" /\ u.at[1] = t.at[1] /\ u.at[2] = t.at[2] + 1
               /\ u.todo = t.todo /\ u.said = t.said /\ u.listed = t.listed /\ u.put = t.put
               /\ t.bad \subseteq u.bad
    <2>1. n.bad \cup {t.at[2]} \in SUBSET (Nat \ {0}) /\ n.good \cup {t.at[2]} \in SUBSET (Nat \ {0})
      BY <1>3, <1>5 DEF Txn
    <2> DEFINE Kept(x) ==
          /\ x \in Txn /\ x.pc = n.pc /\ x.at = n.at /\ x.todo = n.todo /\ x.said = n.said
          /\ x.listed = n.listed /\ x.put = n.put /\ n.bad \subseteq x.bad
    <2>2. CASE u = Failed(t)
      <3>1. Kept([n EXCEPT !.bad = @ \cup {t.at[2]}]) BY <1>3, <2>1 DEF Txn
      <3> QED BY <1>2, <1>3, <1>4, <2>2, <3>1
    <2>3. CASE u = Succeeded(t)
      <3>1. Kept([n EXCEPT !.good = @ \cup {t.at[2]}]) BY <1>3, <2>1 DEF Txn
      <3> QED BY <1>2, <1>3, <1>4, <2>3, <3>1
    <2> QED BY <2>2, <2>3
  <1>7. Failed(t).bad # {} /\ Succeeded(t).bad = t.bad BY <1>3, <1>4, <1>5 DEF Txn
  <1>8. Told(Failed(t))
    <2> DEFINE u == Failed(t)
    <2>1. /\ u.pc = "record" /\ u.at[1] = t.at[1] /\ u.todo = t.todo /\ u.said = t.said
          /\ u.listed = t.listed /\ u.put = t.put /\ u.bad # {}
      BY <1>6, <1>7
    <2> HIDE DEF u
    <2>2. ConfigOf(u) = ConfigOf(t) BY <2>1 DEF ConfigOf
    <2>3. t.pc \notin {"idle", "configs", "mark"} BY DEF UnderWay, InRecord, Resolving
    <2> QED BY <2>1, <2>2, <2>3 DEF Told, u
  <1> QED BY <1>6, <1>7, <1>8

(* A record that ends with a write to its offer.                            *)
LEMMA ToldWritten ==
  ASSUME NEW t, AtRecord(t), Told(t), t.pc \in {"insert", "update"},
         NEW u, u.pc = "record", u.at[1] = t.at[1], u.at[2] = t.at[2] + 1,
         u.todo = t.todo, u.said = t.said,
         \A j \in Offers \ {OfferOf(t)} :
           u.put[j] = t.put[j] /\ (j \in u.listed <=> j \in t.listed),
         u.bad = {} => t.bad = {} /\ OfferOf(t) \in u.listed
  PROVE  Told(u)
  <1> DEFINE e == ConfigOf(t)
             k == OfferOf(t)
  <1>1. Item(t) \in Items /\ e \in Configs BY ItemAt DEF InRecord
  <1>2. \A c \in Configs, i \in Items : Offer(c, i) \in Offers
           /\ (SoleConfig(c) /\ Offer(c, i) = k => c = e)
    <2> SUFFICES ASSUME NEW c \in Configs, NEW i \in Items
                 PROVE  Offer(c, i) \in Offers /\ (SoleConfig(c) /\ Offer(c, i) = k => c = e)
      OBVIOUS
    <2>1. Offer(c, i) = k => StoreOf[c] = StoreOf[e] BY KeysApart DEF OfferOf
    <2> QED BY <1>1, <2>1, KeysIn DEF SoleConfig
  <1>3. /\ ConfigOf(u) = e /\ Records(u) = Records(t) /\ e \in t.todo
        /\ t.pc \notin {"idle", "configs", "mark"} /\ t.pc \in UnderWay
    BY DEF ConfigOf, Records, Told, UnderWay, InRecord
  <1>4. t.said[e] = "none" BY <1>3 DEF Told
  <1>5. k = Offer(e, Records(t)[t.at[2]]) BY DEF OfferOf, Item
  <1>6. \A j \in Offers \ {k} : u.put[j] = t.put[j] /\ (j \in u.listed <=> j \in t.listed)
    OBVIOUS
  <1>7. u.bad = {} => t.bad = {} /\ k \in u.listed OBVIOUS
  <1>8. t.at[2] \in Nat /\ \A n \in DOMAIN Records(t) : n \in Nat /\ Records(t)[n] \in Items
    <2>1. Feed[e] \in Seq(Items) BY <1>1, SourceSyncAssumption
    <2>2. t.at[2] \in Nat BY DEF AtRecord
    <2> QED BY <2>1, <2>2 DEF Records
  <1> HIDE DEF k, e
  <1>9. \A c \in Configs, i \in Items :
           SoleConfig(c) /\ u.put[Offer(c, i)] # Absent /\ u.said[c] = "none" =>
             u.pc \notin {"idle", "configs"} /\ ConfigOf(u) = c
    <2> SUFFICES ASSUME NEW c \in Configs, NEW i \in Items, SoleConfig(c),
                        u.put[Offer(c, i)] # Absent, u.said[c] = "none"
                 PROVE  e = c
      BY <1>3
    <2>1. CASE Offer(c, i) = k BY <1>2, <2>1
    <2>2. CASE Offer(c, i) # k BY <1>2, <1>6, <2>2 DEF Told, e
    <2> QED BY <2>1, <2>2
  <1>10. \A c \in Configs : SoleConfig(c) /\ u.said[c] = "succeeded" =>
            \A i \in ItemsOf(c) : Offer(c, i) \in u.listed
    <2> SUFFICES ASSUME NEW c \in Configs, SoleConfig(c), t.said[c] = "succeeded", NEW i \in ItemsOf(c)
                 PROVE  Offer(c, i) \in u.listed
      OBVIOUS
    <2>1. Offer(c, i) \in t.listed BY DEF Told
    <2>2. i \in Items
      <3>1. Feed[c] \in Seq(Items) BY SourceSyncAssumption
      <3> QED BY <3>1 DEF ItemsOf
    <2>3. Offer(c, i) \in Offers \ {k} BY <1>2, <1>4, <2>2
    <2> QED BY <1>6, <2>1, <2>3
  <1>11. u.bad = {} =>
            \A n \in DOMAIN Records(u) : n < u.at[2] => Offer(ConfigOf(u), Records(u)[n]) \in u.listed
    <2> SUFFICES ASSUME u.bad = {}, NEW n \in DOMAIN Records(t), n < t.at[2] + 1
                 PROVE  Offer(e, Records(t)[n]) \in u.listed
      BY <1>3
    <2>1. CASE n = t.at[2] BY <1>5, <1>7, <2>1
    <2>2. CASE n < t.at[2]
      <3>1. Offer(e, Records(t)[n]) \in t.listed BY <1>3, <1>7, <2>2 DEF Told, e
      <3>2. Offer(e, Records(t)[n]) \in Offers BY <1>1, <1>2, <1>8
      <3> QED BY <1>6, <1>7, <3>1, <3>2
    <2> QED BY <1>8, <2>1, <2>2
  <1>12. \A c \in u.todo : u.said[c] = "none" BY <1>3 DEF Told
  <1> QED BY <1>3, <1>9, <1>10, <1>11, <1>12 DEF Told

LEMMA ToldBegin ==
  ASSUME ToldInv, NEW w \in Workers, NEW chosen \in SUBSET Configs, Begin(w, chosen)
  PROVE  \A x \in Workers : Told(tx'[x])
  <1> DEFINE u == [Idle EXCEPT !.pc = "configs", !.todo = chosen]
  <1>1. Idle \in Txn BY IdleSound DEF ToldInv, SyncInv
  <1>2. /\ u \in Txn /\ u.pc = "configs" /\ u.put = Idle.put /\ u.todo = chosen
        /\ u.said = Idle.said
    BY <1>1 DEF Txn
  <1>3. Become(w, u) BY DEF Begin
  <1> HIDE DEF u
  <1>4. /\ \A c \in Configs, i \in Items : Idle.put[Offer(c, i)] = Absent
        /\ \A c \in Configs : Idle.said[c] = "none"
    BY KeysIn DEF Idle
  <1>5. Told(u) BY <1>2, <1>4 DEF Told, UnderWay, InRecord, Resolving
  <1> QED BY <1>2, <1>3, <1>5, ToldBecome DEF ToldInv

LEMMA ToldStartConfig ==
  ASSUME ToldInv, NEW w \in Workers, NEW c \in Configs, StartConfig(w, c)
  PROVE  \A x \in Workers : Told(tx'[x])
  <1> DEFINE t == tx[w]
             at == <<c, 1>>
             said == [t.said EXCEPT ![c] = "failed"]
             u == [t EXCEPT !.pc = "record", !.at = at, !.good = {}, !.bad = {}]
             v == [t EXCEPT !.pc = "mark", !.at = at, !.said[c] = "failed"]
  <1>1. t \in Txn /\ t.pc = "configs" /\ Told(t) /\ c \in t.todo
    BY DEF ToldInv, SyncInv, StartConfig
  <1>2. Rollback(w) \/ Become(w, u) \/ Become(w, v) BY DEF StartConfig
  <1>3. at \in Configs \X (Nat \ {0}) /\ at[1] = c /\ at[2] = 1 OBVIOUS
  <1>4. /\ said \in [Configs -> Statuses] /\ said[c] = "failed"
        /\ \A d \in Configs \ {c} : said[d] = t.said[d]
    BY <1>1 DEF Txn, Statuses
  <1>5. v = [t EXCEPT !.pc = "mark", !.at = at, !.said = said] OBVIOUS
  <1>6. \A d \in t.todo : t.said[d] = "none" BY <1>1 DEF Told
  <1>7. \A d \in Configs, i \in Items :
           SoleConfig(d) /\ t.put[Offer(d, i)] # Absent => t.said[d] # "none"
    BY <1>1 DEF Told
  <1> HIDE DEF at, said, v
  <1>8. /\ u \in Txn /\ u.pc = "record" /\ u.at = at /\ u.put = t.put /\ u.todo = t.todo
        /\ u.said = t.said /\ u.listed = t.listed
    BY <1>1, <1>3 DEF Txn
  <1>9. /\ v \in Txn /\ v.pc = "mark" /\ v.at = at /\ v.put = t.put /\ v.todo = t.todo
        /\ v.said = said /\ v.listed = t.listed
    BY <1>1, <1>3, <1>4, <1>5 DEF Txn
  <1> HIDE DEF u
  <1>10. ConfigOf(u) = c /\ ConfigOf(v) = c BY <1>3, <1>8, <1>9 DEF ConfigOf
  <1>11. Told(u)
    <2>1. \A n \in DOMAIN Records(u) : ~(n < u.at[2])
      <3>1. Feed[c] \in Seq(Items) BY SourceSyncAssumption
      <3> QED BY <1>3, <1>8, <1>10, <3>1 DEF Records
    <2>2. \A d \in Configs : SoleConfig(d) /\ t.said[d] = "succeeded" =>
             \A i \in ItemsOf(d) : Offer(d, i) \in t.listed
      BY <1>1 DEF Told
    <2> QED BY <1>1, <1>6, <1>7, <1>8, <1>10, <2>1, <2>2 DEF Told
  <1>12. Told(v)
    <2>1. \A d \in Configs : SoleConfig(d) /\ said[d] = "succeeded" =>
             \A i \in ItemsOf(d) : Offer(d, i) \in t.listed
      BY <1>1, <1>4 DEF Told
    <2>2. \A d \in v.todo : v.said[d] # "none" => ConfigOf(v) = d
      <3>1. t.todo \subseteq Configs BY <1>1 DEF Txn
      <3> QED BY <1>4, <1>6, <1>9, <1>10, <3>1
    <2>3. \A d \in Configs, i \in Items :
             SoleConfig(d) /\ v.put[Offer(d, i)] # Absent => v.said[d] # "none"
      BY <1>4, <1>7, <1>9
    <2> QED BY <1>1, <1>4, <1>9, <1>10, <2>1, <2>2, <2>3 DEF Told, UnderWay, InRecord, Resolving
  <1> QED BY <1>2, <1>8, <1>9, <1>11, <1>12, ToldBecome, ToldRollback DEF ToldInv

LEMMA ToldEndRecords ==
  ASSUME ToldInv, NEW w \in Workers, EndRecords(w)
  PROVE  \A x \in Workers : Told(tx'[x])
  <1> DEFINE t == tx[w]
             c == ConfigOf(t)
             said == [t.said EXCEPT ![c] = RunStatus(t)]
             u == [t EXCEPT !.pc = "mark", !.said = said]
  <1>1. /\ t \in Txn /\ AtRecord(t) /\ t.pc = "record" /\ Told(t)
        /\ t.at[2] > Len(Records(t)) /\ Become(w, u)
    BY DEF ToldInv, SyncInv, Sound, EndRecords
  <1>2. c \in Configs BY <1>1 DEF AtRecord, ConfigOf
  <1>3. RunStatus(t) \in Statuses \ {"none"} /\ (RunStatus(t) = "succeeded" => t.bad = {})
    BY DEF RunStatus, Statuses
  <1>4. /\ said \in [Configs -> Statuses] /\ said[c] = RunStatus(t)
        /\ \A d \in Configs \ {c} : said[d] = t.said[d]
    BY <1>1, <1>2, <1>3 DEF Txn
  <1> HIDE DEF said
  <1>5. /\ u \in Txn /\ u.pc = "mark" /\ u.at = t.at /\ u.put = t.put /\ u.todo = t.todo
        /\ u.said = said /\ u.listed = t.listed
    BY <1>1, <1>4 DEF Txn
  <1> HIDE DEF u
  <1>6. ConfigOf(u) = c BY <1>5 DEF ConfigOf
  <1>7. c \in t.todo /\ \A d \in t.todo : t.said[d] = "none" BY <1>1 DEF Told
  <1>8. \A d \in u.todo : u.said[d] # "none" => ConfigOf(u) = d
    <2>1. t.todo \subseteq Configs BY <1>1 DEF Txn
    <2> QED BY <1>4, <1>5, <1>6, <1>7, <2>1
  <1>9. \A d \in Configs, i \in Items :
           SoleConfig(d) /\ u.put[Offer(d, i)] # Absent /\ u.said[d] = "none" => ConfigOf(u) = d
    BY <1>1, <1>3, <1>4, <1>5, <1>6 DEF Told
  <1>10. ASSUME NEW d \in Configs, SoleConfig(d), u.said[d] = "succeeded", NEW i \in ItemsOf(d)
         PROVE  Offer(d, i) \in u.listed
    <2>1. CASE d # c BY <1>1, <1>4, <1>5, <1>10, <2>1 DEF Told
    <2>2. CASE d = c
      <3>1. t.bad = {} BY <1>3, <1>4, <1>5, <1>10, <2>2
      <3>2. Feed[c] \in Seq(Items) /\ t.at[2] \in Nat
        BY <1>1, <1>2, SourceSyncAssumption DEF AtRecord
      <3>3. PICK n \in DOMAIN Feed[c] : i = Feed[c][n] BY <2>2 DEF ItemsOf
      <3>4. n < t.at[2] BY <1>1, <3>2 DEF Records
      <3>5. t.pc \in UnderWay BY <1>1 DEF UnderWay
      <3>6. Offer(c, Feed[c][n]) \in t.listed BY <1>1, <3>1, <3>3, <3>4, <3>5 DEF Told, Records
      <3> QED BY <1>5, <2>2, <3>3, <3>6
    <2> QED BY <2>1, <2>2
  <1>11. Told(u)
    BY <1>3, <1>4, <1>5, <1>6, <1>7, <1>8, <1>9, <1>10 DEF Told, UnderWay, InRecord, Resolving
  <1> QED BY <1>1, <1>5, <1>11, ToldBecome DEF ToldInv

(* A step within a record that writes no offer.                             *)
LEMMA ToldPlain ==
  ASSUME ToldInv, NEW w \in Workers, NEW u \in Txn, Become(w, u),
         {tx[w].pc, u.pc} \subseteq UnderWay, u.at = tx[w].at, u.todo = tx[w].todo,
         u.said = tx[w].said, u.bad = tx[w].bad, u.listed = tx[w].listed,
         \A c \in Configs, i \in Items : u.put[Offer(c, i)] = tx[w].put[Offer(c, i)]
  PROVE  \A x \in Workers : Told(tx'[x])
  <1>1. Told(tx[w]) BY DEF ToldInv
  <1>2. Told(u) BY <1>1, ToldSame
  <1> QED BY <1>2, ToldBecome DEF ToldInv

LEMMA ToldFailed ==
  ASSUME ToldInv, NEW w \in Workers, tx[w].pc \in UnderWay, Become(w, Failed(tx[w]))
  PROVE  \A x \in Workers : Told(tx'[x])
  <1>1. AtRecord(tx[w]) /\ Told(tx[w]) BY DEF ToldInv, SyncInv, Sound
  <1> QED BY <1>1, ToldEnds, ToldBecome DEF ToldInv

LEMMA ToldRecord ==
  ASSUME ToldInv, NEW w \in Workers, Record(w)
  PROVE  \A x \in Workers : Told(tx'[x])
  <1> DEFINE t == tx[w]
             P == {<<IdentOf[Item(t)], 0>>, Row(w, MappingOf(t))}
  <1>1. /\ t \in Txn /\ AtRecord(t) /\ t.pc = "record" /\ t.at[2] =< Len(Records(t))
        /\ table \in [Keys -> Values]
    BY DEF ToldInv, SyncInv, CommittedOK, Sound, Record
  <1>2. Item(t) \in Items /\ ConfigOf(t) \in Configs BY <1>1, ItemAt
  <1>3. P \subseteq Values
    <2>1. MappingOf(t) \in Keys BY <1>2, KeysIn DEF MappingOf
    <2>2. Row(w, MappingOf(t)) \in Values BY <1>1, <2>1 DEF Row, Txn
    <2>3. <<IdentOf[Item(t)], 0>> \in Prods BY <1>2, SourceSyncAssumption DEF Prods
    <2> QED BY <2>2, <2>3, ProdsPresent
  <1>4. ASSUME NEW p \in Values, Become(w, [t EXCEPT !.pc = "offer", !.prod = p])
        PROVE  \A x \in Workers : Told(tx'[x])
    <2> DEFINE u == [t EXCEPT !.pc = "offer", !.prod = p]
    <2>1. /\ u \in Txn /\ u.pc = "offer" /\ u.at = t.at /\ u.put = t.put /\ u.todo = t.todo
          /\ u.said = t.said /\ u.bad = t.bad /\ u.listed = t.listed
      BY <1>1 DEF Txn
    <2>2. Become(w, u) BY <1>4
    <2> HIDE DEF u
    <2> QED BY <1>1, <2>1, <2>2, ToldPlain DEF UnderWay, InRecord
  <1>5. CASE Become(w, [t EXCEPT !.pc = "name", !.names = 0])
    <2> DEFINE u == [t EXCEPT !.pc = "name", !.names = 0]
    <2>1. /\ u \in Txn /\ u.pc = "name" /\ u.at = t.at /\ u.put = t.put /\ u.todo = t.todo
          /\ u.said = t.said /\ u.bad = t.bad /\ u.listed = t.listed
      BY <1>1 DEF Txn
    <2>2. Become(w, u) BY <1>5
    <2> HIDE DEF u
    <2> QED BY <1>1, <2>1, <2>2, ToldPlain DEF UnderWay, InRecord, Resolving
  <1>6. CASE Become(w, Failed(t)) BY <1>1, <1>6, ToldFailed DEF UnderWay
  <1>7. \/ Become(w, Failed(t))
        \/ \E p \in P : Become(w, [t EXCEPT !.pc = "offer", !.prod = p])
        \/ Become(w, [t EXCEPT !.pc = "name", !.names = 0])
    BY DEF Record
  <1> QED BY <1>3, <1>4, <1>5, <1>6, <1>7

LEMMA ToldNames ==
  ASSUME ToldInv, NEW w \in Workers, ResolveName(w) \/ AddName(w)
  PROVE  \A x \in Workers : Told(tx'[x])
  <1> DEFINE t == tx[w]
             n == t.names + 1
             k == NextName(t)
             put == [t.put EXCEPT ![k] = Exists]
  <1>1. t \in Txn /\ t.pc \in {"name", "addname"} BY DEF ToldInv, SyncInv, ResolveName, AddName
  <1>2. n \in Nat BY <1>1 DEF Txn
  <1>3. put \in [Keys -> Values] BY <1>1 DEF Txn, Values
  <1>4. \A c \in Configs, i \in Items : put[Offer(c, i)] = t.put[Offer(c, i)]
    <2>1. \A c \in Configs, i \in Items : Offer(c, i) \in Keys \ {k}
      BY KeysIn, KeysApart DEF NextName
    <2>2. t.put \in [Keys -> Values] BY <1>1 DEF Txn
    <2> HIDE DEF k
    <2> QED BY <2>1, <2>2
  <1>5. \/ Rollback(w)
        \/ Become(w, [t EXCEPT !.pc = "product"])
        \/ Become(w, [t EXCEPT !.names = n])
        \/ Become(w, [t EXCEPT !.pc = "addname"])
        \/ Become(w, [t EXCEPT !.pc = "name", !.names = n, !.put = put])
    BY DEF ResolveName, AddName
  <1> HIDE DEF n, k, put
  <1> DEFINE Plain(u) ==
        /\ u \in Txn /\ u.pc \in {"product", "name", "addname"} /\ u.at = t.at /\ u.todo = t.todo
        /\ u.said = t.said /\ u.bad = t.bad /\ u.listed = t.listed
        /\ u.put = t.put \/ u.put = put
  <1>6. Plain([t EXCEPT !.pc = "product"]) BY <1>1 DEF Txn
  <1>7. Plain([t EXCEPT !.names = n]) BY <1>1, <1>2 DEF Txn
  <1>8. Plain([t EXCEPT !.pc = "addname"]) BY <1>1 DEF Txn
  <1>9. Plain([t EXCEPT !.pc = "name", !.names = n, !.put = put]) BY <1>1, <1>2, <1>3 DEF Txn
  <1>10. ASSUME NEW u, Plain(u), Become(w, u) PROVE \A x \in Workers : Told(tx'[x])
    <2>1. {t.pc, u.pc} \subseteq UnderWay BY <1>1, <1>10 DEF UnderWay, InRecord, Resolving
    <2>2. \A c \in Configs, i \in Items : u.put[Offer(c, i)] = t.put[Offer(c, i)] BY <1>4, <1>10
    <2> QED BY <1>10, <2>1, <2>2, ToldPlain
  <1> HIDE DEF Plain
  <1> QED BY <1>5, <1>6, <1>7, <1>8, <1>9, <1>10, ToldRollback DEF ToldInv

LEMMA ToldProduct ==
  ASSUME ToldInv, NEW w \in Workers, ResolveProduct(w)
  PROVE  \A x \in Workers : Told(tx'[x])
  <1> DEFINE t == tx[w]
  <1>1. t \in Txn /\ AtRecord(t) /\ t.pc = "product" /\ products \subseteq Prods
    BY DEF ToldInv, SyncInv, CommittedOK, Sound, ResolveProduct
  <1>2. Item(t) \in Items BY <1>1, ItemAt DEF InRecord, Resolving
  <1>3. Matching(w, Item(t)) \cup NewProduct(Item(t)) \subseteq Prods
    BY <1>1, <1>2, SourceSyncAssumption DEF Matching, NewProduct, Txn, Prods
  <1>4. PICK p \in Prods, M \in SUBSET Prods :
           Become(w, [t EXCEPT !.pc = "addmapping", !.prod = p, !.made = M])
    <2>1. \A p : [t EXCEPT !.pc = "addmapping", !.prod = p]
                   = [t EXCEPT !.pc = "addmapping", !.prod = p, !.made = t.made]
      BY <1>1 DEF Txn
    <2>2. t.made \subseteq Prods /\ \A p \in Prods : t.made \cup {p} \subseteq Prods
      BY <1>1 DEF Txn
    <2>3. \/ \E p \in Prods : Become(w, [t EXCEPT !.pc = "addmapping", !.prod = p])
          \/ \E p \in Prods : Become(w, [t EXCEPT !.pc = "addmapping", !.prod = p,
                                                !.made = @ \cup {p}])
      BY <1>3 DEF ResolveProduct
    <2>4. CASE \E p \in Prods : Become(w, [t EXCEPT !.pc = "addmapping", !.prod = p])
      <3>1. PICK p \in Prods : Become(w, [t EXCEPT !.pc = "addmapping", !.prod = p]) BY <2>4
      <3>2. Become(w, [t EXCEPT !.pc = "addmapping", !.prod = p, !.made = t.made])
        BY <2>1, <3>1
      <3> QED BY <2>2, <3>2
    <2>5. CASE \E p \in Prods : Become(w, [t EXCEPT !.pc = "addmapping", !.prod = p,
                                                 !.made = @ \cup {p}])
      <3>1. PICK p \in Prods : Become(w, [t EXCEPT !.pc = "addmapping", !.prod = p,
                                                 !.made = t.made \cup {p}])
        BY <2>5
      <3> QED BY <2>2, <3>1
    <2> QED BY <2>3, <2>4, <2>5
  <1> DEFINE u == [t EXCEPT !.pc = "addmapping", !.prod = p, !.made = M]
  <1>5. p \in Values BY ProdsPresent
  <1>6. /\ u \in Txn /\ u.pc = "addmapping" /\ u.at = t.at /\ u.put = t.put /\ u.todo = t.todo
        /\ u.said = t.said /\ u.bad = t.bad /\ u.listed = t.listed
    BY <1>1, <1>5 DEF Txn
  <1>7. Become(w, u) BY <1>4
  <1> HIDE DEF u
  <1> QED BY <1>1, <1>6, <1>7, ToldPlain DEF UnderWay, InRecord, Resolving

LEMMA ToldMapping ==
  ASSUME ToldInv, NEW w \in Workers, AddMapping(w)
  PROVE  \A x \in Workers : Told(tx'[x])
  <1> DEFINE t == tx[w]
             m == MappingOf(t)
             put == [t.put EXCEPT ![m] = t.prod]
             u == [t EXCEPT !.pc = "offer", !.put = put]
  <1>1. t \in Txn /\ t.pc = "addmapping" BY DEF ToldInv, SyncInv, AddMapping
  <1>2. put \in [Keys -> Values] BY <1>1 DEF Txn
  <1>3. \A c \in Configs, i \in Items : put[Offer(c, i)] = t.put[Offer(c, i)]
    <2>1. \A c \in Configs, i \in Items : Offer(c, i) \in Keys \ {m}
      BY KeysIn, KeysApart DEF MappingOf
    <2>2. t.put \in [Keys -> Values] BY <1>1 DEF Txn
    <2> HIDE DEF m
    <2> QED BY <2>1, <2>2
  <1>4. Rollback(w) \/ Become(w, u) BY DEF AddMapping
  <1> HIDE DEF put
  <1>5. /\ u \in Txn /\ u.pc = "offer" /\ u.at = t.at /\ u.put = put /\ u.todo = t.todo
        /\ u.said = t.said /\ u.bad = t.bad /\ u.listed = t.listed
    BY <1>1, <1>2 DEF Txn
  <1> HIDE DEF u
  <1>6. {t.pc, u.pc} \subseteq UnderWay BY <1>1, <1>5 DEF UnderWay, InRecord, Resolving
  <1>7. \A c \in Configs, i \in Items : u.put[Offer(c, i)] = t.put[Offer(c, i)] BY <1>3, <1>5
  <1> QED BY <1>4, <1>5, <1>6, <1>7, ToldPlain, ToldRollback DEF ToldInv

LEMMA ToldFind ==
  ASSUME ToldInv, NEW w \in Workers, FindOffer(w)
  PROVE  \A x \in Workers : Told(tx'[x])
  <1> DEFINE t == tx[w]
             k == OfferOf(t)
             n == sizes[k] - t.dropped[k]
  <1>1. /\ t \in Txn /\ AtRecord(t) /\ t.pc = "offer" /\ sizes \in [Offers -> Nat]
        /\ SizesThere(t, table, sizes)
    BY DEF ToldInv, SyncInv, CommittedOK, Sound, FindOffer
  <1>2. n \in Nat
    <2>1. Item(t) \in Items /\ ConfigOf(t) \in Configs BY <1>1, ItemAt DEF InRecord
    <2>2. k \in Offers BY <2>1, KeysIn DEF OfferOf
    <2> QED BY <1>1, <2>2 DEF SizesThere, Txn
  <1>3. \/ Become(w, [t EXCEPT !.pc = "insert"])
        \/ Become(w, [t EXCEPT !.pc = "update", !.seen = n])
    BY DEF FindOffer
  <1> HIDE DEF n
  <1> DEFINE Plain(u) ==
        /\ u \in Txn /\ u.pc \in {"insert", "update"} /\ u.at = t.at /\ u.todo = t.todo
        /\ u.said = t.said /\ u.bad = t.bad /\ u.listed = t.listed /\ u.put = t.put
  <1>4. Plain([t EXCEPT !.pc = "insert"]) BY <1>1 DEF Txn
  <1>5. Plain([t EXCEPT !.pc = "update", !.seen = n]) BY <1>1, <1>2 DEF Txn
  <1>6. ASSUME NEW u, Plain(u), Become(w, u) PROVE \A x \in Workers : Told(tx'[x])
    <2>1. {t.pc, u.pc} \subseteq UnderWay BY <1>1, <1>6 DEF UnderWay, InRecord
    <2> QED BY <1>6, <2>1, ToldPlain
  <1> HIDE DEF Plain
  <1> QED BY <1>3, <1>4, <1>5, <1>6

LEMMA ToldInsert ==
  ASSUME ToldInv, NEW w \in Workers, InsertOffer(w)
  PROVE  \A x \in Workers : Told(tx'[x])
  <1> DEFINE t == tx[w]
             k == OfferOf(t)
             r == Succeeded(t)
             u == [r EXCEPT !.put[k] = t.prod, !.listed = @ \cup {k}]
  <1>1. t \in Txn /\ AtRecord(t) /\ Told(t) /\ t.pc = "insert"
    BY DEF ToldInv, SyncInv, Sound, InsertOffer
  <1>2. k \in Offers
    <2>1. Item(t) \in Items /\ ConfigOf(t) \in Configs BY <1>1, ItemAt DEF InRecord
    <2> QED BY <2>1, KeysIn DEF OfferOf
  <1>3. Offers \subseteq Keys BY DEF Keys
  <1>4. /\ r \in Txn /\ r.pc = "record" /\ r.at[1] = t.at[1] /\ r.at[2] = t.at[2] + 1
        /\ r.todo = t.todo /\ r.said = t.said /\ r.listed = t.listed /\ r.put = t.put
        /\ r.bad = t.bad
    BY <1>1, ToldEnds DEF UnderWay, InRecord
  <1>5. Become(w, Failed(t)) \/ Rollback(w) \/ Become(w, u) BY DEF InsertOffer
  <1>6. ASSUME Become(w, u) PROVE \A x \in Workers : Told(tx'[x])
    <2> DEFINE put == [t.put EXCEPT ![k] = t.prod]
               L == t.listed \cup {k}
    <2>1. put \in [Keys -> Values] /\ \A j \in Offers \ {k} : put[j] = t.put[j]
      BY <1>1, <1>3 DEF Txn
    <2>2. L \in SUBSET Offers BY <1>1, <1>2 DEF Txn
    <2>3. u = [r EXCEPT !.put = put, !.listed = L] BY <1>4
    <2> HIDE DEF put, r, k, u
    <2>4. /\ u \in Txn /\ u.pc = "record" /\ u.at = r.at /\ u.todo = r.todo
          /\ u.said = r.said /\ u.bad = r.bad /\ u.put = put /\ u.listed = L
      BY <1>4, <2>1, <2>2, <2>3 DEF Txn
    <2>5. \A j \in Offers \ {k} : u.put[j] = t.put[j] /\ (j \in u.listed <=> j \in t.listed)
      BY <2>1, <2>4
    <2>6. u.bad = {} => t.bad = {} /\ k \in u.listed BY <1>4, <2>4
    <2>7. Told(u) BY <1>1, <1>4, <2>4, <2>5, <2>6, ToldWritten DEF k
    <2> QED BY <1>6, <2>4, <2>7, ToldBecome DEF ToldInv
  <1>7. CASE Become(w, Failed(t)) BY <1>1, <1>7, ToldFailed DEF UnderWay, InRecord
  <1> QED BY <1>5, <1>6, <1>7, ToldRollback DEF ToldInv

LEMMA ToldUpdate ==
  ASSUME ToldInv, NEW w \in Workers, UpdateOffer(w)
  PROVE  \A x \in Workers : Told(tx'[x])
  <1> DEFINE t == tx[w]
             k == OfferOf(t)
             p == Row(w, k)
             d == t.dropped[k] + t.seen
             cleared(s) == [s EXCEPT !.put[k] = p, !.dropped[k] = @ + t.seen]
             late == [cleared(Failed(t)) EXCEPT !.listed = @ \ {k}]
             good == [cleared(Succeeded(t)) EXCEPT !.listed = @ \cup {k}]
  <1>1. /\ t \in Txn /\ AtRecord(t) /\ Told(t) /\ t.pc = "update" /\ table \in [Keys -> Values]
        /\ SyncInv
    BY DEF ToldInv, SyncInv, CommittedOK, Sound, UpdateOffer
  <1>2. k \in Offers
    <2>1. Item(t) \in Items /\ ConfigOf(t) \in Configs BY <1>1, ItemAt DEF InRecord
    <2> QED BY <2>1, KeysIn DEF OfferOf
  <1>3. Offers \subseteq Keys BY DEF Keys
  <1>4. p \in Values /\ d \in Nat BY <1>1, <1>2, <1>3 DEF Row, Txn
  <1>5. \A r \in {Failed(t), Succeeded(t)} :
          /\ r \in Txn /\ r.pc = "record" /\ r.at[1] = t.at[1] /\ r.at[2] = t.at[2] + 1
          /\ r.todo = t.todo /\ r.said = t.said /\ r.listed = t.listed /\ r.put = t.put
          /\ t.bad \subseteq r.bad /\ r.dropped = t.dropped
    <2>1. Failed(t).dropped = t.dropped /\ Succeeded(t).dropped = t.dropped
      BY <1>1, RecordEnds
    <2> QED BY <1>1, <2>1, ToldEnds DEF UnderWay, InRecord
  <1>6. Failed(t).bad # {} /\ Succeeded(t).bad = t.bad BY <1>1, ToldEnds DEF UnderWay, InRecord
  <1>7. ASSUME NEW r \in {Failed(t), Succeeded(t)}, NEW L,
               L \subseteq Offers, \A j \in Offers \ {k} : j \in L <=> j \in t.listed,
               r.bad = {} => t.bad = {} /\ k \in L,
               Become(w, [cleared(r) EXCEPT !.listed = L])
        PROVE  \A x \in Workers : Told(tx'[x])
    <2> DEFINE put == [t.put EXCEPT ![k] = p]
               dropped == [t.dropped EXCEPT ![k] = d]
               u == [cleared(r) EXCEPT !.listed = L]
    <2>1. put \in [Keys -> Values] /\ \A j \in Offers \ {k} : put[j] = t.put[j]
      BY <1>1, <1>3, <1>4 DEF Txn
    <2>2. dropped \in [Offers -> Nat] BY <1>1, <1>4 DEF Txn
    <2> DEFINE q == [r EXCEPT !.put = put, !.dropped = dropped]
    <2>3. cleared(r) = q BY <1>5
    <2>9. u = [q EXCEPT !.listed = L] BY <2>3
    <2>10. Become(w, u) BY <1>7
    <2>11. /\ r \in Txn /\ r.pc = "record" /\ L \in SUBSET Offers
      BY <1>5, <1>7
    <2> HIDE DEF put, dropped, k, u, t, cleared
    <2>12. /\ q \in Txn /\ q.pc = "record" /\ q.at = r.at /\ q.todo = r.todo
           /\ q.said = r.said /\ q.bad = r.bad /\ q.put = put
      BY <2>1, <2>2, <2>11 DEF Txn
    <2> HIDE DEF q
    <2>4. /\ u \in Txn /\ u.pc = "record" /\ u.at = r.at /\ u.todo = r.todo
          /\ u.said = r.said /\ u.bad = r.bad /\ u.put = put /\ u.listed = L
      BY <2>9, <2>11, <2>12 DEF Txn
    <2>5. \A j \in Offers \ {k} : u.put[j] = t.put[j] /\ (j \in u.listed <=> j \in t.listed)
      BY <1>7, <2>1, <2>4
    <2>6. u.bad = {} => t.bad = {} /\ k \in u.listed BY <1>7, <2>4
    <2>7. Told(u) BY <1>1, <1>5, <2>4, <2>5, <2>6, ToldWritten DEF k
    <2> QED BY <1>1, <2>4, <2>7, <2>10, ToldBecome DEF ToldInv
  <1>8. Rollback(w) \/ Become(w, late) \/ Become(w, good) BY DEF UpdateOffer
  <1>9. CASE Become(w, late)
    <2> DEFINE L == t.listed \ {k}
    <2>1. cleared(Failed(t)).listed = t.listed BY <1>5 DEF Txn
    <2>2. late = [cleared(Failed(t)) EXCEPT !.listed = L] BY <2>1
    <2>3. L \subseteq Offers /\ \A j \in Offers \ {k} : j \in L <=> j \in t.listed
      BY <1>1 DEF Txn
    <2> HIDE DEF cleared, L, late, good, k
    <2> QED BY <1>6, <1>7, <1>9, <2>2, <2>3
  <1>10. CASE Become(w, good)
    <2> DEFINE L == t.listed \cup {k}
    <2>1. cleared(Succeeded(t)).listed = t.listed BY <1>5 DEF Txn
    <2>2. good = [cleared(Succeeded(t)) EXCEPT !.listed = L] BY <2>1
    <2>3. L \subseteq Offers /\ k \in L /\ \A j \in Offers \ {k} : j \in L <=> j \in t.listed
      BY <1>1, <1>2 DEF Txn
    <2> HIDE DEF cleared, L, late, good, k
    <2> QED BY <1>6, <1>7, <1>10, <2>2, <2>3
  <1> QED BY <1>1, <1>8, <1>9, <1>10, ToldRollback DEF ToldInv

LEMMA ToldMark ==
  ASSUME ToldInv, NEW w \in Workers, MarkSynced(w)
  PROVE  \A x \in Workers : Told(tx'[x])
  <1> DEFINE t == tx[w]
             c == ConfigOf(t)
             put == [t.put EXCEPT ![Config(c)] = Exists]
             u == [t EXCEPT !.pc = "configs", !.at = <<>>, !.todo = @ \ {c},
                            !.good = {}, !.bad = {}, !.put = put]
  <1>1. t \in Txn /\ AtRecord(t) /\ Told(t) /\ t.pc = "mark" /\ Become(w, u)
    BY DEF ToldInv, SyncInv, Sound, MarkSynced
  <1>2. put \in [Keys -> Values] BY <1>1 DEF Txn, Values
  <1>3. \A d \in Configs, i \in Items : put[Offer(d, i)] = t.put[Offer(d, i)]
    <2>1. ASSUME NEW d \in Configs, NEW i \in Items PROVE Offer(d, i) \in Keys \ {Config(c)}
      <3>1. Offer(d, i) # Config(c) BY KeysApart
      <3> QED BY <3>1, KeysIn
    <2>2. t.put \in [Keys -> Values] BY <1>1 DEF Txn
    <2> QED BY <2>1, <2>2
  <1> HIDE DEF put
  <1>4. t.todo \ {c} \in SUBSET Configs BY <1>1 DEF Txn
  <1>5. /\ u \in Txn /\ u.pc = "configs" /\ u.put = put /\ u.todo = t.todo \ {c}
        /\ u.said = t.said /\ u.listed = t.listed
    BY <1>1, <1>2, <1>4 DEF Txn
  <1> HIDE DEF u
  <1>6. \A d \in u.todo : u.said[d] = "none" BY <1>1, <1>5 DEF Told
  <1>7. \A d \in Configs, i \in Items :
           SoleConfig(d) /\ u.put[Offer(d, i)] # Absent => u.said[d] # "none"
    BY <1>1, <1>3, <1>5 DEF Told
  <1>8. \A d \in Configs : SoleConfig(d) /\ u.said[d] = "succeeded" =>
           \A i \in ItemsOf(d) : Offer(d, i) \in u.listed
    BY <1>1, <1>5 DEF Told
  <1>9. Told(u) BY <1>5, <1>6, <1>7, <1>8 DEF Told, UnderWay, InRecord, Resolving
  <1> QED BY <1>1, <1>5, <1>9, ToldBecome DEF ToldInv

LEMMA ToldQueue ==
  ASSUME ToldInv, NEW w \in Workers, Queue(w)
  PROVE  \A x \in Workers : Told(tx'[x])
  <1> DEFINE u == [tx[w] EXCEPT !.queued = TRUE]
  <1>1. tx' = [tx EXCEPT ![w] = u] /\ tx \in [Workers -> Txn] /\ tx[w] \in Txn
    BY DEF ToldInv, SyncInv, Queue
  <1>2. /\ u.pc = tx[w].pc /\ u.at = tx[w].at /\ u.todo = tx[w].todo /\ u.said = tx[w].said
        /\ u.bad = tx[w].bad /\ u.listed = tx[w].listed /\ u.put = tx[w].put
    BY <1>1 DEF Txn
  <1> HIDE DEF u
  <1>3. Told(u) BY <1>2, ToldSame DEF ToldInv
  <1> QED BY <1>1, <1>3 DEF ToldInv

(* A transaction that commits tells of its runs, and of no other config's   *)
(* offers.                                                                  *)
LEMMA ToldEndTick ==
  ASSUME ToldInv, NEW w \in Workers, EndTick(w)
  PROVE  (\A x \in Workers : Told(tx'[x])) /\ SucceededMeansListed'
  <1> DEFINE t == tx[w]
  <1>1. /\ t \in Txn /\ SizesThere(t, table, sizes) /\ t.pc = "configs" /\ t.todo = {}
        /\ Told(t) /\ CommittedOK
    BY DEF ToldInv, SyncInv, Sound, EndTick
  <1>2. /\ table' = [k \in Keys |-> RowOf(t, table, k)]
        /\ sizes' = [k \in Offers |-> sizes[k] - t.dropped[k] + IF k \in t.listed THEN 1 ELSE 0]
        /\ report' = [c \in Configs |-> IF c \in Done(t) THEN t.said[c] ELSE report[c]]
        /\ tx' = [x \in Workers |-> IF x = w THEN Idle ELSE Outlive(tx[x], t.dropped)]
    BY DEF EndTick, Row, RowOf
  <1> HIDE DEF t
  <1>3. ASSUME NEW x \in Workers PROVE Told(tx'[x])
    <2>1. CASE x = w BY <1>2, <2>1, ToldIdle
    <2>2. CASE x # w
      <3> DEFINE u == Outlive(tx[x], t.dropped)
      <3>1. tx[x] \in Txn /\ Told(tx[x]) BY DEF ToldInv, SyncInv
      <3>2. /\ u.pc = tx[x].pc /\ u.at = tx[x].at /\ u.todo = tx[x].todo /\ u.said = tx[x].said
            /\ u.bad = tx[x].bad /\ u.listed = tx[x].listed /\ u.put = tx[x].put
        BY <3>1 DEF Outlive, Txn
      <3> HIDE DEF u
      <3>3. Told(u) BY <3>1, <3>2, ToldSame
      <3> QED BY <1>2, <2>2, <3>3 DEF u
    <2> QED BY <2>1, <2>2
  <1>4. ASSUME NEW c \in Configs, SoleConfig(c), report'[c] = "succeeded", NEW i \in ItemsOf(c)
        PROVE  table'[Offer(c, i)] # Absent /\ sizes'[Offer(c, i)] > 0
    <2> DEFINE k == Offer(c, i)
    <2>1. i \in Items
      <3>1. Feed[c] \in Seq(Items) BY SourceSyncAssumption
      <3> QED BY <3>1 DEF ItemsOf
    <2>2. k \in Keys /\ k \in Offers BY <2>1, KeysIn
    <2>3. /\ t.dropped[k] \in Nat /\ sizes[k] \in Nat /\ t.dropped[k] =< sizes[k]
          /\ t.dropped[k] > 0 \/ k \in t.listed => t.put[k] # Absent
      BY <1>1, <2>2 DEF SizesThere, Txn, CommittedOK
    <2>4. /\ table'[k] = RowOf(t, table, k)
          /\ sizes'[k] = sizes[k] - t.dropped[k] + IF k \in t.listed THEN 1 ELSE 0
      BY <1>2, <2>2
    <2>5. CASE t.said[c] = "succeeded"
      <3>1. k \in t.listed BY <1>1, <1>4, <2>5 DEF Told
      <3> HIDE DEF k
      <3>2. table'[k] # Absent BY <2>3, <2>4, <3>1 DEF RowOf
      <3>3. sizes'[k] > 0 BY <2>3, <2>4, <3>1
      <3> QED BY <3>2, <3>3 DEF k
    <2>6. CASE t.said[c] = "none"
      <3>1. t.put[k] = Absent BY <1>1, <1>4, <2>1, <2>6 DEF Told
      <3>2. report[c] = "succeeded" BY <1>2, <1>4, <2>6 DEF Done
      <3>3. table[k] # Absent /\ sizes[k] > 0
        BY <1>4, <3>2 DEF ToldInv, SucceededMeansListed
      <3> HIDE DEF k
      <3>4. t.dropped[k] = 0 /\ k \notin t.listed BY <2>3, <3>1
      <3>5. table'[k] # Absent BY <2>4, <3>1, <3>3 DEF RowOf
      <3>6. sizes'[k] > 0 BY <2>3, <2>4, <3>3, <3>4
      <3> QED BY <3>5, <3>6 DEF k
    <2> QED BY <1>2, <1>4, <2>5, <2>6 DEF Done
  <1> QED BY <1>3, <1>4 DEF SucceededMeansListed, SoleConfig

-----------------------------------------------------------------------------
LEMMA ToldInvStep == ToldInv /\ [Next]_vars => ToldInv'
  <1> SUFFICES ASSUME ToldInv, [Next]_vars PROVE ToldInv'
    OBVIOUS
  <1>1. SyncInv' BY SyncInvStep DEF ToldInv
  <1>2. ASSUME UNCHANGED <<table, sizes, report>> PROVE SucceededMeansListed'
    BY <1>2 DEF ToldInv, SucceededMeansListed, SoleConfig
  <1>3. ASSUME \A x \in Workers : Told(tx'[x]), SucceededMeansListed' PROVE ToldInv'
    BY <1>1, <1>3 DEF ToldInv, Told, SoleConfig, ConfigOf, Records
  <1>4. CASE UNCHANGED <<table, sizes, report, tx>>
    BY <1>2, <1>3, <1>4 DEF ToldInv
  <1>5. ASSUME NEW w \in Workers, \E u : Become(w, u), \A x \in Workers : Told(tx'[x])
        PROVE  ToldInv'
    <2>1. UNCHANGED <<table, sizes, report>> BY <1>5 DEF Become
    <2> QED BY <1>2, <1>3, <1>5, <2>1
  <1>6. CASE UNCHANGED vars BY <1>4, <1>6 DEF vars
  <1>7. ASSUME NEW w \in Workers, StartTick(w) PROVE ToldInv'
    <2>1. due \cap active \subseteq Configs BY DEF ToldInv, SyncInv, CommittedOK
    <2>2. \A x \in Workers : Told(tx'[x]) BY <1>7, <2>1, ToldBegin DEF StartTick
    <2> QED BY <1>5, <1>7, <2>2 DEF StartTick, Begin
  <1>8. ASSUME NEW w \in Workers, NEW c \in Configs, StartManual(w, c) PROVE ToldInv'
    <2>1. \A x \in Workers : Told(tx'[x]) BY <1>8, ToldBegin DEF StartManual
    <2> QED BY <1>5, <1>8, <2>1 DEF StartManual, Begin
  <1>9. ASSUME NEW w \in Workers, Step(w) PROVE ToldInv'
    <2>1. CASE \E c \in Configs : StartConfig(w, c)
      <3>1. \A x \in Workers : Told(tx'[x]) BY <2>1, ToldStartConfig
      <3>2. \E u : Become(w, u) BY <2>1 DEF StartConfig, Rollback
      <3> QED BY <1>5, <3>1, <3>2
    <2>2. CASE Record(w)
      <3>1. \E u : Become(w, u) BY <2>2 DEF Record
      <3> QED BY <1>5, <2>2, <3>1, ToldRecord
    <2>3. CASE EndRecords(w)
      <3>1. \E u : Become(w, u) BY <2>3 DEF EndRecords
      <3> QED BY <1>5, <2>3, <3>1, ToldEndRecords
    <2>4. CASE ResolveName(w) \/ AddName(w)
      <3>1. \E u : Become(w, u) BY <2>4 DEF ResolveName, AddName, Rollback
      <3> QED BY <1>5, <2>4, <3>1, ToldNames
    <2>5. CASE ResolveProduct(w)
      <3>1. \E u : Become(w, u) BY <2>5 DEF ResolveProduct
      <3> QED BY <1>5, <2>5, <3>1, ToldProduct
    <2>6. CASE AddMapping(w)
      <3>1. \E u : Become(w, u) BY <2>6 DEF AddMapping, Rollback
      <3> QED BY <1>5, <2>6, <3>1, ToldMapping
    <2>7. CASE FindOffer(w)
      <3>1. \E u : Become(w, u) BY <2>7 DEF FindOffer
      <3> QED BY <1>5, <2>7, <3>1, ToldFind
    <2>8. CASE InsertOffer(w)
      <3>1. \E u : Become(w, u) BY <2>8 DEF InsertOffer, Rollback
      <3> QED BY <1>5, <2>8, <3>1, ToldInsert
    <2>9. CASE UpdateOffer(w)
      <3>1. \E u : Become(w, u) BY <2>9 DEF UpdateOffer, Rollback
      <3> QED BY <1>5, <2>9, <3>1, ToldUpdate
    <2>10. CASE MarkSynced(w)
      <3>1. \E u : Become(w, u) BY <2>10 DEF MarkSynced
      <3> QED BY <1>5, <2>10, <3>1, ToldMark
    <2>11. CASE EndTick(w) BY <1>3, <2>11, ToldEndTick
    <2>12. CASE Queue(w)
      <3>1. UNCHANGED <<table, sizes, report>> BY <2>12 DEF Queue
      <3> QED BY <1>2, <1>3, <2>12, <3>1, ToldQueue
    <2>13. CASE DeadlockVictim(w)
      <3>1. \E u : Become(w, u) BY <2>13 DEF DeadlockVictim, Rollback
      <3> QED BY <1>5, <2>13, <3>1, ToldRollback DEF DeadlockVictim, ToldInv
    <2> QED BY <1>9, <2>1, <2>2, <2>3, <2>4, <2>5, <2>6, <2>7, <2>8, <2>9, <2>10, <2>11, <2>12,
               <2>13 DEF Step
  <1>10. ASSUME NEW w \in Workers, Crash(w) PROVE ToldInv'
    <2>1. \E u : Become(w, u) BY <1>10 DEF Crash, Rollback
    <2> QED BY <1>5, <1>10, <2>1, ToldRollback DEF Crash, ToldInv
  <1>11. ASSUME NEW c \in Configs, TimePasses(c) \/ UpdateSourceConfig(c) PROVE ToldInv'
    BY <1>4, <1>11 DEF TimePasses, UpdateSourceConfig
  <1> QED BY <1>6, <1>7, <1>8, <1>9, <1>10, <1>11 DEF Next

LEMMA ToldInvInit == Init => ToldInv
  <1> SUFFICES ASSUME Init PROVE ToldInv
    OBVIOUS
  <1>1. \A w \in Workers : Told(tx[w]) BY ToldIdle DEF Init
  <1>2. SucceededMeansListed BY DEF Init, SucceededMeansListed
  <1> QED BY <1>1, <1>2, SyncInvInit DEF ToldInv

-----------------------------------------------------------------------------
(* What is stored twice *)

Distinct(A) == \A i, j \in DOMAIN A : A[i] = A[j] => i = j

(* A tells which worker stored each size list of an offer, oldest first.    *)
(* A worker that is to store one has read, and deletes, its own.            *)
OwnSizes(t, w, k, A) ==
  \A j \in DOMAIN A : A[j] = w =>
    /\ t.pc = "update" /\ OfferOf(t) = k => j =< t.dropped[k] + t.seen
    /\ t.put[k] # Absent => j =< t.dropped[k]

SizesApart(k) ==
  \E A \in [1..sizes[k] -> Workers] :
    Distinct(A) /\ \A w \in Workers : OwnSizes(tx[w], w, k, A)

(* And A which worker made each product of an identity: one that has made   *)
(* a second, not committed yet, has made none of those.                     *)
ProductsOf(d) == {p \in products : p[1] = d}

OwnProducts(t, w, d, A) ==
  /\ \A p, q \in t.made : p[1] = d /\ q[1] = d => p = q
  /\ (\E p \in t.made : p[1] = d) => \A q \in DOMAIN A : A[q] # w

ProductsApart(d) ==
  \E A \in [ProductsOf(d) -> Workers] :
    Distinct(A) /\ \A w \in Workers : OwnProducts(tx[w], w, d, A)

Apiece ==
  /\ \A k \in Offers : SizesApart(k) /\ (table[k] = Absent => sizes[k] = 0)
  /\ \A d \in Idents : ProductsApart(d)

TidyInv == SyncInv /\ Apiece

(* A step that commits nothing keeps the workers told.                      *)
LEMMA ApieceCarried ==
  ASSUME Apiece, UNCHANGED <<table, products, sizes>>,
         \A x \in Workers, k \in Offers : \A A \in [1..sizes[k] -> Workers] :
            OwnSizes(tx[x], x, k, A) => OwnSizes(tx'[x], x, k, A),
         \A x \in Workers, d \in Idents : \A A \in [ProductsOf(d) -> Workers] :
            OwnProducts(tx[x], x, d, A) => OwnProducts(tx'[x], x, d, A)
  PROVE  Apiece'
  <1>1. ASSUME NEW k \in Offers PROVE SizesApart(k)'
    <2>1. PICK A \in [1..sizes[k] -> Workers] :
             Distinct(A) /\ \A w \in Workers : OwnSizes(tx[w], w, k, A)
      BY DEF Apiece, SizesApart
    <2>2. \A w \in Workers : OwnSizes(tx'[w], w, k, A) BY <2>1
    <2>3. A \in [1..sizes'[k] -> Workers] BY <2>1
    <2> QED BY <2>1, <2>2, <2>3 DEF SizesApart
  <1>2. ASSUME NEW d \in Idents PROVE ProductsApart(d)'
    <2>1. PICK A \in [ProductsOf(d) -> Workers] :
             Distinct(A) /\ \A w \in Workers : OwnProducts(tx[w], w, d, A)
      BY DEF Apiece, ProductsApart
    <2>2. \A w \in Workers : OwnProducts(tx'[w], w, d, A) BY <2>1
    <2>3. A \in [ProductsOf(d)' -> Workers] BY <2>1 DEF ProductsOf
    <2> QED BY <2>1, <2>2, <2>3 DEF ProductsApart
  <1>3. \A k \in Offers : (table[k] = Absent => sizes[k] = 0)' BY DEF Apiece
  <1> QED BY <1>1, <1>2, <1>3 DEF Apiece

(* A step that reads no offer, and locks none and makes no product that it  *)
(* had not before.                                                          *)
Quiet(t, u) ==
  /\ u.pc # "update"
  /\ \A k \in Offers : u.put[k] # Absent => t.put[k] # Absent /\ u.dropped[k] = t.dropped[k]
  /\ u.made \subseteq t.made

LEMMA QuietKeeps ==
  ASSUME Apiece, UNCHANGED <<table, products, sizes>>, NEW w \in Workers,
         Quiet(tx[w], tx'[w]), \A x \in Workers \ {w} : tx'[x] = tx[x]
  PROVE  Apiece'
  <1>1. ASSUME NEW x \in Workers, NEW k \in Offers, NEW A, OwnSizes(tx[x], x, k, A)
        PROVE  OwnSizes(tx'[x], x, k, A)
    <2>1. CASE x = w BY <1>1, <2>1 DEF OwnSizes, Quiet
    <2> QED BY <1>1, <2>1
  <1>2. ASSUME NEW x \in Workers, NEW d \in Idents, NEW A, OwnProducts(tx[x], x, d, A)
        PROVE  OwnProducts(tx'[x], x, d, A)
    <2>1. CASE x = w BY <1>2, <2>1 DEF OwnProducts, Quiet
    <2> QED BY <1>2, <2>1
  <1> QED BY <1>1, <1>2, ApieceCarried

LEMMA QuietBecome ==
  ASSUME SyncInv, Apiece, NEW w \in Workers, NEW u, Become(w, u), DOMAIN u = DOMAIN tx[w],
         Quiet(tx[w], u)
  PROVE  Apiece'
  <1> DEFINE v == [u EXCEPT !.queued = FALSE]
  <1>1. tx' = [tx EXCEPT ![w] = v] /\ UNCHANGED <<table, products, sizes>> BY DEF Become
  <1>2. tx \in [Workers -> Txn] /\ tx[w] \in Txn BY DEF SyncInv
  <1>3. DOMAIN u = DOMAIN tx[w] OBVIOUS
  <1>4. v.pc = u.pc /\ v.put = u.put /\ v.made = u.made /\ v.dropped = u.dropped
    BY <1>2, <1>3 DEF Txn
  <1> HIDE DEF v
  <1>5. Quiet(tx[w], v) BY <1>4 DEF Quiet
  <1>6. tx'[w] = v /\ \A x \in Workers \ {w} : tx'[x] = tx[x] BY <1>1, <1>2
  <1> QED BY <1>1, <1>5, <1>6, QuietKeeps

LEMMA QuietRollback ==
  ASSUME SyncInv, Apiece, NEW w \in Workers, Rollback(w)
  PROVE  Apiece'
  <1>1. Idle \in Txn /\ tx[w] \in Txn BY IdleSound DEF SyncInv
  <1>2. DOMAIN Idle = DOMAIN tx[w] BY <1>1 DEF Txn
  <1>3. Idle.pc = "idle" /\ Idle.made = {} /\ \A k \in Offers : Idle.put[k] = Absent
    BY DEF Idle, Keys
  <1>4. Quiet(tx[w], Idle) BY <1>3 DEF Quiet
  <1> QED BY <1>2, <1>4, QuietBecome DEF Rollback

(* Steps that only go on: what they change is neither an offer nor a        *)
(* product.                                                                 *)
LEMMA QuietBegin ==
  ASSUME TidyInv, NEW w \in Workers, NEW chosen \in SUBSET Configs, Begin(w, chosen)
  PROVE  Apiece'
  <1> DEFINE u == [Idle EXCEPT !.pc = "configs", !.todo = chosen]
  <1>1. Idle \in Txn /\ tx[w] \in Txn BY IdleSound DEF TidyInv, SyncInv
  <1>2. /\ u.pc = "configs" /\ u.put = Idle.put /\ u.made = Idle.made
        /\ DOMAIN u = DOMAIN tx[w]
    BY <1>1 DEF Txn
  <1>3. Become(w, u) BY DEF Begin
  <1> HIDE DEF u
  <1>4. Idle.made = {} /\ \A k \in Offers : Idle.put[k] = Absent BY DEF Idle, Keys
  <1>5. Quiet(tx[w], u) BY <1>2, <1>4 DEF Quiet
  <1> QED BY <1>2, <1>3, <1>5, QuietBecome DEF TidyInv

(* A transaction that changes in none of the fields that count.             *)
LEMMA QuietSame ==
  ASSUME TidyInv, NEW w \in Workers, NEW u, Become(w, u), DOMAIN u = DOMAIN tx[w],
         u.pc # "update", u.made = tx[w].made, u.dropped = tx[w].dropped,
         \A k \in Offers : u.put[k] = tx[w].put[k]
  PROVE  Apiece'
  <1>1. Quiet(tx[w], u) BY DEF Quiet
  <1> QED BY <1>1, QuietBecome DEF TidyInv

LEMMA QuietConfig ==
  ASSUME TidyInv, NEW w \in Workers,
         (\E c \in Configs : StartConfig(w, c)) \/ EndRecords(w)
  PROVE  Apiece'
  <1> DEFINE t == tx[w]
             Same(u) == /\ u.pc # "update" /\ u.made = t.made /\ u.dropped = t.dropped
                        /\ u.put = t.put /\ DOMAIN u = DOMAIN t
  <1>1. t \in Txn BY DEF TidyInv, SyncInv
  <1>2. \A c \in Configs :
          /\ Same([t EXCEPT !.pc = "record", !.at = <<c, 1>>, !.good = {}, !.bad = {}])
          /\ Same([t EXCEPT !.pc = "mark", !.at = <<c, 1>>, !.said[c] = "failed"])
    BY <1>1 DEF Txn
  <1>3. Same([t EXCEPT !.pc = "mark", !.said[ConfigOf(t)] = RunStatus(t)]) BY <1>1 DEF Txn
  <1> HIDE DEF Same
  <1>4. Rollback(w) \/ \E u : Become(w, u) /\ Same(u)
    <2>1. ASSUME NEW c \in Configs, StartConfig(w, c)
          PROVE  Rollback(w) \/ \E u : Become(w, u) /\ Same(u)
      <3> DEFINE u == [t EXCEPT !.pc = "record", !.at = <<c, 1>>, !.good = {}, !.bad = {}]
                 v == [t EXCEPT !.pc = "mark", !.at = <<c, 1>>, !.said[c] = "failed"]
      <3>1. Same(u) /\ Same(v) BY <1>2
      <3>2. Rollback(w) \/ Become(w, u) \/ Become(w, v) BY <2>1 DEF StartConfig
      <3> HIDE DEF u, v
      <3> QED BY <3>1, <3>2
    <2>2. CASE EndRecords(w) BY <1>3, <2>2 DEF EndRecords
    <2> QED BY <2>1, <2>2
  <1> QED BY <1>4, QuietSame, QuietRollback DEF TidyInv, Same

LEMMA QuietFailed ==
  ASSUME TidyInv, NEW w \in Workers, tx[w].pc \notin {"idle", "configs"},
         Become(w, Failed(tx[w]))
  PROVE  Apiece'
  <1> DEFINE t == tx[w]
  <1>1. t \in Txn /\ AtRecord(t) BY DEF TidyInv, SyncInv, Sound
  <1>2. /\ Failed(t).pc = "record" /\ Failed(t).made = t.made
        /\ Failed(t).dropped = t.dropped /\ Failed(t).put = t.put /\ Failed(t) \in Txn
    BY <1>1, RecordEnds DEF AtRecord
  <1>3. DOMAIN Failed(t) = DOMAIN t BY <1>1, <1>2 DEF Txn
  <1> QED BY <1>2, <1>3, QuietSame

LEMMA QuietRecord ==
  ASSUME TidyInv, NEW w \in Workers, Record(w)
  PROVE  Apiece'
  <1> DEFINE t == tx[w]
             Same(u) == /\ u.pc # "update" /\ u.made = t.made /\ u.dropped = t.dropped
                        /\ u.put = t.put /\ DOMAIN u = DOMAIN t
  <1>1. t \in Txn /\ t.pc = "record" BY DEF TidyInv, SyncInv, Record
  <1>2. \A p : Same([t EXCEPT !.pc = "offer", !.prod = p]) BY <1>1 DEF Txn
  <1>3. Same([t EXCEPT !.pc = "name", !.names = 0]) BY <1>1 DEF Txn
  <1>4. Become(w, Failed(t)) \/ \E u : Become(w, u) /\ Same(u) BY <1>2, <1>3 DEF Record
  <1> QED BY <1>1, <1>4, QuietSame, QuietFailed

LEMMA QuietRows ==
  ASSUME TidyInv, NEW w \in Workers,
         ResolveName(w) \/ AddName(w) \/ AddMapping(w) \/ MarkSynced(w)
  PROVE  Apiece'
  <1> DEFINE t == tx[w]
             Same(u) == /\ u.pc # "update" /\ u.made = t.made /\ u.dropped = t.dropped
                        /\ DOMAIN u = DOMAIN t
                        /\ \A k \in Offers : u.put[k] = t.put[k]
  <1>1. t \in Txn /\ t.put \in [Keys -> Values] BY DEF TidyInv, SyncInv, Txn
  <1>2. ASSUME NEW k, NEW v, k \notin Offers
        PROVE  \A j \in Offers : [t.put EXCEPT ![k] = v][j] = t.put[j]
    <2>1. \A j \in Offers : j \in Keys /\ j # k BY <1>2 DEF Keys
    <2> QED BY <1>1, <2>1
  <1>3. \A n, c, i : Name(n) \notin Offers /\ Mapping(c, i) \notin Offers /\ Config(c) \notin Offers
    BY KeysApart DEF Offers
  <1>4. /\ Same([t EXCEPT !.pc = "product"]) /\ Same([t EXCEPT !.pc = "addname"])
        /\ t.pc # "update" => Same([t EXCEPT !.names = @ + 1])
    BY <1>1 DEF Txn
  <1>5. ASSUME NEW put, \A k \in Offers : put[k] = t.put[k]
        PROVE  /\ Same([t EXCEPT !.pc = "name", !.names = @ + 1, !.put = put])
               /\ Same([t EXCEPT !.pc = "offer", !.put = put])
               /\ Same([t EXCEPT !.pc = "configs", !.at = <<>>, !.todo = @ \ {ConfigOf(t)},
                                 !.good = {}, !.bad = {}, !.put = put])
    BY <1>1, <1>5 DEF Txn
  <1>6. Same([t EXCEPT !.pc = "name", !.names = @ + 1, !.put[NextName(t)] = Exists])
    BY <1>2, <1>3, <1>5 DEF NextName
  <1>7. Same([t EXCEPT !.pc = "offer", !.put[MappingOf(t)] = t.prod])
    BY <1>2, <1>3, <1>5 DEF MappingOf
  <1>8. Same([t EXCEPT !.pc = "configs", !.at = <<>>, !.todo = @ \ {ConfigOf(t)},
                       !.good = {}, !.bad = {}, !.put[Config(ConfigOf(t))] = Exists])
    BY <1>2, <1>3, <1>5
  <1> HIDE DEF Same
  <1>9. Rollback(w) \/ \E u : Become(w, u) /\ Same(u)
    <2>1. CASE ResolveName(w) BY <1>4, <2>1 DEF ResolveName
    <2>2. CASE AddName(w) BY <1>6, <2>2 DEF AddName
    <2>3. CASE AddMapping(w) BY <1>7, <2>3 DEF AddMapping
    <2>4. CASE MarkSynced(w) BY <1>8, <2>4 DEF MarkSynced
    <2> QED BY <2>1, <2>2, <2>3, <2>4
  <1> QED BY <1>9, QuietSame, QuietRollback DEF TidyInv, Same

(* The queue changes nothing that counts, not even where the worker is.     *)
LEMMA ApieceQueue ==
  ASSUME TidyInv, NEW w \in Workers, Queue(w)
  PROVE  Apiece'
  <1> DEFINE u == [tx[w] EXCEPT !.queued = TRUE]
  <1>1. /\ tx' = [tx EXCEPT ![w] = u] /\ tx \in [Workers -> Txn] /\ tx[w] \in Txn
        /\ UNCHANGED <<table, products, sizes>>
    BY DEF TidyInv, SyncInv, Queue
  <1>2. /\ u.pc = tx[w].pc /\ u.at = tx[w].at /\ u.seen = tx[w].seen /\ u.put = tx[w].put
        /\ u.made = tx[w].made /\ u.dropped = tx[w].dropped
    BY <1>1 DEF Txn
  <1> HIDE DEF u
  <1>3. OfferOf(u) = OfferOf(tx[w]) BY <1>2 DEF OfferOf, ConfigOf, Item, Records
  <1>4. tx'[w] = u /\ \A x \in Workers \ {w} : tx'[x] = tx[x] BY <1>1
  <1>5. ASSUME NEW x \in Workers, NEW k, NEW A, OwnSizes(tx[x], x, k, A)
        PROVE  OwnSizes(tx'[x], x, k, A)
    <2>1. CASE x = w BY <1>2, <1>3, <1>4, <1>5, <2>1 DEF OwnSizes
    <2> QED BY <1>4, <1>5, <2>1
  <1>6. ASSUME NEW x \in Workers, NEW d, NEW A, OwnProducts(tx[x], x, d, A)
        PROVE  OwnProducts(tx'[x], x, d, A)
    <2>1. CASE x = w BY <1>2, <1>4, <1>6, <2>1 DEF OwnProducts
    <2> QED BY <1>4, <1>6, <2>1
  <1> QED BY <1>1, <1>5, <1>6, ApieceCarried DEF TidyInv

(* A product is only made where there is none of its identity, committed or *)
(* of the same transaction.                                                 *)
LEMMA ApieceProduct ==
  ASSUME TidyInv, NEW w \in Workers, ResolveProduct(w)
  PROVE  Apiece'
  <1> DEFINE t == tx[w]
             i == Item(t)
             u(p, M) == [t EXCEPT !.pc = "addmapping", !.prod = p, !.made = M]
  <1>1. t \in Txn /\ tx \in [Workers -> Txn] BY DEF TidyInv, SyncInv
  <1>2. PICK p, M : /\ Become(w, u(p, M))
                    /\ \/ M = t.made
                       \/ M = t.made \cup {p} /\ p[1] = IdentOf[i] /\ Matching(w, i) = {}
    <2>1. \A p : /\ [t EXCEPT !.pc = "addmapping", !.prod = p] = u(p, t.made)
                 /\ [t EXCEPT !.pc = "addmapping", !.prod = p, !.made = @ \cup {p}]
                      = u(p, t.made \cup {p})
      BY <1>1 DEF Txn
    <2>2. \A p \in NewProduct(i) : p[1] = IdentOf[i] BY DEF NewProduct
    <2>3. ASSUME NEW p, Become(w, [t EXCEPT !.pc = "addmapping", !.prod = p])
          PROVE  Become(w, u(p, t.made))
      BY <2>1, <2>3
    <2>4. ASSUME NEW p, Become(w, [t EXCEPT !.pc = "addmapping", !.prod = p, !.made = @ \cup {p}])
          PROVE  Become(w, u(p, t.made \cup {p}))
      BY <2>1, <2>4
    <2> HIDE DEF u
    <2>5. \/ \E p \in Matching(w, i) : Become(w, [t EXCEPT !.pc = "addmapping", !.prod = p])
          \/ /\ Matching(w, i) = {}
             /\ \E p \in NewProduct(i) :
                  Become(w, [t EXCEPT !.pc = "addmapping", !.prod = p, !.made = @ \cup {p}])
      BY DEF ResolveProduct
    <2>6. CASE \E p \in Matching(w, i) : Become(w, [t EXCEPT !.pc = "addmapping", !.prod = p])
      <3>1. PICK p : Become(w, [t EXCEPT !.pc = "addmapping", !.prod = p]) BY <2>6
      <3> QED BY <2>3, <3>1
    <2>7. CASE /\ Matching(w, i) = {}
               /\ \E p \in NewProduct(i) :
                    Become(w, [t EXCEPT !.pc = "addmapping", !.prod = p, !.made = @ \cup {p}])
      <3>1. PICK p \in NewProduct(i) :
               Become(w, [t EXCEPT !.pc = "addmapping", !.prod = p, !.made = @ \cup {p}])
        BY <2>7
      <3>2. Become(w, u(p, t.made \cup {p})) BY <2>4, <3>1
      <3> QED BY <2>2, <2>7, <3>2
    <2> QED BY <2>5, <2>6, <2>7
  <1> DEFINE v == [u(p, M) EXCEPT !.queued = FALSE]
  <1>3. tx' = [tx EXCEPT ![w] = v] /\ UNCHANGED <<table, products, sizes>> BY <1>2 DEF Become
  <1>4. v.pc = "addmapping" /\ v.put = t.put /\ v.made = M /\ v.dropped = t.dropped
    BY <1>1 DEF Txn
  <1> HIDE DEF u, v
  <1>5. tx'[w] = v /\ \A x \in Workers \ {w} : tx'[x] = tx[x] BY <1>1, <1>3
  <1>6. ASSUME NEW x \in Workers, NEW k \in Offers, NEW A, OwnSizes(tx[x], x, k, A)
        PROVE  OwnSizes(tx'[x], x, k, A)
    <2>1. CASE x = w BY <1>4, <1>5, <1>6, <2>1 DEF OwnSizes
    <2> QED BY <1>5, <1>6, <2>1
  <1>7. ASSUME NEW x \in Workers, NEW d \in Idents, NEW A \in [ProductsOf(d) -> Workers],
               OwnProducts(tx[x], x, d, A)
        PROVE  OwnProducts(tx'[x], x, d, A)
    <2>1. CASE x # w \/ M = t.made BY <1>4, <1>5, <1>7, <2>1 DEF OwnProducts
    <2>2. CASE x = w /\ M = t.made \cup {p} /\ p[1] = IdentOf[i] /\ Matching(w, i) = {}
      <3>1. d = p[1] => ProductsOf(d) = {} /\ \A q \in t.made : q[1] # d
        BY <2>2 DEF Matching, ProductsOf
      <3>2. OwnProducts(t, w, d, A) BY <1>7, <2>2
      <3>3. CASE d = p[1]
        <4>1. DOMAIN A = {} BY <3>1, <3>3
        <4> QED BY <1>4, <1>5, <2>2, <3>1, <3>3, <4>1 DEF OwnProducts
      <3>4. CASE d # p[1] BY <1>4, <1>5, <2>2, <3>2, <3>4 DEF OwnProducts
      <3> QED BY <3>3, <3>4
    <2> QED BY <1>2, <2>1, <2>2
  <1> QED BY <1>3, <1>6, <1>7, ApieceCarried DEF TidyInv

(* Whoever finds an offer sees every size list of it, its own included.     *)
LEMMA ApieceFind ==
  ASSUME TidyInv, NEW w \in Workers, FindOffer(w)
  PROVE  Apiece'
  <1> DEFINE t == tx[w]
             k == OfferOf(t)
             n == sizes[k] - t.dropped[k]
             u == [t EXCEPT !.pc = "update", !.seen = n]
  <1>1. /\ t \in Txn /\ AtRecord(t) /\ t.pc = "offer" /\ sizes \in [Offers -> Nat]
        /\ SizesThere(t, table, sizes) /\ tx \in [Workers -> Txn]
    BY DEF TidyInv, SyncInv, CommittedOK, Sound, FindOffer
  <1>2. k \in Offers
    <2>1. Item(t) \in Items /\ ConfigOf(t) \in Configs BY <1>1, ItemAt DEF InRecord
    <2> QED BY <2>1, KeysIn DEF OfferOf
  <1>3. sizes[k] \in Nat /\ t.dropped[k] \in Nat /\ t.dropped[k] + n = sizes[k]
    BY <1>1, <1>2 DEF SizesThere, Txn
  <1>4. CASE Become(w, [t EXCEPT !.pc = "insert"])
    <2> DEFINE x == [t EXCEPT !.pc = "insert"]
    <2>1. /\ x.pc # "update" /\ x.made = t.made /\ x.dropped = t.dropped /\ x.put = t.put
          /\ DOMAIN x = DOMAIN t
      BY <1>1 DEF Txn
    <2> QED BY <1>4, <2>1, QuietSame
  <1>5. CASE Become(w, u)
    <2> DEFINE v == [u EXCEPT !.queued = FALSE]
    <2>1. tx' = [tx EXCEPT ![w] = v] /\ UNCHANGED <<table, products, sizes>>
      BY <1>5 DEF Become
    <2> HIDE DEF n
    <2>2. /\ v.at = t.at /\ v.put = t.put /\ v.made = t.made /\ v.dropped = t.dropped
          /\ v.seen = n
      BY <1>1 DEF Txn
    <2> HIDE DEF v, u
    <2>3. OfferOf(v) = k BY <2>2 DEF OfferOf, ConfigOf, Item, Records
    <2> HIDE DEF k
    <2>4. tx'[w] = v /\ \A x \in Workers \ {w} : tx'[x] = tx[x] BY <1>1, <2>1
    <2>5. ASSUME NEW x \in Workers, NEW j \in Offers, NEW A \in [1..sizes[j] -> Workers],
                 OwnSizes(tx[x], x, j, A)
          PROVE  OwnSizes(tx'[x], x, j, A)
      <3>1. CASE x = w
        <4>1. j = k => \A e \in DOMAIN A : e =< v.dropped[k] + v.seen BY <1>3, <2>2
        <4> QED BY <2>2, <2>3, <2>4, <2>5, <3>1, <4>1 DEF OwnSizes
      <3> QED BY <2>4, <2>5, <3>1
    <2>6. ASSUME NEW x \in Workers, NEW d, NEW A, OwnProducts(tx[x], x, d, A)
          PROVE  OwnProducts(tx'[x], x, d, A)
      <3>1. CASE x = w BY <2>2, <2>4, <2>6, <3>1 DEF OwnProducts
      <3> QED BY <2>4, <2>6, <3>1
    <2> QED BY <2>1, <2>5, <2>6, ApieceCarried DEF TidyInv
  <1> QED BY <1>4, <1>5 DEF FindOffer

(* What is written to an offer, when the size lists a worker has stored for *)
(* it before are among those it deletes.                                    *)
LEMMA ApieceWritten ==
  ASSUME TidyInv, NEW w \in Workers, NEW k \in Offers, NEW u, Become(w, u),
         DOMAIN u = DOMAIN tx[w], u.pc = "record", u.made = tx[w].made,
         \A j \in Offers \ {k} : u.put[j] = tx[w].put[j] /\ u.dropped[j] = tx[w].dropped[j],
         \A A \in [1..sizes[k] -> Workers] : OwnSizes(tx[w], w, k, A) =>
            \A e \in DOMAIN A : A[e] = w => e =< u.dropped[k]
  PROVE  Apiece'
  <1> DEFINE t == tx[w]
             v == [u EXCEPT !.queued = FALSE]
  <1>1. t \in Txn /\ tx \in [Workers -> Txn] BY DEF TidyInv, SyncInv
  <1>2. tx' = [tx EXCEPT ![w] = v] /\ UNCHANGED <<table, products, sizes>> BY DEF Become
  <1>3. DOMAIN u = DOMAIN tx[w] OBVIOUS
  <1>4. v.pc = u.pc /\ v.put = u.put /\ v.made = u.made /\ v.dropped = u.dropped
    BY <1>1, <1>3 DEF Txn
  <1> HIDE DEF v
  <1>5. tx'[w] = v /\ \A x \in Workers \ {w} : tx'[x] = tx[x] BY <1>1, <1>2
  <1>6. ASSUME NEW x \in Workers, NEW j \in Offers, NEW A \in [1..sizes[j] -> Workers],
               OwnSizes(tx[x], x, j, A)
        PROVE  OwnSizes(tx'[x], x, j, A)
    <2>1. CASE x = w /\ j = k BY <1>4, <1>5, <1>6, <2>1 DEF OwnSizes
    <2>2. CASE x = w /\ j # k BY <1>4, <1>5, <1>6, <2>2 DEF OwnSizes
    <2> QED BY <1>5, <1>6, <2>1, <2>2
  <1>7. ASSUME NEW x \in Workers, NEW d, NEW A, OwnProducts(tx[x], x, d, A)
        PROVE  OwnProducts(tx'[x], x, d, A)
    <2>1. CASE x = w BY <1>4, <1>5, <1>7, <2>1 DEF OwnProducts
    <2> QED BY <1>5, <1>7, <2>1
  <1> QED BY <1>2, <1>6, <1>7, ApieceCarried DEF TidyInv

LEMMA ApieceInsert ==
  ASSUME TidyInv, NEW w \in Workers, InsertOffer(w)
  PROVE  Apiece'
  <1> DEFINE t == tx[w]
             k == OfferOf(t)
             r == Succeeded(t)
             put == [t.put EXCEPT ![k] = t.prod]
             L == t.listed \cup {k}
             u == [r EXCEPT !.put = put, !.listed = L]
  <1>1. t \in Txn /\ AtRecord(t) /\ t.pc = "insert"
    BY DEF TidyInv, SyncInv, Sound, InsertOffer
  <1>2. k \in Offers /\ k \in Keys
    <2>1. Item(t) \in Items /\ ConfigOf(t) \in Configs BY <1>1, ItemAt DEF InRecord
    <2> QED BY <2>1, KeysIn DEF OfferOf
  <1>3. /\ r \in Txn /\ r.pc = "record" /\ r.put = t.put /\ r.made = t.made
        /\ r.dropped = t.dropped /\ r.listed = t.listed
    BY <1>1, RecordEnds DEF AtRecord
  <1>4. \/ Become(w, Failed(t)) \/ Rollback(w)
        \/ Become(w, u) /\ table[k] = Absent
    <2>1. [r EXCEPT !.put[k] = t.prod, !.listed = @ \cup {k}] = u BY <1>3
    <2> QED BY <2>1 DEF InsertOffer, Refused
  <1>5. CASE Become(w, u) /\ table[k] = Absent
    <2>1. \A j \in Offers \ {k} : put[j] = t.put[j]
      <3>1. Offers \subseteq Keys BY DEF Keys
      <3> QED BY <1>1, <3>1 DEF Txn
    <2>2. /\ u.pc = "record" /\ u.made = t.made /\ u.put = put /\ u.dropped = t.dropped
          /\ DOMAIN u = DOMAIN t
      <3> HIDE DEF put, L, r, k
      <3> QED BY <1>1, <1>3 DEF Txn
    <2> HIDE DEF put, L, r
    <2>3. sizes[k] = 0 BY <1>2, <1>5 DEF TidyInv, Apiece
    <2>4. \A A \in [1..sizes[k] -> Workers] : DOMAIN A = {} BY <2>3
    <2> HIDE DEF u
    <2> QED BY <1>2, <1>5, <2>1, <2>2, <2>4, ApieceWritten
  <1> QED BY <1>1, <1>4, <1>5, QuietFailed, QuietRollback DEF TidyInv

LEMMA ApieceUpdate ==
  ASSUME TidyInv, NEW w \in Workers, UpdateOffer(w)
  PROVE  Apiece'
  <1> DEFINE t == tx[w]
             k == OfferOf(t)
             q == Row(w, k)
             put == [t.put EXCEPT ![k] = q]
             d == t.dropped[k] + t.seen
             dropped == [t.dropped EXCEPT ![k] = d]
             cleared(s) == [s EXCEPT !.put[k] = q, !.dropped[k] = @ + t.seen]
             u(r, L) == [r EXCEPT !.put = put, !.dropped = dropped, !.listed = L]
  <1>1. t \in Txn /\ AtRecord(t) /\ t.pc = "update"
    BY DEF TidyInv, SyncInv, Sound, UpdateOffer
  <1>2. k \in Offers /\ k \in Keys
    <2>1. Item(t) \in Items /\ ConfigOf(t) \in Configs BY <1>1, ItemAt DEF InRecord
    <2> QED BY <2>1, KeysIn DEF OfferOf
  <1>3. \A r \in {Failed(t), Succeeded(t)} :
          /\ r \in Txn /\ r.pc = "record" /\ r.put = t.put /\ r.made = t.made
          /\ r.dropped = t.dropped /\ r.listed = t.listed
    BY <1>1, RecordEnds DEF AtRecord
  <1>4. Rollback(w) \/ \E r \in {Failed(t), Succeeded(t)} : \E L : Become(w, u(r, L))
    <2>1. /\ [cleared(Failed(t)) EXCEPT !.listed = @ \ {k}] = u(Failed(t), t.listed \ {k})
          /\ [cleared(Succeeded(t)) EXCEPT !.listed = @ \cup {k}]
               = u(Succeeded(t), t.listed \cup {k})
      BY <1>3 DEF Txn
    <2>2. \/ Rollback(w) \/ Become(w, [cleared(Failed(t)) EXCEPT !.listed = @ \ {k}])
          \/ Become(w, [cleared(Succeeded(t)) EXCEPT !.listed = @ \cup {k}])
      BY DEF UpdateOffer
    <2> HIDE DEF u, cleared
    <2> QED BY <2>1, <2>2
  <1>5. ASSUME NEW r \in {Failed(t), Succeeded(t)}, NEW L, Become(w, u(r, L)) PROVE Apiece'
    <2>1. \A j \in Offers \ {k} : put[j] = t.put[j] /\ dropped[j] = t.dropped[j]
      BY <1>1 DEF Txn, Keys
    <2>2. dropped[k] = d BY <1>1, <1>2 DEF Txn
    <2>3. \A A : OwnSizes(t, w, k, A) => \A e \in DOMAIN A : A[e] = w => e =< d
      BY <1>1 DEF OwnSizes
    <2> DEFINE v == u(r, L)
    <2> HIDE DEF put, dropped, d
    <2>4. /\ v.pc = "record" /\ v.made = t.made /\ v.put = put /\ v.dropped = dropped
          /\ DOMAIN v = DOMAIN t
      BY <1>1, <1>3 DEF Txn
    <2>5. Become(w, v) BY <1>5
    <2> HIDE DEF v, k
    <2> QED BY <1>2, <2>1, <2>2, <2>3, <2>4, <2>5, ApieceWritten
  <1> QED BY <1>4, <1>5, QuietRollback DEF TidyInv

(* At its end a transaction has deleted its own size list of each offer it  *)
(* stores one for, and those that read the list while it went on read fewer.*)
LEMMA SizesCommitted ==
  ASSUME TidyInv, NEW w \in Workers, EndTick(w), NEW k \in Offers
  PROVE  SizesApart(k)' /\ (table'[k] = Absent => sizes'[k] = 0)
  <1> DEFINE t == tx[w]
             D == t.dropped[k]
             n == sizes[k]
             m == sizes'[k]
  <1>1. /\ t \in Txn /\ SizesThere(t, table, sizes) /\ CommittedOK /\ tx \in [Workers -> Txn]
    BY DEF TidyInv, SyncInv, Sound
  <1>2. /\ table'[k] = RowOf(t, table, k)
        /\ m = n - D + IF k \in t.listed THEN 1 ELSE 0
        /\ tx' = [x \in Workers |-> IF x = w THEN Idle ELSE Outlive(tx[x], t.dropped)]
    BY DEF EndTick, Row, RowOf, Keys
  <1>3. D \in Nat /\ n \in Nat /\ D =< n /\ (D > 0 \/ k \in t.listed => t.put[k] # Absent)
    BY <1>1 DEF CommittedOK, SizesThere, Txn
  <1>4. PICK A \in [1..n -> Workers] : Distinct(A) /\ \A x \in Workers : OwnSizes(tx[x], x, k, A)
    BY DEF TidyInv, Apiece, SizesApart
  <1> DEFINE B == [j \in 1..m |-> IF j =< n - D THEN A[j + D] ELSE w]
  <1>5. \A e \in 1..n : A[e] = w /\ t.put[k] # Absent => e =< D BY <1>4 DEF OwnSizes
  <1> HIDE DEF m, n, D
  <1>6. B \in [1..m -> Workers] BY <1>2, <1>3, <1>4
  <1>7. ASSUME NEW j \in 1..m
        PROVE  \/ j =< n - D /\ j + D \in 1..n /\ B[j] = A[j + D]
               \/ j = n - D + 1 /\ t.put[k] # Absent /\ B[j] = w
    BY <1>2, <1>3
  <1> HIDE DEF B
  <1>8. DOMAIN B = 1..m /\ DOMAIN A = 1..n BY <1>4, <1>6
  <1>9. Distinct(B)
    <2> SUFFICES ASSUME NEW i \in 1..m, NEW j \in 1..m, B[i] = B[j] PROVE i = j
      BY <1>8 DEF Distinct
    <2>1. CASE i =< n - D /\ j =< n - D
      <3>1. A[i + D] = A[j + D] /\ i + D \in 1..n /\ j + D \in 1..n BY <1>3, <1>7, <2>1
      <3>2. i + D = j + D BY <1>4, <1>8, <3>1 DEF Distinct
      <3> QED BY <1>3, <3>2
    <2>2. ASSUME NEW a \in {i, j}, NEW b \in {i, j}, a =< n - D, ~(b =< n - D) PROVE FALSE
      <3>1. A[a + D] = w /\ a + D \in 1..n /\ t.put[k] # Absent BY <1>3, <1>7, <2>2
      <3>2. a + D =< D BY <1>5, <3>1
      <3> QED BY <1>3, <3>2
    <2>3. CASE ~(i =< n - D) /\ ~(j =< n - D) BY <1>3, <1>7, <2>3
    <2> QED BY <2>1, <2>2, <2>3
  <1>10. ASSUME NEW x \in Workers PROVE OwnSizes(tx'[x], x, k, B)
    <2>1. CASE x = w
      <3>1. tx'[x] = Idle BY <1>2, <2>1
      <3>2. Idle.pc = "idle" /\ Idle.put[k] = Absent BY DEF Idle, Keys
      <3> QED BY <3>1, <3>2 DEF OwnSizes
    <2>2. CASE x # w
      <3> DEFINE o == tx[x]
                 v == tx'[x]
                 s == IF o.seen < D THEN 0 ELSE o.seen - D
      <3>1. o \in Txn /\ SizesThere(o, table, sizes) /\ Apart(t, o)
        BY <2>2 DEF TidyInv, SyncInv, Sound
      <3>2. v = Outlive(o, t.dropped) BY <1>2, <2>2
      <3>3. /\ v.pc = o.pc /\ v.at = o.at /\ v.put = o.put /\ v.dropped = o.dropped
            /\ o.pc = "update" /\ OfferOf(o) = k => v.seen = s
        BY <3>1, <3>2 DEF Outlive, Txn, D
      <3>4. OfferOf(v) = OfferOf(o) BY <3>3 DEF OfferOf, ConfigOf, Item, Records
      <3>5. o.dropped[k] \in Nat /\ o.seen \in Nat BY <3>1 DEF Txn
      <3>6. t.put[k] # Absent => o.put[k] = Absent /\ o.dropped[k] = 0
        <4>1. t.put[k] # Absent => o.put[k] = Absent BY <3>1 DEF Apart, Keys
        <4> QED BY <3>1, <3>5, <4>1 DEF SizesThere
      <3>7. t.put[k] = Absent => D = 0 BY <1>3
      <3> HIDE DEF v
      <3>8. ASSUME NEW j \in 1..m, B[j] = x
            PROVE  /\ v.pc = "update" /\ OfferOf(v) = k => j =< v.dropped[k] + v.seen
                   /\ v.put[k] # Absent => j =< v.dropped[k]
        <4>1. j + D \in 1..n /\ A[j + D] = x BY <1>7, <2>2, <3>8
        <4>2. /\ o.pc = "update" /\ OfferOf(o) = k => j + D =< o.dropped[k] + o.seen
              /\ o.put[k] # Absent => j + D =< o.dropped[k]
          BY <1>4, <1>8, <4>1 DEF OwnSizes
        <4> HIDE DEF o, t
        <4>3. CASE t.put[k] = Absent BY <1>3, <3>3, <3>4, <3>5, <3>7, <4>2, <4>3
        <4>4. CASE t.put[k] # Absent BY <1>3, <3>3, <3>4, <3>5, <3>6, <4>2, <4>4
        <4> QED BY <4>3, <4>4
      <3> QED BY <1>8, <3>8 DEF OwnSizes, v
    <2> QED BY <2>1, <2>2
  <1>11. table'[k] = Absent => sizes'[k] = 0
    <2>1. table[k] = Absent => n = 0 BY DEF TidyInv, Apiece, n
    <2> QED BY <1>2, <1>3, <2>1 DEF RowOf, m
  <1> QED BY <1>6, <1>9, <1>10, <1>11 DEF SizesApart, m

LEMMA ProductsCommitted ==
  ASSUME TidyInv, NEW w \in Workers, EndTick(w), NEW d \in Idents
  PROVE  ProductsApart(d)'
  <1> DEFINE t == tx[w]
             P == ProductsOf(d)
             Q == ProductsOf(d)'
  <1>1. /\ products' = products \cup t.made /\ tx \in [Workers -> Txn]
        /\ tx' = [x \in Workers |-> IF x = w THEN Idle ELSE Outlive(tx[x], t.dropped)]
    BY DEF TidyInv, SyncInv, EndTick
  <1>2. Q = P \cup {p \in t.made : p[1] = d} BY <1>1 DEF ProductsOf
  <1>3. PICK A \in [P -> Workers] : Distinct(A) /\ \A x \in Workers : OwnProducts(tx[x], x, d, A)
    BY DEF TidyInv, Apiece, ProductsApart
  <1> DEFINE B == [p \in Q |-> IF p \in P THEN A[p] ELSE w]
  <1>4. B \in [Q -> Workers] BY <1>3
  <1>5. \A p \in Q : IF p \in P THEN B[p] = A[p] ELSE B[p] = w /\ p \in t.made /\ p[1] = d
    BY <1>2
  <1>6. OwnProducts(t, w, d, A) /\ DOMAIN A = P BY <1>3
  <1> HIDE DEF B, P, Q
  <1>7. DOMAIN B = Q BY <1>4
  <1>8. Distinct(B)
    <2>1. ASSUME NEW p \in Q, NEW q \in Q, B[p] = B[q] PROVE p = q
      <3>1. CASE p \in P /\ q \in P BY <1>3, <1>5, <1>6, <2>1, <3>1 DEF Distinct
      <3>2. CASE p \notin P /\ q \notin P BY <1>5, <1>6, <2>1, <3>2 DEF OwnProducts
      <3>3. CASE p \in P /\ q \notin P BY <1>5, <1>6, <2>1, <3>3 DEF OwnProducts
      <3>4. CASE p \notin P /\ q \in P BY <1>5, <1>6, <2>1, <3>4 DEF OwnProducts
      <3> QED BY <3>1, <3>2, <3>3, <3>4
    <2> QED BY <1>7, <2>1 DEF Distinct
  <1>9. ASSUME NEW x \in Workers PROVE OwnProducts(tx'[x], x, d, B)
    <2>1. CASE x = w
      <3>1. tx'[x] = Idle /\ Idle.made = {} BY <1>1, <2>1 DEF Idle
      <3> QED BY <3>1 DEF OwnProducts
    <2>2. CASE x # w
      <3>1. tx[x] \in Txn /\ tx'[x] = Outlive(tx[x], t.dropped) BY <1>1, <2>2
      <3>2. tx'[x].made = tx[x].made BY <3>1 DEF Outlive, Txn
      <3>3. OwnProducts(tx[x], x, d, A) BY <1>3
      <3> QED BY <1>5, <1>6, <1>7, <2>2, <3>2, <3>3 DEF OwnProducts
    <2> QED BY <2>1, <2>2
  <1> QED BY <1>4, <1>8, <1>9 DEF ProductsApart, Q

LEMMA ApieceStep == TidyInv /\ [Next]_vars => Apiece'
  <1> SUFFICES ASSUME TidyInv, [Next]_vars PROVE Apiece'
    OBVIOUS
  <1>1. CASE UNCHANGED <<table, products, sizes, tx>>
    BY <1>1, ApieceCarried DEF TidyInv
  <1>2. CASE UNCHANGED vars BY <1>1, <1>2 DEF vars
  <1>3. ASSUME NEW w \in Workers, StartTick(w) \/ \E c \in Configs : StartManual(w, c)
        PROVE  Apiece'
    <2>1. due \cap active \subseteq Configs BY DEF TidyInv, SyncInv, CommittedOK
    <2> QED BY <1>3, <2>1, QuietBegin DEF StartTick, StartManual
  <1>4. ASSUME NEW w \in Workers, Step(w) PROVE Apiece'
    <2>1. CASE (\E c \in Configs : StartConfig(w, c)) \/ EndRecords(w) BY <2>1, QuietConfig
    <2>2. CASE Record(w) BY <2>2, QuietRecord
    <2>3. CASE ResolveName(w) \/ AddName(w) \/ AddMapping(w) \/ MarkSynced(w)
      BY <2>3, QuietRows
    <2>4. CASE ResolveProduct(w) BY <2>4, ApieceProduct
    <2>5. CASE FindOffer(w) BY <2>5, ApieceFind
    <2>6. CASE InsertOffer(w) BY <2>6, ApieceInsert
    <2>7. CASE UpdateOffer(w) BY <2>7, ApieceUpdate
    <2>8. CASE EndTick(w) BY <2>8, SizesCommitted, ProductsCommitted DEF Apiece
    <2>9. CASE Queue(w) BY <2>9, ApieceQueue
    <2>10. CASE DeadlockVictim(w) BY <2>10, QuietRollback DEF DeadlockVictim, TidyInv
    <2> QED BY <1>4, <2>1, <2>2, <2>3, <2>4, <2>5, <2>6, <2>7, <2>8, <2>9, <2>10 DEF Step
  <1>5. ASSUME NEW w \in Workers, Crash(w) PROVE Apiece'
    BY <1>5, QuietRollback DEF Crash, TidyInv
  <1>6. ASSUME NEW c \in Configs, TimePasses(c) \/ UpdateSourceConfig(c) PROVE Apiece'
    BY <1>1, <1>6 DEF TimePasses, UpdateSourceConfig
  <1> QED BY <1>2, <1>3, <1>4, <1>5, <1>6 DEF Next

LEMMA ApieceInit == Init => Apiece
  <1> SUFFICES ASSUME Init PROVE Apiece
    OBVIOUS
  <1>1. \A w \in Workers : tx[w].pc = "idle" /\ tx[w].made = {}
                           /\ \A k \in Offers : tx[w].put[k] = Absent
    BY DEF Init, Idle, Keys
  <1>2. ASSUME NEW k \in Offers PROVE SizesApart(k) /\ sizes[k] = 0
    <2>1. sizes[k] = 0 BY DEF Init
    <2> DEFINE A == [j \in 1..sizes[k] |-> CHOOSE w \in Workers : TRUE]
    <2>2. A \in [1..sizes[k] -> Workers] /\ DOMAIN A = {} BY <2>1
    <2> HIDE DEF A
    <2>3. Distinct(A) /\ \A w \in Workers : OwnSizes(tx[w], w, k, A) BY <2>2 DEF Distinct, OwnSizes
    <2> QED BY <2>1, <2>2, <2>3 DEF SizesApart
  <1>3. ASSUME NEW d \in Idents PROVE ProductsApart(d)
    <2>1. \A p, q \in ProductsOf(d) : p = q BY DEF Init, ProductsOf
    <2>2. PICK w \in Workers : TRUE BY SourceSyncAssumption
    <2> DEFINE A == [p \in ProductsOf(d) |-> w]
    <2>3. A \in [ProductsOf(d) -> Workers] /\ Distinct(A) BY <2>1 DEF Distinct
    <2>4. \A x \in Workers : OwnProducts(tx[x], x, d, A) BY <1>1 DEF OwnProducts
    <2> HIDE DEF A
    <2> QED BY <2>3, <2>4 DEF ProductsApart
  <1> QED BY <1>2, <1>3 DEF Apiece

LEMMA TidyInvariant == Spec => []TidyInv
  <1>1. Init => TidyInv BY SyncInvInit, ApieceInit DEF TidyInv
  <1>2. TidyInv /\ [Next]_vars => TidyInv' BY SyncInvStep, ApieceStep DEF TidyInv
  <1> QED BY <1>1, <1>2, PTL DEF Spec

LEMMA NoMoreThanWorkers ==
  ASSUME NEW S, NEW A \in [S -> Workers], Distinct(A)
  PROVE  IsFiniteSet(S) /\ Cardinality(S) =< Cardinality(Workers)
  <1>1. A \in Injection(S, Workers) BY DEF Injection, IsInjective, Distinct
  <1> QED BY <1>1, FS_Injection, SourceSyncAssumption

-----------------------------------------------------------------------------
(* Tables and transactions keep their shape: no transaction deletes a size  *)
(* list that another has deleted before it.                                 *)
THEOREM TypeCorrect == Spec => []TypeOK
  <1>1. SyncInv => TypeOK BY DEF SyncInv, CommittedOK, TypeOK
  <1> QED BY <1>1, SyncInvariant, PTL

(* However many syncs overlap, fail, deadlock or break off, the offer of an *)
(* item belongs to the product that the item is mapped to.                  *)
THEOREM OffersFollowMappings == Spec => []OfferFollowsMapping
  <1>1. SyncInv => OfferFollowsMapping
    BY DEF SyncInv, TableMapped, OfferFollowsMapping
  <1> QED BY <1>1, SyncInvariant, PTL

(* No sync leaves a product behind that no mapping names.                   *)
LEMMA NoProductStrays == Spec => []NoStrayProducts
  <1>1. SyncInv => NoStrayProducts
    <2> SUFFICES ASSUME SyncInv, NEW p \in products, p[2] > 0
                 PROVE  \E k \in DOMAIN table : k[1] = "mapping" /\ table[k] = p
      BY DEF NoStrayProducts
    <2>1. PICK c \in Configs, i \in Items : table[Mapping(c, i)] = p
      BY DEF SyncInv, ProductsMapped
    <2>2. Mapping(c, i) \in DOMAIN table BY KeysIn DEF SyncInv, CommittedOK
    <2> QED BY <2>1, <2>2 DEF Mapping
  <1> QED BY <1>1, SyncInvariant, PTL

(* No sync leaves a product behind that no mapping names, and there are     *)
(* never more products of an identity, or size lists of an offer, than      *)
(* there are workers: each was stored by another one, and one that stores a *)
(* second has found or deleted its first.                                   *)
THEOREM ProductsStayTidy == Spec => []ProductsTidy
  <1>1. TidyInv => DuplicatesNeedOverlap
    <2> SUFFICES ASSUME TidyInv PROVE DuplicatesNeedOverlap
      OBVIOUS
    <2>1. DOMAIN tx = Workers /\ DOMAIN sizes = Offers /\ sizes \in [Offers -> Nat]
      BY DEF TidyInv, SyncInv, CommittedOK
    <2>2. ASSUME NEW d \in Idents PROVE Cardinality(ProductsOf(d)) =< Cardinality(Workers)
      BY NoMoreThanWorkers DEF TidyInv, Apiece, ProductsApart
    <2>3. ASSUME NEW k \in Offers PROVE sizes[k] =< Cardinality(Workers)
      <3>1. Cardinality(1..sizes[k]) =< Cardinality(Workers)
        BY NoMoreThanWorkers DEF TidyInv, Apiece, SizesApart
      <3>2. sizes[k] \in Nat BY <2>1
      <3>3. Cardinality(1..sizes[k]) = sizes[k] BY <3>2, FS_Interval
      <3> QED BY <3>1, <3>3
    <2> QED BY <2>1, <2>2, <2>3 DEF DuplicatesNeedOverlap, ProductsOf
  <1> QED BY <1>1, NoProductStrays, TidyInvariant, PTL DEF ProductsTidy

(* A store's only config that was last synced with success has an offer     *)
(* with sizes for every item of its feed: the runs that other transactions  *)
(* recorded, failed or lost in between have not emptied one.                *)
THEOREM SucceededIsListed == Spec => []SucceededMeansListed
  <1>1. ToldInv => SucceededMeansListed BY DEF ToldInv
  <1> QED BY <1>1, ToldInvInit, ToldInvStep, PTL DEF Spec

=============================================================================
