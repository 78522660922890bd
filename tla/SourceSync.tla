----------------------------- MODULE SourceSync -----------------------------
(* Source synchronisation: the Celery tick over the due source configs, and *)
(* the sync of one config by the admin route, the script or a task.         *)
(*                                                                          *)
(* A tick is one PostgreSQL transaction at READ COMMITTED, however many     *)
(* configs and records it handles.  table, products, sizes, due and report  *)
(* hold what is committed; tx[w] what worker w has read or written since.   *)
(* An error of the database in one record is caught with the others, but    *)
(* leaves the session unusable: every later record fails on it and the      *)
(* flush that ends the run raises, so the steps in between are left out     *)
(* and the transaction is rolled back where the error happens.              *)
EXTENDS Integers, FiniteSets, Sequences

CONSTANTS
    Workers,      \* processes that sync, one transaction at a time
    Tickers,      \* those that run the tick over the due configs
    Operators,    \* those that sync one config when asked to
    Configs,      \* source configs with an interval
    StoreOf,      \* the store of a config
    Unknown,      \* configs whose source_type has no adapter
    Items,        \* external ids of offers and of their products
    Feed,         \* the records of a config, in order
    Names, NamesOf,   \* brand and category rows, and those of an item in order
    Idents, IdentOf,  \* what makes two records the same product
    Catalogued,   \* items whose record names its product by id
    Outcomes,     \* how a record may end: see Record, UpdateOffer
    Copies,       \* bound: products of one identity
    MaxFaults     \* bound: crashes

ASSUME SourceSyncAssumption ==
    /\ IsFiniteSet(Workers) /\ Workers # {}
    /\ Tickers \subseteq Workers /\ Operators \subseteq Workers
    /\ Unknown \subseteq Configs
    /\ Feed \in [Configs -> Seq(Items)]
    /\ NamesOf \in [Items -> Seq(Names)]
    /\ IdentOf \in [Items -> Idents]
    /\ Catalogued \subseteq Items
    /\ Outcomes \in [Items -> SUBSET {"good", "early", "late", "database"}]
    /\ Copies \in Nat /\ MaxFaults \in Nat

VARIABLES
    table,        \* rows under a unique key, and the row of each config
    products,
    sizes,        \* size lists stored for an offer: one is meant
    due,          \* configs whose next_sync_at has come
    active,
    report,       \* status of the last recorded run of a config
    tx,           \* the open transaction of each worker
    faults

vars == <<table, products, sizes, due, active, report, tx, faults>>

-----------------------------------------------------------------------------
(* Unique keys.  What they lead to is a product, or just a row.             *)
Name(n)       == <<"name", n>>
Mapping(c, i) == <<"mapping", c, i>>
Offer(c, i)   == <<"offer", StoreOf[c], i>>
Config(c)     == <<"config", c>>

Offers == {Offer(c, i) : c \in Configs, i \in Items}
Keys   == {Name(n) : n \in Names} \cup {Mapping(c, i) : c \in Configs, i \in Items}
          \cup Offers \cup {Config(c) : c \in Configs}

Absent == <<>>
Exists == <<"row">>
Prods  == Idents \X (0..Copies)     \* 0: the product an admin entered
Values == Prods \cup {Absent, Exists}

Statuses == {"none", "succeeded", "partially_failed", "failed"}

Idle == [pc |-> "idle", todo |-> {}, at |-> <<>>, names |-> 0,
         prod |-> Absent, seen |-> 0, queued |-> FALSE, put |-> [k \in Keys |-> Absent], made |-> {},
         dropped |-> [k \in Offers |-> 0], listed |-> {},
         good |-> {}, bad |-> {}, said |-> [c \in Configs |-> "none"]]

Txn == [pc     : {"idle", "configs", "record", "name", "addname", "product",
                  "addmapping", "offer", "insert", "update", "mark"},
        todo   : SUBSET Configs,
        at     : {<<>>} \cup Configs \X (Nat \ {0}),   \* config and record
        names  : Nat,                     \* names resolved for the record
        prod   : Values,                  \* product resolved for the record
        seen   : Nat,                     \* size lists read and not deleted since
        queued : BOOLEAN,                 \* in the queue for a lock
        put    : [Keys -> Values],        \* rows written, locked until the end
        made   : SUBSET Prods,            \* products inserted
        dropped: [Offers -> Nat],         \* size lists deleted
        listed : SUBSET Offers,           \* offers it stored a size list for
        good   : SUBSET (Nat \ {0}),      \* records of the config, by outcome
        bad    : SUBSET (Nat \ {0}),
        said   : [Configs -> Statuses]]   \* runs recorded

Init ==
    /\ table = [k \in Keys |-> IF k \in {Config(c) : c \in Configs} THEN Exists ELSE Absent]
    /\ products = {<<IdentOf[i], 0>> : i \in Catalogued}
    /\ sizes = [k \in Offers |-> 0]
    /\ due = Configs
    /\ active = Configs
    /\ report = [c \in Configs |-> "none"]
    /\ tx = [w \in Workers |-> Idle]
    /\ faults = 0

ConfigOf(t)  == t.at[1]
Records(t)   == Feed[ConfigOf(t)]
Item(t)      == Records(t)[t.at[2]]
NextName(t)  == Name(NamesOf[Item(t)][t.names + 1])
MappingOf(t) == Mapping(ConfigOf(t), Item(t))
OfferOf(t)   == Offer(ConfigOf(t), Item(t))

(* A statement sees what is committed and what its own transaction wrote.   *)
Row(w, k) == IF tx[w].put[k] # Absent THEN tx[w].put[k] ELSE table[k]

(* Only w moves: its transaction becomes t.                                 *)
Become(w, t) ==
    /\ tx' = [tx EXCEPT ![w] = [t EXCEPT !.queued = FALSE]]
    /\ UNCHANGED <<table, products, sizes, due, active, report>>

Rollback(w) == Become(w, Idle)

(* The row w is about to insert or update: it queues up while another       *)
(* transaction has written it, and is served before those that come later,  *)
(* unless they have the row already.                                        *)
Target(t) ==
    CASE t.pc = "addname"              -> {NextName(t)}
      [] t.pc = "addmapping"           -> {MappingOf(t)}
      [] t.pc \in {"insert", "update"} -> {OfferOf(t)}
      [] t.pc = "mark"                 -> {Config(ConfigOf(t))}
      [] OTHER                         -> {}

Waits(w, x) == x # w /\ \E k \in Target(tx[w]) : tx[x].put[k] # Absent

CanWrite(w) ==
    \A x \in Workers \ {w} :
        /\ ~Waits(w, x)
        /\ \/ tx[w].queued \/ ~tx[x].queued
           \/ \A k \in Target(tx[x]) \cap Target(tx[w]) : tx[w].put[k] # Absent

Queue(w) ==
    /\ ~tx[w].queued
    /\ \E x \in Workers : Waits(w, x)
    /\ tx' = [tx EXCEPT ![w].queued = TRUE]
    /\ UNCHANGED <<table, products, sizes, due, active, report, faults>>

Deadlocked(w) ==
    \E C \in SUBSET Workers :
        w \in C /\ \A x \in C : tx[x].queued /\ \E y \in C : Waits(x, y)

(* An INSERT fails when its key has been committed since it was looked up.  *)
(* Mutant: the tables without their unique constraints.                     *)
RefusedNever(k) == FALSE

Refused(k) == table[k] # Absent

-----------------------------------------------------------------------------
(* Beginning: run_due_source_configs_task, or the sync of one config.       *)
Begin(w, chosen) ==
    /\ tx[w].pc = "idle"
    /\ chosen # {}
    /\ Become(w, [Idle EXCEPT !.pc = "configs", !.todo = chosen])
    /\ UNCHANGED faults

StartTick(w)      == w \in Tickers /\ Begin(w, due \cap active)
StartManual(w, c) == w \in Operators /\ c \in active \ Unknown /\ Begin(w, {c})

(* Mutant: a fetch that fails ends the transaction.                         *)
StartConfigRaises(w, c) ==
    LET t == tx[w] IN
    /\ t.pc = "configs"
    /\ c \in t.todo
    /\ \/ Rollback(w)
       \/ /\ c \notin Unknown
          /\ Become(w, [t EXCEPT !.pc = "record", !.at = <<c, 1>>, !.good = {}, !.bad = {}])
    /\ UNCHANGED faults

(* The adapter is looked up outside any handler; a fetch that fails ends    *)
(* the run as failed.                                                       *)
StartConfig(w, c) ==
    LET t == tx[w] IN
    /\ t.pc = "configs"
    /\ c \in t.todo
    /\ IF c \in Unknown
       THEN Rollback(w)
       ELSE \/ Become(w, [t EXCEPT !.pc = "record", !.at = <<c, 1>>, !.good = {}, !.bad = {}])
            \/ Become(w, [t EXCEPT !.pc = "mark", !.at = <<c, 1>>, !.said[c] = "failed"])
    /\ UNCHANGED faults

(* The next record of the feed, when this one is a success or a failure.    *)
NextRecord(t) == [t EXCEPT !.pc = "record", !.at[2] = @ + 1,
                           !.names = 0, !.prod = Absent, !.seen = 0]
Succeeded(t)  == [NextRecord(t) EXCEPT !.good = @ \cup {t.at[2]}]
Failed(t)     == [NextRecord(t) EXCEPT !.bad = @ \cup {t.at[2]}]

(* Mutants: the status is never updated, or failures are not counted.       *)
RunStatusRunning(t) == "running"
RunStatusBlind(t) == IF t.good = {} /\ t.bad # {} THEN "failed" ELSE "succeeded"

RunStatus(t) == IF t.bad = {} THEN "succeeded"
                ELSE IF t.good = {} THEN "failed" ELSE "partially_failed"

EndRecords(w) ==
    LET t == tx[w] IN
    /\ t.pc = "record"
    /\ t.at[2] > Len(Records(t))
    /\ Become(w, [t EXCEPT !.pc = "mark", !.said[ConfigOf(t)] = RunStatus(t)])
    /\ UNCHANGED faults

-----------------------------------------------------------------------------
(* One record.  It may be rejected before anything is written: no price, no *)
(* rate, no product.  Otherwise its product is the one it names, the one it *)
(* is mapped to, or one found or made under its names.                      *)
Record(w) ==
    LET t == tx[w]
        ToOffer(p) == [t EXCEPT !.pc = "offer", !.prod = p] IN
    /\ t.pc = "record"
    /\ t.at[2] =< Len(Records(t))
    /\ \/ "early" \in Outcomes[Item(t)] /\ Become(w, Failed(t))
       \/ /\ Outcomes[Item(t)] # {"early"}
          /\ Become(w, IF Item(t) \in Catalogued THEN ToOffer(<<IdentOf[Item(t)], 0>>)
                       ELSE IF Row(w, MappingOf(t)) # Absent THEN ToOffer(Row(w, MappingOf(t)))
                       ELSE [t EXCEPT !.pc = "name", !.names = 0])
    /\ UNCHANGED faults

(* _get_or_create_brand, then _get_or_create_category.                      *)
ResolveName(w) ==
    LET t == tx[w] IN
    /\ t.pc = "name"
    /\ Become(w, IF t.names = Len(NamesOf[Item(t)]) THEN [t EXCEPT !.pc = "product"]
                 ELSE IF Row(w, NextName(t)) # Absent THEN [t EXCEPT !.names = @ + 1]
                 ELSE [t EXCEPT !.pc = "addname"])
    /\ UNCHANGED faults

AddName(w) ==
    LET t == tx[w] IN
    /\ t.pc = "addname"
    /\ CanWrite(w)
    /\ IF Refused(NextName(t))
       THEN Rollback(w)
       ELSE Become(w, [t EXCEPT !.pc = "name", !.names = @ + 1, !.put[NextName(t)] = Exists])
    /\ UNCHANGED faults

(* By sku or by normalized identity; products have no unique key.           *)
(* Mutant: the products of the running transaction are not searched.        *)
MatchingCommitted(w, i) == {p \in products : p[1] = IdentOf[i]}

Matching(w, i) == {p \in products \cup tx[w].made : p[1] = IdentOf[i]}

NewProduct(i) == {p \in {IdentOf[i]} \X (1..Copies) :
                     \A x \in Workers : p \notin products \cup tx[x].made}

ResolveProduct(w) ==
    LET t == tx[w] IN
    /\ t.pc = "product"
    /\ \/ \E p \in Matching(w, Item(t)) :
             Become(w, [t EXCEPT !.pc = "addmapping", !.prod = p])
       \/ /\ Matching(w, Item(t)) = {}
          /\ \E p \in NewProduct(Item(t)) :
                /\ \A q \in NewProduct(Item(t)) : p[2] =< q[2]
                /\ Become(w, [t EXCEPT !.pc = "addmapping", !.prod = p, !.made = @ \cup {p}])
    /\ UNCHANGED faults

AddMapping(w) ==
    LET t == tx[w] IN
    /\ t.pc = "addmapping"
    /\ CanWrite(w)
    /\ IF Refused(MappingOf(t))
       THEN Rollback(w)
       ELSE Become(w, [t EXCEPT !.pc = "offer", !.put[MappingOf(t)] = t.prod])
    /\ UNCHANGED faults

(* The offer and its size list are read together.                           *)
FindOffer(w) ==
    LET t == tx[w]
        k == OfferOf(t) IN
    /\ t.pc = "offer"
    /\ Become(w, IF Row(w, k) = Absent THEN [t EXCEPT !.pc = "insert"]
                 ELSE [t EXCEPT !.pc = "update", !.seen = sizes[k] - t.dropped[k]])
    /\ UNCHANGED faults

(* create_offer.  A size list that does not validate fails the record and   *)
(* leaves its product and its mapping; a value the database rejects does    *)
(* what a taken key does.                                                   *)
InsertOffer(w) ==
    LET t == tx[w]
        k == OfferOf(t) IN
    /\ t.pc = "insert"
    /\ \/ "late" \in Outcomes[Item(t)] /\ Become(w, Failed(t))
       \/ "database" \in Outcomes[Item(t)] /\ Rollback(w)
       \/ /\ "good" \in Outcomes[Item(t)]
          /\ CanWrite(w)
          /\ IF Refused(k)
             THEN Rollback(w)
             ELSE Become(w, [Succeeded(t) EXCEPT !.put[k] = t.prod, !.listed = @ \cup {k}])
    /\ UNCHANGED faults

(* Mutant: the new size list is added to the old one.                       *)
UpdateOfferAppend(w) ==
    LET t == tx[w]
        k == OfferOf(t) IN
    /\ t.pc = "update"
    /\ CanWrite(w)
    /\ \/ "late" \in Outcomes[Item(t)] /\ Become(w, Failed(t))
       \/ "database" \in Outcomes[Item(t)] /\ Rollback(w)
       \/ /\ "good" \in Outcomes[Item(t)]
          /\ Become(w, [Succeeded(t) EXCEPT !.put[k] = Row(w, k), !.listed = @ \cup {k}])
    /\ UNCHANGED faults

(* The size list is cleared first and the new one validated after: a record *)
(* that fails there leaves its offer without sizes.  The offer keeps its    *)
(* product.  Size rows that are gone already are deleted without an error.  *)
UpdateOffer(w) ==
    LET t == tx[w]
        k == OfferOf(t)
        cleared(s) == [s EXCEPT !.put[k] = Row(w, k), !.dropped[k] = @ + t.seen] IN
    /\ t.pc = "update"
    /\ CanWrite(w)
    /\ \/ "late" \in Outcomes[Item(t)] /\ Become(w, [cleared(Failed(t)) EXCEPT !.listed = @ \ {k}])
       \/ "database" \in Outcomes[Item(t)] /\ Rollback(w)
       \/ "good" \in Outcomes[Item(t)]
             /\ Become(w, [cleared(Succeeded(t)) EXCEPT !.listed = @ \cup {k}])
    /\ UNCHANGED faults

-----------------------------------------------------------------------------
(* mark_source_config_synced: the next sync is an interval away.            *)
MarkSynced(w) ==
    LET t == tx[w]
        c == ConfigOf(t) IN
    /\ t.pc = "mark"
    /\ CanWrite(w)
    /\ Become(w, [t EXCEPT !.pc = "configs", !.at = <<>>, !.todo = @ \ {c},
                           !.good = {}, !.bad = {}, !.put[Config(c)] = Exists])
    /\ UNCHANGED faults

(* Mutant: only a run that succeeded sets the next sync.                    *)
DoneSucceeded(t) == {c \in Configs : t.said[c] = "succeeded"}

Done(t) == {c \in Configs : t.said[c] # "none"}

(* Mutant: the products are committed without the rows that refer to them.  *)
EndTickTorn(w) ==
    LET t == tx[w] IN
    /\ t.pc = "configs"
    /\ t.todo = {}
    /\ products' = products \cup t.made
    /\ tx' = [tx EXCEPT ![w] = Idle]
    /\ UNCHANGED <<table, sizes, due, active, report, faults>>

(* Size lists are deleted oldest first, and a reader saw the oldest: of     *)
(* those it saw, the ones left when a transaction that deleted some commits.*)
Outlive(t, dropped) ==
    IF t.pc # "update" THEN t
    ELSE [t EXCEPT !.seen = IF @ < dropped[OfferOf(t)] THEN 0 ELSE @ - dropped[OfferOf(t)]]

EndTick(w) ==
    LET t == tx[w] IN
    /\ t.pc = "configs"
    /\ t.todo = {}
    /\ table' = [k \in Keys |-> Row(w, k)]
    /\ products' = products \cup t.made
    /\ sizes' = [k \in Offers |-> sizes[k] - t.dropped[k] + IF k \in t.listed THEN 1 ELSE 0]
    /\ due' = due \ Done(t)
    /\ report' = [c \in Configs |-> IF c \in Done(t) THEN t.said[c] ELSE report[c]]
    /\ tx' = [x \in Workers |-> IF x = w THEN Idle ELSE Outlive(tx[x], t.dropped)]
    /\ UNCHANGED <<active, faults>>

(* PostgreSQL aborts one member of a cycle of waiting transactions.         *)
DeadlockVictim(w) == Deadlocked(w) /\ Rollback(w) /\ UNCHANGED faults

Crash(w) ==
    /\ tx[w].pc # "idle"
    /\ faults < MaxFaults
    /\ faults' = faults + 1
    /\ Rollback(w)

-----------------------------------------------------------------------------
TimePasses(c) ==
    /\ c \notin due
    /\ due' = due \cup {c}
    /\ UNCHANGED <<table, products, sizes, active, report, tx, faults>>

(* The admin switches a config on or off; the UPDATE waits like any other.  *)
UpdateSourceConfig(c) ==
    /\ \A w \in Workers : tx[w].put[Config(c)] = Absent
    /\ active' = IF c \in active THEN active \ {c} ELSE active \cup {c}
    /\ UNCHANGED <<table, products, sizes, due, report, tx, faults>>

Step(w) ==
    \/ \E c \in Configs : StartConfig(w, c)
    \/ Record(w) \/ EndRecords(w)
    \/ ResolveName(w) \/ AddName(w) \/ ResolveProduct(w) \/ AddMapping(w)
    \/ FindOffer(w) \/ InsertOffer(w) \/ UpdateOffer(w)
    \/ MarkSynced(w) \/ EndTick(w) \/ Queue(w) \/ DeadlockVictim(w)

Next ==
    \/ \E w \in Workers :
          \/ StartTick(w)
          \/ \E c \in Configs : StartManual(w, c)
          \/ Step(w)
          \/ Crash(w)
    \/ \E c \in Configs : TimePasses(c) \/ UpdateSourceConfig(c)

(* Celery beat keeps a tick in the queue until a worker takes it, and an    *)
(* open transaction goes on.                                                *)
Fairness == \A w \in Workers : SF_vars(StartTick(w)) /\ WF_vars(Step(w))

Spec     == Init /\ [][Next]_vars
FairSpec == Spec /\ Fairness

-----------------------------------------------------------------------------
TypeOK ==
    /\ table \in [Keys -> Values]
    /\ products \subseteq Prods
    /\ sizes \in [Offers -> Nat]
    /\ due \subseteq Configs
    /\ active \subseteq Configs
    /\ report \in [Configs -> Statuses]
    /\ tx \in [Workers -> Txn]
    /\ faults \in 0..MaxFaults

SoleConfig(c) == \A d \in Configs : StoreOf[d] = StoreOf[c] => d = c

ItemsOf(c) == {Feed[c][n] : n \in DOMAIN Feed[c]}

(* While the last run of a store's only config reads succeeded, every item  *)
(* of its feed is an offer with sizes, whatever other run came in between.  *)
SucceededMeansListed ==
    \A c \in Configs : SoleConfig(c) /\ report[c] = "succeeded" =>
        \A i \in ItemsOf(c) : table[Offer(c, i)] # Absent /\ sizes[Offer(c, i)] > 0

(* An offer belongs to the product its item is mapped to, although the two  *)
(* rows are looked up and inserted apart and overlapping syncs may each     *)
(* have made a product.                                                     *)
OfferFollowsMapping ==
    \A c \in Configs, i \in Items :
        SoleConfig(c) /\ Absent \notin {table[Mapping(c, i)], table[Offer(c, i)]} =>
            table[Mapping(c, i)] = table[Offer(c, i)]

(* Every product a sync has made is mapped: a failed record, a refused      *)
(* insert or a crash leaves no product behind that nothing leads to.        *)
NoStrayProducts ==
    \A p \in products : p[2] > 0 =>
        \E k \in DOMAIN table : k[1] = "mapping" /\ table[k] = p

(* Two products of one identity, and two size lists of one offer, only come *)
(* from syncs that overlap: there are never more than workers, DOMAIN tx.   *)
DuplicatesNeedOverlap ==
    /\ \A d \in Idents :
          Cardinality({p \in products : p[1] = d}) =< Cardinality(DOMAIN tx)
    /\ \A k \in DOMAIN sizes : sizes[k] =< Cardinality(DOMAIN tx)

(* What is stored of a product or an offer stays tidy.                      *)
ProductsTidy == NoStrayProducts /\ DuplicatesNeedOverlap

(* An active config that is due is synced, or switched off: ticks that lose *)
(* an insert or a deadlock to each other do not starve it.                  *)
EventuallySynced ==
    \A c \in Configs : c \in due \cap active ~> c \notin due \cap active
=============================================================================
