----------------------------- MODULE FeedConfig -----------------------------
(* How operators describe the shops' feeds: scripts/store_feed.py applies a *)
(* file (upsert_store_feed_config of app/domains/stores/feed_config.py), an *)
(* admin creates and edits stores and configs by the API.  An apply is one  *)
(* transaction at READ COMMITTED: a store's name is unique, a config's type *)
(* and URL are not; an UPDATE locks the row and writes what differs.        *)
EXTENDS Absence, Naturals, Sequences, FiniteSets

CONSTANTS
    Files,       \* files: name, feed (type and URL), what else they say of store and source
    Operators,
    MaxSteps     \* bound: applies and changes of the admin

ASSUME FeedConfigAssumption == None \notin Files /\ MaxSteps \in Nat

VARIABLES
    stores,      \* name and columns
    configs,     \* store, feed (source_type and endpoint_url) and columns
    apply,       \* [Operators -> transaction]
    steps        \* history: applies and changes so far

configVars == <<stores, configs, apply, steps>>

NoApply == [pc |-> "idle", file |-> None, store |-> 0, config |-> 0, differs |-> FALSE,
            locks |-> {}, alone |-> TRUE]

ConfigInit ==
    /\ stores = <<>> /\ configs = <<>>
    /\ apply = [o \in Operators |-> NoApply]
    /\ steps = 0

Open(o) == apply[o].pc # "idle"

OneMore == steps < MaxSteps /\ steps' = steps + 1

-----------------------------------------------------------------------------
(* _get_store_by_name; 0 for none.                                          *)
StoreNamed(name) ==
    IF \E n \in DOMAIN stores : stores[n].name = name
    THEN CHOOSE n \in DOMAIN stores : stores[n].name = name ELSE 0

(* _get_source_config.                                                      *)
ConfigsOf(n, feed) ==
    {k \in DOMAIN configs : configs[k].store = n /\ configs[k].feed = feed}

Stored(f) == \E n \in DOMAIN stores : stores[n] = [name |-> f.name, columns |-> f.store]

SupportedFeedSourceTypes == {"heureka_xml", "http_csv", "http_json", "srovname_api"}
RequiredHttpCsvColumns   == {"external_id", "product_url", "source_price", "product_name"}

(* What the adapter of the type could not do without.                       *)
ValidSettings(type, settings) ==
    CASE type = "http_csv"     -> RequiredHttpCsvColumns \subseteq settings.columns
      [] type = "heureka_xml"  -> settings.categories # {}
      [] type = "srovname_api" -> settings.perPage \in 1..500 /\ settings.pages \in 1..100
      [] OTHER                 -> TRUE

ValidSource(f) ==
    f.feed.type \in SupportedFeedSourceTypes /\ ValidSettings(f.feed.type, f.source.settings)

(* A file that is not valid is refused before anything is read.  Two        *)
(* applies are not alone if they name one store, or once did.               *)
StartApply(o, f) ==
    /\ ~Open(o) /\ OneMore /\ ValidSource(f)
    /\ LET n == StoreNamed(f.name)
           others == {p \in Operators \ {o} : /\ Open(p)
                                             /\ \/ apply[p].file.name = f.name
                                                \/ n # 0 /\ apply[p].store = n}
       IN
       apply' = [p \in Operators |->
           IF p = o THEN [NoApply EXCEPT !.pc = "store", !.file = f,
                             !.store = n, !.differs = ~Stored(f),
                             !.alone = others = {}]
           ELSE [apply[p] EXCEPT !.alone = @ /\ p \notin others]]
    /\ UNCHANGED <<stores, configs>>

Held(lock) == \E o \in Operators : lock \in apply[o].locks

Undone(o) == [apply EXCEPT ![o] = NoApply]

(* The store is inserted, and refused when its name is there by then, or    *)
(* updated when it differs.                                                 *)
WriteStore(o) ==
    LET f == apply[o].file
        n == apply[o].store
        lock == <<"store", IF n = 0 THEN f.name ELSE n>>
    IN  /\ apply[o].pc = "store"
        /\ apply[o].differs => ~Held(lock)
        /\ apply' = IF n = 0 /\ StoreNamed(f.name) # 0 THEN Undone(o)
                    ELSE [apply EXCEPT ![o].pc = "config",
                                       ![o].locks = IF apply[o].differs THEN {lock} ELSE {}]
        /\ UNCHANGED <<stores, configs, steps>>

(* Mutant: the store is not compared.                                       *)
FoundAnywhere(o) == {k \in DOMAIN configs : configs[k].feed = apply[o].file.feed}

FoundConfigs(o) ==
    IF apply[o].store = 0 THEN {} ELSE ConfigsOf(apply[o].store, apply[o].file.feed)

(* One config is taken, none is made anew, two raise MultipleResultsFound.  *)
ReadConfig(o) ==
    /\ apply[o].pc = "config"
    /\ apply' = IF Cardinality(FoundConfigs(o)) > 1 THEN Undone(o)
                ELSE [apply EXCEPT ![o].pc = "write",
                         ![o].config = IF FoundConfigs(o) = {} THEN 0
                                       ELSE CHOOSE k \in FoundConfigs(o) : TRUE,
                         ![o].differs = \E k \in FoundConfigs(o) :
                                           configs[k].columns # apply[o].file.source]
    /\ UNCHANGED <<stores, configs, steps>>

WriteConfig(o) ==
    LET lock == <<"config", apply[o].config>>
    IN  /\ apply[o].pc = "write"
        /\ apply[o].differs => ~Held(lock)
        /\ apply' = [apply EXCEPT ![o].pc = "commit",
                         ![o].locks = IF apply[o].differs THEN @ \cup {lock} ELSE @]
        /\ UNCHANGED <<stores, configs, steps>>

Commit(o) ==
    LET t == apply[o]  f == t.file
        n == IF t.store = 0 THEN Len(stores) + 1 ELSE t.store
    IN  /\ t.pc = "commit"
        /\ stores' = IF t.store = 0 THEN Append(stores, [name |-> f.name, columns |-> f.store])
                     ELSE IF <<"store", n>> \in t.locks
                     THEN [stores EXCEPT ![n].columns = f.store] ELSE stores
        /\ configs' = IF t.config = 0
                      THEN Append(configs, [store |-> n, feed |-> f.feed, columns |-> f.source])
                      ELSE IF <<"config", t.config>> \in t.locks
                      THEN [configs EXCEPT ![t.config].columns = f.source] ELSE configs
        /\ apply' = Undone(o)
        /\ UNCHANGED steps

-----------------------------------------------------------------------------
AdminChanges == OneMore /\ apply' = [o \in Operators |-> [apply[o] EXCEPT !.alone = ~Open(o)]]

AdminCreatesStore(f) ==
    /\ AdminChanges
    /\ StoreNamed(f.name) = 0 /\ ~Held(<<"store", f.name>>)
    /\ stores' = Append(stores, [name |-> f.name, columns |-> f.store])
    /\ UNCHANGED configs

(* PATCH of a store; a name another store has is refused.                   *)
AdminPatchesStore(n, f) ==
    /\ AdminChanges
    /\ n \in DOMAIN stores /\ ~Held(<<"store", n>>)
    /\ StoreNamed(f.name) \in {0, n} /\ ~Held(<<"store", f.name>>)
    /\ stores' = [stores EXCEPT ![n] = [name |-> f.name, columns |-> f.store]]
    /\ UNCHANGED configs

AdminCreatesConfig(n, f) ==
    /\ AdminChanges
    /\ n \in DOMAIN stores
    /\ configs' = Append(configs, [store |-> n, feed |-> f.feed, columns |-> f.source])
    /\ UNCHANGED stores

(* PATCH of a config changes its URL or its columns, never its type.        *)
AdminPatchesConfig(k, f) ==
    /\ AdminChanges
    /\ k \in DOMAIN configs /\ ~Held(<<"config", k>>)
    /\ configs[k].feed.type = f.feed.type
    /\ configs' = [configs EXCEPT ![k].feed = f.feed, ![k].columns = f.source]
    /\ UNCHANGED stores

ConfigNext ==
    \/ \E o \in Operators :
          \/ \E f \in Files : StartApply(o, f)
          \/ WriteStore(o) \/ ReadConfig(o) \/ WriteConfig(o) \/ Commit(o)
    \/ \E f \in Files :
          \/ AdminCreatesStore(f)
          \/ \E n \in 1..MaxSteps :
                AdminPatchesStore(n, f) \/ AdminCreatesConfig(n, f) \/ AdminPatchesConfig(n, f)

ConfigSpec == ConfigInit /\ [][ConfigNext]_configVars

-----------------------------------------------------------------------------
Twins(f) == StoreNamed(f.name) # 0 /\ Cardinality(ConfigsOf(StoreNamed(f.name), f.feed)) > 1

(* A file is applied, once and as it is written, while nobody applies one   *)
(* of the same store and the admin changes nothing: however often it was    *)
(* applied before and whatever the admin had made of it, unless there are   *)
(* two configs to choose from.  What it does not name stays as it was.      *)
AppliedAsWritten ==
    [][\A o \in Operators, f \in Files :
          /\ apply[o].file = f /\ apply'[o].file = None
          /\ apply[o].alone /\ ~Twins(f)
          => /\ Stored(f)'
             /\ \E k \in ConfigsOf(StoreNamed(f.name), f.feed)' :
                   /\ configs'[k].columns = f.source
                   /\ \A j \in DOMAIN configs' \ {k} :
                         j \in DOMAIN configs /\ configs'[j] = configs[j]
             /\ Cardinality(ConfigsOf(StoreNamed(f.name), f.feed)') = 1
             /\ \A m \in DOMAIN stores : stores[m].name # f.name => stores'[m] = stores[m]]_configVars

=============================================================================
