---------------------------- MODULE CatalogMerge ----------------------------
(* The merge of duplicate products (merge_product of                        *)
(* app/domains/catalog/service.py, called by admin_merge_product) beside    *)
(* other merges and beside handlers and syncs that looked a product up and  *)
(* write a row for it later.  Everything happens in transactions at READ    *)
(* COMMITTED: a statement sees what is committed when it runs, a row that   *)
(* somebody is changing is waited for, and a foreign key locks the product  *)
(* it points to.                                                            *)
EXTENDS Naturals, Sequences

CONSTANTS Products, Rows, TableOf, Mergers, Writers, Nobody

(* The tables whose rows handlers and syncs insert; nothing inserts a       *)
(* variant.                                                                 *)
WrittenTables == {"offers", "price_analytics", "recommendations", "watchlists",
                  "source_product_mappings", "source_sync_run_items"}

ASSUME CatalogMergeAssumption ==
    /\ Nobody \notin Products
    /\ TableOf \in [Rows -> WrittenTables]
    /\ Mergers \cap Writers = {}

(* Mutant: the items of sync runs are forgotten.                            *)
TablesShort ==
    <<"offers", "price_analytics", "recommendations", "watchlists",
      "source_product_mappings", "product_variants">>

(* Product.id is referenced by these tables, in the order merge_product     *)
(* goes through them.                                                       *)
Tables == <<"offers", "price_analytics", "recommendations", "watchlists",
            "source_product_mappings", "source_sync_run_items", "product_variants">>

VARIABLES
    products,  \* the rows of the products table
    refers,    \* [Rows -> product_id of a committed row, Nobody before it is there]
    merge,     \* [Mergers -> transaction of merge_product]
    writer,    \* [Writers -> transaction that inserts a row]
    meant,     \* history: [Rows -> the product the row was written for]
    heir       \* history: [Products -> the product its rows have been merged into]

vars == <<products, refers, merge, writer, meant, heir>>

NoMerge == [pc |-> "idle", from |-> Nobody, to |-> Nobody, table |-> 0,
            moved |-> {}, alone |-> TRUE]
NoWrite == [pc |-> "idle", product |-> Nobody, row |-> Nobody]

Init ==
    /\ products = Products
    /\ refers = [r \in Rows |-> Nobody]
    /\ merge = [m \in Mergers |-> NoMerge]
    /\ writer = [w \in Writers |-> NoWrite]
    /\ meant = [r \in Rows |-> Nobody]
    /\ heir = [p \in Products |-> p]

Open(m)     == merge[m].pc # "idle"
Writing(w)  == writer[w].pc # "idle"
Deleting(m) == merge[m].pc = "commit"

(* merge_product refuses a product that is not there, and itself.           *)
StartMerge(m, p, q) ==
    /\ ~Open(m)
    /\ {p, q} \subseteq products /\ p # q
    /\ LET alone == (\A n \in Mergers : ~Open(n)) /\ (\A w \in Writers : ~Writing(w)) IN
       merge' = [n \in Mergers |->
           IF n = m THEN [NoMerge EXCEPT !.pc = "move", !.from = p, !.to = q, !.table = 1,
                                         !.alone = alone]
           ELSE [merge[n] EXCEPT !.alone = @ /\ ~Open(n)]]
    /\ UNCHANGED <<products, refers, writer, meant, heir>>

(* What a statement of _move_product_refs finds, and who holds a lock on it.*)
Found(m) ==
    {r \in Rows : TableOf[r] = Tables[merge[m].table] /\ refers[r] = merge[m].from}
               \ merge[m].moved

(* The product a foreign key points to cannot be deleted meanwhile.         *)
KeySharers(p) ==
    {n \in Mergers : merge[n].to = p /\ merge[n].moved # {}}
        \cup {w \in Writers : writer[w].pc = "inserted" /\ writer[w].product = p}

(* The merges a merge has to wait for, and the writers.                     *)
WaitsFor(m) ==
    (IF merge[m].pc = "move"
     THEN {n \in Mergers : merge[n].moved \cap Found(m) # {}}
            \cup (IF Found(m) = {} THEN {}
                  ELSE {n \in Mergers : Deleting(n) /\ merge[n].from = merge[m].to})
     ELSE IF merge[m].pc = "delete"
     THEN {n \in Mergers : Deleting(n) /\ merge[n].from = merge[m].from}
            \cup KeySharers(merge[m].from)
     ELSE {}) \ {m}

Undo(m) == merge' = [merge EXCEPT ![m] = NoMerge]

(* One UPDATE of _move_product_refs; the foreign key refuses it when the    *)
(* target has been deleted since it was read.                               *)
MoveRefs(m) ==
    /\ merge[m].pc = "move" /\ WaitsFor(m) = {}
    /\ \/ /\ Found(m) = {} \/ merge[m].to \in products
          /\ merge' = [merge EXCEPT
                ![m].moved = @ \cup Found(m), ![m].table = @ + 1,
                ![m].pc = IF merge[m].table = Len(Tables) THEN "delete" ELSE "move"]
       \/ /\ Found(m) # {} /\ merge[m].to \notin products
          /\ Undo(m)
    /\ UNCHANGED <<products, refers, writer, meant, heir>>

(* Mutant: the rows written meanwhile do not keep the product.              *)
DeleteUnchecked(m) ==
    /\ merge[m].pc = "delete" /\ WaitsFor(m) = {}
    /\ merge' = [merge EXCEPT ![m].pc = "commit"]
    /\ UNCHANGED <<products, refers, writer, meant, heir>>

(* DELETE of the product: no row is found when another merge has deleted    *)
(* it, and the foreign keys refuse it while a committed row refers to it.   *)
DeleteProduct(m) ==
    /\ merge[m].pc = "delete" /\ WaitsFor(m) = {}
    /\ IF \E r \in Rows \ merge[m].moved : refers[r] = merge[m].from
       THEN Undo(m)
       ELSE merge' = [merge EXCEPT ![m].pc = "commit"]
    /\ UNCHANGED <<products, refers, writer, meant, heir>>

CommitMerge(m) ==
    LET t == merge[m] IN
    /\ t.pc = "commit"
    /\ refers' = [r \in Rows |-> IF r \in t.moved THEN t.to ELSE refers[r]]
    /\ products' = products \ {t.from}
    /\ heir' = [p \in Products |-> IF heir[p] = t.from THEN t.to ELSE heir[p]]
    /\ Undo(m)
    /\ UNCHANGED <<writer, meant>>

(* Mutant: nobody breaks the circle.                                        *)
StuckNever(m) == FALSE

(* The database ends one of the merges that wait for each other.            *)
Stuck(m) == \E n \in Mergers \ {m} : n \in WaitsFor(m) /\ m \in WaitsFor(n)

DeadlockVictim(m) ==
    /\ Stuck(m) /\ Undo(m)
    /\ UNCHANGED <<products, refers, writer, meant, heir>>

-----------------------------------------------------------------------------
(* A handler or sync takes the product from its mapping, its payload or a   *)
(* query ...                                                                *)
ReadProduct(w, r, p) ==
    /\ ~Writing(w)
    /\ p \in products
    /\ refers[r] = Nobody /\ \A v \in Writers : writer[v].row # r
    /\ writer' = [writer EXCEPT ![w] = [pc |-> "read", product |-> p, row |-> r]]
    /\ merge' = [n \in Mergers |-> [merge[n] EXCEPT !.alone = @ /\ ~Open(n)]]
    /\ UNCHANGED <<products, refers, meant, heir>>

(* ... and inserts a row for it: the foreign key waits for a merge that is  *)
(* deleting it, and refuses a product that is gone.                         *)
InsertRow(w) ==
    /\ writer[w].pc = "read"
    /\ \A m \in Mergers : Deleting(m) => merge[m].from # writer[w].product
    /\ writer' = [writer EXCEPT ![w] =
          IF writer[w].product \in products THEN [@ EXCEPT !.pc = "inserted"] ELSE NoWrite]
    /\ UNCHANGED <<products, refers, merge, meant, heir>>

CommitRow(w) ==
    /\ writer[w].pc = "inserted"
    /\ refers' = [refers EXCEPT ![writer[w].row] = writer[w].product]
    /\ meant' = [meant EXCEPT ![writer[w].row] = writer[w].product]
    /\ writer' = [writer EXCEPT ![w] = NoWrite]
    /\ UNCHANGED <<products, merge, heir>>

Proceed(m) == MoveRefs(m) \/ DeleteProduct(m) \/ CommitMerge(m) \/ DeadlockVictim(m)

Write(w) == InsertRow(w) \/ CommitRow(w)

Next ==
    \/ \E m \in Mergers :
          \/ \E p, q \in Products : StartMerge(m, p, q)
          \/ MoveRefs(m) \/ DeleteProduct(m) \/ CommitMerge(m) \/ DeadlockVictim(m)
    \/ \E w \in Writers :
          \/ \E r \in Rows, p \in Products : ReadProduct(w, r, p)
          \/ InsertRow(w) \/ CommitRow(w)

(* Transactions go on, or are ended by the database; one that waits has its *)
(* turn, as locks are granted in the order they were asked for.             *)
Fairness == (\A m \in Mergers : SF_vars(Proceed(m))) /\ (\A w \in Writers : WF_vars(Write(w)))

Spec == Init /\ [][Next]_vars /\ Fairness

-----------------------------------------------------------------------------
(* The shape of the state.                                                  *)
MergeTx == [pc: {"idle", "move", "delete", "commit"},
            from: Products \cup {Nobody}, to: Products \cup {Nobody},
            table: 0..(Len(Tables) + 1), moved: SUBSET Rows, alone: BOOLEAN]
WriteTx == [pc: {"idle", "read", "inserted"}, product: Products \cup {Nobody},
            row: Rows \cup {Nobody}]

TypeOK ==
    /\ products \subseteq Products
    /\ refers \in [Rows -> Products \cup {Nobody}]
    /\ merge \in [Mergers -> MergeTx]
    /\ writer \in [Writers -> WriteTx]
    /\ meant \in [Rows -> Products \cup {Nobody}]
    /\ heir \in [Products -> Products]

(* However merges and writers overlap, a row is at the product it was       *)
(* written for, or at the one this was merged into, directly or in several  *)
(* steps: that product is there.  So no offer, mapping or watchlist is      *)
(* moved twice the wrong way or left at a product that is gone.             *)
RowsFollowMerges ==
    \A r \in Rows : refers[r] # Nobody =>
        refers[r] = heir[meant[r]] /\ refers[r] \in products

(* A merge that nobody overlapped is not refused: all the tables with a     *)
(* foreign key to the product have been moved before it is deleted.         *)
LoneMergeSucceeds ==
    [][\A m \in Mergers : merge[m].alone /\ Open(m) /\ merge'[m].pc = "idle"
            => merge[m].pc = "commit"]_vars

(* Every merge is answered, although opposite merges lock each other's      *)
(* products.                                                                *)
MergesEnd == \A m \in Mergers : Open(m) ~> ~Open(m)

(* A merge is answered, and carried out if nobody interferes.               *)
MergesAnswered == LoneMergeSucceeds /\ MergesEnd

=============================================================================
