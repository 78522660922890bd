-------------------------- MODULE BackOfficeProofs --------------------------
(* Proofs about CatalogMerge, for any products, rows, merges and writers,   *)
(* and about FxRates, for any currencies and their order, any answers of    *)
(* the source, and any number of jobs and syncs.                            *)
EXTENDS CatalogMerge, FxRates, FiniteSetTheorems, WellFoundedInduction, TLAPS

-----------------------------------------------------------------------------
(* What an open transaction holds. *)

(* A merge has moved rows of its own product only, to a product that is     *)
(* there, and no other merge has moved them too.                            *)
MovesOwnRows ==
  \A m \in Mergers :
     /\ merge[m].pc = "idle" => merge[m].moved = {}
     /\ Open(m) => /\ merge[m].from \in Products /\ merge[m].to \in Products
                   /\ merge[m].from # merge[m].to /\ merge[m].table >= 1
     /\ merge[m].pc = "move" => merge[m].table =< Len(Tables)
     /\ \A r \in merge[m].moved : refers[r] = merge[m].from
     /\ merge[m].moved # {} => merge[m].to \in products
     /\ \A n \in Mergers \ {m} : merge[m].moved \cap merge[n].moved = {}

(* A merge that deletes its product has every row of it, and nobody else    *)
(* has locked the product.                                                  *)
DeletesAlone ==
  \A m \in Mergers : Deleting(m) =>
     /\ \A r \in Rows : refers[r] = merge[m].from => r \in merge[m].moved
     /\ \A n \in Mergers \ {m} :
           /\ merge[n].to = merge[m].from => merge[n].moved = {}
           /\ Deleting(n) => merge[n].from # merge[m].from
     /\ \A w \in Writers : writer[w].pc = "inserted" => writer[w].product # merge[m].from

(* A writer has a row of its own that is not committed yet.                 *)
WritesNewRows ==
  \A w \in Writers :
     /\ writer[w].pc = "idle" => writer[w].row = Nobody
     /\ Writing(w) =>
          /\ writer[w].row \in Rows \ {Nobody} /\ refers[writer[w].row] = Nobody
          /\ writer[w].product \in Products
          /\ \A v \in Writers \ {w} : writer[v].row # writer[w].row
     /\ writer[w].pc = "inserted" => writer[w].product \in products

(* A product that is there was merged into none.                            *)
HeirsStay == \A p \in products : heir[p] = p

RowsKept ==
  \A r \in Rows : refers[r] # Nobody =>
     /\ meant[r] \in Products /\ refers[r] = heir[meant[r]]
     /\ refers[r] \in products

MergeInv == TypeOK /\ MovesOwnRows /\ DeletesAlone /\ WritesNewRows /\ HeirsStay /\ RowsKept


(* The transaction of m is as it was, but perhaps no longer alone. *)
Same(m) ==
  /\ merge'[m].pc = merge[m].pc /\ merge'[m].from = merge[m].from
  /\ merge'[m].to = merge[m].to /\ merge'[m].table = merge[m].table
  /\ merge'[m].moved = merge[m].moved

LEMMA TablesLength == Len(Tables) = 7
  BY DEF Tables

LEMMA MergeParts ==
  ASSUME TypeOK, NEW m \in Mergers
  PROVE  /\ merge[m].pc \in {"idle", "move", "delete", "commit"}
         /\ merge[m].table \in Nat /\ merge[m].moved \subseteq Rows
         /\ merge[m].alone \in BOOLEAN
  BY TablesLength DEF TypeOK, MergeTx

LEMMA TypeStep == TypeOK /\ MovesOwnRows /\ WritesNewRows /\ [Next]_vars => TypeOK'
  <1> SUFFICES ASSUME TypeOK, MovesOwnRows, WritesNewRows, [Next]_vars PROVE TypeOK'
    OBVIOUS
  <1>u. ASSUME NEW m \in Mergers, Undo(m)
        PROVE  merge' \in [Mergers -> MergeTx]
    <2>1. NoMerge \in MergeTx BY DEF NoMerge, MergeTx
    <2> QED BY <1>u, <2>1 DEF TypeOK, Undo
  <1>v. ASSUME NEW t \in MergeTx, NEW b \in BOOLEAN
        PROVE  [t EXCEPT !.alone = t.alone /\ b] \in MergeTx
    <2>1. (t.alone /\ b) \in BOOLEAN OBVIOUS
    <2> HIDE DEF MergeTx
    <2> QED BY <2>1 DEF MergeTx
  <1>1. CASE UNCHANGED vars
    BY <1>1 DEF vars, TypeOK
  <1>2. ASSUME NEW m \in Mergers, NEW p \in Products, NEW q \in Products, StartMerge(m, p, q)
        PROVE  TypeOK'
    <2>1. PICK b \in BOOLEAN : merge' = [n \in Mergers |->
             IF n = m
             THEN [NoMerge EXCEPT !.pc = "move", !.from = p, !.to = q, !.table = 1, !.alone = b]
             ELSE [merge[n] EXCEPT !.alone = merge[n].alone /\ ~Open(n)]]
      BY <1>2 DEF StartMerge
    <2> DEFINE t == [NoMerge EXCEPT !.pc = "move", !.from = p, !.to = q, !.table = 1, !.alone = b]
    <2>2. merge' = [n \in Mergers |->
             IF n = m THEN t ELSE [merge[n] EXCEPT !.alone = merge[n].alone /\ ~Open(n)]]
      BY <2>1
    <2>3. t \in MergeTx
      <3>1. NoMerge \in MergeTx BY TablesLength DEF NoMerge, MergeTx
      <3>2. \A x \in MergeTx :
               [x EXCEPT !.pc = "move", !.from = p, !.to = q, !.table = 1, !.alone = b] \in MergeTx
        <4>1. 1 \in 0..(Len(Tables) + 1) BY TablesLength
        <4> QED BY <4>1 DEF MergeTx
      <3> QED BY <3>1, <3>2
    <2> HIDE DEF t
    <2>4. \A n \in Mergers : [merge[n] EXCEPT !.alone = merge[n].alone /\ ~Open(n)] \in MergeTx
      <3> TAKE n \in Mergers
      <3>1. (~Open(n)) \in BOOLEAN BY DEF Open
      <3>2. merge[n] \in MergeTx BY DEF TypeOK
      <3> QED BY <1>v, <3>1, <3>2
    <2>5. merge' \in [Mergers -> MergeTx] BY <2>2, <2>3, <2>4
    <2> QED BY <1>2, <2>5 DEF StartMerge, TypeOK
  <1>3. ASSUME NEW m \in Mergers, MoveRefs(m) PROVE TypeOK'
    <2>1. CASE Undo(m) BY <1>3, <1>u, <2>1 DEF MoveRefs, TypeOK
    <2>2. CASE ~Undo(m)
      <3> DEFINE t == [merge[m] EXCEPT !.moved = merge[m].moved \cup Found(m),
                          !.table = merge[m].table + 1,
                          !.pc = IF merge[m].table = Len(Tables) THEN "delete" ELSE "move"]
      <3>1. merge' = [merge EXCEPT ![m] = t] BY <1>3, <2>2 DEF MoveRefs, TypeOK
      <3>2. merge[m].table + 1 \in 0..(Len(Tables) + 1)
        BY <1>3, MergeParts DEF MoveRefs, MovesOwnRows
      <3>3. Found(m) \subseteq Rows BY DEF Found
      <3>4. merge[m] \in MergeTx BY DEF TypeOK
      <3>5. t \in MergeTx BY <3>2, <3>3, <3>4 DEF MergeTx
      <3> HIDE DEF t
      <3> QED BY <1>3, <3>1, <3>5 DEF MoveRefs, TypeOK
    <2> QED BY <2>1, <2>2
  <1>4. ASSUME NEW m \in Mergers, DeleteProduct(m) PROVE TypeOK'
    <2>1. CASE Undo(m) BY <1>4, <1>u, <2>1 DEF DeleteProduct, TypeOK
    <2>2. CASE ~Undo(m)
      <3> DEFINE t == [merge[m] EXCEPT !.pc = "commit"]
      <3>1. merge' = [merge EXCEPT ![m] = t] BY <1>4, <2>2 DEF DeleteProduct, TypeOK
      <3>2. t \in MergeTx BY DEF TypeOK, MergeTx
      <3> HIDE DEF t
      <3> QED BY <1>4, <3>1, <3>2 DEF DeleteProduct, TypeOK
    <2> QED BY <2>1, <2>2
  <1>5. ASSUME NEW m \in Mergers, CommitMerge(m) PROVE TypeOK'
    <2>1. merge[m].to \in Products BY <1>5 DEF CommitMerge, MovesOwnRows, Open
    <2> QED BY <1>5, <1>u, <2>1 DEF CommitMerge, TypeOK
  <1>6. ASSUME NEW m \in Mergers, DeadlockVictim(m) PROVE TypeOK'
    BY <1>6, <1>u DEF DeadlockVictim, TypeOK
  <1>7. ASSUME NEW w \in Writers, NEW r \in Rows, NEW p \in Products, ReadProduct(w, r, p)
        PROVE  TypeOK'
    <2>1. \A n \in Mergers : [merge[n] EXCEPT !.alone = merge[n].alone /\ ~Open(n)] \in MergeTx
      <3> TAKE n \in Mergers
      <3>1. (~Open(n)) \in BOOLEAN BY DEF Open
      <3>2. merge[n] \in MergeTx BY DEF TypeOK
      <3> QED BY <1>v, <3>1, <3>2
    <2>2. merge' = [n \in Mergers |-> [merge[n] EXCEPT !.alone = merge[n].alone /\ ~Open(n)]]
      BY <1>7 DEF ReadProduct
    <2>3. merge' \in [Mergers -> MergeTx] BY <2>1, <2>2
    <2>4. writer' \in [Writers -> WriteTx] BY <1>7 DEF ReadProduct, TypeOK, WriteTx
    <2> QED BY <1>7, <2>3, <2>4 DEF ReadProduct, TypeOK
  <1>8. ASSUME NEW w \in Writers, InsertRow(w) PROVE TypeOK'
    BY <1>8 DEF InsertRow, TypeOK, NoWrite, WriteTx
  <1>9. ASSUME NEW w \in Writers, CommitRow(w) PROVE TypeOK'
    BY <1>9 DEF CommitRow, TypeOK, NoWrite, WriteTx, WritesNewRows, Writing
  <1> QED BY <1>1, <1>2, <1>3, <1>4, <1>5, <1>6, <1>7, <1>8, <1>9 DEF Next

(* Ending a transaction frees what it held. *)
LEMMA UndoFrees ==
  ASSUME TypeOK, MovesOwnRows, DeletesAlone, NEW m \in Mergers, Undo(m),
         UNCHANGED <<products, refers, writer>>
  PROVE  MovesOwnRows' /\ DeletesAlone'
  <1>1. merge'[m] = NoMerge /\ \A n \in Mergers \ {m} : merge'[n] = merge[n]
    BY DEF Undo, TypeOK
  <1>2. NoMerge.pc = "idle" /\ NoMerge.moved = {} BY DEF NoMerge
  <1>3. MovesOwnRows'
    BY <1>1, <1>2 DEF MovesOwnRows, Open
  <1>4. DeletesAlone'
    BY <1>1, <1>2 DEF DeletesAlone, Deleting
  <1> QED BY <1>3, <1>4

LEMMA SameFrame ==
  ASSUME TypeOK, MovesOwnRows, DeletesAlone, UNCHANGED <<products, refers, writer>>,
         \A m \in Mergers : Same(m)
  PROVE  MovesOwnRows' /\ DeletesAlone'
  <1>1. MovesOwnRows' BY DEF MovesOwnRows, Same, Open
  <1>2. DeletesAlone' BY DEF DeletesAlone, Same, Deleting
  <1> QED BY <1>1, <1>2

LEMMA LocksStep == MergeInv /\ [Next]_vars => MovesOwnRows' /\ DeletesAlone'
  <1> SUFFICES ASSUME MergeInv, [Next]_vars PROVE MovesOwnRows' /\ DeletesAlone'
    OBVIOUS
  <1>a. /\ TypeOK /\ MovesOwnRows /\ DeletesAlone /\ WritesNewRows /\ RowsKept
        /\ Nobody \notin Products /\ Mergers \cap Writers = {}
    BY CatalogMergeAssumption DEF MergeInv
  <1>1. CASE UNCHANGED vars
    BY <1>a, <1>1, SameFrame DEF vars, Same
  <1>2. ASSUME NEW m \in Mergers, NEW p \in Products, NEW q \in Products, StartMerge(m, p, q)
        PROVE  MovesOwnRows' /\ DeletesAlone'
    <2>1. /\ merge'[m].pc = "move" /\ merge'[m].from = p /\ merge'[m].to = q
          /\ merge'[m].table = 1 /\ merge'[m].moved = {}
          /\ p # q /\ UNCHANGED <<products, refers, writer>>
      BY <1>2 DEF StartMerge, NoMerge
    <2>2. \A n \in Mergers \ {m} : Same(n)
      <3> TAKE n \in Mergers \ {m}
      <3>1. merge'[n] = [merge[n] EXCEPT !.alone = merge[n].alone /\ ~Open(n)]
        BY <1>2 DEF StartMerge
      <3>2. merge[n] \in MergeTx BY <1>a DEF TypeOK
      <3> QED BY <3>1, <3>2 DEF Same, MergeTx
    <2>3. MovesOwnRows' BY <1>a, <2>1, <2>2, TablesLength DEF MovesOwnRows, Same, Open
    <2>4. DeletesAlone' BY <1>a, <2>1, <2>2 DEF DeletesAlone, Same, Deleting
    <2> QED BY <2>3, <2>4
  <1>3. ASSUME NEW m \in Mergers, MoveRefs(m) PROVE MovesOwnRows' /\ DeletesAlone'
    <2>1. CASE Undo(m) BY <1>3, <1>a, <2>1, UndoFrees DEF MoveRefs
    <2>2. CASE ~Undo(m)
      <3>1. /\ merge[m].pc = "move"
            /\ Found(m) = {} \/ merge[m].to \in products
            /\ merge' = [merge EXCEPT ![m].moved = @ \cup Found(m), ![m].table = @ + 1,
                 ![m].pc = IF merge[m].table = Len(Tables) THEN "delete" ELSE "move"]
            /\ UNCHANGED <<products, refers, writer>>
        BY <1>3, <2>2 DEF MoveRefs
      <3>2. /\ merge'[m].pc = IF merge[m].table = Len(Tables) THEN "delete" ELSE "move"
            /\ merge'[m].from = merge[m].from /\ merge'[m].to = merge[m].to
            /\ merge'[m].moved = merge[m].moved \cup Found(m)
            /\ merge'[m].table = merge[m].table + 1
            /\ \A n \in Mergers \ {m} : merge'[n] = merge[n]
        BY <1>a, <3>1 DEF TypeOK, MergeTx
      <3>0. /\ merge[m].pc = "move"
            /\ Found(m) = {} \/ merge[m].to \in products
            /\ products' = products /\ refers' = refers /\ writer' = writer
        BY <3>1
      <3>3. /\ merge'[m].table >= 1 /\ (merge'[m].pc = "move" => merge'[m].table =< Len(Tables))
            /\ merge'[m].pc \in {"move", "delete"}
        BY <1>a, <3>0, <3>2, TablesLength, MergeParts DEF MovesOwnRows, Open
      <3>4. \A r \in Found(m) : r \in Rows /\ refers[r] = merge[m].from
        BY DEF Found
      <3>5. \A n \in Mergers \ {m} : merge[n].moved \cap Found(m) = {}
        BY <1>3, <3>0 DEF MoveRefs, WaitsFor
      <3>6. Found(m) # {} =>
              \A n \in Mergers \ {m} : Deleting(n) => merge[n].from # merge[m].to
        BY <1>3, <3>0 DEF MoveRefs, WaitsFor
      <3>7. \A r \in merge'[m].moved : refers'[r] = merge'[m].from
        BY <1>a, <3>0, <3>2, <3>4 DEF MovesOwnRows
      <3>8. merge'[m].moved # {} => merge'[m].to \in products'
        BY <1>a, <3>0, <3>2 DEF MovesOwnRows
      <3>9. \A n \in Mergers \ {m} : merge'[m].moved \cap merge'[n].moved = {}
        BY <1>a, <3>2, <3>5 DEF MovesOwnRows
      <3>10. /\ merge'[m].from \in Products /\ merge'[m].to \in Products
             /\ merge'[m].from # merge'[m].to
        BY <1>a, <3>0, <3>2 DEF MovesOwnRows, Open
      <3>11. MovesOwnRows'
        <4> SUFFICES ASSUME NEW n \in Mergers \ {m}
                     PROVE  /\ merge'[n].pc = "idle" => merge'[n].moved = {}
                            /\ Open(n)' => /\ merge'[n].from \in Products
                                           /\ merge'[n].to \in Products
                                           /\ merge'[n].from # merge'[n].to
                                           /\ merge'[n].table >= 1
                            /\ merge'[n].pc = "move" => merge'[n].table =< Len(Tables)
                            /\ \A r \in merge'[n].moved : refers'[r] = merge'[n].from
                            /\ merge'[n].moved # {} => merge'[n].to \in products'
                            /\ \A k \in Mergers \ {n} :
                                  merge'[n].moved \cap merge'[k].moved = {}
          BY <3>3, <3>7, <3>8, <3>9, <3>10 DEF MovesOwnRows, Open
        <4>1. merge'[n] = merge[n] BY <3>2
        <4>2. \A k \in Mergers \ {n} : merge'[n].moved \cap merge'[k].moved = {}
          BY <1>a, <3>2, <3>9 DEF MovesOwnRows
        <4> QED BY <1>a, <3>0, <4>1, <4>2 DEF MovesOwnRows, Open
      <3>12. DeletesAlone'
        <4>1. ~Deleting(m)' /\ ~Deleting(m) BY <3>0, <3>3 DEF Deleting
        <4>2. \A n \in Mergers \ {m} : Deleting(n) => merge[n].from # merge[m].to \/ Found(m) = {}
          BY <3>6
        <4> QED BY <1>a, <3>0, <3>2, <4>1, <4>2 DEF DeletesAlone, Deleting
      <3> QED BY <3>11, <3>12
    <2> QED BY <2>1, <2>2
  <1>4. ASSUME NEW m \in Mergers, DeleteProduct(m) PROVE MovesOwnRows' /\ DeletesAlone'
    <2>1. CASE Undo(m) BY <1>4, <1>a, <2>1, UndoFrees DEF DeleteProduct
    <2>2. CASE ~Undo(m)
      <3>1. /\ merge[m].pc = "delete"
            /\ \A r \in Rows : refers[r] = merge[m].from => r \in merge[m].moved
            /\ merge' = [merge EXCEPT ![m].pc = "commit"]
            /\ UNCHANGED <<products, refers, writer>>
        BY <1>4, <2>2 DEF DeleteProduct
      <3>2. /\ merge'[m].pc = "commit"
            /\ merge'[m].from = merge[m].from /\ merge'[m].to = merge[m].to
            /\ merge'[m].moved = merge[m].moved /\ merge'[m].table = merge[m].table
            /\ \A n \in Mergers \ {m} : merge'[n] = merge[n]
        BY <1>a, <3>1 DEF TypeOK, MergeTx
      <3>3. /\ \A n \in Mergers \ {m} : Deleting(n) => merge[n].from # merge[m].from
            /\ \A n \in Mergers \ {m} : merge[n].to = merge[m].from => merge[n].moved = {}
        BY <1>4, <3>1 DEF DeleteProduct, WaitsFor, KeySharers
      <3>4. \A w \in Writers : writer[w].pc = "inserted" => writer[w].product # merge[m].from
        BY <1>4, <1>a, <3>1 DEF DeleteProduct, WaitsFor, KeySharers
      <3>5. MovesOwnRows' BY <1>a, <3>1, <3>2 DEF MovesOwnRows, Open
      <3>6. DeletesAlone'
        <4> SUFFICES ASSUME NEW n \in Mergers, Deleting(n)'
                     PROVE  /\ \A r \in Rows : refers'[r] = merge'[n].from
                                                  => r \in merge'[n].moved
                            /\ \A k \in Mergers \ {n} :
                                  /\ merge'[k].to = merge'[n].from => merge'[k].moved = {}
                                  /\ Deleting(k)' => merge'[k].from # merge'[n].from
                            /\ \A w \in Writers : writer'[w].pc = "inserted"
                                  => writer'[w].product # merge'[n].from
          BY DEF DeletesAlone
        <4>1. CASE n = m
          BY <3>1, <3>2, <3>3, <3>4, <4>1 DEF Deleting
        <4>2. CASE n # m
          BY <1>a, <3>1, <3>2, <3>3, <4>2 DEF DeletesAlone, Deleting
        <4> QED BY <4>1, <4>2
      <3> QED BY <3>5, <3>6
    <2> QED BY <2>1, <2>2
  <1>5. ASSUME NEW m \in Mergers, CommitMerge(m) PROVE MovesOwnRows' /\ DeletesAlone'
    <2>1. /\ Deleting(m) /\ writer' = writer
          /\ \A r \in Rows : refers'[r] = IF r \in merge[m].moved THEN merge[m].to ELSE refers[r]
          /\ products' = products \ {merge[m].from}
          /\ merge'[m] = NoMerge /\ \A n \in Mergers \ {m} : merge'[n] = merge[n]
      BY <1>5, <1>a DEF CommitMerge, Undo, TypeOK, Deleting
    <2>2. NoMerge.pc = "idle" /\ NoMerge.moved = {} BY DEF NoMerge
    <2>3. \A n \in Mergers \ {m} : \A r \in merge[n].moved : refers'[r] = refers[r]
      BY <1>a, <2>1, MergeParts DEF MovesOwnRows
    <2>4. \A n \in Mergers \ {m} : merge[n].moved # {} => merge[n].to \in products'
      BY <1>a, <2>1 DEF MovesOwnRows, DeletesAlone
    <2>5. MovesOwnRows' BY <1>a, <2>1, <2>2, <2>3, <2>4 DEF MovesOwnRows, Open
    <2>6. \A n \in Mergers \ {m} : Deleting(n) =>
             \A r \in Rows : refers'[r] = merge[n].from => refers[r] = merge[n].from
      BY <1>a, <2>1 DEF DeletesAlone
    <2>7. DeletesAlone'
      BY <1>a, <2>1, <2>2, <2>6 DEF DeletesAlone, Deleting
    <2> QED BY <2>5, <2>7
  <1>6. ASSUME NEW m \in Mergers, DeadlockVictim(m) PROVE MovesOwnRows' /\ DeletesAlone'
    BY <1>6, <1>a, UndoFrees DEF DeadlockVictim
  <1>7. ASSUME NEW w \in Writers, NEW r \in Rows, NEW p \in Products, ReadProduct(w, r, p)
        PROVE  MovesOwnRows' /\ DeletesAlone'
    <2>1. /\ \A n \in Mergers : Same(n)
          /\ UNCHANGED <<products, refers>>
          /\ \A v \in Writers : writer'[v].pc = "inserted" => writer'[v] = writer[v]
      <3>1. \A n \in Mergers : merge'[n] = [merge[n] EXCEPT !.alone = merge[n].alone /\ ~Open(n)]
        BY <1>7 DEF ReadProduct
      <3>2. \A n \in Mergers : merge[n] \in MergeTx BY <1>a DEF TypeOK
      <3>3. \A n \in Mergers : Same(n) BY <3>1, <3>2 DEF Same, MergeTx
      <3> QED BY <1>7, <1>a, <3>3 DEF ReadProduct, TypeOK
    <2>2. MovesOwnRows' BY <1>a, <2>1 DEF MovesOwnRows, Same, Open
    <2>3. DeletesAlone' BY <1>a, <2>1 DEF DeletesAlone, Same, Deleting
    <2> QED BY <2>2, <2>3
  <1>8. ASSUME NEW w \in Writers, InsertRow(w) PROVE MovesOwnRows' /\ DeletesAlone'
    <2>1. /\ UNCHANGED <<products, refers, merge>>
          /\ \A v \in Writers : writer'[v].pc = "inserted"
                => \/ writer[v].pc = "inserted" /\ writer'[v].product = writer[v].product
                   \/ \A m \in Mergers : Deleting(m) => merge[m].from # writer'[v].product
      BY <1>8, <1>a DEF InsertRow, TypeOK, NoWrite
    <2>2. MovesOwnRows' BY <1>a, <2>1 DEF MovesOwnRows, Open
    <2>3. DeletesAlone' BY <1>a, <2>1 DEF DeletesAlone, Deleting
    <2> QED BY <2>2, <2>3
  <1>9. ASSUME NEW w \in Writers, CommitRow(w) PROVE MovesOwnRows' /\ DeletesAlone'
    <2> DEFINE x == writer[w].row
    <2>1. /\ UNCHANGED <<products, merge>> /\ writer[w].pc = "inserted"
          /\ x \in Rows /\ refers[x] = Nobody
          /\ \A r \in Rows : refers'[r] = IF r = x THEN writer[w].product ELSE refers[r]
          /\ \A v \in Writers : writer'[v].pc = "inserted" => writer'[v] = writer[v]
      BY <1>9, <1>a DEF CommitRow, TypeOK, NoWrite, WritesNewRows, Writing
    <2>2. \A m \in Mergers : merge[m].moved # {} => Open(m) /\ merge[m].from # Nobody
      BY <1>a DEF MovesOwnRows, Open
    <2>3. \A m \in Mergers : x \notin merge[m].moved
      BY <1>a, <2>1, <2>2 DEF MovesOwnRows
    <2> HIDE DEF x
    <2>4. MovesOwnRows' BY <1>a, <2>1, <2>3, MergeParts DEF MovesOwnRows, Open
    <2>5. DeletesAlone' BY <1>a, <2>1 DEF DeletesAlone, Deleting
    <2> QED BY <2>4, <2>5
  <1> QED BY <1>1, <1>2, <1>3, <1>4, <1>5, <1>6, <1>7, <1>8, <1>9 DEF Next

LEMMA WritesStep == MergeInv /\ [Next]_vars => WritesNewRows'
  <1> SUFFICES ASSUME MergeInv, [Next]_vars PROVE WritesNewRows'
    OBVIOUS
  <1>a. /\ TypeOK /\ MovesOwnRows /\ DeletesAlone /\ WritesNewRows
        /\ Nobody \notin Products
    BY CatalogMergeAssumption DEF MergeInv
  <1>1. CASE UNCHANGED <<products, refers, writer>>
    BY <1>1, <1>a DEF WritesNewRows, Writing
  <1>2. ASSUME NEW m \in Mergers, CommitMerge(m) PROVE WritesNewRows'
    <2>1. /\ Deleting(m) /\ writer' = writer /\ products' = products \ {merge[m].from}
          /\ \A r \in Rows : refers'[r] = IF r \in merge[m].moved THEN merge[m].to ELSE refers[r]
      BY <1>2 DEF CommitMerge, Deleting
    <2>2. \A r \in Rows : refers[r] = Nobody => refers'[r] = Nobody
      BY <1>a, <2>1 DEF MovesOwnRows, Open, Deleting
    <2>3. \A w \in Writers : writer[w].pc = "inserted" => writer[w].product \in products'
      BY <1>a, <2>1 DEF DeletesAlone, WritesNewRows
    <2> QED BY <1>a, <2>1, <2>2, <2>3 DEF WritesNewRows, Writing
  <1>3. ASSUME NEW w \in Writers, NEW r \in Rows, NEW p \in Products, ReadProduct(w, r, p)
        PROVE  WritesNewRows'
    <2>1. /\ writer'[w] = [pc |-> "read", product |-> p, row |-> r]
          /\ \A v \in Writers \ {w} : writer'[v] = writer[v] /\ writer[v].row # r
          /\ refers' = refers /\ products' = products /\ refers[r] = Nobody
          /\ writer[w].pc = "idle" /\ writer[w].row # r
      BY <1>3, <1>a DEF ReadProduct, TypeOK, Writing
    <2> QED BY <1>a, <2>1 DEF WritesNewRows, Writing
  <1>4. ASSUME NEW w \in Writers, InsertRow(w) PROVE WritesNewRows'
    <2>1. /\ refers' = refers /\ products' = products
          /\ \A v \in Writers \ {w} : writer'[v] = writer[v]
          /\ \/ /\ writer'[w].pc = "inserted" /\ writer'[w].row = writer[w].row
                /\ writer'[w].product = writer[w].product /\ writer[w].product \in products
             \/ writer'[w] = NoWrite
          /\ writer[w].pc = "read"
      BY <1>4, <1>a DEF InsertRow, TypeOK, WriteTx
    <2> QED BY <1>a, <2>1 DEF WritesNewRows, Writing, NoWrite
  <1>5. ASSUME NEW w \in Writers, CommitRow(w) PROVE WritesNewRows'
    <2>1. /\ writer'[w] = NoWrite /\ products' = products /\ Writing(w)
          /\ \A v \in Writers \ {w} : writer'[v] = writer[v]
          /\ \A r \in Rows : r # writer[w].row => refers'[r] = refers[r]
      BY <1>5, <1>a DEF CommitRow, TypeOK, Writing
    <2> QED BY <1>a, <2>1 DEF WritesNewRows, Writing, NoWrite
  <1> QED BY <1>1, <1>2, <1>3, <1>4, <1>5
      DEF Next, vars, StartMerge, MoveRefs, DeleteProduct, DeadlockVictim

LEMMA RowsStep == MergeInv /\ [Next]_vars => HeirsStay' /\ RowsKept'
  <1> SUFFICES ASSUME MergeInv, [Next]_vars PROVE HeirsStay' /\ RowsKept'
    OBVIOUS
  <1>a. /\ TypeOK /\ MovesOwnRows /\ DeletesAlone /\ WritesNewRows /\ HeirsStay /\ RowsKept
        /\ Nobody \notin Products
    BY CatalogMergeAssumption DEF MergeInv
  <1>1. CASE UNCHANGED <<products, refers, meant, heir>>
    BY <1>1, <1>a DEF HeirsStay, RowsKept
  <1>2. ASSUME NEW m \in Mergers, CommitMerge(m) PROVE HeirsStay' /\ RowsKept'
    <2> DEFINE from == merge[m].from
               to   == merge[m].to
    <2>1. /\ Deleting(m) /\ meant' = meant /\ products' = products \ {from}
          /\ \A r \in Rows : refers'[r] = IF r \in merge[m].moved THEN to ELSE refers[r]
          /\ \A p \in Products : heir'[p] = IF heir[p] = from THEN to ELSE heir[p]
      BY <1>2 DEF CommitMerge, Deleting
    <2>2. from \in Products /\ to \in Products /\ from # to
      BY <1>a, <2>1 DEF MovesOwnRows, Open, Deleting
    <2>3. \A r \in Rows : r \in merge[m].moved <=> refers[r] = from
      BY <1>a, <2>1 DEF MovesOwnRows, DeletesAlone
    <2>4. merge[m].moved # {} => to \in products'
      BY <1>a, <2>1, <2>2 DEF MovesOwnRows
    <2> HIDE DEF from, to
    <2>5. HeirsStay'
      BY <1>a, <2>1 DEF HeirsStay, TypeOK
    <2>6. RowsKept'
      BY <1>a, <2>1, <2>2, <2>3, <2>4 DEF RowsKept
    <2> QED BY <2>5, <2>6
  <1>3. ASSUME NEW w \in Writers, CommitRow(w) PROVE HeirsStay' /\ RowsKept'
    <2> DEFINE x == writer[w].row
               p == writer[w].product
    <2>1. /\ x \in Rows /\ p \in products /\ p \in Products /\ heir' = heir /\ products' = products
          /\ \A r \in Rows : /\ refers'[r] = IF r = x THEN p ELSE refers[r]
                             /\ meant'[r] = IF r = x THEN p ELSE meant[r]
      BY <1>3, <1>a DEF CommitRow, TypeOK, WritesNewRows, Writing
    <2> HIDE DEF x, p
    <2> QED BY <1>a, <2>1 DEF HeirsStay, RowsKept
  <1> QED BY <1>1, <1>2, <1>3
      DEF Next, vars, StartMerge, MoveRefs, DeleteProduct, DeadlockVictim, ReadProduct, InsertRow

-----------------------------------------------------------------------------
LEMMA MergeInvariant == Spec => []MergeInv
  <1>1. Init => MergeInv
    <2> SUFFICES ASSUME Init PROVE MergeInv OBVIOUS
    <2>1. NoMerge \in MergeTx BY TablesLength DEF NoMerge, MergeTx
    <2>2. TypeOK BY <2>1 DEF Init, TypeOK, NoWrite, WriteTx
    <2>3. /\ \A m \in Mergers : merge[m].pc = "idle" /\ merge[m].moved = {}
          /\ \A w \in Writers : writer[w].pc = "idle" /\ writer[w].row = Nobody
      BY DEF Init, NoMerge, NoWrite
    <2>4. MovesOwnRows /\ DeletesAlone /\ WritesNewRows
      BY <2>3 DEF MovesOwnRows, DeletesAlone, WritesNewRows, Open, Deleting, Writing
    <2>5. HeirsStay /\ RowsKept BY DEF Init, HeirsStay, RowsKept
    <2> QED BY <2>2, <2>4, <2>5 DEF MergeInv
  <1>2. MergeInv /\ [Next]_vars => MergeInv'
    BY TypeStep, LocksStep, WritesStep, RowsStep DEF MergeInv
  <1> QED BY <1>1, <1>2, PTL DEF Spec

(* The products, rows and transactions are what the code has them to be. *)
THEOREM MergesTypeCorrect == Spec => []TypeOK
  <1>1. MergeInv => TypeOK BY DEF MergeInv
  <1> QED BY <1>1, MergeInvariant, PTL

(* However merges and writers overlap, a row is at the product it was       *)
(* written for or at the one this was merged into, and that product is      *)
(* there.                                                                   *)
THEOREM RowsFollow == Spec => []RowsFollowMerges
  <1>1. MergeInv => RowsFollowMerges BY DEF MergeInv, RowsKept, RowsFollowMerges
  <1> QED BY <1>1, MergeInvariant, PTL

-----------------------------------------------------------------------------
(* A merge that nobody overlaps *)

(* It is the only transaction, its products are there, and every row of its *)
(* product is moved or in a table it has yet to come to.                    *)
LoneMerges ==
  \A m \in Mergers : Open(m) /\ merge[m].alone =>
     /\ \A n \in Mergers \ {m} : ~Open(n)
     /\ \A w \in Writers : ~Writing(w)
     /\ merge[m].from \in products /\ merge[m].to \in products
     /\ \A r \in Rows : refers[r] = merge[m].from =>
          \/ r \in merge[m].moved
          \/ merge[m].pc = "move"
             /\ \E i \in 1..Len(Tables) : i >= merge[m].table /\ Tables[i] = TableOf[r]

LoneInv == MergeInv /\ LoneMerges

(* Every table that is written is one the merge goes through. *)
LEMMA AllTablesMoved ==
  \A t \in WrittenTables : \E i \in 1..Len(Tables) : Tables[i] = t
  BY DEF WrittenTables, Tables

(* Nobody makes a lone merge wait for its turn, or refuses it. *)
LEMMA LoneNotRefused ==
  ASSUME LoneInv, [Next]_vars, NEW m \in Mergers, Open(m), merge[m].alone, merge'[m].pc = "idle"
  PROVE  CommitMerge(m)
  <1>a. /\ TypeOK /\ MovesOwnRows
        /\ \A n \in Mergers \ {m} : ~Open(n)
        /\ \A w \in Writers : ~Writing(w)
        /\ merge[m].to \in products
        /\ merge[m].pc # "move" => \A r \in Rows : refers[r] = merge[m].from => r \in merge[m].moved
    BY DEF LoneInv, MergeInv, LoneMerges
  <1>1. merge'[m] # merge[m] /\ merge'[m].pc # merge[m].pc
    BY DEF Open
  <1>2. ASSUME NEW n \in Mergers, NEW p \in Products, NEW q \in Products, StartMerge(n, p, q)
        PROVE  FALSE
    <2>1. n # m BY <1>2 DEF StartMerge
    <2>2. merge'[m] = [merge[m] EXCEPT !.alone = merge[m].alone /\ ~Open(m)]
      BY <1>2, <2>1 DEF StartMerge
    <2>3. merge[m] \in MergeTx BY <1>a DEF TypeOK
    <2> QED BY <1>1, <2>2, <2>3 DEF MergeTx
  <1>3. ASSUME NEW n \in Mergers, MoveRefs(n) PROVE FALSE
    <2>1. CASE n = m
      <3>1. merge' = [merge EXCEPT
                ![m].moved = @ \cup Found(m), ![m].table = @ + 1,
                ![m].pc = IF merge[m].table = Len(Tables) THEN "delete" ELSE "move"]
        BY <1>3, <1>a, <2>1 DEF MoveRefs
      <3>2. merge'[m].pc \in {"delete", "move"} BY <1>a, <3>1 DEF TypeOK, MergeTx
      <3> QED BY <3>2
    <2>2. CASE n # m
      BY <1>3, <1>a, <2>2 DEF MoveRefs, Open
    <2> QED BY <2>1, <2>2
  <1>4. ASSUME NEW n \in Mergers, DeleteProduct(n) PROVE FALSE
    <2>1. CASE n = m
      <3>1. merge' = [merge EXCEPT ![m].pc = "commit"]
        BY <1>4, <1>a, <2>1 DEF DeleteProduct
      <3>2. merge'[m].pc = "commit" BY <1>a, <3>1 DEF TypeOK, MergeTx
      <3> QED BY <3>2
    <2>2. CASE n # m
      BY <1>4, <1>a, <2>2 DEF DeleteProduct, Open
    <2> QED BY <2>1, <2>2
  <1>5. ASSUME NEW n \in Mergers, DeadlockVictim(n) PROVE FALSE
    <2>1. PICK k \in Mergers \ {n} : n \in WaitsFor(k) /\ k \in WaitsFor(n)
      BY <1>5 DEF DeadlockVictim, Stuck
    <2>2. Open(n) /\ Open(k) BY <2>1 DEF WaitsFor, Open
    <2> QED BY <1>a, <2>1, <2>2
  <1>6. ASSUME NEW n \in Mergers, CommitMerge(n) PROVE n = m
    BY <1>6, <1>a DEF CommitMerge, Open
  <1>7. ASSUME NEW w \in Writers, NEW r \in Rows, NEW p \in Products, ReadProduct(w, r, p)
        PROVE  FALSE
    <2>1. merge'[m] = [merge[m] EXCEPT !.alone = merge[m].alone /\ ~Open(m)]
      BY <1>7 DEF ReadProduct
    <2>2. merge[m] \in MergeTx BY <1>a DEF TypeOK
    <2> QED BY <1>1, <2>1, <2>2 DEF MergeTx
  <1>8. ASSUME NEW w \in Writers, Write(w) PROVE FALSE
    BY <1>8, <1>1 DEF Write, InsertRow, CommitRow
  <1>9. CASE UNCHANGED vars BY <1>1, <1>9 DEF vars
  <1> QED BY <1>2, <1>3, <1>4, <1>5, <1>6, <1>7, <1>8, <1>9 DEF Next, Write

LEMMA LoneMergesStep == LoneInv /\ [Next]_vars => LoneMerges'
  <1> SUFFICES ASSUME LoneInv, [Next]_vars, NEW m \in Mergers, Open(m)', merge'[m].alone
               PROVE  /\ \A n \in Mergers \ {m} : ~Open(n)'
                      /\ \A w \in Writers : ~Writing(w)'
                      /\ merge'[m].from \in products' /\ merge'[m].to \in products'
                      /\ \A r \in Rows : refers'[r] = merge'[m].from =>
                           \/ r \in merge'[m].moved
                           \/ merge'[m].pc = "move"
                              /\ \E i \in 1..Len(Tables) :
                                    i >= merge'[m].table /\ Tables[i] = TableOf[r]
    BY DEF LoneMerges
  <1> DEFINE Lone == /\ \A n \in Mergers \ {m} : ~Open(n)'
                     /\ \A w \in Writers : ~Writing(w)'
                     /\ merge'[m].from \in products' /\ merge'[m].to \in products'
                     /\ \A r \in Rows : refers'[r] = merge'[m].from =>
                          \/ r \in merge'[m].moved
                          \/ merge'[m].pc = "move"
                             /\ \E i \in 1..Len(Tables) :
                                   i >= merge'[m].table /\ Tables[i] = TableOf[r]
  <1>a. TypeOK /\ MovesOwnRows /\ LoneMerges BY DEF LoneInv, MergeInv
  <1>1. CASE UNCHANGED vars
    BY <1>1, <1>a DEF vars, LoneMerges, Open, Writing
  <1>2. ASSUME NEW n \in Mergers, NEW p \in Products, NEW q \in Products, StartMerge(n, p, q)
        PROVE  Lone
    <2>1. CASE n = m
      <3>1. /\ merge'[m].from = p /\ merge'[m].to = q /\ merge'[m].table = 1
            /\ merge'[m].pc = "move" /\ p \in products /\ q \in products
            /\ (\A k \in Mergers : ~Open(k)) /\ (\A w \in Writers : ~Writing(w))
            /\ UNCHANGED <<products, writer, refers>>
        BY <1>2, <2>1 DEF StartMerge, NoMerge
      <3>2. \A k \in Mergers \ {m} : ~Open(k)'
        <4> TAKE k \in Mergers \ {m}
        <4>1. merge'[k] = [merge[k] EXCEPT !.alone = merge[k].alone /\ ~Open(k)]
          BY <1>2, <2>1 DEF StartMerge
        <4>2. merge[k] \in MergeTx /\ ~Open(k) BY <1>a, <3>1 DEF TypeOK
        <4> QED BY <4>1, <4>2 DEF MergeTx, Open
      <3>3. \A r \in Rows : \E i \in 1..Len(Tables) : i >= 1 /\ Tables[i] = TableOf[r]
        BY AllTablesMoved, TablesLength, CatalogMergeAssumption
      <3> QED BY <3>1, <3>2, <3>3 DEF Writing
    <2>2. CASE n # m
      <3>1. merge'[m] = [merge[m] EXCEPT !.alone = merge[m].alone /\ ~Open(m)]
        BY <1>2, <2>2 DEF StartMerge
      <3>2. merge[m] \in MergeTx BY <1>a DEF TypeOK
      <3>3. merge'[m].pc = merge[m].pc /\ merge'[m].alone = (merge[m].alone /\ ~Open(m))
        BY <3>1, <3>2 DEF MergeTx
      <3> QED BY <3>3 DEF Open
    <2> QED BY <2>1, <2>2
  <1>3. ASSUME NEW n \in Mergers, MoveRefs(n) PROVE Lone
    <2>1. CASE n = m
      <3>0. ~Undo(m) BY <1>a DEF Undo, NoMerge, Open, TypeOK
      <3>1. /\ merge' = [merge EXCEPT
                  ![m].moved = @ \cup Found(m), ![m].table = @ + 1,
                  ![m].pc = IF merge[m].table = Len(Tables) THEN "delete" ELSE "move"]
            /\ merge[m].pc = "move" /\ UNCHANGED <<products, refers, writer>>
        BY <1>3, <2>1, <3>0 DEF MoveRefs
      <3>2. /\ merge'[m].pc = IF merge[m].table = Len(Tables) THEN "delete" ELSE "move"
            /\ merge'[m].from = merge[m].from /\ merge'[m].to = merge[m].to
            /\ merge'[m].moved = merge[m].moved \cup Found(m)
            /\ merge'[m].table = merge[m].table + 1 /\ merge'[m].alone = merge[m].alone
            /\ \A k \in Mergers \ {m} : merge'[k] = merge[k]
        BY <1>a, <3>1 DEF TypeOK, MergeTx
      <3>3. /\ \A k \in Mergers \ {m} : ~Open(k)
            /\ \A w \in Writers : ~Writing(w)
            /\ merge[m].from \in products /\ merge[m].to \in products
            /\ \A r \in Rows : refers[r] = merge[m].from =>
                 \/ r \in merge[m].moved
                 \/ \E i \in 1..Len(Tables) : i >= merge[m].table /\ Tables[i] = TableOf[r]
        BY <1>a, <3>1, <3>2 DEF LoneMerges, Open
      <3>4. \A r \in Rows : refers[r] = merge[m].from =>
                 \/ r \in merge'[m].moved
                 \/ \E i \in 1..Len(Tables) : i >= merge[m].table + 1 /\ Tables[i] = TableOf[r]
        <4> SUFFICES ASSUME NEW r \in Rows, refers[r] = merge[m].from, r \notin merge'[m].moved
                     PROVE  \E i \in 1..Len(Tables) :
                               i >= merge[m].table + 1 /\ Tables[i] = TableOf[r]
          OBVIOUS
        <4>1. r \notin merge[m].moved /\ r \notin Found(m) BY <3>2
        <4>2. TableOf[r] # Tables[merge[m].table] BY <4>1 DEF Found
        <4>3. PICK i \in 1..Len(Tables) : i >= merge[m].table /\ Tables[i] = TableOf[r]
          BY <3>3, <4>1
        <4>4. i # merge[m].table BY <4>2, <4>3
        <4> QED BY <1>a, <4>3, <4>4, MergeParts, TablesLength
      <3>5. merge[m].table = Len(Tables) =>
              ~\E i \in 1..Len(Tables) : i >= merge[m].table + 1
        BY <1>a, MergeParts, TablesLength
      <3>6. merge'[m].pc = "move" \/ merge[m].table = Len(Tables) BY <3>2
      <3> HIDE <3>1
      <3> QED BY <1>3, <2>1, <3>2, <3>3, <3>4, <3>5, <3>6 DEF MoveRefs, Open, Writing
    <2>2. CASE n # m
      BY <1>3, <1>a, <2>2 DEF MoveRefs, LoneMerges, Open, Undo, TypeOK
    <2> QED BY <2>1, <2>2
  <1>4. ASSUME NEW n \in Mergers, DeleteProduct(n) PROVE Lone
    <2>1. CASE n = m
      <3>0. ~Undo(m) BY <1>a DEF Undo, NoMerge, Open, TypeOK
      <3>1. /\ merge' = [merge EXCEPT ![m].pc = "commit"] /\ merge[m].pc = "delete"
            /\ UNCHANGED <<products, refers, writer>>
        BY <1>4, <2>1, <3>0 DEF DeleteProduct
      <3>2. /\ merge'[m].from = merge[m].from /\ merge'[m].to = merge[m].to
            /\ merge'[m].moved = merge[m].moved /\ merge'[m].alone = merge[m].alone
            /\ \A k \in Mergers \ {m} : merge'[k] = merge[k]
        BY <1>a, <3>1 DEF TypeOK, MergeTx
      <3> QED BY <1>a, <3>1, <3>2 DEF LoneMerges, Open, Writing
    <2>2. CASE n # m
      BY <1>4, <1>a, <2>2 DEF DeleteProduct, LoneMerges, Open, Undo, TypeOK
    <2> QED BY <2>1, <2>2
  <1>5. ASSUME NEW n \in Mergers, CommitMerge(n) \/ DeadlockVictim(n) PROVE Lone
    <2>1. Undo(n) /\ (Open(n) \/ \E k \in Mergers \ {n} : n \in WaitsFor(k) /\ k \in WaitsFor(n))
      BY <1>5 DEF CommitMerge, DeadlockVictim, Stuck, Open
    <2>2. Open(n) BY <2>1 DEF WaitsFor, Open
    <2>3. n # m BY <1>a, <2>1 DEF Undo, NoMerge, Open, TypeOK
    <2>4. merge'[m] = merge[m] BY <1>a, <2>1, <2>3 DEF Undo, TypeOK
    <2> QED BY <1>a, <2>2, <2>3, <2>4 DEF LoneMerges, Open
  <1>6. ASSUME NEW w \in Writers, NEW r \in Rows, NEW p \in Products, ReadProduct(w, r, p)
        PROVE  Lone
    <2>1. merge'[m] = [merge[m] EXCEPT !.alone = merge[m].alone /\ ~Open(m)]
      BY <1>6 DEF ReadProduct
    <2>2. merge[m] \in MergeTx BY <1>a DEF TypeOK
    <2>3. merge'[m].pc = merge[m].pc /\ merge'[m].alone = (merge[m].alone /\ ~Open(m))
      BY <2>1, <2>2 DEF MergeTx
    <2> QED BY <2>3 DEF Open
  <1>7. ASSUME NEW w \in Writers, Write(w) PROVE Lone
    <2>1. merge' = merge /\ Writing(w) BY <1>7 DEF Write, InsertRow, CommitRow, Writing
    <2> QED BY <1>a, <2>1 DEF LoneMerges, Open
  <1> QED BY <1>1, <1>2, <1>3, <1>4, <1>5, <1>6, <1>7 DEF Next, Write

(* A merge that nobody overlapped is not refused.                           *)
THEOREM LoneMergesSucceed == Spec => LoneMergeSucceeds
  <1>1. Init => LoneMerges BY DEF Init, LoneMerges, Open, NoMerge
  <1>2. MergeInv /\ LoneMerges /\ [Next]_vars => LoneMerges'
    BY LoneMergesStep DEF LoneInv
  <1>3. ASSUME MergeInv, LoneMerges, [Next]_vars, NEW m \in Mergers, merge[m].alone, Open(m),
               merge'[m].pc = "idle"
        PROVE  merge[m].pc = "commit"
    BY <1>3, LoneNotRefused DEF LoneInv, CommitMerge
  <1>4. MergeInv /\ LoneMerges /\ [Next]_vars =>
          [\A m \in Mergers : merge[m].alone /\ Open(m) /\ merge'[m].pc = "idle"
              => merge[m].pc = "commit"]_vars
    BY <1>3
  <1> QED BY <1>1, <1>2, <1>4, MergeInvariant, PTL DEF Spec, LoneMergeSucceeds

-----------------------------------------------------------------------------
(* Numbers *)

(* A finite set of numbers has a greatest one. *)
LEMMA GreatestOne ==
  ASSUME NEW S \in SUBSET Nat, IsFiniteSet(S), S # {}
  PROVE  Max(S) \in S /\ \A j \in S : j =< Max(S)
  <1> DEFINE R == StrictSubsetOrdering(S)
             F == FiniteSubsetsOf(S)
             From(i) == {j \in S : i =< j}
             T == {From(i) : i \in S}
  <1>1. F = SUBSET S BY FS_FiniteSubsetsOfFinite
  <1>2. T # {} /\ T \subseteq F
    <2>1. \A i \in S : From(i) \in SUBSET S OBVIOUS
    <2> HIDE DEF From, F
    <2> QED BY <1>1, <2>1
  <1>3. IsWellFoundedOn(R, F) BY FS_StrictSubsetOrderingWellFounded
  <1>4. \A Y, X \in SUBSET S : Y # X /\ Y \subseteq X => <<Y, X>> \in R
    BY DEF StrictSubsetOrdering
  <1> HIDE DEF R, F, T
  <1>5. PICK X \in T : \A Y \in T : ~(<<Y, X>> \in R) BY <1>2, <1>3, WFMin
  <1>6. PICK i \in S : X = From(i) BY <1>5 DEF T
  <1>7. ASSUME NEW j \in S, i < j PROVE FALSE
    <2>1. From(j) \in T BY DEF T
    <2>2. i \in Nat /\ j \in Nat /\ S \subseteq Nat OBVIOUS
    <2>3. From(j) \subseteq From(i) /\ i \in From(i) /\ i \notin From(j)
      <3>1. \A x, y, z \in Nat : /\ x < y /\ y =< z => x =< z
                                 /\ x =< x /\ (x < y => ~(y =< x))
        OBVIOUS
      <3>2. From(j) \subseteq From(i) BY <1>7, <2>2, <3>1
      <3> QED BY <1>7, <2>2, <3>1, <3>2
    <2>4. From(i) \in SUBSET S /\ From(j) \in SUBSET S OBVIOUS
    <2> HIDE DEF From
    <2> QED BY <1>4, <1>5, <1>6, <2>1, <2>3, <2>4
  <1>8. i \in S /\ \A j \in S : j =< i BY <1>7
  <1> QED BY <1>8 DEF Max

LEMMA RateType ==
  ASSUME NEW q \in Int, Acceptable(q)
  PROVE  RateOf(q) \in Nat /\ RateOf(q) # 0
  <1>1. q > 0 /\ RateOf(q) > 0 BY DEF Acceptable
  <1>2. Scale \in Nat BY FxRatesAssumption
  <1>3. RateOf(q) \in Int BY <1>1, <1>2 DEF RateOf
  <1> QED BY <1>1, <1>3

-----------------------------------------------------------------------------
(* Jobs *)

(* The currencies a job is through with, and the rates it has for them.     *)
Passed(t) == {n \in 1..(t.at - 1) : Wanted[n] # "EUR" /\ t.fetch.quotes[Wanted[n]] # None}

RateRow(t, n) == <<Wanted[n], t.fetch.day, RateOf(t.fetch.quotes[Wanted[n]])>>

RateRows   == Currencies \X Days \X Nat
JobRecords == [pc: {"idle", "select", "write"}, fetch: Fetches \cup {None}, at: Nat,
               saw: BOOLEAN, wrote: SUBSET RateRows]

(* A job has written the rates of its fetch, of every currency it has come  *)
(* to, and of no other.                                                     *)
JobOK(t) ==
  /\ t \in JobRecords
  /\ t.pc = "idle" => t = NoJob
  /\ t.pc # "idle" =>
       /\ t.fetch \in Fetches /\ t.at \in 1..(Len(Wanted) + 1)
       /\ t.wrote = {RateRow(t, n) : n \in Passed(t)}
       /\ \A n \in Passed(t) : Acceptable(t.fetch.quotes[Wanted[n]])
  /\ t.pc = "write" =>
       /\ t.at \in 1..Len(Wanted) /\ Wanted[t.at] # "EUR"
       /\ t.fetch.quotes[Wanted[t.at]] # None /\ Acceptable(t.fetch.quotes[Wanted[t.at]])

SyncType == [currency: Currencies \cup {None}, price: Days \cup {None}, old: Days \cup {None}]

TypeInv ==
  /\ rates \in [Currencies -> [Days -> Nat]]
  /\ job \in [Jobs -> JobRecords] /\ \A j \in Jobs : JobOK(job[j])
  /\ sync \in [Syncs -> SyncType]
  /\ \A s \in Syncs : sync[s].price # None => sync[s].currency \in Currencies
  /\ done \in Seq(Fetches)

LEMMA FetchType ==
  ASSUME NEW f \in Fetches
  PROVE  f.day \in Days /\ f.quotes \in [Currencies -> Int \cup {None}]
  BY FxRatesAssumption

LEMMA WantedType ==
  /\ Len(Wanted) \in Nat /\ DOMAIN Wanted = 1..Len(Wanted)
  /\ \A n \in 1..Len(Wanted) : Wanted[n] \in Currencies
  BY FxRatesAssumption

LEMMA IdleOK == JobOK(NoJob)
  BY DEF JobOK, NoJob, JobRecords

(* Mapped to the row it stands for, a rate is that of its fetch. *)
LEMMA RowsApart ==
  ASSUME NEW t, JobOK(t), t.pc # "idle", NEW u \in t.wrote, NEW v \in t.wrote, u[1] = v[1]
  PROVE  u = v
  BY DEF JobOK, RateRow

LEMMA ReadyType ==
  ASSUME TypeInv, NEW j \in Jobs, job[j].pc # "idle", ~Ended(j)
  PROVE  /\ job[j].fetch \in Fetches /\ job[j].at \in 1..Len(Wanted)
         /\ Currency(j) = Wanted[job[j].at] /\ Currency(j) \in Currencies
         /\ Quote(j) = job[j].fetch.quotes[Currency(j)] /\ Quote(j) \in Int \cup {None}
  <1>1. JobOK(job[j]) BY DEF TypeInv
  <1>2. job[j].fetch \in Fetches /\ job[j].at \in 1..(Len(Wanted) + 1) BY <1>1 DEF JobOK
  <1>3. job[j].at \in 1..Len(Wanted) BY <1>2, WantedType DEF Ended
  <1> QED BY <1>2, <1>3, WantedType, FetchType DEF Currency, Quote

(* A job that goes on to the next currency. *)
Gone(t, wrote) == NextCurrency([t EXCEPT !.wrote = wrote])

LEMMA NextFields ==
  ASSUME NEW wrote \in SUBSET RateRows, NEW t \in JobRecords
  PROVE  /\ Gone(t, wrote) \in JobRecords
         /\ Gone(t, wrote).pc = "select" /\ Gone(t, wrote).fetch = t.fetch
         /\ Gone(t, wrote).at = t.at + 1 /\ Gone(t, wrote).wrote = wrote
  <1> DEFINE v == [t EXCEPT !.wrote = wrote]
  <1>1. v \in JobRecords /\ v.fetch = t.fetch /\ v.at = t.at /\ v.wrote = wrote BY DEF JobRecords
  <1>2. Gone(t, wrote) = NextCurrency(v) BY DEF Gone
  <1> HIDE DEF v
  <1>3. v.at + 1 \in Nat BY <1>1 DEF JobRecords
  <1>4. NextCurrency(v) \in JobRecords BY <1>1, <1>3 DEF NextCurrency, JobRecords
  <1>5. /\ NextCurrency(v).pc = "select" /\ NextCurrency(v).fetch = v.fetch
        /\ NextCurrency(v).at = v.at + 1 /\ NextCurrency(v).wrote = v.wrote
    BY <1>1 DEF NextCurrency, JobRecords
  <1> QED BY <1>1, <1>2, <1>4, <1>5

(* A currency is passed over, or its rate is written. *)
LEMMA NextOK ==
  ASSUME NEW t, JobOK(t), t.pc # "idle", t.at \in 1..Len(Wanted), NEW wrote,
         LET c == Wanted[t.at] IN
           IF c = "EUR" \/ t.fetch.quotes[c] = None THEN wrote = t.wrote
           ELSE Acceptable(t.fetch.quotes[c]) /\ wrote = t.wrote \cup {RateRow(t, t.at)}
  PROVE  JobOK(Gone(t, wrote))
  <1> DEFINE u == Gone(t, wrote)
             c == Wanted[t.at]
  <1>1. /\ t.fetch \in Fetches /\ t.at \in Nat
        /\ t.wrote = {RateRow(t, n) : n \in Passed(t)} /\ t.wrote \subseteq RateRows
        /\ \A n \in Passed(t) : Acceptable(t.fetch.quotes[Wanted[n]])
        /\ t \in JobRecords
    BY DEF JobOK, JobRecords
  <1>2. c \in Currencies /\ t.fetch.day \in Days /\ t.fetch.quotes[c] \in Int \cup {None}
    BY <1>1, WantedType, FetchType
  <1>3. wrote \in SUBSET RateRows
    <2>1. CASE c = "EUR" \/ t.fetch.quotes[c] = None BY <1>1, <2>1
    <2>2. CASE ~(c = "EUR" \/ t.fetch.quotes[c] = None)
      <3>1. RateOf(t.fetch.quotes[c]) \in Nat BY <1>2, <2>2, RateType
      <3> QED BY <1>1, <1>2, <2>2, <3>1 DEF RateRow, RateRows
    <2> QED BY <2>1, <2>2
  <1>4. /\ u \in JobRecords
        /\ u.pc = "select" /\ u.fetch = t.fetch /\ u.at = t.at + 1 /\ u.wrote = wrote
    BY <1>1, <1>3, NextFields
  <1> HIDE DEF u
  <1>5. \A n : RateRow(u, n) = RateRow(t, n) BY <1>4 DEF RateRow
  <1>6. Passed(u) = Passed(t) \cup
          (IF c = "EUR" \/ t.fetch.quotes[c] = None THEN {} ELSE {t.at})
    BY <1>1, <1>4 DEF Passed
  <1> HIDE DEF c
  <1>7. wrote = {RateRow(u, n) : n \in Passed(u)}
    <2>1. CASE c = "EUR" \/ t.fetch.quotes[c] = None BY <1>1, <1>5, <1>6, <2>1 DEF c
    <2>2. CASE ~(c = "EUR" \/ t.fetch.quotes[c] = None) BY <1>1, <1>5, <1>6, <2>2 DEF c
    <2> QED BY <2>1, <2>2
  <1>8. \A n \in Passed(u) : Acceptable(u.fetch.quotes[Wanted[n]])
    BY <1>1, <1>4, <1>6 DEF c
  <1>9. u.at \in 1..(Len(Wanted) + 1) BY <1>4, WantedType
  <1> QED BY <1>1, <1>4, <1>7, <1>8, <1>9 DEF JobOK, u

(* A job that commits: every currency it had a quote for has its rate. *)
LEMMA WrittenType ==
  ASSUME TypeInv, NEW j \in Jobs, Ended(j)
  PROVE  /\ Written(job[j]) \in [Currencies -> [Days -> Nat]]
         /\ \A c \in Currencies, d \in Days : Written(job[j])[c][d] =
              IF d = job[j].fetch.day /\ c \in Quoted(job[j].fetch)
              THEN RateOf(job[j].fetch.quotes[c]) ELSE rates[c][d]
         /\ \A c \in Quoted(job[j].fetch) : RateOf(job[j].fetch.quotes[c]) \in Nat \ {0}
  <1> DEFINE t == job[j]
             f == t.fetch
  <1>1. JobOK(t) /\ t.pc # "idle" /\ t.at > Len(Wanted) BY DEF TypeInv, Ended
  <1>2. /\ f \in Fetches /\ t.at = Len(Wanted) + 1
        /\ t.wrote = {RateRow(t, n) : n \in Passed(t)} /\ t.wrote \subseteq RateRows
        /\ \A n \in Passed(t) : Acceptable(f.quotes[Wanted[n]])
    BY <1>1, WantedType DEF JobOK, JobRecords
  <1>3. f.day \in Days /\ f.quotes \in [Currencies -> Int \cup {None}] BY <1>2, FetchType
  <1>4. Passed(t) = {n \in DOMAIN Wanted : Wanted[n] # "EUR" /\ f.quotes[Wanted[n]] # None}
    BY <1>2, WantedType DEF Passed
  <1>5. Quoted(f) = {Wanted[n] : n \in Passed(t)}
    BY <1>4, WantedType DEF Quoted
  <1>6. t.wrote = {<<c, f.day, RateOf(f.quotes[c])>> : c \in Quoted(f)}
    BY <1>2, <1>5 DEF RateRow
  <1>7. \A c \in Quoted(f) : RateOf(f.quotes[c]) \in Nat \ {0}
    <2> SUFFICES ASSUME NEW c \in Quoted(f) PROVE RateOf(f.quotes[c]) \in Nat \ {0} OBVIOUS
    <2>1. Acceptable(f.quotes[c]) BY <1>2, <1>5
    <2>2. f.quotes[c] \in Int BY <1>3 DEF Quoted
    <2> QED BY <2>1, <2>2, RateType
  <1>8. ASSUME NEW c \in Currencies, NEW d \in Days
        PROVE  Written(t)[c][d] = IF d = f.day /\ c \in Quoted(f)
                                  THEN RateOf(f.quotes[c]) ELSE rates[c][d]
    <2>1. Written(t)[c][d] = IF \E w \in t.wrote : w[1] = c /\ w[2] = d
            THEN (CHOOSE w \in t.wrote : w[1] = c /\ w[2] = d)[3] ELSE rates[c][d]
      BY DEF Written
    <2>2. CASE d = f.day /\ c \in Quoted(f)
      <3> DEFINE x == <<c, d, RateOf(f.quotes[c])>>
      <3>1. x \in t.wrote /\ x[1] = c /\ x[2] = d /\ x[3] = RateOf(f.quotes[c]) BY <1>6, <2>2
      <3>2. \A w \in t.wrote : w[1] = c /\ w[2] = d => w = x BY <1>6, <2>2
      <3> HIDE DEF x, t, f
      <3>3. (CHOOSE w \in t.wrote : w[1] = c /\ w[2] = d) = x BY <3>1, <3>2
      <3> QED BY <2>1, <2>2, <3>1, <3>3
    <2>3. CASE ~(d = f.day /\ c \in Quoted(f))
      <3>1. ~\E w \in t.wrote : w[1] = c /\ w[2] = d BY <1>6, <2>3
      <3> HIDE DEF t, f
      <3> QED BY <2>1, <2>3, <3>1
    <2> QED BY <2>2, <2>3
  <1>9. \A c \in Currencies, d \in Days : Written(t)[c][d] \in Nat BY <1>7, <1>8 DEF TypeInv
  <1>10. Written(t) \in [Currencies -> [Days -> Nat]] BY <1>9 DEF Written
  <1> HIDE DEF t, f
  <1> QED BY <1>7, <1>8, <1>10 DEF t, f

-----------------------------------------------------------------------------
(* Steps *)

(* A job does what leaves it as it should be, the others nothing. *)
LEMMA JobStep ==
  ASSUME TypeInv, NEW j \in Jobs, NEW t, JobOK(t), job' = [job EXCEPT ![j] = t]
  PROVE  job' \in [Jobs -> JobRecords] /\ \A k \in Jobs : JobOK(job'[k])
  <1>1. t \in JobRecords BY DEF JobOK
  <1>2. \A k \in Jobs : job'[k] = IF k = j THEN t ELSE job[k] BY DEF TypeInv
  <1>3. \A k \in Jobs : JobOK(job'[k]) BY <1>2 DEF TypeInv
  <1> QED BY <1>1, <1>3 DEF TypeInv

LEMMA StartOK ==
  ASSUME NEW f \in Fetches
  PROVE  JobOK([NoJob EXCEPT !.pc = "select", !.fetch = f, !.at = 1])
  <1> DEFINE t == [NoJob EXCEPT !.pc = "select", !.fetch = f, !.at = 1]
  <1>1. /\ t \in JobRecords
        /\ t.pc = "select" /\ t.fetch = f /\ t.at = 1 /\ t.wrote = {}
    BY DEF NoJob, JobRecords
  <1> HIDE DEF t
  <1>2. Passed(t) = {} BY <1>1 DEF Passed
  <1> QED BY <1>1, <1>2, WantedType DEF JobOK, t

(* What SelectRate and WriteRate leave of a job. *)
LEMMA SelectStep ==
  ASSUME TypeInv, NEW j \in Jobs, SelectRate(j)
  PROVE  \E t : /\ JobOK(t) /\ job' = [job EXCEPT ![j] = t]
                /\ \/ t = NoJob
                   \/ t.fetch = job[j].fetch /\ t.wrote = job[j].wrote
  <1> DEFINE t == job[j]
             on == Gone(t, t.wrote)
             saw == Here(j) # 0 \/ Row(j) \in RowsOf(job[j])
             wait == [t EXCEPT !.pc = "write", !.saw = saw]
  <1>1. JobOK(t) /\ t \in JobRecords /\ t.pc = "select" /\ t.pc # "idle" /\ ~Ended(j)
    BY DEF TypeInv, SelectRate
  <1>2. /\ t.fetch \in Fetches /\ t.at \in 1..Len(Wanted) /\ Currency(j) = Wanted[t.at]
        /\ Quote(j) = t.fetch.quotes[Wanted[t.at]]
    BY <1>1, ReadyType
  <1>3. /\ [t EXCEPT !.wrote = t.wrote] = t
        /\ on = NextCurrency(t)
    <2>1. [t EXCEPT !.wrote = t.wrote] = t BY <1>1 DEF JobRecords
    <2> QED BY <2>1 DEF Gone
  <1>4. CASE Currency(j) = "EUR" \/ Quote(j) = None
    <2>1. t.wrote \in SUBSET RateRows BY <1>1 DEF JobRecords
    <2>2. JobOK(on) BY <1>1, <1>2, <1>4, <2>1, NextOK
    <2>3. on.fetch = t.fetch /\ on.wrote = t.wrote /\ on.at = t.at + 1 BY <1>1, <2>1, NextFields
    <2>4. job' = [job EXCEPT ![j] = on] BY <1>3, <1>4 DEF SelectRate
    <2> QED BY <1>2, <2>2, <2>3, <2>4
  <1>5. CASE ~(Currency(j) = "EUR" \/ Quote(j) = None) /\ ~Acceptable(Quote(j))
    <2>1. job' = [job EXCEPT ![j] = NoJob] BY <1>5 DEF SelectRate
    <2> QED BY <2>1, IdleOK
  <1>6. CASE ~(Currency(j) = "EUR" \/ Quote(j) = None) /\ Acceptable(Quote(j))
    <2>1. job' = [job EXCEPT ![j] = wait] BY <1>6 DEF SelectRate
    <2>2. saw \in BOOLEAN OBVIOUS
    <2> HIDE DEF saw
    <2>3. /\ wait \in JobRecords /\ wait.pc = "write" /\ wait.fetch = t.fetch
          /\ wait.at = t.at /\ wait.wrote = t.wrote
      BY <1>1, <2>2 DEF JobRecords
    <2> HIDE DEF wait
    <2>4. Passed(wait) = Passed(t) /\ \A n : RateRow(wait, n) = RateRow(t, n)
      BY <2>3 DEF Passed, RateRow
    <2>5. JobOK(wait) BY <1>1, <1>2, <1>6, <2>3, <2>4 DEF JobOK
    <2> QED BY <1>2, <2>1, <2>3, <2>5
  <1> QED BY <1>4, <1>5, <1>6

LEMMA WriteStep ==
  ASSUME TypeInv, NEW j \in Jobs, WriteRate(j)
  PROVE  \E t : /\ JobOK(t) /\ job' = [job EXCEPT ![j] = t]
                /\ \/ t = NoJob
                   \/ /\ t.fetch = job[j].fetch
                      /\ t.wrote = job[j].wrote \cup {RateRow(job[j], job[j].at)}
  <1> DEFINE t == job[j]
             new == {w \in t.wrote : <<w[1], w[2]>> # Row(j)}
                       \cup {<<Currency(j), t.fetch.day, RateOf(Quote(j))>>}
             on == Gone(t, new)
  <1>1. JobOK(t) /\ t \in JobRecords /\ t.pc = "write" /\ t.pc # "idle" BY DEF TypeInv, WriteRate
  <1>2. /\ t.fetch \in Fetches /\ t.at \in 1..Len(Wanted) /\ Wanted[t.at] # "EUR"
        /\ t.fetch.quotes[Wanted[t.at]] # None /\ Acceptable(t.fetch.quotes[Wanted[t.at]])
        /\ t.wrote = {RateRow(t, n) : n \in Passed(t)} /\ t.wrote \in SUBSET RateRows
    BY <1>1 DEF JobOK, JobRecords
  <1>3. <<Currency(j), t.fetch.day, RateOf(Quote(j))>> = RateRow(t, t.at)
    BY DEF Currency, Quote, RateRow
  <1>4. \A w \in t.wrote : <<w[1], w[2]>> = Row(j) => w = RateRow(t, t.at)
    BY <1>2 DEF Row, RateRow, Currency
  <1>5. new = t.wrote \cup {RateRow(t, t.at)} BY <1>3, <1>4
  <1>6. job' = [job EXCEPT ![j] = NoJob] \/ job' = [job EXCEPT ![j] = on]
    <2>1. job' = [job EXCEPT ![j] = IF ~t.saw /\ Here(j) # 0 THEN NoJob
                                    ELSE NextCurrency([t EXCEPT !.wrote = new])]
      BY DEF WriteRate
    <2> QED BY <2>1, Zenon DEF Gone
  <1> HIDE DEF new
  <1>7. JobOK(on) BY <1>1, <1>2, <1>5, NextOK
  <1>8. new \in SUBSET RateRows
    <2>1. RateRow(t, t.at) \in RateRows
      <3>1. Wanted[t.at] \in Currencies /\ t.fetch.day \in Days
            /\ t.fetch.quotes[Wanted[t.at]] \in Int
        BY <1>2, WantedType, FetchType
      <3> QED BY <1>2, <3>1, RateType DEF RateRow, RateRows
    <2> QED BY <1>2, <1>5, <2>1
  <1>9. on.fetch = t.fetch /\ on.wrote = new BY <1>1, <1>8, NextFields
  <1> QED BY <1>5, <1>6, <1>7, <1>9, IdleOK

LEMMA LatestType ==
  ASSUME TypeInv, NEW c \in Currencies, NEW d \in Days, rates[c][d] # 0
  PROVE  Latest(c) \in Days /\ rates[c][Latest(c)] # 0 /\ d =< Latest(c)
  <1> DEFINE S == {e \in Days : rates[c][e] # 0}
  <1>1. S \in SUBSET Nat /\ IsFiniteSet(S) /\ S # {} /\ d \in S
    BY FxRatesAssumption, FS_Subset
  <1> HIDE DEF S
  <1>2. Max(S) \in S /\ d =< Max(S) BY <1>1, GreatestOne
  <1>3. Latest(c) = Max(S) BY DEF Latest, S
  <1> QED BY <1>2, <1>3 DEF S

(* What a sync has converted with is still there, and the second rate is not *)
(* older than the first.                                                     *)
MovesInv ==
  \A s \in Syncs :
    /\ sync[s].price # None => rates[sync[s].currency][sync[s].price] # 0
    /\ sync[s].old # None => sync[s].price # None /\ sync[s].price =< sync[s].old

LEMMA TypeNext == TypeInv /\ MovesInv /\ [RatesNext]_ratesVars => TypeInv'
  <1> SUFFICES ASSUME TypeInv, MovesInv, [RatesNext]_ratesVars PROVE TypeInv' OBVIOUS
  <1>1. ASSUME NEW j \in Jobs, NEW f \in Fetches, StartJob(j, f) PROVE TypeInv'
    BY <1>1, StartOK, JobStep DEF StartJob, TypeInv
  <1>2. ASSUME NEW j \in Jobs, SelectRate(j) PROVE TypeInv'
    <2>1. UNCHANGED <<rates, sync, done>> BY <1>2 DEF SelectRate
    <2> QED BY <1>2, <2>1, SelectStep, JobStep DEF TypeInv
  <1>3. ASSUME NEW j \in Jobs, WriteRate(j) PROVE TypeInv'
    <2>1. UNCHANGED <<rates, sync, done>> BY <1>3 DEF WriteRate
    <2> QED BY <1>3, <2>1, WriteStep, JobStep DEF TypeInv
  <1>4. ASSUME NEW j \in Jobs, CommitJob(j) PROVE TypeInv'
    <2>1. job[j].fetch \in Fetches BY <1>4 DEF CommitJob, Ended, TypeInv, JobOK
    <2>2. rates' \in [Currencies -> [Days -> Nat]] BY <1>4, WrittenType DEF CommitJob
    <2>3. done' \in Seq(Fetches) BY <1>4, <2>1 DEF CommitJob, TypeInv
    <2>4. job' = [job EXCEPT ![j] = NoJob] /\ sync' = sync BY <1>4 DEF CommitJob
    <2> QED BY <2>2, <2>3, <2>4, JobStep, IdleOK DEF TypeInv
  <1>5. ASSUME NEW c \in Currencies, NEW d \in Days, AdminCreate(c, d) PROVE TypeInv'
    <2>1. Manual \in Nat BY FxRatesAssumption
    <2> QED BY <1>5, <2>1 DEF AdminCreate, TypeInv
  <1>6. ASSUME NEW s \in Syncs, NEW v \in SyncType, v.price # None => v.currency \in Currencies,
               sync' = [sync EXCEPT ![s] = v], UNCHANGED <<rates, job, done>>
        PROVE  TypeInv'
    <2>1. sync' \in [Syncs -> SyncType] BY <1>6 DEF TypeInv
    <2>2. \A r \in Syncs : sync'[r] = IF r = s THEN v ELSE sync[r] BY <1>6 DEF TypeInv
    <2> QED BY <1>6, <2>1, <2>2 DEF TypeInv
  <1>7. ASSUME NEW s \in Syncs, NEW c \in Currencies, ConvertPrice(s, c) PROVE TypeInv'
    <2>1. Latest(c) \in Days BY <1>7, LatestType DEF ConvertPrice
    <2>2. [NoSync EXCEPT !.currency = c, !.price = Latest(c)] \in SyncType
      BY <2>1 DEF SyncType, NoSync
    <2>3. [NoSync EXCEPT !.currency = c, !.price = Latest(c)].currency = c BY DEF NoSync
    <2> QED BY <1>6, <1>7, <2>2, <2>3 DEF ConvertPrice
  <1>8. ASSUME NEW s \in Syncs, ConvertOldPrice(s) PROVE TypeInv'
    <2> DEFINE v == [sync[s] EXCEPT !.old = Latest(sync[s].currency)]
    <2>1. Latest(sync[s].currency) \in Days
      <3>1. /\ sync[s].currency \in Currencies /\ sync[s].price \in Days
            /\ rates[sync[s].currency][sync[s].price] # 0
        BY <1>8 DEF ConvertOldPrice, TypeInv, MovesInv, SyncType
      <3> QED BY <3>1, LatestType
    <2>2. v \in SyncType /\ v.price = sync[s].price /\ v.currency = sync[s].currency
      BY <2>1 DEF SyncType, TypeInv
    <2>3. sync' = [sync EXCEPT ![s] = v] /\ UNCHANGED <<rates, job, done>>
      BY <1>8 DEF ConvertOldPrice
    <2> HIDE DEF v
    <2> QED BY <1>6, <2>2, <2>3 DEF TypeInv
  <1>9. ASSUME NEW s \in Syncs, NextOffer(s) PROVE TypeInv'
    <2>1. NoSync \in SyncType /\ NoSync.price = None BY DEF NoSync, SyncType
    <2> QED BY <1>6, <1>9, <2>1 DEF NextOffer
  <1>10. CASE UNCHANGED ratesVars BY <1>10 DEF TypeInv, ratesVars
  <1> QED BY <1>1, <1>2, <1>3, <1>4, <1>5, <1>7, <1>8, <1>9, <1>10 DEF RatesNext

(* Rates change, but a rate that is there is never taken away. *)
LEMMA RatesStay ==
  ASSUME TypeInv, [RatesNext]_ratesVars, NEW c \in Currencies, NEW d \in Days, rates[c][d] # 0
  PROVE  rates'[c][d] # 0
  <1>1. ASSUME NEW j \in Jobs, CommitJob(j) PROVE rates'[c][d] # 0
    BY <1>1, WrittenType DEF CommitJob
  <1>2. ASSUME NEW b \in Currencies, NEW e \in Days, AdminCreate(b, e) PROVE rates'[c][d] # 0
    BY <1>2 DEF AdminCreate, TypeInv
  <1>3. CASE UNCHANGED rates BY <1>3
  <1> QED BY <1>1, <1>2, <1>3 DEF RatesNext, ratesVars, StartJob, SelectRate, WriteRate,
        ConvertPrice, ConvertOldPrice, NextOffer

LEMMA MovesNext == TypeInv /\ MovesInv /\ [RatesNext]_ratesVars => MovesInv'
  <1> SUFFICES ASSUME TypeInv, MovesInv, [RatesNext]_ratesVars PROVE MovesInv' OBVIOUS
  <1>1. ASSUME UNCHANGED sync PROVE MovesInv'
    <2> SUFFICES ASSUME NEW s \in Syncs, sync[s].price # None
                 PROVE  rates'[sync[s].currency][sync[s].price] # 0
      BY <1>1 DEF MovesInv
    <2>1. sync[s].currency \in Currencies /\ sync[s].price \in Days BY DEF TypeInv, SyncType
    <2> QED BY <2>1, RatesStay DEF MovesInv
  <1>2. ASSUME NEW s \in Syncs, NEW v, sync' = [sync EXCEPT ![s] = v], rates' = rates,
               v.price # None => rates[v.currency][v.price] # 0,
               v.old # None => v.price # None /\ v.price =< v.old
        PROVE  MovesInv'
    <2>1. \A r \in Syncs : sync'[r] = IF r = s THEN v ELSE sync[r] BY <1>2 DEF TypeInv
    <2> QED BY <1>2, <2>1 DEF MovesInv
  <1>3. ASSUME NEW s \in Syncs, NEW c \in Currencies, ConvertPrice(s, c) PROVE MovesInv'
    <2> DEFINE v == [NoSync EXCEPT !.currency = c, !.price = Latest(c)]
    <2>1. rates[c][Latest(c)] # 0 BY <1>3, LatestType DEF ConvertPrice
    <2>2. v.currency = c /\ v.price = Latest(c) /\ v.old = None BY DEF NoSync
    <2>3. sync' = [sync EXCEPT ![s] = v] /\ rates' = rates BY <1>3 DEF ConvertPrice
    <2> HIDE DEF v
    <2> QED BY <1>2, <2>1, <2>2, <2>3
  <1>4. ASSUME NEW s \in Syncs, ConvertOldPrice(s) PROVE MovesInv'
    <2> DEFINE c == sync[s].currency
               v == [sync[s] EXCEPT !.old = Latest(c)]
    <2>1. /\ c \in Currencies /\ sync[s].price \in Days /\ sync[s].price # None
          /\ rates[c][sync[s].price] # 0
      BY <1>4 DEF ConvertOldPrice, TypeInv, MovesInv, SyncType
    <2>2. sync[s].price =< Latest(c) BY <2>1, LatestType
    <2>3. v.currency = c /\ v.price = sync[s].price /\ v.old = Latest(c)
      BY DEF TypeInv, SyncType
    <2>4. sync' = [sync EXCEPT ![s] = v] /\ rates' = rates BY <1>4 DEF ConvertOldPrice
    <2> HIDE DEF c, v
    <2> QED BY <1>2, <2>1, <2>2, <2>3, <2>4
  <1>5. ASSUME NEW s \in Syncs, NextOffer(s) PROVE MovesInv'
    <2>1. NoSync.price = None /\ NoSync.old = None BY DEF NoSync
    <2>2. sync' = [sync EXCEPT ![s] = NoSync] /\ rates' = rates BY <1>5 DEF NextOffer
    <2> QED BY <1>2, <2>1, <2>2
  <1> QED BY <1>1, <1>3, <1>4, <1>5 DEF RatesNext, ratesVars, StartJob, SelectRate, WriteRate,
        CommitJob, AdminCreate

-----------------------------------------------------------------------------
(* Rates of one fetch *)

DoneOn(d) == {f \in {done[n] : n \in DOMAIN done} : f.day = d}

(* Among the fetches of a day one has all its rates there: the one that was  *)
(* committed last.                                                           *)
QuotesInv ==
  \A d \in Days : DoneOn(d) # {} =>
    \E f \in DoneOn(d) : \A c \in Quoted(f) :
        rates[c][d] = RateOf(f.quotes[c]) /\ rates[c][d] # 0

LEMMA QuotesNext == TypeInv /\ QuotesInv /\ [RatesNext]_ratesVars => QuotesInv'
  <1> SUFFICES ASSUME TypeInv, QuotesInv, [RatesNext]_ratesVars PROVE QuotesInv' OBVIOUS
  <1>1. ASSUME NEW j \in Jobs, CommitJob(j), NEW d \in Days, DoneOn(d)' # {}
        PROVE  \E f \in DoneOn(d)' : \A c \in Quoted(f) :
                  rates'[c][d] = RateOf(f.quotes[c]) /\ rates'[c][d] # 0
    <2> DEFINE g == job[j].fetch
    <2>1. done \in Seq(Fetches) /\ g \in Fetches
      BY <1>1 DEF TypeInv, CommitJob, Ended, JobOK
    <2>2. done' = Append(done, g) /\ rates' = Written(job[j]) BY <1>1 DEF CommitJob
    <2>3. DoneOn(d)' = DoneOn(d) \cup (IF g.day = d THEN {g} ELSE {})
      <3>1. {done'[n] : n \in DOMAIN done'} = {done[n] : n \in DOMAIN done} \cup {g}
        <4>1. /\ DOMAIN done' = 1..(Len(done) + 1) /\ done'[Len(done) + 1] = g
              /\ DOMAIN done = 1..Len(done) /\ Len(done) \in Nat
              /\ \A n \in 1..Len(done) : done'[n] = done[n]
          BY <2>1, <2>2
        <4> HIDE DEF g
        <4> QED BY <4>1
      <3> QED BY <3>1 DEF DoneOn
    <2>4. \A f, c : c \in Quoted(f) => c \in Currencies BY DEF Quoted
    <2>5. CASE g.day = d
      <3>1. \A c \in Quoted(g) : rates'[c][d] = RateOf(g.quotes[c]) /\ rates'[c][d] # 0
        BY <1>1, <2>2, <2>4, <2>5, WrittenType DEF CommitJob
      <3> HIDE DEF g
      <3> QED BY <2>3, <2>5, <3>1
    <2>6. CASE g.day # d
      <3>1. \A c \in Currencies : rates'[c][d] = rates[c][d]
        BY <1>1, <2>2, <2>6, WrittenType DEF CommitJob
      <3>2. DoneOn(d)' = DoneOn(d) BY <2>3, <2>6
      <3> QED BY <1>1, <2>4, <3>1, <3>2 DEF QuotesInv
    <2> QED BY <2>5, <2>6
  <1>2. ASSUME NEW b \in Currencies, NEW e \in Days, AdminCreate(b, e) PROVE QuotesInv'
    <2>1. \A c \in Currencies, d \in Days : rates[c][d] # 0 => rates'[c][d] = rates[c][d]
      BY <1>2 DEF AdminCreate, TypeInv
    <2>2. \A d : DoneOn(d)' = DoneOn(d) BY <1>2 DEF AdminCreate, DoneOn
    <2>3. \A f, c : c \in Quoted(f) => c \in Currencies BY DEF Quoted
    <2> QED BY <2>1, <2>2, <2>3 DEF QuotesInv
  <1>3. CASE UNCHANGED <<rates, done>> BY <1>3 DEF QuotesInv, DoneOn
  <1>4. (\E j \in Jobs : CommitJob(j)) => QuotesInv' BY <1>1 DEF QuotesInv
  <1> QED BY <1>2, <1>3, <1>4 DEF RatesNext, ratesVars, StartJob, SelectRate, WriteRate,
        ConvertPrice, ConvertOldPrice, NextOffer

-----------------------------------------------------------------------------
(* Jobs that wait *)

(* Two jobs never hold the same row. *)
RowsInv == \A j, k \in Jobs : j # k => RowsOf(job[j]) \cap RowsOf(job[k]) = {}

LEMMA RowsNext == TypeInv /\ RowsInv /\ [RatesNext]_ratesVars => RowsInv'
  <1> SUFFICES ASSUME TypeInv, RowsInv, [RatesNext]_ratesVars PROVE RowsInv' OBVIOUS
  <1>1. ASSUME NEW j \in Jobs, NEW t, job' = [job EXCEPT ![j] = t],
               \A k \in Jobs \ {j} : RowsOf(t) \cap RowsOf(job[k]) = {}
        PROVE  RowsInv'
    <2>1. \A k \in Jobs : job'[k] = IF k = j THEN t ELSE job[k] BY <1>1 DEF TypeInv
    <2>2. \A k \in Jobs : RowsOf(job'[k]) = IF k = j THEN RowsOf(t) ELSE RowsOf(job[k]) BY <2>1
    <2>3. \A k \in Jobs : RowsOf(job[k])' = RowsOf(job'[k]) BY DEF RowsOf
    <2> QED BY <1>1, <2>2, <2>3 DEF RowsInv
  <1>2. RowsOf(NoJob) = {} BY DEF RowsOf, NoJob
  <1>3. ASSUME NEW j \in Jobs, NEW f \in Fetches, StartJob(j, f) PROVE RowsInv'
    <2> DEFINE t == [NoJob EXCEPT !.pc = "select", !.fetch = f, !.at = 1]
    <2>1. RowsOf(t) = {} BY DEF RowsOf, NoJob
    <2>2. job' = [job EXCEPT ![j] = t] BY <1>3 DEF StartJob
    <2> HIDE DEF t
    <2> QED BY <1>1, <2>1, <2>2
  <1>4. ASSUME NEW j \in Jobs, SelectRate(j) PROVE RowsInv'
    <2>1. PICK t : /\ JobOK(t) /\ job' = [job EXCEPT ![j] = t]
                   /\ \/ t = NoJob
                      \/ t.fetch = job[j].fetch /\ t.wrote = job[j].wrote
      BY <1>4, SelectStep
    <2>2. RowsOf(t) \subseteq RowsOf(job[j]) BY <1>2, <2>1 DEF RowsOf
    <2> QED BY <1>1, <2>1, <2>2 DEF RowsInv
  <1>5. ASSUME NEW j \in Jobs, WriteRate(j) PROVE RowsInv'
    <2>1. PICK t : /\ JobOK(t) /\ job' = [job EXCEPT ![j] = t]
                   /\ \/ t = NoJob
                      \/ /\ t.fetch = job[j].fetch
                         /\ t.wrote = job[j].wrote \cup {RateRow(job[j], job[j].at)}
      BY <1>5, WriteStep
    <2>2. RowsOf(t) \subseteq RowsOf(job[j]) \cup {Row(j)}
      BY <1>2, <2>1 DEF RowsOf, RateRow, Row, Currency
    <2>3. \A k \in Jobs \ {j} : Row(j) \notin RowsOf(job[k]) BY <1>5 DEF WriteRate, Blocked
    <2> QED BY <1>1, <2>1, <2>2, <2>3 DEF RowsInv
  <1>6. ASSUME NEW j \in Jobs, CommitJob(j) PROVE RowsInv'
    BY <1>1, <1>2, <1>6 DEF CommitJob
  <1>7. CASE UNCHANGED job BY <1>7 DEF RowsInv, RowsOf
  <1> QED BY <1>3, <1>4, <1>5, <1>6, <1>7 DEF RatesNext, ratesVars, AdminCreate,
        ConvertPrice, ConvertOldPrice, NextOffer

LEMMA Ahead == TypeInv /\ RowsInv => WaitsAhead
  <1> SUFFICES ASSUME TypeInv, RowsInv, NEW j \in Jobs, NEW k \in Jobs, j # k,
                      job[j].pc = "write", Row(j) \in RowsOf(job[k])
               PROVE  job[j].at < job[k].at
    BY DEF WaitsAhead
  <1> DEFINE t == job[j]
             u == job[k]
  <1>1. /\ JobOK(t) /\ t.at \in 1..Len(Wanted) /\ Wanted[t.at] # "EUR"
        /\ t.fetch.quotes[Wanted[t.at]] # None /\ t.wrote = {RateRow(t, n) : n \in Passed(t)}
    BY DEF TypeInv, JobOK
  <1>2. u.pc # "idle"
    <2>1. RowsOf(NoJob) = {} BY DEF RowsOf, NoJob
    <2> QED BY <2>1 DEF TypeInv, JobOK
  <1>3. JobOK(u) /\ u.at \in Nat /\ u.wrote = {RateRow(u, n) : n \in Passed(u)}
    BY <1>2 DEF TypeInv, JobOK, JobRecords
  <1>4. PICK n \in Passed(u) : <<Wanted[n], u.fetch.day>> = Row(j)
    BY <1>3 DEF RowsOf, RateRow
  <1>5. Wanted[n] = Wanted[t.at] /\ n \in 1..(u.at - 1) BY <1>4 DEF Row, Currency, Passed
  <1>6. ASSUME n < t.at PROVE FALSE
    <2>1. n \in Passed(t) BY <1>1, <1>5, <1>6 DEF Passed
    <2>2. RateRow(t, n) \in t.wrote BY <1>1, <2>1
    <2>3. <<RateRow(t, n)[1], RateRow(t, n)[2]>> = Row(j) BY <1>5 DEF RateRow, Row, Currency
    <2>4. Row(j) \in RowsOf(t) BY <2>2, <2>3 DEF RowsOf
    <2> QED BY <2>4 DEF RowsInv
  <1> QED BY <1>1, <1>3, <1>5, <1>6 DEF Passed

-----------------------------------------------------------------------------
RatesInv == TypeInv /\ MovesInv /\ QuotesInv /\ RowsInv

LEMMA RatesFirst == RatesInit => RatesInv
  <1> SUFFICES ASSUME RatesInit PROVE RatesInv OBVIOUS
  <1>1. TypeInv
    <2>1. NoSync \in SyncType /\ NoSync.price = None BY DEF SyncType, NoSync
    <2>2. NoJob \in JobRecords BY DEF NoJob, JobRecords
    <2> QED BY <2>1, <2>2, IdleOK DEF RatesInit, TypeInv
  <1>2. MovesInv BY DEF RatesInit, MovesInv, NoSync
  <1>3. QuotesInv BY DEF RatesInit, QuotesInv, DoneOn
  <1>4. RowsInv BY DEF RatesInit, RowsInv, RowsOf, NoJob
  <1> QED BY <1>1, <1>2, <1>3, <1>4 DEF RatesInv

LEMMA RatesAlways == RatesSpec => []RatesInv
  <1>1. RatesInv /\ [RatesNext]_ratesVars => RatesInv'
    BY TypeNext, MovesNext, QuotesNext, RowsNext DEF RatesInv
  <1> QED BY <1>1, RatesFirst, PTL DEF RatesSpec

(* The rates of a day are those of one answer of the source, whatever jobs   *)
(* overlap, fail or lose an insert and whatever the admin enters between     *)
(* them; and the old price of an offer is never converted by an older rate   *)
(* than its price.                                                           *)
THEOREM RatesAgree == RatesSpec => []RatesConsistent
  <1>1. RatesInv => RatesConsistent
    <2> SUFFICES ASSUME RatesInv PROVE RatesConsistent OBVIOUS
    <2>1. QuotesTogether BY DEF RatesInv, QuotesInv, DoneOn, QuotesTogether
    <2>2. ConversionMovesOn BY DEF RatesInv, MovesInv, ConversionMovesOn
    <2> QED BY <2>1, <2>2 DEF RatesConsistent
  <1> QED BY <1>1, RatesAlways, PTL

(* A job waits only for jobs further on in the order of the currencies: no   *)
(* number of jobs can wait in a circle.                                      *)
THEOREM WaitingIsAhead == RatesSpec => []WaitsAhead
  BY Ahead, RatesAlways, PTL DEF RatesInv

(* A rate that is there stays there: jobs and the admin add and replace.     *)
THEOREM RatesRemain ==
  RatesSpec => [][\A c \in Currencies, d \in Days : rates[c][d] # 0 => rates'[c][d] # 0]_ratesVars
  <1>1. RatesInv /\ [RatesNext]_ratesVars =>
          [\A c \in Currencies, d \in Days : rates[c][d] # 0 => rates'[c][d] # 0]_ratesVars
    BY RatesStay DEF RatesInv
  <1> QED BY <1>1, RatesAlways, PTL DEF RatesSpec
=============================================================================
