----------------------- MODULE ShoppingRequestsProofs -----------------------
(* Proofs about ShoppingRequests, for any number of handlers, texts and     *)
(* overrides, whatever rules and Ollama find.                               *)
EXTENDS ShoppingRequests, FiniteSetTheorems, TLAPS

-----------------------------------------------------------------------------
(* Type correctness *)

RecRows  == [edit: Nat, wish: [Constraints -> UNION {Values(f) : f \in Fields}]]
ListRows == [id: Nat, archived: BOOLEAN, budget: UNION {Values(f) : f \in Fields},
             category: Slugs \cup {None}]
Tables   == {"shopping_requests", "shopping_request_constraints"}

Ops == [pc   : {"idle", "check", "parse", "write", "commit", "confirm"},
        edit : Nat,
        seen : {None} \cup RequestRows,
        text : {None} \cup Texts,
        set  : {None} \cup Overrides,
        new  : {None} \cup RequestRows,
        locks: SUBSET Tables,
        dead : SUBSET RecRows,
        owned: SUBSET RecRows]

(* What a handler has in hand, with n requests begun.                       *)
OpTyped(o, n) ==
  /\ o \in Ops /\ o.edit =< n
  /\ o.pc = "idle" => o = Idle
  /\ o.pc # "idle" => o.edit \in 1..n /\ o.seen \in RequestRows
  /\ o.pc \in {"check", "parse"} => o.text \in Texts /\ o.set \in Overrides
  /\ o.pc \in {"write", "commit"} => o.new \in RequestRows

TypeInv ==
  /\ row \in {None} \cup RequestRows
  /\ recs \subseteq RecRows
  /\ \A r \in recs : r.edit \in 1..started /\ r.wish["category"] \in Slugs
  /\ lists \subseteq ListRows
  /\ DOMAIN op = Handlers /\ op = [h \in Handlers |-> op[h]]
  /\ \A h \in Handlers : OpTyped(op[h], started)
  /\ started \in 0..MaxStarts
  /\ (\E h \in Handlers : op[h].pc # "idle") \/ lists # {} => row # None

LEMMA RowsAreSomething == None \notin RequestRows
  BY ShoppingRequestsAssumption DEF RequestRows

LEMMA IdleIn == Idle \in Ops
  BY DEF Idle, Ops

LEMMA IdleTyped ==
  ASSUME NEW n \in Nat PROVE OpTyped(Idle, n)
  BY IdleIn DEF OpTyped, Idle

(* Whatever the parsers find in a text and the user sets by hand.           *)
LEMMA OverriddenTyped ==
  ASSUME NEW t \in Texts, NEW p \in ParseRequest(t), NEW o,
         o \in Overrides \/ DOMAIN o = {}
  PROVE  Overridden(t, p, o) \in RequestRows
  <1> DEFINE r == Overridden(t, p, o)
  <1>1. p.parser \in {"deterministic-v1", "hybrid-v1"} /\ p.found \in {Rules[t], Merged(t)}
    BY DEF ParseRequest
  <1>2. DOMAIN o \subseteq Constraints
    BY ShoppingRequestsAssumption
  <1>3. ASSUME NEW f \in Fields PROVE r[f] \in Values(f)
    <2>1. CASE f = "text"
      BY <1>2, <2>1 DEF Overridden, Values, Constraints
    <2>2. CASE f = "attributes"
      <3>1. r[f] = <<p.parser, DOMAIN o>> BY <1>2, <2>2 DEF Overridden, Constraints
      <3>2. Values(f) = {"deterministic-v1", "hybrid-v1"} \X SUBSET Constraints
        BY <2>2 DEF Values
      <3> QED BY <1>1, <1>2, <3>1, <3>2
    <2>3. CASE f \in Constraints
      <3>1. f # "text" /\ f # "attributes" BY <2>3 DEF Constraints
      <3>2. Values(f) = {None} \cup {Rules[x][f] : x \in Texts} \cup {Llm[x][f] : x \in Texts}
                          \cup {x[f] : x \in {y \in Overrides : f \in DOMAIN y}}
        BY <3>1 DEF Values
      <3>3. CASE f \in DOMAIN o
        <4>1. r[f] = o[f] BY <3>1, <3>3 DEF Overridden
        <4> QED BY <3>2, <3>3, <4>1
      <3>4. CASE f \notin DOMAIN o
        <4>1. r[f] = p.found[f] BY <3>1, <3>4 DEF Overridden
        <4>2. p.found[f] \in {Rules[t][f], Llm[t][f]} BY <1>1, <2>3 DEF Merged
        <4> QED BY <3>2, <4>1, <4>2
      <3> QED BY <3>3, <3>4
    <2> QED BY <2>1, <2>2, <2>3 DEF Fields
  <1>4. r \in Columns
    <2>1. r = [f \in Fields |-> r[f]] BY DEF Overridden
    <2>2. \A f \in Fields : r[f] \in UNION {Values(g) : g \in Fields} BY <1>3
    <2> HIDE DEF r
    <2> QED BY <2>1, <2>2 DEF Columns
  <1> QED BY <1>3, <1>4 DEF RequestRows

LEMMA DraftsTyped ==
  ASSUME NEW n \in Nat \ {0}, NEW r \in RequestRows
  PROVE  /\ Drafts(n, r) \subseteq RecRows
         /\ \A d \in Drafts(n, r) : d.edit = n /\ d.wish["category"] \in Slugs
  <1>1. \A f \in Constraints : f \in Fields /\ r[f] \in Values(f) BY DEF RequestRows, Fields
  <1>2. [f \in Constraints |-> r[f]] \in [Constraints -> UNION {Values(f) : f \in Fields}]
    BY <1>1
  <1> QED BY <1>2 DEF Drafts, RecRows, Constraints

(* A handler goes on, and nothing else in hand changes.                     *)
Becomes(h, o) == op' = [op EXCEPT ![h] = o]

LEMMA OpsTyped ==
  ASSUME TypeInv, NEW h \in Handlers, NEW o, Becomes(h, o), started' \in started..MaxStarts,
         OpTyped(o, started')
  PROVE  /\ DOMAIN op' = Handlers /\ op' = [g \in Handlers |-> op'[g]]
         /\ \A g \in Handlers : OpTyped(op'[g], started')
         /\ op'[h] = o /\ \A g \in Handlers \ {h} : op'[g] = op[g]
  <1>1. DOMAIN op' = Handlers /\ op' = [g \in Handlers |-> op'[g]] BY DEF TypeInv, Becomes
  <1>2. op'[h] = o /\ \A g \in Handlers \ {h} : op'[g] = op[g] BY DEF TypeInv, Becomes
  <1>3. ASSUME NEW x, NEW y \in Nat, NEW z \in Nat, y =< z, OpTyped(x, y) PROVE OpTyped(x, z)
    BY <1>3 DEF OpTyped, Ops
  <1>4. started \in Nat /\ started' \in Nat /\ started =< started'
    BY ShoppingRequestsAssumption DEF TypeInv
  <1>5. ASSUME NEW g \in Handlers \ {h} PROVE OpTyped(op'[g], started')
    <2>1. OpTyped(op[g], started) BY DEF TypeInv
    <2>2. OpTyped(op[g], started') BY <1>3, <1>4, <2>1
    <2> QED BY <1>2, <2>2
  <1> QED BY <1>1, <1>2, <1>5

(* The steps of handlers that write no table, and of those that end.        *)
LEMMA OwnStepTyped ==
  ASSUME TypeInv, NEW h \in Handlers, NEW o, Becomes(h, o), started' \in started..MaxStarts,
         OpTyped(o, started'), UNCHANGED <<row, recs, lists>>, o.pc = "idle" \/ row # None
  PROVE  TypeInv'
  <1>1. /\ DOMAIN op' = Handlers /\ op' = [g \in Handlers |-> op'[g]]
        /\ \A g \in Handlers : OpTyped(op'[g], started')
        /\ op'[h] = o /\ \A g \in Handlers \ {h} : op'[g] = op[g]
    BY OpsTyped
  <1>2. \A r \in recs : r.edit \in 1..started' BY ShoppingRequestsAssumption DEF TypeInv
  <1>3. started' \in 0..MaxStarts BY ShoppingRequestsAssumption DEF TypeInv
  <1>4. (\E g \in Handlers : op'[g].pc # "idle") \/ lists # {} => row # None
    BY <1>1 DEF TypeInv
  <1> QED BY <1>1, <1>2, <1>3, <1>4 DEF TypeInv

(* A request begins.                                                        *)
LEMMA BeginsTyped ==
  ASSUME TypeInv, Begin
  PROVE  started' = started + 1 /\ started' \in started..MaxStarts /\ started' \in Nat \ {0}
  BY ShoppingRequestsAssumption DEF TypeInv, Begin

LEMMA StaysTyped ==
  ASSUME TypeInv, UNCHANGED started
  PROVE  started' \in started..MaxStarts /\ started \in Nat
  BY ShoppingRequestsAssumption DEF TypeInv

LEMMA TypeNext == TypeInv /\ [Next]_vars => TypeInv'
  <1> SUFFICES ASSUME TypeInv, [Next]_vars PROVE TypeInv'
    OBVIOUS
  <1>a. MaxStarts \in Nat BY ShoppingRequestsAssumption
  <1>b. \A h \in Handlers : OpTyped(op[h], started) BY DEF TypeInv
  <1>1. ASSUME NEW t \in Texts, Create(t) PROVE TypeInv'
    <2>1. PICK p \in ParseRequest(t) :
             LET r == Overridden(t, p, [f \in {} |-> None])
             IN  row' = r /\ recs' = Drafts(started', r)
      BY <1>1 DEF Create
    <2> DEFINE r == Overridden(t, p, [f \in {} |-> None])
    <2>2. r \in RequestRows
      <3>1. DOMAIN [f \in {} |-> None] = {} OBVIOUS
      <3> QED BY <3>1, OverriddenTyped
    <2>3. row' = r /\ recs' = Drafts(started', r) BY <2>1
    <2> HIDE DEF r
    <2>4. started' = started + 1 /\ started' \in started..MaxStarts /\ started' \in Nat \ {0}
      BY <1>1, BeginsTyped DEF Create
    <2>5. /\ recs' \subseteq RecRows
          /\ \A d \in recs' : d.edit = started' /\ d.wish["category"] \in Slugs
      BY <2>2, <2>3, <2>4, DraftsTyped
    <2>6. row' # None BY <2>2, <2>3, RowsAreSomething
    <2>7. UNCHANGED <<lists, op>> BY <1>1 DEF Create
    <2>8. \A g \in Handlers : op[g].pc = "idle" BY <1>1 DEF TypeInv, Create
    <2>9. \A g \in Handlers : OpTyped(op[g], started')
      BY <1>b, <2>4, <2>8, IdleTyped DEF OpTyped
    <2>10. started' \in 0..MaxStarts /\ \A d \in recs' : d.edit \in 1..started'
      BY <1>a, <2>4, <2>5 DEF TypeInv
    <2> QED BY <2>2, <2>3, <2>5, <2>6, <2>7, <2>9, <2>10 DEF TypeInv
  <1>2. ASSUME NEW h \in Handlers, NEW t \in Texts, NEW o \in Overrides, StartEdit(h, t, o)
        PROVE  TypeInv'
    <2> DEFINE new == [Idle EXCEPT !.pc = "check", !.edit = started', !.seen = row,
                                   !.text = t, !.set = o]
    <2>1. started' = started + 1 /\ started' \in started..MaxStarts /\ started' \in Nat \ {0}
      BY <1>2, BeginsTyped DEF StartEdit
    <2>2. row \in RequestRows /\ row # None BY <1>2 DEF TypeInv, StartEdit
    <2>3. OpTyped(new, started')
      <3>1. /\ new \in Ops /\ new.pc = "check" /\ new.edit = started' /\ new.seen = row
            /\ new.text = t /\ new.set = o
        BY <2>1, <2>2, IdleIn DEF Ops
      <3> HIDE DEF new
      <3> QED BY <2>1, <2>2, <3>1 DEF OpTyped
    <2>4. Becomes(h, new) /\ UNCHANGED <<row, recs, lists>>
      BY <1>2 DEF StartEdit, Becomes
    <2> HIDE DEF new
    <2> QED BY <2>1, <2>2, <2>3, <2>4, OwnStepTyped
  <1>3. ASSUME NEW h \in Handlers, CheckLink(h) PROVE TypeInv'
    <2> DEFINE new == [op[h] EXCEPT !.pc = "parse"]
    <2>1. UNCHANGED <<row, recs, lists, started>> /\ op[h].pc = "check"
      BY <1>3 DEF CheckLink
    <2>2. OpTyped(new, started) BY <1>b, <2>1 DEF OpTyped, Ops
    <2>3. Becomes(h, Idle) \/ Becomes(h, new) BY <1>3 DEF CheckLink, Finish, Becomes
    <2>4. row # None /\ Idle.pc = "idle" BY <2>1 DEF TypeInv, Idle
    <2> HIDE DEF new
    <2> QED BY <2>1, <2>2, <2>3, <2>4, IdleTyped, StaysTyped, OwnStepTyped
  <1>4. ASSUME NEW h \in Handlers, Parse(h) PROVE TypeInv'
    <2>1. UNCHANGED <<row, recs, lists, started>> /\ op[h].pc = "parse"
      BY <1>4 DEF Parse
    <2>2. row # None /\ Idle.pc = "idle" BY <2>1 DEF TypeInv, Idle
    <2>3. CASE Becomes(h, Idle)
      BY <2>1, <2>2, <2>3, IdleTyped, StaysTyped, OwnStepTyped
    <2>4. CASE ~Becomes(h, Idle)
      <3>1. PICK p \in ParseRequest(op[h].text) :
               op' = [op EXCEPT ![h].pc = "write",
                                ![h].new = Overridden(op[h].text, p, op[h].set)]
        BY <1>4, <2>4 DEF Parse, Finish, Becomes
      <3>2. op[h].text \in Texts /\ op[h].set \in Overrides BY <1>b, <2>1 DEF OpTyped
      <3> DEFINE r == Overridden(op[h].text, p, op[h].set)
                 new == [op[h] EXCEPT !.pc = "write", !.new = r]
      <3>3. r \in RequestRows BY <3>2, OverriddenTyped
      <3>4. Becomes(h, new) BY <3>1 DEF Becomes, TypeInv
      <3> HIDE DEF r
      <3>5. OpTyped(new, started) BY <1>b, <2>1, <3>3 DEF OpTyped, Ops
      <3> HIDE DEF new
      <3> QED BY <2>1, <2>2, <3>4, <3>5, StaysTyped, OwnStepTyped
    <2> QED BY <2>3, <2>4
  <1>5. ASSUME NEW h \in Handlers, WriteEdit(h) PROVE TypeInv'
    <2> DEFINE locks == UNION {TablesOf(f) : f \in Changed(h)}
               mine == recs \ OwnedByOthers(h)
               new == [op[h] EXCEPT !.pc = "commit", !.locks = locks, !.dead = recs, !.owned = mine]
    <2>1. UNCHANGED <<row, recs, lists, started>> /\ op[h].pc = "write"
      BY <1>5 DEF WriteEdit
    <2>2. row # None BY <2>1 DEF TypeInv
    <2>3. Becomes(h, new) BY <1>5 DEF WriteEdit, Becomes, Cleared, TypeInv
    <2>4. locks \subseteq Tables /\ mine \subseteq RecRows /\ recs \subseteq RecRows
      BY DEF TablesOf, Tables, TypeInv
    <2> HIDE DEF locks, mine
    <2>5. OpTyped(new, started) BY <1>b, <2>1, <2>4 DEF OpTyped, Ops
    <2> HIDE DEF new
    <2> QED BY <2>1, <2>2, <2>3, <2>5, StaysTyped, OwnStepTyped
  <1>6. ASSUME NEW h \in Handlers, CommitEdit(h) PROVE TypeInv'
    <2>1. UNCHANGED <<lists, started>> /\ op[h].pc = "commit" /\ Becomes(h, Idle)
      BY <1>6 DEF CommitEdit, Release, Finish, Becomes
    <2>2. row \in RequestRows /\ op[h].new \in RequestRows /\ op[h].edit \in 1..started
      BY <1>b, <2>1 DEF OpTyped, TypeInv
    <2>3. row' \in RequestRows
      <3>1. row' = [f \in Fields |-> IF f \in Changed(h) THEN op[h].new[f] ELSE row[f]]
        BY <1>6 DEF CommitEdit
      <3>2. \A f \in Fields : row'[f] \in Values(f) BY <2>2, <3>1 DEF RequestRows
      <3>3. row' \in Columns BY <3>1, <3>2 DEF Columns
      <3> QED BY <3>2, <3>3 DEF RequestRows
    <2>4. /\ recs' \subseteq recs \cup Drafts(op[h].edit, op[h].new)
          /\ op[h].edit \in Nat \ {0}
      BY <1>6, <2>2 DEF CommitEdit, RecsAfter
    <2>5. recs' \subseteq RecRows /\ \A r \in recs' : r.edit \in 1..started /\ r.wish["category"] \in Slugs
      BY <2>2, <2>4, DraftsTyped DEF TypeInv
    <2>6. /\ DOMAIN op' = Handlers /\ op' = [g \in Handlers |-> op'[g]]
          /\ \A g \in Handlers : OpTyped(op'[g], started')
      BY <2>1, IdleTyped, StaysTyped, OpsTyped
    <2>7. row' # None BY <2>3, RowsAreSomething
    <2> QED BY <2>1, <2>3, <2>5, <2>6, <2>7 DEF TypeInv
  <1>7. ASSUME NEW h \in Handlers, StartConfirm(h) PROVE TypeInv'
    <2> DEFINE new == [Idle EXCEPT !.pc = "confirm", !.edit = started', !.seen = row]
    <2>1. started' = started + 1 /\ started' \in started..MaxStarts /\ started' \in Nat \ {0}
      BY <1>7, BeginsTyped DEF StartConfirm
    <2>2. row \in RequestRows /\ row # None BY <1>7 DEF TypeInv, StartConfirm
    <2>3. OpTyped(new, started')
      <3>1. new \in Ops /\ new.pc = "confirm" /\ new.edit = started' /\ new.seen = row
        BY <2>1, <2>2, IdleIn DEF Ops
      <3> HIDE DEF new
      <3> QED BY <2>1, <2>2, <3>1 DEF OpTyped
    <2>4. Becomes(h, new) /\ UNCHANGED <<row, recs, lists>>
      BY <1>7 DEF StartConfirm, Becomes
    <2> HIDE DEF new
    <2> QED BY <2>1, <2>2, <2>3, <2>4, OwnStepTyped
  <1>8. ASSUME NEW h \in Handlers, Confirm(h) PROVE TypeInv'
    <2> DEFINE w == WatchlistOf(op[h].edit, op[h].seen)
    <2>1. UNCHANGED <<row, recs, started>> /\ op[h].pc = "confirm" /\ Becomes(h, Idle)
      BY <1>8 DEF Confirm, Finish, Becomes
    <2>2. op[h].seen \in RequestRows /\ op[h].edit \in 1..started /\ row # None
      BY <1>b, <2>1 DEF OpTyped, TypeInv
    <2>3. w \in ListRows
      <3>1. op[h].seen["budget"] \in UNION {Values(f) : f \in Fields}
        BY <2>2 DEF RequestRows, Fields, Constraints
      <3> QED BY <2>2, <3>1 DEF WatchlistOf, ListRows
    <2>4. lists' = lists \cup {w} BY <1>8 DEF Confirm
    <2> HIDE DEF w
    <2>5. /\ DOMAIN op' = Handlers /\ op' = [g \in Handlers |-> op'[g]]
          /\ \A g \in Handlers : OpTyped(op'[g], started')
      BY <2>1, IdleTyped, StaysTyped, OpsTyped
    <2> QED BY <2>1, <2>2, <2>3, <2>4, <2>5 DEF TypeInv
  <1>9. ASSUME NEW w \in lists, NEW a \in BOOLEAN, ArchiveWatchlist(w, a) PROVE TypeInv'
    <2>1. [w EXCEPT !.archived = a] \in ListRows BY DEF TypeInv, ListRows
    <2> QED BY <1>9, <2>1 DEF ArchiveWatchlist, TypeInv
  <1>10. ASSUME NEW w \in lists, DeleteWatchlist(w) PROVE TypeInv'
    BY <1>10 DEF DeleteWatchlist, TypeInv
  <1>11. CASE UNCHANGED vars
    BY <1>11 DEF vars, TypeInv
  <1> QED
    BY <1>1, <1>2, <1>3, <1>4, <1>5, <1>6, <1>7, <1>8, <1>9, <1>10, <1>11 DEF Next, Serve

LEMMA TypeFirst == Init => TypeInv
  <1> SUFFICES ASSUME Init PROVE TypeInv OBVIOUS
  <1>1. \A h \in Handlers : op[h] = Idle /\ OpTyped(op[h], 0) BY IdleTyped DEF Init
  <1>2. DOMAIN op = Handlers /\ op = [h \in Handlers |-> op[h]] BY DEF Init
  <1>3. \A h \in Handlers : op[h].pc = "idle" BY <1>1 DEF Idle
  <1>4. started = 0 /\ started \in 0..MaxStarts BY ShoppingRequestsAssumption DEF Init
  <1> QED BY <1>1, <1>2, <1>3, <1>4 DEF Init, TypeInv

LEMMA TypeAlways == Spec => []TypeInv
  BY TypeFirst, TypeNext, PTL DEF Spec

(* The request, its recommendations and watchlists, and what each handler   *)
(* has in hand are what the tables can hold, however handlers overlap.      *)
THEOREM TypeCorrect == Spec => []TypeOK
  <1>1. TypeInv => TypeOK
    BY DEF TypeInv, TypeOK, OpTyped, Ops, ListRows
  <1> QED BY <1>1, TypeAlways, PTL

-----------------------------------------------------------------------------
(* What the steps do to the handlers *)

(* What h is at next, and has read of the row; the others stay as they are. *)
Changes(h, pc, seen) ==
  /\ op'[h].pc = pc /\ (pc # "idle" => op'[h].seen = seen)
  /\ \A g \in Handlers \ {h} : op'[g] = op[g]

LEMMA Begins ==
  ASSUME TypeInv, NEW h \in Handlers
  PROVE  /\ StartConfirm(h) => Changes(h, "confirm", row)
         /\ \A t \in Texts, o \in Overrides : StartEdit(h, t, o) => Changes(h, "check", row)
  <1>1. \A o \in Ops : Becomes(h, o) =>
           op'[h] = o /\ \A g \in Handlers \ {h} : op'[g] = op[g]
    BY DEF Becomes, TypeInv
  <1>2. row \in {None} \cup RequestRows BY DEF TypeInv
  <1>3. ASSUME StartConfirm(h) PROVE Changes(h, "confirm", row)
    <2> DEFINE new == [Idle EXCEPT !.pc = "confirm", !.edit = started', !.seen = row]
    <2>1. started' \in Nat BY <1>3, BeginsTyped DEF StartConfirm
    <2>2. new \in Ops /\ new.pc = "confirm" /\ new.seen = row
      BY <1>2, <2>1, IdleIn DEF Ops
    <2>3. Becomes(h, new) BY <1>3 DEF StartConfirm, Becomes
    <2> HIDE DEF new
    <2> QED BY <1>1, <2>2, <2>3 DEF Changes
  <1>4. ASSUME NEW t \in Texts, NEW o \in Overrides, StartEdit(h, t, o)
        PROVE  Changes(h, "check", row)
    <2> DEFINE new == [Idle EXCEPT !.pc = "check", !.edit = started', !.seen = row,
                                   !.text = t, !.set = o]
    <2>1. started' \in Nat BY <1>4, BeginsTyped DEF StartEdit
    <2>2. new \in Ops /\ new.pc = "check" /\ new.seen = row
      BY <1>2, <2>1, IdleIn DEF Ops
    <2>3. Becomes(h, new) BY <1>4 DEF StartEdit, Becomes
    <2> HIDE DEF new
    <2> QED BY <1>1, <2>2, <2>3 DEF Changes
  <1> QED BY <1>3, <1>4

(* An edit checks and parses, or is refused.                                *)
LEMMA Checks ==
  ASSUME TypeInv, NEW h \in Handlers, CheckLink(h) \/ Parse(h)
  PROVE  /\ Editing(h) /\ UNCHANGED <<row, recs, lists, last, met, started>>
         /\ \/ Changes(h, "idle", None)
            \/ op[h].pc = "check" /\ lists = {} /\ Changes(h, "parse", op[h].seen)
            \/ op[h].pc = "parse" /\ Changes(h, "write", op[h].seen)
  <1>1. op[h] \in Ops /\ \A g \in Handlers : op[g] \in Ops BY DEF TypeInv, OpTyped
  <1>2. ASSUME Finish(h) PROVE Changes(h, "idle", None)
    BY <1>2, IdleTyped DEF Finish, Changes, TypeInv, Idle
  <1>3. CASE CheckLink(h)
    <2>1. ASSUME op' = [op EXCEPT ![h].pc = "parse"] PROVE Changes(h, "parse", op[h].seen)
      <3>1. op'[h] = [op[h] EXCEPT !.pc = "parse"] /\ \A g \in Handlers \ {h} : op'[g] = op[g]
        BY <2>1 DEF TypeInv
      <3> QED BY <1>1, <3>1 DEF Changes, Ops
    <2> QED BY <1>2, <1>3, <2>1 DEF CheckLink, Linked, Editing
  <1>4. CASE Parse(h)
    <2>1. ASSUME NEW r, op' = [op EXCEPT ![h].pc = "write", ![h].new = r]
          PROVE  Changes(h, "write", op[h].seen)
      <3>1. /\ op'[h] = [op[h] EXCEPT !.pc = "write", !.new = r]
            /\ \A g \in Handlers \ {h} : op'[g] = op[g]
        BY <2>1 DEF TypeInv
      <3> QED BY <1>1, <3>1 DEF Changes, Ops
    <2> QED BY <1>2, <1>4, <2>1 DEF Parse, Editing
  <1> QED BY <1>3, <1>4

(* An edit writes, and deletes the recommendations it sees.                 *)
LEMMA Writes ==
  ASSUME TypeInv, NEW h \in Handlers, WriteEdit(h)
  PROVE  /\ op[h].pc = "write" /\ UNCHANGED <<row, recs, lists, last, met, started>>
         /\ Changes(h, "commit", op[h].seen) /\ op'[h].dead = recs
  <1>1. op[h] \in Ops BY DEF TypeInv, OpTyped
  <1> DEFINE locks == UNION {TablesOf(f) : f \in Changed(h)}
             mine == recs \ OwnedByOthers(h)
  <1>2. /\ op'[h] = [op[h] EXCEPT !.pc = "commit", !.locks = locks, !.dead = recs, !.owned = mine]
        /\ \A g \in Handlers \ {h} : op'[g] = op[g]
    BY DEF WriteEdit, Cleared, TypeInv
  <1> HIDE DEF locks, mine
  <1>3. op'[h].pc = "commit" /\ op'[h].seen = op[h].seen /\ op'[h].dead = recs
    BY <1>1, <1>2 DEF Ops
  <1> QED BY <1>2, <1>3 DEF Changes, WriteEdit

(* A handler that ends leaves the others alone.                             *)
LEMMA Ends ==
  ASSUME TypeInv, NEW h \in Handlers, CommitEdit(h) \/ Confirm(h)
  PROVE  Changes(h, "idle", None) /\ UNCHANGED <<met, started>>
  BY DEF CommitEdit, Confirm, Release, Finish, Changes, TypeInv, Idle

(* An edit that nobody else's edit overlapped replaces the row and all the  *)
(* recommendations.                                                         *)
LEMMA Replaces ==
  ASSUME TypeInv, NEW h \in Handlers, CommitEdit(h), op[h].seen = row, op[h].dead = recs
  PROVE  row' = op[h].new /\ recs' = Drafts(op[h].edit, op[h].new) /\ last' = recs'
  <1>1. op[h].new \in RequestRows BY DEF CommitEdit, TypeInv, OpTyped
  <1>2. op[h].new = [f \in Fields |-> op[h].new[f]] BY <1>1 DEF RequestRows, Columns
  <1>3. row' = [f \in Fields |-> op[h].new[f]] BY DEF CommitEdit, Changed
  <1> QED BY <1>2, <1>3 DEF CommitEdit, RecsAfter

-----------------------------------------------------------------------------
(* Recommendations *)

(* While no two edits have been under way at once: there is one at most, it *)
(* has read the row as it is and deletes the recommendations there are.     *)
DraftsInv ==
  /\ last \subseteq recs
  /\ "edit" \notin met =>
       /\ \A g, h \in Handlers : Editing(g) /\ Editing(h) => g = h
       /\ \A h \in Handlers : Editing(h) => op[h].seen = row
       /\ \A h \in Handlers : op[h].pc = "commit" => op[h].dead = recs
       /\ row # None => \E n \in Nat : recs = Drafts(n, row)

(* A step of one handler that leaves the recommendations alone.             *)
LEMMA DraftsKept ==
  ASSUME DraftsInv, UNCHANGED <<row, recs, last>>, met \subseteq met', NEW h \in Handlers,
         NEW pc, NEW seen, Changes(h, pc, seen),
         pc \in {"check", "parse", "write", "commit"} =>
            /\ seen = IF Editing(h) THEN op[h].seen ELSE row
            /\ Editing(h) \/ "edit" \in met' \/ \A g \in Handlers : ~Editing(g),
         pc = "commit" => op'[h].dead = recs
  PROVE  DraftsInv'
  <1> SUFFICES ASSUME "edit" \notin met'
               PROVE  /\ \A g, k \in Handlers : Editing(g)' /\ Editing(k)' => g = k
                      /\ \A g \in Handlers : Editing(g)' => op'[g].seen = row
                      /\ \A g \in Handlers : op'[g].pc = "commit" => op'[g].dead = recs
    BY DEF DraftsInv
  <1>1. op'[h].pc = pc /\ \A g \in Handlers : g = h \/ op'[g] = op[g] BY DEF Changes
  <1>2. "edit" \notin met OBVIOUS
  <1>3. \A g, k \in Handlers : Editing(g)' /\ Editing(k)' => g = k
    BY <1>1, <1>2 DEF DraftsInv, Editing
  <1>4. \A g \in Handlers : Editing(g)' => op'[g].seen = row
    BY <1>1, <1>2 DEF DraftsInv, Editing, Changes
  <1>5. \A g \in Handlers : op'[g].pc = "commit" => op'[g].dead = recs
    BY <1>1, <1>2 DEF DraftsInv
  <1> QED BY <1>3, <1>4, <1>5

LEMMA DraftsNext == TypeInv /\ DraftsInv /\ [Next]_vars => DraftsInv'
  <1> SUFFICES ASSUME TypeInv, DraftsInv, [Next]_vars PROVE DraftsInv'
    OBVIOUS
  <1>a. \A g \in Handlers : op[g].pc \in {"idle", "check", "parse", "write", "commit", "confirm"}
    BY DEF TypeInv, OpTyped, Ops
  <1>1. ASSUME NEW t \in Texts, Create(t) PROVE DraftsInv'
    <2>1. \A g \in Handlers : op[g].pc = "idle" BY <1>1 DEF TypeInv, Create
    <2>2. /\ last' = recs' /\ UNCHANGED <<op, met>> /\ started' \in Nat
          /\ recs' = Drafts(started', row')
      BY <1>1, BeginsTyped DEF Create
    <2> QED BY <2>1, <2>2 DEF DraftsInv, Editing
  <1>2. ASSUME NEW h \in Handlers, NEW t \in Texts, NEW o \in Overrides, StartEdit(h, t, o)
        PROVE  DraftsInv'
    <2>1. Changes(h, "check", row) BY <1>2, Begins
    <2>2. op[h].pc = "idle" /\ ~Editing(h) BY <1>2 DEF StartEdit, Editing
    <2>3. "edit" \in met' \/ \A g \in Handlers : ~Editing(g)
      BY <1>2 DEF StartEdit, UnderWay, Editing
    <2>4. UNCHANGED <<row, recs, last>> /\ met \subseteq met' BY <1>2 DEF StartEdit
    <2> QED BY <2>1, <2>2, <2>3, <2>4, DraftsKept
  <1>3. ASSUME NEW h \in Handlers, StartConfirm(h) PROVE DraftsInv'
    <2>1. Changes(h, "confirm", row) BY <1>3, Begins
    <2>2. UNCHANGED <<row, recs, last>> /\ met \subseteq met' BY <1>3 DEF StartConfirm
    <2> QED BY <2>1, <2>2, DraftsKept
  <1>4. ASSUME NEW h \in Handlers, CheckLink(h) \/ Parse(h) PROVE DraftsInv'
    <2>1. /\ Editing(h) /\ UNCHANGED <<row, recs, last, met>>
          /\ \/ Changes(h, "idle", None) \/ Changes(h, "parse", op[h].seen)
             \/ Changes(h, "write", op[h].seen)
      BY <1>4, Checks
    <2> QED BY <2>1, DraftsKept
  <1>5. ASSUME NEW h \in Handlers, WriteEdit(h) PROVE DraftsInv'
    <2>1. Editing(h) BY <1>5 DEF WriteEdit, Editing
    <2> QED BY <1>5, <2>1, Writes, DraftsKept
  <1>6. ASSUME NEW h \in Handlers, CommitEdit(h) PROVE DraftsInv'
    <2>1. /\ op[h].pc = "commit" /\ Editing(h) /\ last' \subseteq recs'
          /\ op'[h].pc = "idle" /\ \A g \in Handlers \ {h} : op'[g] = op[g]
      BY <1>6, Ends DEF CommitEdit, RecsAfter, Changes, Editing
    <2>2. ASSUME "edit" \notin met'
          PROVE  /\ \A g \in Handlers : ~Editing(g)'
                 /\ \E n \in Nat : recs' = Drafts(n, row')
      <3>1. "edit" \notin met BY <1>6, <2>2, Ends
      <3>2. \A g \in Handlers \ {h} : ~Editing(g) BY <2>1, <3>1 DEF DraftsInv
      <3>3. \A g \in Handlers : ~Editing(g)' BY <2>1, <3>2 DEF Editing
      <3>4. op[h].seen = row /\ op[h].dead = recs BY <2>1, <3>1 DEF DraftsInv
      <3>5. op[h].edit \in Nat BY <2>1 DEF TypeInv, OpTyped, Ops
      <3> QED BY <1>6, <3>3, <3>4, <3>5, Replaces
    <2> QED BY <2>1, <2>2 DEF DraftsInv, Editing
  <1>7. ASSUME NEW h \in Handlers, Confirm(h) PROVE DraftsInv'
    <2>1. Changes(h, "idle", None) /\ UNCHANGED <<row, recs, last, met>>
      BY <1>7, Ends DEF Confirm
    <2> QED BY <2>1, DraftsKept
  <1>8. ASSUME UNCHANGED <<row, recs, op, last, met>> PROVE DraftsInv'
    BY <1>8 DEF DraftsInv, Editing
  <1>9. ASSUME \/ \E w \in lists : DeleteWatchlist(w) \/ \E a \in BOOLEAN : ArchiveWatchlist(w, a)
               \/ UNCHANGED vars
        PROVE  DraftsInv'
    BY <1>8, <1>9 DEF DeleteWatchlist, ArchiveWatchlist, vars
  <1> QED BY <1>1, <1>2, <1>3, <1>4, <1>5, <1>6, <1>7, <1>9 DEF Next, Serve

(* The recommendations are those of the constraints, once each, as long as  *)
(* no two edits were under way at once; however edits overlap, the drafts   *)
(* of the one committed last are there.                                     *)
THEOREM DraftsFollow == Spec => []DraftsFollowEdits
  <1>1. Init => DraftsInv
    BY DEF Init, DraftsInv, Editing, Idle
  <1>2. DraftsInv => DraftsFollowEdits
    <2> SUFFICES ASSUME DraftsInv, "edit" \notin met, row # None
                 PROVE  /\ \A r \in recs : \A f \in Constraints : r.wish[f] = row[f]
                        /\ Cardinality(recs) = IF row["category"] \in Slugs THEN 1 ELSE 0
      BY DEF DraftsInv, DraftsFollowEdits
    <2>1. PICK n \in Nat : recs = Drafts(n, row) BY DEF DraftsInv
    <2> DEFINE r == [edit |-> n, wish |-> [f \in Constraints |-> row[f]]]
    <2>2. recs = IF row["category"] \in Slugs THEN {r} ELSE {} BY <2>1 DEF Drafts
    <2>3. \A f \in Constraints : r.wish[f] = row[f] OBVIOUS
    <2> HIDE DEF r
    <2> QED BY <2>2, <2>3, FS_EmptySet, FS_Singleton
  <1> QED BY <1>1, <1>2, TypeAlways, DraftsNext, PTL DEF Spec

-----------------------------------------------------------------------------
(* Watchlists *)

(* While no edit has been under way beside a confirmation: what is to be    *)
(* confirmed is the row as it is; once there is a watchlist no edit is past *)
(* the check of the lock.                                                   *)
ListInv ==
  "confirmation" \notin met =>
     /\ \A g, h \in Handlers : op[h].pc = "confirm" => op[h].seen = row /\ ~Editing(g)
     /\ lists # {} => \A h \in Handlers : op[h].pc \notin {"parse", "write", "commit"}
     /\ \A w \in lists : w = [WatchlistOf(w.id, row) EXCEPT !.archived = w.archived]

(* A step of one handler that leaves request and watchlists alone: it goes  *)
(* past the check only where there is no watchlist, and begins where met    *)
(* does not tell of it only if it is alone with its kind.                   *)
LEMMA ListsKept ==
  ASSUME ListInv, UNCHANGED <<row, lists>>, met \subseteq met', NEW h \in Handlers,
         NEW pc, NEW seen, Changes(h, pc, seen),
         pc = "confirm" => /\ seen = row
                           /\ "confirmation" \in met' \/ \A g \in Handlers : ~Editing(g),
         pc \in {"check", "parse", "write", "commit"} =>
            \/ Editing(h) \/ "confirmation" \in met'
            \/ \A g \in Handlers : op[g].pc # "confirm",
         pc \in {"parse", "write", "commit"} =>
            lists = {} \/ op[h].pc \in {"parse", "write", "commit"}
  PROVE  ListInv'
  <1> SUFFICES ASSUME "confirmation" \notin met'
               PROVE  /\ \A g, k \in Handlers : op'[k].pc = "confirm" => op'[k].seen = row /\ ~Editing(g)'
                      /\ lists # {} => \A k \in Handlers : op'[k].pc \notin {"parse", "write", "commit"}
    BY DEF ListInv
  <1>1. op'[h].pc = pc /\ \A g \in Handlers : g = h \/ op'[g] = op[g] BY DEF Changes
  <1>2. "confirmation" \notin met OBVIOUS
  <1>3. \A k \in Handlers : op'[k].pc = "confirm" => op'[k].seen = row
    BY <1>1, <1>2 DEF ListInv, Changes
  <1>4. ASSUME NEW g \in Handlers, NEW k \in Handlers, op'[k].pc = "confirm", Editing(g)'
        PROVE  FALSE
    BY <1>1, <1>2, <1>4 DEF ListInv, Editing
  <1>5. lists # {} => \A k \in Handlers : op'[k].pc \notin {"parse", "write", "commit"}
    BY <1>1, <1>2 DEF ListInv
  <1> QED BY <1>3, <1>4, <1>5

LEMMA ListsNext == TypeInv /\ ListInv /\ [Next]_vars => ListInv'
  <1> SUFFICES ASSUME TypeInv, ListInv, [Next]_vars PROVE ListInv'
    OBVIOUS
  <1>a. \A g \in Handlers : op[g].pc \in {"idle", "check", "parse", "write", "commit", "confirm"}
    BY DEF TypeInv, OpTyped, Ops
  <1>1. ASSUME NEW t \in Texts, Create(t) PROVE ListInv'
    <2>1. lists = {} /\ \A g \in Handlers : op[g].pc = "idle" BY <1>1 DEF TypeInv, Create
    <2>2. UNCHANGED <<lists, op>> BY <1>1 DEF Create
    <2> QED BY <2>1, <2>2 DEF ListInv, Editing
  <1>2. ASSUME NEW h \in Handlers, NEW t \in Texts, NEW o \in Overrides, StartEdit(h, t, o)
        PROVE  ListInv'
    <2>1. Changes(h, "check", row) BY <1>2, Begins
    <2>2. "confirmation" \in met' \/ \A g \in Handlers : op[g].pc # "confirm"
      BY <1>2 DEF StartEdit, UnderWay, Editing
    <2>3. UNCHANGED <<row, lists>> /\ met \subseteq met' BY <1>2 DEF StartEdit
    <2> QED BY <2>1, <2>2, <2>3, ListsKept
  <1>3. ASSUME NEW h \in Handlers, StartConfirm(h) PROVE ListInv'
    <2>1. Changes(h, "confirm", row) BY <1>3, Begins
    <2>2. "confirmation" \in met' \/ \A g \in Handlers : ~Editing(g)
      BY <1>3 DEF StartConfirm, UnderWay, Editing
    <2>3. UNCHANGED <<row, lists>> /\ met \subseteq met' BY <1>3 DEF StartConfirm
    <2> QED BY <2>1, <2>2, <2>3, ListsKept
  <1>4. ASSUME NEW h \in Handlers, CheckLink(h) \/ Parse(h) PROVE ListInv'
    <2>1. /\ Editing(h) /\ UNCHANGED <<row, lists, met>>
          /\ \/ Changes(h, "idle", None)
             \/ op[h].pc = "check" /\ lists = {} /\ Changes(h, "parse", op[h].seen)
             \/ op[h].pc = "parse" /\ Changes(h, "write", op[h].seen)
      BY <1>4, Checks
    <2> QED BY <2>1, ListsKept
  <1>5. ASSUME NEW h \in Handlers, WriteEdit(h) PROVE ListInv'
    <2>1. Editing(h) /\ op[h].pc = "write" BY <1>5 DEF WriteEdit, Editing
    <2>2. Changes(h, "commit", op[h].seen) /\ UNCHANGED <<row, lists, met>> BY <1>5, Writes
    <2> QED BY <2>1, <2>2, ListsKept
  <1>6. ASSUME NEW h \in Handlers, CommitEdit(h) PROVE ListInv'
    <2> SUFFICES ASSUME "confirmation" \notin met'
                 PROVE  /\ lists' = {}
                        /\ \A k \in Handlers : op'[k].pc # "confirm"
      BY DEF ListInv
    <2>1. /\ op[h].pc = "commit" /\ Editing(h) /\ UNCHANGED <<lists, met>>
          /\ op'[h].pc = "idle" /\ \A g \in Handlers \ {h} : op'[g] = op[g]
      BY <1>6, Ends DEF CommitEdit, Changes, Editing
    <2> QED BY <2>1 DEF ListInv
  <1>7. ASSUME NEW h \in Handlers, Confirm(h) PROVE ListInv'
    <2> SUFFICES ASSUME "confirmation" \notin met'
                 PROVE  /\ \A g, k \in Handlers : op'[k].pc = "confirm" =>
                              op'[k].seen = row' /\ ~Editing(g)'
                        /\ \A k \in Handlers : op'[k].pc \notin {"parse", "write", "commit"}
                        /\ \A w \in lists' : w = [WatchlistOf(w.id, row') EXCEPT !.archived = w.archived]
      BY DEF ListInv
    <2>1. op[h].pc = "confirm" /\ row' = row /\ met' = met
          /\ lists' = lists \cup {WatchlistOf(op[h].edit, op[h].seen)}
      BY <1>7 DEF Confirm
    <2>2. op'[h].pc = "idle" /\ \A g \in Handlers \ {h} : op'[g] = op[g]
      BY <1>7, Ends DEF Changes
    <2>3. op[h].seen = row /\ \A g \in Handlers : ~Editing(g) BY <2>1 DEF ListInv
    <2>4. \A k \in Handlers : op'[k].pc \notin {"check", "parse", "write", "commit"}
      BY <2>2, <2>3 DEF Editing
    <2> DEFINE w == WatchlistOf(op[h].edit, row)
    <2>5. w = [WatchlistOf(w.id, row) EXCEPT !.archived = w.archived]
      BY DEF WatchlistOf
    <2>6. \A v \in lists' : v \in lists \/ v = w BY <2>1, <2>3
    <2> HIDE DEF w
    <2> QED BY <2>1, <2>2, <2>4, <2>5, <2>6 DEF ListInv, Editing
  <1>8. ASSUME NEW w \in lists, NEW a \in BOOLEAN, ArchiveWatchlist(w, a) PROVE ListInv'
    <2> DEFINE v == [w EXCEPT !.archived = a]
    <2>1. UNCHANGED <<row, op, met>> /\ lists' = (lists \ {w}) \cup {v}
      BY <1>8 DEF ArchiveWatchlist
    <2>2. ASSUME w = [WatchlistOf(w.id, row) EXCEPT !.archived = w.archived]
          PROVE  v = [WatchlistOf(v.id, row) EXCEPT !.archived = v.archived]
      BY <2>2 DEF WatchlistOf, TypeInv, ListRows
    <2> HIDE DEF v
    <2> QED BY <2>1, <2>2 DEF ListInv, Editing
  <1>9. ASSUME UNCHANGED vars \/ \E w \in lists : DeleteWatchlist(w) PROVE ListInv'
    <2>1. UNCHANGED <<row, op, met>> /\ lists' \subseteq lists
      BY <1>9 DEF DeleteWatchlist, vars
    <2> QED BY <2>1 DEF ListInv, Editing
  <1> QED BY <1>1, <1>2, <1>3, <1>4, <1>5, <1>6, <1>7, <1>8, <1>9 DEF Next, Serve

(* A watchlist asks for what its request says as long as no edit and no     *)
(* confirmation of the request are under way at once.                       *)
THEOREM WatchlistsMatch == Spec => []WatchlistMatches
  <1>1. Init => ListInv
    BY DEF Init, ListInv, Editing, Idle
  <1>2. ListInv => WatchlistMatches
    BY DEF ListInv, WatchlistMatches
  <1> QED BY <1>1, <1>2, TypeAlways, ListsNext, PTL DEF Spec

=============================================================================
