-------------------------- MODULE ShoppingRequests --------------------------
(* One shopping request of a user: created, edited, confirmed into          *)
(* watchlists.                                                              *)
(*                                                                          *)
(* A handler is one transaction at READ COMMITTED.  An edit reads the       *)
(* request, checks that no watchlist is linked to it, and only then parses  *)
(* the text, which may take Ollama seconds; its writes come last.  The ORM  *)
(* writes the columns that differ from what it read and locks their rows;   *)
(* where nothing differs it writes and locks nothing.                       *)
EXTENDS Naturals, FiniteSets

CONSTANTS
    Handlers,     \* PUT and POST .../watchlist requests served at once
    None,
    Slugs,        \* categories of the catalogue
    Texts,
    Rules, Llm,   \* what the keyword rules and Ollama find in a text
    Overrides,    \* constraints set by hand: functions on some of the fields
    MaxStarts,    \* bound: edits and confirmations begun
    MaxLists      \* bound: watchlists of the request

Constraints == {"category", "budget"}
Fields      == Constraints \cup {"text", "attributes"}

(* What may stand in a column: what was found in a text, or set by hand.    *)
Values(f) ==
    CASE f = "text"       -> Texts
      [] f = "attributes" -> {"deterministic-v1", "hybrid-v1"} \X SUBSET Constraints
      [] OTHER -> {None} \cup {Rules[t][f] : t \in Texts} \cup {Llm[t][f] : t \in Texts}
                    \cup {o[f] : o \in {x \in Overrides : f \in DOMAIN x}}

Columns == [Fields -> UNION {Values(f) : f \in Fields}]

ASSUME ShoppingRequestsAssumption ==
    /\ None \notin Slugs \cup Columns
    /\ DOMAIN Rules = Texts /\ DOMAIN Llm = Texts
    /\ \A t \in Texts : DOMAIN Rules[t] = Constraints /\ DOMAIN Llm[t] = Constraints
    /\ \A o \in Overrides : DOMAIN o \subseteq Constraints
    /\ {MaxStarts, MaxLists} \subseteq Nat

VARIABLES
    row,          \* the request and its constraints
    recs,         \* recommendations; one stands for the drafts of an edit
    lists,        \* watchlists with the request as source
    op,           \* what each handler is doing
    last,         \* history: drafts of the edit committed last
    met,          \* history: what has been under way beside an edit
    started

vars == <<row, recs, lists, op, last, met, started>>

(* The budget is a column of the request as well as of its constraints.     *)
TablesOf(f) ==
    CASE f = "text"   -> {"shopping_requests"}
      [] f = "budget" -> {"shopping_requests", "shopping_request_constraints"}
      [] OTHER        -> {"shopping_request_constraints"}

(* Ollama is disabled, times out or answers nonsense, or fills the gaps.    *)
Merged(t) == [f \in Constraints |-> IF Rules[t][f] = None THEN Llm[t][f] ELSE Rules[t][f]]

ParseRequest(t) ==
    {[parser |-> "deterministic-v1", found |-> Rules[t]],
     [parser |-> "hybrid-v1", found |-> Merged(t)]}

(* Mutant: the names of the fields replace the parser's attributes.         *)
OverriddenReplaced(t, p, o) ==
    [f \in Fields |->
        CASE f = "text"       -> t
          [] f = "attributes" -> <<"no parser", DOMAIN o>>
          [] f \in DOMAIN o   -> o[f]
          [] OTHER            -> p.found[f]]

(* The constraints set by hand win, and attributes name them.               *)
Overridden(t, p, o) ==
    [f \in Fields |->
        CASE f = "text"       -> t
          [] f = "attributes" -> <<p.parser, DOMAIN o>>
          [] f \in DOMAIN o   -> o[f]
          [] OTHER            -> p.found[f]]

(* No drafts without a category, or for one the catalogue does not have.    *)
Drafts(n, r) ==
    IF r["category"] \in Slugs
    THEN {[edit |-> n, wish |-> [f \in Constraints |-> r[f]]]}
    ELSE {}

Idle == [pc |-> "idle", edit |-> 0, seen |-> None, text |-> None, set |-> None,
         new |-> None, locks |-> {}, dead |-> {}, owned |-> {}]

Init ==
    /\ row = None
    /\ recs = {}
    /\ lists = {}
    /\ op = [h \in Handlers |-> Idle]
    /\ last = {}
    /\ met = {}
    /\ started = 0

(* Locked rows of the two tables, and locked recommendations.               *)
LockedByOthers(h) == UNION {op[g].locks : g \in Handlers \ {h}}
OwnedByOthers(h)  == UNION {op[g].owned : g \in Handlers \ {h}}

Finish(h) == op' = [op EXCEPT ![h] = Idle]

Begin == started < MaxStarts /\ started' = started + 1

-----------------------------------------------------------------------------
(* create_shopping_request: nobody else knows the request yet.              *)
Create(t) ==
    /\ row = None
    /\ Begin
    /\ \E p \in ParseRequest(t) :
          LET r == Overridden(t, p, [f \in {} |-> None]) IN
          row' = r /\ recs' = Drafts(started', r)
    /\ last' = recs'
    /\ UNCHANGED <<lists, op, met>>

Editing(h) == op[h].pc \in {"check", "parse", "write", "commit"}

UnderWay == {IF Editing(h) THEN "edit" ELSE "confirmation" : h \in {g \in Handlers : op[g].pc # "idle"}}

(* The editor sends a text, and perhaps constraints set by hand.            *)
StartEdit(h, t, o) ==
    /\ row # None /\ op[h].pc = "idle"
    /\ Begin
    /\ op' = [op EXCEPT ![h] = [Idle EXCEPT
         !.pc = "check", !.edit = started', !.seen = row, !.text = t, !.set = o]]
    /\ met' = met \cup UnderWay
    /\ UNCHANGED <<row, recs, lists, last>>

(* Mutant: only a list that is not archived locks the request.              *)
LinkedShown == \E w \in lists : ~w.archived

Linked == lists # {}

(* 409 when a watchlist is linked.                                          *)
CheckLink(h) ==
    /\ op[h].pc = "check"
    /\ IF Linked THEN Finish(h) ELSE op' = [op EXCEPT ![h].pc = "parse"]
    /\ UNCHANGED <<row, recs, lists, last, met, started>>

(* 422 when the category set by hand does not exist.                        *)
Parse(h) ==
    LET o == op[h].set IN
    /\ op[h].pc = "parse"
    /\ IF "category" \in DOMAIN o /\ o["category"] \notin Slugs \cup {None}
       THEN Finish(h)
       ELSE \E p \in ParseRequest(op[h].text) :
               op' = [op EXCEPT ![h].pc = "write", ![h].new = Overridden(op[h].text, p, o)]
    /\ UNCHANGED <<row, recs, lists, last, met, started>>

Changed(h) == {f \in Fields : op[h].new[f] # op[h].seen[f]}

(* Mutant: recommendations that are there are left alone.                   *)
ClearedNone == {}

Cleared == recs

(* The flush updates the changed columns, waiting for their rows; the       *)
(* DELETE then sees the recommendations committed so far.  It locks those   *)
(* that another edit is not deleting already.                               *)
WriteEdit(h) ==
    LET rows == UNION {TablesOf(f) : f \in Changed(h)} IN
    /\ op[h].pc = "write"
    /\ rows \cap LockedByOthers(h) = {}
    /\ op' = [op EXCEPT ![h].pc = "commit", ![h].locks = rows,
                        ![h].dead = Cleared, ![h].owned = Cleared \ OwnedByOthers(h)]
    /\ UNCHANGED <<row, recs, lists, last, met, started>>

(* Mutant: drafts are added before the recommendations are cleared.         *)
RecsAfterSwapped(h) == {}

RecsAfter(h) == (recs \ op[h].dead) \cup Drafts(op[h].edit, op[h].new)

(* Mutant: a session that is not closed keeps its locks.                    *)
ReleaseNever(h) == op' = [op EXCEPT ![h] = [Idle EXCEPT !.locks = op[h].locks]]

Release(h) == Finish(h)

CommitEdit(h) ==
    /\ op[h].pc = "commit"
    /\ op[h].dead \cap OwnedByOthers(h) = {}
    /\ row' = [f \in Fields |-> IF f \in Changed(h) THEN op[h].new[f] ELSE row[f]]
    /\ recs' = RecsAfter(h)
    /\ last' = Drafts(op[h].edit, op[h].new)
    /\ Release(h)
    /\ UNCHANGED <<lists, met, started>>

-----------------------------------------------------------------------------
(* Confirming reads the request, then adds a watchlist; it asks neither     *)
(* whether there is one already nor whether the request has changed.        *)
StartConfirm(h) ==
    /\ row # None /\ op[h].pc = "idle"
    /\ Cardinality(lists) + Cardinality({g \in Handlers : op[g].pc = "confirm"}) < MaxLists
    /\ Begin
    /\ op' = [op EXCEPT ![h] = [Idle EXCEPT !.pc = "confirm", !.edit = started', !.seen = row]]
    /\ met' = IF "edit" \in UnderWay THEN met \cup {"confirmation"} ELSE met
    /\ UNCHANGED <<row, recs, lists, last>>

(* A category the catalogue does not know leaves the rule without one.      *)
WatchlistOf(n, r) ==
    [id |-> n, archived |-> FALSE, budget |-> r["budget"],
     category |-> IF r["category"] \in Slugs THEN r["category"] ELSE None]

Confirm(h) ==
    /\ op[h].pc = "confirm"
    /\ lists' = lists \cup {WatchlistOf(op[h].edit, op[h].seen)}
    /\ Finish(h)
    /\ UNCHANGED <<row, recs, last, met, started>>

(* Archive and restore, and deletion: these unlock nothing, and everything. *)
ArchiveWatchlist(w, archived) ==
    /\ w.archived # archived
    /\ lists' = (lists \ {w}) \cup {[w EXCEPT !.archived = archived]}
    /\ UNCHANGED <<row, recs, op, last, met, started>>

DeleteWatchlist(w) ==
    /\ lists' = lists \ {w}
    /\ UNCHANGED <<row, recs, op, last, met, started>>

Serve(h) == CheckLink(h) \/ Parse(h) \/ WriteEdit(h) \/ CommitEdit(h) \/ Confirm(h)

Next ==
    \/ \E t \in Texts : Create(t)
    \/ \E h \in Handlers, t \in Texts, o \in Overrides : StartEdit(h, t, o)
    \/ \E h \in Handlers : StartConfirm(h) \/ Serve(h)
    \/ \E w \in lists, a \in BOOLEAN : ArchiveWatchlist(w, a)
    \/ \E w \in lists : DeleteWatchlist(w)

(* The server keeps serving what it accepted; Ollama has a timeout.         *)
Fairness == \A h \in Handlers : WF_vars(Serve(h))

Spec == Init /\ [][Next]_vars /\ Fairness

-----------------------------------------------------------------------------
(* The shape of the state.                                                  *)
RequestRows == {r \in Columns : \A f \in Fields : r[f] \in Values(f)}

TypeOK ==
    /\ row \in {None} \cup RequestRows
    /\ \A r \in recs : r.edit \in 1..started /\ r.wish["category"] \in Slugs
    /\ \A w \in lists : w.category \in Slugs \cup {None} /\ w.archived \in BOOLEAN
    /\ \A h \in Handlers :
          /\ op[h].pc \in {"idle", "check", "parse", "write", "commit", "confirm"}
          /\ op[h].pc = "idle" => op[h] = Idle
          /\ op[h].pc \in {"write", "commit"} => op[h].new \in RequestRows
    /\ started \in 0..MaxStarts

(* The recommendations of a request are those of its constraints, made once *)
(* (update_shopping_request replaces both), as long as no two edits were    *)
(* under way at once; and however they overlap, the drafts of the one       *)
(* committed last are there.                                                *)
DraftsFollowEdits ==
    /\ last \subseteq recs
    /\ "edit" \notin met /\ row # None =>
         /\ \A r \in recs : \A f \in Constraints : r.wish[f] = row[f]
         /\ Cardinality(recs) = IF row["category"] \in Slugs THEN 1 ELSE 0

(* A watchlist made from a request asks for what the request says, for as   *)
(* long as it is linked: that is what the lock is for.  It holds until an   *)
(* edit and a confirmation are under way at once.                           *)
WatchlistMatches ==
    "confirmation" \notin met =>
        \A w \in lists : w = [WatchlistOf(w.id, row) EXCEPT !.archived = w.archived]

(* Every request is answered: edits that wait for each other's rows end.    *)
HandlersEnd == \A h \in Handlers : op[h].pc # "idle" ~> op[h].pc = "idle"

=============================================================================
