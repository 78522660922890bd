---------------------------- MODULE AccountData -----------------------------
(* What an operator does to a user's account (app/domains/privacy/service.py*)
(* by way of scripts/user_data.py and scripts/user_data_smoke.py): export,  *)
(* count and delete, each a transaction at READ COMMITTED whose statements  *)
(* see what is committed when they run, beside the handlers and jobs that   *)
(* insert rows of the account or remove them.                               *)
EXTENDS Naturals, Sequences, FiniteSets

CONSTANTS
    Rows, TableOf, OwnerOf,    \* rows there may be, with table and user
    RefersTo,                  \* [Rows -> rows its foreign keys point to]
    Account,                   \* the user whose account it is
    Writers, NoRow,
    MaxChanges                 \* bound: inserts and removals beside the command

VARIABLES
    rows,    \* committed rows
    op,      \* the operator's transaction
    writer,  \* [Writers -> row inserted and not committed yet, or NoRow]
    changes  \* history: inserts and removals so far

accountVars == <<rows, op, writer, changes>>

-----------------------------------------------------------------------------
Tables == {"user", "session", "request", "constraints", "recommendation", "watchlist",
           "notification"}

Others == {r \in Rows : OwnerOf[r] # Account}

(* ON DELETE CASCADE from users, and from requests to what is below them.   *)
Cascades(r) ==
    {p \in RefersTo[r] : \/ TableOf[p] = "user"
                         \/ TableOf[r] \in {"constraints", "recommendation"}}

(* The keys of notifications refuse; that of a watchlist to its request is  *)
(* set to null.                                                             *)
Refuses(r) ==
    IF TableOf[r] = "notification" THEN {p \in RefersTo[r] : TableOf[p] # "user"} ELSE {}

(* The keys that cascade are not nullable, and lead from a user's rows to   *)
(* the user, from those of a request to the request.                        *)
ASSUME AccountAssumption ==
    /\ TableOf \in [Rows -> Tables] /\ RefersTo \in [Rows -> SUBSET Rows]
    /\ NoRow \notin Rows /\ MaxChanges \in Nat
    /\ \A r \in Rows :
        /\ IF TableOf[r] = "user"
           THEN /\ RefersTo[r] = {}
                /\ \A q \in Rows : TableOf[q] = "user" /\ OwnerOf[q] = OwnerOf[r] => q = r
           ELSE Cascades(r) # {}
        /\ \A p \in Cascades(r) :
            /\ OwnerOf[p] = OwnerOf[r]
            /\ TableOf[p] = IF TableOf[r] \in {"constraints", "recommendation"}
                            THEN "request" ELSE "user"

(* A notification is about a watchlist of its user and the request this was *)
(* made from, by create_watchlist_from_shopping_request, of the same user:  *)
(* create_watchlist takes any request, but no client here sends one.        *)
ASSUME NotificationsAreOwn ==
    \A r \in Rows : \A p \in Refuses(r) :
        OwnerOf[p] = OwnerOf[r] /\ TableOf[p] \in {"watchlist", "request"}

-----------------------------------------------------------------------------
NoOp == [pc |-> 0, command |-> "none", ids |-> {}, counts |-> <<>>,
         exported |-> {}, gone |-> {}, steady |-> {}, alone |-> TRUE]

(* Whatever the account has, the rows its rows refer to are there.          *)
AccountInit ==
    /\ \E S \in SUBSET (Rows \ Others) :
          rows = S \cup Others /\ \A r \in S : RefersTo[r] \subseteq S
    /\ op = NoOp /\ changes = 0
    /\ writer = [w \in Writers |-> NoRow]

-----------------------------------------------------------------------------
(* export_user_data: one query for each table.                              *)
ExportOrder == <<"user", "session", "request", "constraints", "recommendation",
                 "watchlist", "notification">>

CountOrder == <<"session", "request", "constraints", "recommendation", "watchlist",
                "notification">>

(* Mutant: the watchlists go before the notifications that refer to them.   *)
DeleteOrderSwapped == <<"watchlist", "notification", "recommendation", "constraints",
                        "request", "session", "user">>

DeleteOrder == <<"notification", "watchlist", "recommendation", "constraints", "request",
                 "session", "user">>

Statements(kind, order) == [n \in DOMAIN order |-> <<kind, order[n]>>]

Ids    == <<<<"ids", "request">>>>
Count  == Ids \o Statements("count", CountOrder)
Delete == Ids \o Count \o Statements("delete", DeleteOrder)

(* user_data.py export, delete and delete --confirm, and the smoke.         *)
Program(command) ==
    CASE command = "export"  -> Statements("export", ExportOrder)
      [] command = "dry run" -> Count
      [] command = "delete"  -> Delete
      [] OTHER               -> Statements("export", ExportOrder) \o Count \o Delete

Statement == Program(op.command)[op.pc]

(* What a query finds: rows of the account, those below a request by the    *)
(* requests that were read first.                                           *)
(* Mutant: recommendations of whoever they are.                             *)
FoundOfAll(t) ==
    {r \in rows \ op.gone : TableOf[r] = t /\ (t = "recommendation" \/ OwnerOf[r] = Account)}

Found(t) ==
    {r \in rows \ op.gone :
        /\ TableOf[r] = t
        /\ IF t \in {"constraints", "recommendation"} THEN RefersTo[r] \cap op.ids # {}
           ELSE OwnerOf[r] = Account}

(* A command reads the user first and says so when there is none.           *)
Start(command) ==
    /\ op.pc = 0 /\ op.command = "none"
    /\ \E r \in rows : TableOf[r] = "user" /\ OwnerOf[r] = Account
    /\ op' = [NoOp EXCEPT !.pc = 1, !.command = command, !.steady = rows,
                          !.alone = \A w \in Writers : writer[w] = NoRow]
    /\ UNCHANGED <<rows, writer, changes>>

Ran(o) == [o EXCEPT !.pc = @ + 1]

(* Mutant: constraints are left out of the payload.                         *)
PayloadWithout(S) == {r \in S : TableOf[r] # "constraints"}

(* The payloads of the rows: every column but the hash of the token.        *)
Payload(S) == S

Query ==
    /\ op.pc \in 1..Len(Program(op.command))
    /\ LET t == Statement[2] IN
       \/ /\ Statement[1] = "export"
          /\ op' = Ran([op EXCEPT !.exported = @ \cup Payload(Found(t)),
                                  !.ids = IF t = "request" THEN Found(t) ELSE @])
       \/ /\ Statement[1] = "ids"
          /\ op' = Ran([op EXCEPT !.ids = Found(t)])
       \/ /\ Statement[1] = "count"
          /\ op' = Ran([op EXCEPT !.counts = Append(@, <<t, Cardinality(Found(t))>>)])
    /\ UNCHANGED <<rows, writer, changes>>

(* Mutant: ON DELETE SET NULL, a row outlives what it refers to.             *)
NoCascade(S) == S

WithCascade(S) ==
    LET below(T) == {r \in rows \ op.gone : Cascades(r) \cap T # {}}
        first == S \cup below(S)
    IN  first \cup below(first)

(* A row that is being inserted locks the rows it refers to.                *)
Locked(S) == \E w \in Writers : writer[w] # NoRow /\ RefersTo[writer[w]] \cap S # {}

(* A DELETE statement; a foreign key that refuses undoes the transaction.   *)
(* Recommendations and constraints are skipped when there is no request.    *)
DeleteRows ==
    /\ op.pc \in 1..Len(Program(op.command)) /\ Statement[1] = "delete"
    /\ LET S == WithCascade(Found(Statement[2])) IN
       /\ ~Locked(S)
       /\ op' = IF \E n \in rows \ (op.gone \cup S) : Refuses(n) \cap S # {} THEN NoOp
                ELSE Ran([op EXCEPT !.gone = @ \cup S])
    /\ UNCHANGED <<rows, writer, changes>>

(* The transaction is committed if it has deleted anything, and the report  *)
(* is printed.                                                              *)
Finish ==
    /\ op.pc > 0 /\ op.pc = Len(Program(op.command)) + 1
    /\ rows' = rows \ op.gone
    /\ op' = [Ran(op) EXCEPT !.gone = {}]
    /\ UNCHANGED <<writer, changes>>

-----------------------------------------------------------------------------
Changed ==
    /\ changes < MaxChanges /\ changes' = changes + 1
    /\ op.pc # 0 /\ op.pc <= Len(Program(op.command)) + 1

(* A handler or job inserts a row: the rows it refers to have to be there,  *)
(* and it waits while the operator's transaction has deleted one.           *)
Insert(w, r) ==
    /\ writer[w] = NoRow /\ r \notin rows /\ \A v \in Writers : writer[v] # r
    /\ RefersTo[r] \subseteq rows \ op.gone
    /\ Changed
    /\ writer' = [writer EXCEPT ![w] = r]
    /\ op' = [op EXCEPT !.alone = FALSE]
    /\ UNCHANGED rows

CommitInsert(w) ==
    /\ writer[w] # NoRow
    /\ rows' = rows \cup {writer[w]}
    /\ writer' = [writer EXCEPT ![w] = NoRow]
    /\ UNCHANGED <<op, changes>>

(* A session that is renewed, recommendations that are drafted anew or a    *)
(* watchlist without alerts is removed by the user's own calls.             *)
RemoveRow(r) ==
    /\ r \in rows \ op.gone /\ OwnerOf[r] = Account
    /\ TableOf[r] \in {"session", "recommendation", "watchlist"}
    /\ ~Locked({r}) /\ \A n \in rows : r \notin Refuses(n)
    /\ Changed
    /\ rows' = rows \ {r}
    /\ op' = [op EXCEPT !.alone = FALSE, !.steady = @ \ {r}]
    /\ UNCHANGED writer

AccountNext ==
    \/ \E command \in {"export", "dry run", "delete", "smoke"} : Start(command)
    \/ Query \/ DeleteRows \/ Finish
    \/ \E w \in Writers : (\E r \in Rows : Insert(w, r)) \/ CommitInsert(w)
    \/ \E r \in Rows : RemoveRow(r)

AccountSpec == AccountInit /\ [][AccountNext]_accountVars

-----------------------------------------------------------------------------
Reported == op.pc > 0 /\ op.pc = Len(Program(op.command)) + 2
Deletes  == op.command \in {"delete", "smoke"}
Mine(S)  == {r \in S : OwnerOf[r] = Account}

(* When a deletion is committed the account is gone, whatever the user's    *)
(* other calls and the jobs were writing meanwhile, and nobody else's rows  *)
(* are.                                                                     *)
ErasedMeansGone ==
    [][op.pc > 0 /\ op.pc = Len(Program(op.command)) + 1 /\ op'.pc > op.pc /\ Deletes
            => Mine(rows') = {} /\ Others \subseteq rows']_accountVars

(* An account nobody writes to meanwhile can be deleted: the order of the   *)
(* statements satisfies the foreign keys.                                   *)
LoneDeletionSucceeds ==
    [][op.alone /\ op.pc > 0 /\ op'.pc = 0 => Reported]_accountVars

(* An export lists every row the account had all the time, and none of      *)
(* somebody else.                                                           *)
ExportComplete ==
    Reported /\ op.command \in {"export", "smoke"} =>
        Mine(op.steady) \subseteq op.exported /\ op.exported = Mine(op.exported)

(* The counts an operator is shown are those of the rows of the account,    *)
(* those before a deletion and those reported after it alike.               *)
CountsAreTrue ==
    Reported /\ op.alone => \A n \in DOMAIN op.counts :
        op.counts[n][2] = Cardinality({r \in Mine(op.steady) : TableOf[r] = op.counts[n][1]})

(* What an operator reads about an account, exported or counted, is true.   *)
ReportsTrue == ExportComplete /\ CountsAreTrue

(* A deletion that is left alone is carried out, and one that is carried    *)
(* out leaves nothing.                                                      *)
DeletionComplete == LoneDeletionSucceeds /\ ErasedMeansGone

=============================================================================
