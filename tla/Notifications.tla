--------------------------- MODULE Notifications ---------------------------
(* Alert generation and delivery: the Celery jobs, the admin routes and the *)
(* notification-cycle script that write and read the notifications table,   *)
(* together with the watchlist routes, the retention job and the account    *)
(* deletion that touch the same rows.                                       *)
(*                                                                          *)
(* Every job or request is one PostgreSQL transaction at READ COMMITTED.    *)
(* row and watch hold what is committed; tx[w] is what worker w has read or *)
(* written and not committed.  One action is one statement, or one awaited  *)
(* call to Telegram.                                                        *)
EXTENDS Integers, FiniteSets

CONSTANTS
    Workers,      \* processes that run a job, one transaction at a time
    Jobs,         \* which of "generate", "dispatch", "cycle" a worker runs
    Users,
    Watchlists,
    Owner,        \* the user a watchlist belongs to
    Triggers,     \* an offer and a rule that may fire for a watchlist
    Limit,        \* rows read by one dispatch
    MaxRuns,      \* bound: generation transactions
    MaxFaults     \* bound: crashes and transport errors

ASSUME NotificationsAssumption ==
    /\ IsFiniteSet(Workers)
    /\ Jobs \in [Workers -> SUBSET {"generate", "dispatch", "cycle"}]
    /\ Owner \in [Watchlists -> Users]
    /\ Limit \in Nat \ {0}
    /\ MaxRuns \in Nat
    /\ MaxFaults \in Nat

VARIABLES
    accounts,     \* users whose row exists
    watch,        \* watchlist: no row yet, generating, paused or archived, deleted
    row,          \* notification: no row yet, its committed status, deleted
    tx,           \* the open transaction of each worker
    clock,        \* generation transactions started so far
    erasing,      \* users whose deletion transaction is open
    purged,       \* notification rows those transactions have deleted
    sends,        \* history: times a notification reached the chat
    lost,         \* history: of those, how many were rolled back
    faults        \* faults so far

vars == <<accounts, watch, row, tx, clock, erasing, purged, sends, lost, faults>>

-----------------------------------------------------------------------------
(* A dedupe key is a watchlist, an offer and a rule.  A row is named by the *)
(* generation run that inserted it and its key: created_at is the start of  *)
(* that run's transaction, so runs also give the order of created_at.       *)
Keys   == Watchlists \X Triggers
RowIds == (1..MaxRuns) \X Keys

RunOf(r)  == r[1]
KeyOf(r)  == r[2]
ListOf(k) == k[1]
UserOf(r) == Owner[ListOf(KeyOf(r))]

KeysOf(R) == {KeyOf(r) : r \in R}

Statuses == {"created", "sent", "failed"}
Live     == {r \in RowIds : row[r] \in Statuses}

Idle == [pc |-> "idle", job |-> "none", run |-> 0, todo |-> {}, keys |-> {},
         add |-> {}, ins |-> {}, batch |-> {}, ok |-> {}, bad |-> {}]

Txn == [pc   : {"idle", "generate", "dispatch"},
        job  : {"none", "generate", "dispatch", "cycle"},
        run  : 0..MaxRuns,
        todo : SUBSET Watchlists,   \* active watchlists still to be scanned
        keys : SUBSET Keys,         \* rules that fired, still to be deduplicated
        add  : SUBSET Keys,         \* the notification added but not flushed
        ins  : SUBSET RowIds,       \* rows inserted, invisible to others
        batch: SUBSET RowIds,       \* rows read, still to be sent
        ok   : SUBSET RowIds,       \* rows Telegram accepted
        bad  : SUBSET RowIds]       \* rows to be marked failed

Init ==
    /\ accounts = Users
    /\ watch = [l \in Watchlists |-> "none"]
    /\ row = [r \in RowIds |-> "none"]
    /\ tx = [w \in Workers |-> Idle]
    /\ clock = 0
    /\ erasing = {}
    /\ purged = {}
    /\ sends = [r \in RowIds |-> 0]
    /\ lost = [r \in RowIds |-> 0]
    /\ faults = 0

(* The exception leaves the handler and the session is closed: nothing the  *)
(* transaction wrote survives, what reached Telegram does.                  *)
Rollback(w, reached) ==
    /\ tx' = [tx EXCEPT ![w] = Idle]
    /\ lost' = [r \in RowIds |->
                    lost[r] + IF r \in tx[w].ok \cup reached THEN 1 ELSE 0]

(* Mutants: a rejected message is put back, or gets a status of its own.    *)
CommitAs(w, rejected) ==
    LET seen == Live \cup tx[w].ins IN
    /\ row' = [r \in RowIds |->
                  CASE r \in tx[w].ok \cap seen  -> "sent"
                    [] r \in tx[w].bad \cap seen -> rejected
                    [] r \in tx[w].ins \ (tx[w].ok \cup tx[w].bad) -> "created"
                    [] OTHER -> row[r]]
    /\ tx' = [tx EXCEPT ![w] = Idle]

CommitRequeue(w) == CommitAs(w, "created")
CommitRetry(w)   == CommitAs(w, "retry")

(* Flushed updates name the row by its primary key and no status: they      *)
(* apply to whatever the row has become, and to nothing once it is gone.    *)
Commit(w) ==
    LET seen == Live \cup tx[w].ins IN
    /\ row' = [r \in RowIds |->
                  CASE r \in tx[w].ok \cap seen  -> "sent"
                    [] r \in tx[w].bad \cap seen -> "failed"
                    [] r \in tx[w].ins \ (tx[w].ok \cup tx[w].bad) -> "created"
                    [] OTHER -> row[r]]
    /\ tx' = [tx EXCEPT ![w] = Idle]

-----------------------------------------------------------------------------
(* generate_notifications *)

ActiveWatchlists == {l \in Watchlists : watch[l] = "watching"}

StartGenerate(w, job) ==
    /\ tx[w].pc = "idle"
    /\ job \in Jobs[w] \cap {"generate", "cycle"}
    /\ clock < MaxRuns
    /\ clock' = clock + 1
    /\ tx' = [tx EXCEPT ![w] = [Idle EXCEPT !.pc = "generate", !.job = job,
                                            !.run = clock + 1,
                                            !.todo = ActiveWatchlists]]
    /\ UNCHANGED <<accounts, watch, row, erasing, purged, sends, lost, faults>>

(* The offers of one watchlist are read and its rules evaluated; which of   *)
(* them fire depends on prices and is left open.                            *)
MatchOffers(w, l) ==
    /\ tx[w].pc = "generate"
    /\ tx[w].keys = {} /\ tx[w].add = {}
    /\ l \in tx[w].todo
    /\ \E fired \in SUBSET Triggers :
          tx' = [tx EXCEPT ![w].todo = @ \ {l},
                           ![w].keys = {l} \X fired]
    /\ UNCHANGED <<accounts, watch, row, clock, erasing, purged, sends, lost, faults>>

(* SELECT by dedupe key: a row that is committed, whatever its status.      *)
KeyTaken(k) == \E r \in Live : KeyOf(r) = k

(* Mutant: an existing notification is met again and again.                 *)
CheckKeyStuck(w, k) ==
    /\ tx[w].pc = "generate"
    /\ tx[w].add = {}
    /\ k \in tx[w].keys
    /\ ~KeyTaken(k)
    /\ tx' = [tx EXCEPT ![w].keys = @ \ {k}, ![w].add = {k}]
    /\ UNCHANGED <<accounts, watch, row, clock, erasing, purged, sends, lost, faults>>

CheckKey(w, k) ==
    /\ tx[w].pc = "generate"
    /\ tx[w].add = {}
    /\ k \in tx[w].keys
    /\ tx' = [tx EXCEPT ![w].keys = @ \ {k},
                        ![w].add = IF KeyTaken(k) THEN {} ELSE {k}]
    /\ UNCHANGED <<accounts, watch, row, clock, erasing, purged, sends, lost, faults>>

(* The unique index makes an INSERT wait for the transaction that has       *)
(* inserted the same key and not finished.                                  *)
Waits(w, x) == x # w /\ tx[w].add \cap KeysOf(tx[x].ins) # {}

Deadlocked(w) ==
    \E C \in SUBSET Workers :
        w \in C /\ \A x \in C : \E y \in C : Waits(x, y)

(* INSERT, flushed by the next SELECT of the session: refused when the key  *)
(* has been committed since CheckKey or the watchlist is gone.              *)
(* Mutants: the table without its unique index, or its foreign key.         *)
RefusedNoIndex(k)      == watch[ListOf(k)] = "gone"
RefusedNoForeignKey(k) == KeyTaken(k)

Refused(k) == KeyTaken(k) \/ watch[ListOf(k)] = "gone"

FlushInsert(w) ==
    /\ tx[w].pc = "generate"
    /\ tx[w].add # {}
    /\ \A x \in Workers : ~Waits(w, x)
    /\ \E k \in tx[w].add :
          IF Refused(k)
          THEN Rollback(w, {})
          ELSE /\ tx' = [tx EXCEPT ![w].add = {},
                                   ![w].ins = @ \cup {<<tx[w].run, k>>}]
               /\ UNCHANGED lost
    /\ UNCHANGED <<accounts, watch, row, clock, erasing, purged, sends, faults>>

(* PostgreSQL aborts one member of a cycle of waiting transactions.         *)
DeadlockVictim(w) ==
    /\ Deadlocked(w)
    /\ Rollback(w, {})
    /\ UNCHANGED <<accounts, watch, row, clock, erasing, purged, sends, faults>>

GenerateDone(w) ==
    /\ tx[w].pc = "generate"
    /\ tx[w].todo = {} /\ tx[w].keys = {} /\ tx[w].add = {}

EndGenerate(w) ==
    /\ GenerateDone(w)
    /\ tx[w].job = "generate"
    /\ Commit(w)
    /\ UNCHANGED <<accounts, watch, clock, erasing, purged, sends, lost, faults>>

-----------------------------------------------------------------------------
(* dispatch_created_notifications *)

(* Mutants: failed notifications are tried again; uncommitted ones are read.*)
QueuedRetry == {r \in RowIds : row[r] \in {"created", "failed"}}
QueuedDirty == {r \in RowIds : row[r] = "created"} \cup UNION {tx[x].ins : x \in Workers}

Queued == {r \in RowIds : row[r] = "created"}

(* ORDER BY created_at LIMIT: rows of one run share their created_at.       *)
Oldest(R) == {B \in SUBSET R :
                 /\ Cardinality(B) = IF Cardinality(R) < Limit THEN Cardinality(R) ELSE Limit
                 /\ \A b \in B, c \in R \ B : RunOf(b) =< RunOf(c)}

ReadBatch(t, job, B) == [t EXCEPT !.pc = "dispatch", !.job = job, !.batch = B]

(* Mutant: the alerts of a paused watchlist are left in the queue.          *)
SelectWatching(w, job, rows) ==
    \E B \in Oldest({r \in rows : UserOf(r) \in accounts
                                 /\ watch[ListOf(KeyOf(r))] = "watching"}) :
        tx' = [tx EXCEPT ![w] = ReadBatch(tx[w], job, B)]

Select(w, job, rows) ==
    \E B \in Oldest({r \in rows : UserOf(r) \in accounts}) :
        tx' = [tx EXCEPT ![w] = ReadBatch(tx[w], job, B)]

StartDispatch(w) ==
    /\ tx[w].pc = "idle"
    /\ "dispatch" \in Jobs[w]
    /\ Select(w, "dispatch", Queued)
    /\ UNCHANGED <<accounts, watch, row, clock, erasing, purged, sends, lost, faults>>

(* scripts/notification_cycle.py dispatches in the transaction that         *)
(* generated, and so also reads the rows it has not committed.              *)
ContinueCycle(w) ==
    /\ GenerateDone(w)
    /\ tx[w].job = "cycle"
    /\ Select(w, "cycle", Queued \cup tx[w].ins)
    /\ UNCHANGED <<accounts, watch, row, clock, erasing, purged, sends, lost, faults>>

(* Telegram answers below 400: the message is in the chat.                  *)
SendAccepted(w, r) ==
    /\ r \in tx[w].batch
    /\ tx' = [tx EXCEPT ![w].batch = @ \ {r}, ![w].ok = @ \cup {r}]
    /\ sends' = [sends EXCEPT ![r] = @ + 1]
    /\ UNCHANGED <<accounts, watch, row, clock, erasing, purged, lost, faults>>

(* Mutant: the delivery error is swallowed.                                 *)
MarkFailedSwallowed(w, r) ==
    /\ r \in tx[w].batch
    /\ tx' = [tx EXCEPT ![w].batch = @ \ {r}, ![w].ok = @ \cup {r}]
    /\ UNCHANGED <<accounts, watch, row, clock, erasing, purged, sends, lost, faults>>

(* Telegram answers 400 or above, which includes 429 and 5xx.  (A user      *)
(* without a telegram_id fails too, but the column is NOT NULL.)            *)
MarkFailed(w, r) ==
    /\ r \in tx[w].batch
    /\ tx' = [tx EXCEPT ![w].batch = @ \ {r}, ![w].bad = @ \cup {r}]
    /\ UNCHANGED <<accounts, watch, row, clock, erasing, purged, sends, lost, faults>>

(* Mutant: a transport error is handled like a rejection.                   *)
TransportErrorCaught(w, r) ==
    /\ r \in tx[w].batch
    /\ faults < MaxFaults
    /\ faults' = faults + 1
    /\ tx' = [tx EXCEPT ![w].batch = @ \ {r}, ![w].bad = @ \cup {r}]
    /\ \E reached \in {0, 1} : sends' = [sends EXCEPT ![r] = @ + reached]
    /\ UNCHANGED <<accounts, watch, row, clock, erasing, purged, lost>>

(* An httpx timeout or connection error is not a TelegramDeliveryError: it  *)
(* ends the job.  The message may have arrived or not.                      *)
TransportError(w, r) ==
    /\ r \in tx[w].batch
    /\ faults < MaxFaults
    /\ faults' = faults + 1
    /\ \E reached \in {{}, {r}} :
          /\ Rollback(w, reached)
          /\ sends' = [s \in RowIds |-> sends[s] + IF s \in reached THEN 1 ELSE 0]
    /\ UNCHANGED <<accounts, watch, row, clock, erasing, purged>>

(* flush and commit.  The UPDATE waits for a row another transaction has    *)
(* deleted and not committed.  When a row is gone the flush raises          *)
(* StaleDataError, or goes unnoticed where the driver reports no row count. *)
EndDispatch(w) ==
    LET changed == tx[w].ok \cup tx[w].bad IN
    /\ tx[w].pc = "dispatch"
    /\ tx[w].batch = {}
    /\ changed \cap purged = {}
    /\ \/ Commit(w) /\ UNCHANGED lost
       \/ ~(changed \subseteq Live \cup tx[w].ins) /\ Rollback(w, {}) /\ UNCHANGED row
    /\ UNCHANGED <<accounts, watch, clock, erasing, purged, sends, faults>>

(* The worker dies, or the database drops the connection.                   *)
Crash(w) ==
    /\ tx[w].pc # "idle"
    /\ faults < MaxFaults
    /\ faults' = faults + 1
    /\ Rollback(w, {})
    /\ UNCHANGED <<accounts, watch, row, clock, erasing, purged, sends>>

-----------------------------------------------------------------------------
(* Watchlist routes: one SELECT and one write each. *)

CreateWatchlist(l) ==
    /\ watch[l] = "none"
    /\ Owner[l] \in accounts
    /\ watch' = [watch EXCEPT ![l] = "watching"]
    /\ UNCHANGED <<accounts, row, tx, clock, erasing, purged, sends, lost, faults>>

(* PUT, pause, archive and restore: active /\ ~archived, or not.            *)
UpdateWatchlist(l) ==
    /\ watch[l] \in {"watching", "resting"}
    /\ watch' = [watch EXCEPT ![l] = IF @ = "watching" THEN "resting" ELSE "watching"]
    /\ UNCHANGED <<accounts, row, tx, clock, erasing, purged, sends, lost, faults>>

(* The foreign key of an uncommitted insert makes a delete wait.            *)
Referenced(l) == \E w \in Workers : \E r \in tx[w].ins : ListOf(KeyOf(r)) = l

(* notifications.watchlist_id has no ON DELETE: the request fails, and      *)
(* changes nothing, while a notification of the watchlist exists.           *)
DeleteWatchlist(l) ==
    /\ watch[l] \in {"watching", "resting"}
    /\ ~Referenced(l)
    /\ \A r \in Live : ListOf(KeyOf(r)) # l
    /\ watch' = [watch EXCEPT ![l] = "gone"]
    /\ UNCHANGED <<accounts, row, tx, clock, erasing, purged, sends, lost, faults>>

-----------------------------------------------------------------------------
(* cleanup_retained_data: rows created before the cutoff, whatever their    *)
(* status.                                                                  *)
CleanupRetainedData(cutoff) ==
    LET old == {r \in Live : RunOf(r) < cutoff} IN
    /\ cutoff =< clock
    /\ old # {} /\ old \cap purged = {}
    /\ row' = [r \in RowIds |-> IF r \in old THEN "gone" ELSE row[r]]
    /\ UNCHANGED <<accounts, watch, tx, clock, erasing, purged, sends, lost, faults>>

-----------------------------------------------------------------------------
(* delete_user_data finds the user by telegram_id and first deletes the     *)
(* notifications it can see; the rest follows in statements of its own.     *)
RowsOf(u) == {r \in Live : UserOf(r) = u}

StartErase(u) ==
    /\ u \in accounts \ erasing
    /\ erasing' = erasing \cup {u}
    /\ purged' = purged \cup RowsOf(u)
    /\ UNCHANGED <<accounts, watch, row, tx, clock, sends, lost, faults>>

EndErase(u) ==
    /\ erasing' = erasing \ {u}
    /\ purged' = {r \in purged : UserOf(r) # u}

(* Watchlists, shopping requests, sessions, the user, commit.               *)
FinishErase(u) ==
    /\ u \in erasing
    /\ \A l \in Watchlists : Owner[l] = u => ~Referenced(l)
    /\ RowsOf(u) \subseteq purged
    /\ EndErase(u)
    /\ row' = [r \in RowIds |-> IF r \in RowsOf(u) THEN "gone" ELSE row[r]]
    /\ watch' = [l \in Watchlists |-> IF Owner[l] = u THEN "gone" ELSE watch[l]]
    /\ accounts' = accounts \ {u}
    /\ UNCHANGED <<tx, clock, sends, lost, faults>>

(* A notification committed after the first statement makes the delete of   *)
(* its watchlist violate the foreign key: the whole deletion is undone.     *)
AbortErase(u) ==
    /\ u \in erasing
    /\ ~(RowsOf(u) \subseteq purged)
    /\ EndErase(u)
    /\ UNCHANGED <<accounts, watch, row, tx, clock, sends, lost, faults>>

-----------------------------------------------------------------------------
(* What a worker does once its transaction has begun.                       *)
Step(w) ==
    \/ \E l \in Watchlists : MatchOffers(w, l)
    \/ \E k \in Keys : CheckKey(w, k)
    \/ FlushInsert(w)
    \/ DeadlockVictim(w)
    \/ EndGenerate(w)
    \/ ContinueCycle(w)
    \/ \E r \in RowIds : SendAccepted(w, r) \/ MarkFailed(w, r)
    \/ EndDispatch(w)

Next ==
    \/ \E w \in Workers :
          \/ \E job \in {"generate", "cycle"} : StartGenerate(w, job)
          \/ StartDispatch(w)
          \/ Step(w)
          \/ \E r \in RowIds : TransportError(w, r)
          \/ Crash(w)
    \/ \E l \in Watchlists : CreateWatchlist(l) \/ UpdateWatchlist(l) \/ DeleteWatchlist(l)
    \/ \E cutoff \in 1..MaxRuns : CleanupRetainedData(cutoff)
    \/ \E u \in Users : StartErase(u) \/ FinishErase(u) \/ AbortErase(u)

(* Celery beat starts a dispatch again and again, a transaction that can    *)
(* take its next step takes it, and so does a deletion.                     *)
Fairness ==
    /\ \A w \in Workers : WF_vars(StartDispatch(w)) /\ WF_vars(Step(w))
    /\ \A u \in Users : WF_vars(FinishErase(u)) /\ WF_vars(AbortErase(u))

Spec     == Init /\ [][Next]_vars
FairSpec == Spec /\ Fairness

-----------------------------------------------------------------------------
TypeOK ==
    /\ accounts \subseteq Users
    /\ watch \in [Watchlists -> {"none", "watching", "resting", "gone"}]
    /\ row \in [RowIds -> {"none", "gone"} \cup Statuses]
    /\ tx \in [Workers -> Txn]
    /\ clock \in 0..MaxRuns
    /\ erasing \subseteq Users
    /\ purged \subseteq RowIds
    /\ sends \in [RowIds -> Nat]
    /\ lost \in [RowIds -> Nat]
    /\ faults \in 0..MaxFaults

(* One live notification per dedupe key, whatever generators overlap.       *)
OneRowPerKey ==
    \A r, s \in Live : KeyOf(r) = KeyOf(s) => r = s

(* No notification refers to a deleted watchlist or a deleted account, even *)
(* when it was generated while the deletion was under way.                  *)
NoOrphans ==
    \A r \in Live : watch[ListOf(KeyOf(r))] # "gone" /\ UserOf(r) \in accounts

(* A notification shown as sent reached the chat in a transaction that was  *)
(* not rolled back.                                                         *)
SentWasDelivered ==
    \A r \in RowIds : row[r] = "sent" => sends[r] > lost[r]

Dispatchers == {w \in Workers : Jobs[w] \cap {"dispatch", "cycle"} # {}}

(* A user reads the same alert twice only because a send was rolled back or *)
(* because two dispatches overlapped: each dispatcher delivers a row at     *)
(* most once for good.                                                      *)
DuplicatesBounded ==
    \A r \in RowIds : sends[r] =< lost[r] + Cardinality(Dispatchers)

(* An alert that never was in the table can only come from the cycle        *)
(* script, which sends before it commits.                                   *)
NoPhantomAlert ==
    \A r \in RowIds : sends[r] > 0 /\ row[r] = "none" =>
        \/ lost[r] > 0
        \/ \E w \in Workers : tx[w].job = "cycle" /\ r \in tx[w].ok

(* Where one worker dispatches, "failed" means the alert was not delivered  *)
(* by any transaction that committed.                                       *)
FailedWasNotDelivered ==
    Cardinality(Dispatchers) = 1 =>
        \A r \in RowIds : row[r] = "failed" => sends[r] = lost[r]

-----------------------------------------------------------------------------
(* Inductive strengthenings, for the proofs. *)

(* A generating transaction has its run number, and no other worker has it. *)
RunsNumbered ==
    /\ \A w \in Workers : tx[w].pc = "generate" => tx[w].run \in 1..clock
    /\ \A w \in Workers : \A r \in tx[w].ins : RunOf(r) = tx[w].run

TypeInv == TypeOK /\ RunsNumbered

(* The unique index holds across committed rows and open transactions.      *)
InsertsUnique ==
    /\ \A w \in Workers : \A r \in tx[w].ins : ~KeyTaken(KeyOf(r))
    /\ \A w, x \in Workers : w # x => KeysOf(tx[w].ins) \cap KeysOf(tx[x].ins) = {}

KeyInv == TypeInv /\ InsertsUnique /\ OneRowPerKey

(* The foreign keys hold across committed rows and open transactions: a row *)
(* exists only for a watchlist that does, and that one only for an account. *)
Registered(l) == watch[l] \in {"watching", "resting"}

ReferencesHeld ==
    /\ \A l \in Watchlists : Registered(l) => Owner[l] \in accounts
    /\ \A w \in Workers :
          /\ \A l \in tx[w].todo : watch[l] # "none"
          /\ \A k \in tx[w].keys \cup tx[w].add : watch[ListOf(k)] # "none"
          /\ \A r \in tx[w].ins : Registered(ListOf(KeyOf(r)))
    /\ \A r \in Live : Registered(ListOf(KeyOf(r)))

OrphanInv == TypeInv /\ ReferencesHeld

-----------------------------------------------------------------------------
(* Once settled a notification is never queued again and once deleted never *)
(* comes back, though overlapping dispatchers may overwrite its status.     *)
NeverRequeued ==
    [][\A r \in RowIds : row[r] \notin {"none", "created"} => row'[r] # "created"
                         /\ (row[r] = "gone" => row'[r] = "gone")]_vars

(* Pausing or archiving a watchlist is the documented opt-out: no alert of  *)
(* a watchlist that rests reaches the chat.  What was queued, or read by a  *)
(* generator, before the pause breaks it.                                   *)
OptOutHonoured ==
    [][\A r \in RowIds : watch[ListOf(KeyOf(r))] = "resting" => sends'[r] = sends[r]]_vars

(* Without the cycle script the table implements an outbox: alerts are      *)
(* published all or none, one per key, delivered only once published, and   *)
(* "sent" only once delivered.                                              *)
Delivered == {r \in RowIds : sends[r] > 0}

Outbox == INSTANCE AlertOutbox WITH
              Msgs  <- RowIds, Topic <- KeyOf, state <- row, inbox <- Delivered

ImplementsOutbox == Outbox!Spec

(* Whatever crashes and transport errors there were, once they stop every   *)
(* queued notification is sent, failed or deleted.                          *)
EventuallySettled ==
    \A r \in RowIds : row[r] = "created" ~> row[r] # "created"

(* No transaction stays open: neither lock waits nor deadlocks hold it.     *)
TransactionsEnd ==
    \A w \in Workers : tx[w].pc # "idle" ~> tx[w].pc = "idle"
=============================================================================
