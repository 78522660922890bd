# Kupikupi: specification and verification

Kupikupi watches shop prices for Telegram users. A FastAPI backend over PostgreSQL keeps products,
offers, watchlists and shopping requests; Celery jobs import offers, recompute price analytics, generate
alerts and send them; a Telegram bot and a web app are clients of the API. The TLA+ modules here model
what that backend does to its database when jobs, requests and failures interleave, and the rules it
applies to what it finds there.

Paths below are relative to `src/backend/app` unless they start with `backend/`, `docs/`,
`telegram_bot/` or `webapp/`, which are under `src/`.

## The system

All state is in PostgreSQL. A job or a request opens one session, which is one transaction at READ
COMMITTED, and the job or the route commits at its end (`jobs/utils.py`, `db/session.py`); an exception
that leaves the handler rolls everything back. There are no explicit locks, no savepoints, no version
columns and no retries: what orders concurrent work is only the unique constraints, the foreign keys and
the row locks of PostgreSQL. The repository's tests run one session at a time on SQLite, so almost
nothing about overlap, locks or foreign keys is tested.

| Component | State | Operations | Modules |
|---|---|---|---|
| notifications | `notifications`: created, sent, failed; unique `dedupe_key` | generate, dispatch, the cycle script that does both in one transaction | `Notifications`, `AlertOutbox`, `MatchingRules` |
| watchlists | active / archived lists | create, update, pause, archive, restore, delete | `Notifications`, `ShoppingRequests`, `TelegramBot` |
| source sync | source configs with due dates, mappings, products, offers, size lists, runs | tick over due configs, sync of one config | `SourceSync`, `ProductIdentity` |
| source adapters | none | fetch and read a feed: CSV, Heureka XML, JSON, Srovname | `FeedRecords`, `PagedListing` |
| store and feed configuration | stores, source configs | apply a file, the admin's changes | `FeedConfig` |
| deals | none | filter, score and page the offers of a user | `MatchingRules` |
| price analytics | snapshots, one analytics row per product and per product and store | snapshot and recompute on each offer write, hourly job | `PriceAnalytics` |
| fx | rates by currency and time | job, admin's rates, latest rate, conversion | `FxRates` |
| shopping requests | requests, constraints, recommendations | create, edit, confirm, recommend | `ShoppingRequests`, `Recommendations` |
| auth, users | users by Telegram id, refresh sessions | login, rotate, expiry | `AuthSessions` |
| privacy, retention | none of their own | export, count and delete an account; delete what is old | `AccountData`, `Notifications`, `AuthSessions` |
| catalog | brands, categories, products, variants | create, search, merge of two products | `CatalogMerge`, `ProductIdentity` |
| bot, web app | tokens in a page | commands, calls with a refresh and a retry | `TelegramBot`, `AuthSessions` |
| plumbing | none, or per process | scripts, metrics, settings | - |

What makes each correct:

* notifications: one live alert per dedupe key; "sent" means delivered; a lost, late or repeated send is
  accounted for; every queued alert is settled; nothing refers to a deleted watchlist or account;
* source sync: a run that reads succeeded left its feed in the offers; mapping and offer agree; no stray
  or duplicate products; every due config is synced although ticks abort each other;
* adapters: a price is read as it is meant or not at all; all products are fetched, once;
* price analytics: rows summarise the snapshots, and a historical minimum is one;
* deals, recommendations: what a user is alerted to is among the deals; an offer serves the wish it is
  given for, and no better one is left out;
* shopping requests: a confirmed request is not edited; recommendations are those of its constraints;
* sessions: one account per Telegram id, no session without one, a page keeps its token;
* account data: an export is complete, a deletion leaves nothing and nobody else's rows suffer;
* catalog merge: rows follow the product they were written for, whatever overlaps;
* fx: rates of a day belong together; whoever waits for a row has it in the end.

The hard behaviours are listed one by one, at their lines, under `hazards` in `PROJECT.json`.

## Modules

Most modules have one variable for each committed table and one for the open transactions: a record per
worker with what it has read, what it has written and not committed (its locks), and where it is in the
handler. An action is one statement, or the stretch between two statements others can come between. Names
of actions and helpers are those of the code where there is a function for them; `map` in `PROJECT.json`
gives the lines of every definition. History variables (marked so in each module) are read by no guard
but those of bounds. Modules named `...Proofs` extend the modules they are about and hold no definition of
the system. `Absence` declares `None`, the NULL or None that several of them speak of.

### Notifications, AlertOutbox

`row[r]` is the committed status of a notification, `watch[l]` the committed state of a watchlist,
`accounts` the users that exist. `tx[w]` is the open transaction of a worker: what it has read
(`todo`, `keys`, `batch`) and what it has written and not committed (`add`, `ins`, `ok`, `bad`).
A notification is named by the generation run that inserted it and its dedupe key (watchlist, offer and
rule); the run is the order of `created_at`, which PostgreSQL sets to the start of the transaction.

| Action | Code |
|---|---|
| `StartGenerate`, `MatchOffers`, `CheckKey`, `FlushInsert`, `EndGenerate` | `domains/notifications/service.py` 92-207, statement by statement; `jobs/notifications.py` 11-18 |
| `StartDispatch`, `SendAccepted`, `MarkFailed`, `EndDispatch` | `service.py` 51-89; `jobs/notifications.py` 21-35 |
| `ContinueCycle` | `backend/scripts/notification_cycle.py`: dispatch in the transaction that generated |
| `TransportError` | `integrations/telegram/client.py`: an httpx error is no `TelegramDeliveryError` and ends the job |
| `CreateWatchlist`, `UpdateWatchlist`, `DeleteWatchlist` | `api/v1/watchlists.py` |
| `CleanupRetainedData` | `domains/retention/service.py` |
| `StartErase`, `FinishErase`, `AbortErase` | `domains/privacy/service.py` 147-171, whose first statement can miss a row that a later one trips over |
| `Crash`, `DeadlockVictim`, `Waits` | the process dies; PostgreSQL's locks |

An insert waits for an uncommitted insert of the same key and is refused once that is committed; since
nothing catches the error, the whole run is rolled back. Two history variables, `sends` and `lost`, count
what reached the chat and how much of that was rolled back. Which rules fire is a free choice here;
`MatchingRules` has them. The branch for users without a `telegram_id` (`service.py` 70-73) is dead: the
column is NOT NULL.

`AlertOutbox` is the promise: alerts appear together, on topics no live alert is about; an alert is
delivered only after it appeared, and marked sent only after it was delivered. `Notifications` implements
it as long as nobody runs the cycle script, which sends before it commits.

### SourceSync

`table` maps every unique key (brand or category, mapping, offer, config row) to what it leads to;
`products` has no unique key, like the table. `tx[w].put` is the overlay of uncommitted writes, each a lock
until the end of the transaction. `sizes[k]` counts the size lists an offer carries; a transaction that
replaces the list deletes those it read (`seen`), less those deleted since (`Outlive`).

| Action | Code |
|---|---|
| `StartTick`, `StartManual`, `StartConfig`, `EndTick` | `jobs/sync.py`, `api/v1/admin.py` 188-235, `domains/stores/service.py` 106-123 |
| `Record`, `ResolveName`, `AddName`, `ResolveProduct`, `AddMapping` | `domains/stores/sync.py` 149-313 |
| `FindOffer`, `InsertOffer`, `UpdateOffer` | `sync.py` 86-146, `domains/offers/service.py` 20-39 |
| `EndRecords`, `MarkSynced` | `sync.py` 67-83, `stores/service.py` 126-141 |
| `TimePasses`, `UpdateSourceConfig` | the clock, or an edited `next_sync_at`; the admin's switch |

A record ends in one of four ways, which the constant `Outcomes` allows or not: good; rejected early,
before anything was written; rejected late, when its sizes do not validate and, for an existing offer, the
old ones are cleared already; or refused by the database. The last one is caught with the others, but the
session cannot be used after it and the flush in `run_source_sync`'s `finally` raises: the model rolls back
at once, because nothing done in between survives. Left out: an UPDATE of a mapping's `raw_data`, which
only adds one more lock under the key of the mapping, and the limit of fifty configs per tick.

### ProductIdentity

Two functions of the code compare products, each in its own way: the sync, to find the product an item is
(`domains/stores/sync.py` 181-285: by SKU, or else the oldest of category and brand whose model or name
matches), and the admin's list of duplicates (`domains/stores/service.py` 167-213). The module has both
and says how they fit: syncs, one at a time, add no candidates. A name is its normalized form; `Long` holds
those with the four characters both functions ask for. The proof holds for any
`Long`: the sync finds whatever the admin's list would show, and compares short models and names besides.

### FeedRecords, PagedListing

`FeedRecords` is what the four adapters make of the same shoes: which rows and SHOPITEMs become which
products and sizes, and how a price written with marks between thousands and before decimals is read. A
text is abstracted to its marks, and what it is read as to where the decimal point ends up. One item that
cannot be read fails the whole fetch, as in the code. `PagedListing` is `_fetch_records` of
`srovname_api.py`: request by request, while the shop, which the code does not control, changes. Both
assume what the code reads from settings or feeds: pages hold one product or more, prices are not negative.

### FeedConfig

`upsert_store_feed_config` in four steps with the row locks it takes, beside other operators and the
admin's routes. A file is refused unless its type is supported and its settings are complete
(`ValidSource`). A store's name is unique; type and URL of a config are not, so that two configs can come to
be, after which `scalar_one_or_none` raises whenever the file is applied. `alone` is history: an apply is
alone unless the admin changes something meanwhile or another apply is at the same store, by its name or,
when the admin renames the store in between, by its id.

### PriceAnalytics

A writer takes its offers in the order of a plan; for each it writes the price and its snapshot
(`WritePrice`), then recomputes the row of product and store and the row of the product: read the prices,
read the row, write it (`domains/offers/service.py` 119-170). The hourly job recomputes products only
(`jobs/analytics.py`). `low` is the all-time minimum and `recent` stands for the minima over windows. The
ORM compares with the row as the session first loaded it and writes what differs (`Stored`). The history
variable `overlapped` records whether a session has begun while another was open: `Exact` holds until then.

### MatchingRules, Recommendations

`MatchingRules` holds the deals (filter, match, score and pages of `domains/deals/service.py`) and the
alert rules of `domains/notifications/service.py` on one database state: the filter takes offers that meet
any criterion, the match and the alerts ask for all. `Recommendations` is the scoring of a request's
products (`domains/shopping_requests/service.py` 226-368) with the best offer of each.

### ShoppingRequests

One request with its row, recommendations and watchlists. An edit checks the lock, parses (Ollama may take
seconds or be disabled), and writes the columns that differ from what it read; its DELETE of recommendations
sees only committed ones. What the keyword rules and Ollama find in a text are constants, merged as
`merge_parsed_requests` does. Handlers overlap freely; the history variable `met` records what has been under
way beside an edit, because what the code promises holds until then (`DraftsFollowEdits`,
`WatchlistMatches`), and `last` the drafts of the edit committed last, which are there in any case.

### AuthSessions

Users and refresh sessions, a page with the calls it has in flight, and a bot chat. `withAuthRetry` of
`webapp/src/app/page.tsx` is `StartCall`, `Operation`, `ReadSession`, `Rotate`, `StoreTokens`, `Retry`;
login is `StartLogin`, `FindUser`, `WriteLogin`, `ReceiveLogin`. A token is its number; deletion and
retention are one step each, as every statement in them but one touches other tables.

### AccountData

The four commands an operator has, as lists of statements (`Program`): export, dry run, delete, and the
smoke that does all three in one transaction. Rows have a table, an owner and the rows their foreign keys
point to; cascades and refusals are those of the migrations. Handlers insert rows beside it and remove
some; an insert locks what it refers to. Two assumptions say what the rows may be: that their keys are
those of the schema (`AccountAssumption`), and that a notification refers to watchlists and requests of
its own user (`NotificationsAreOwn`). `create_watchlist` takes any request id, so that the second is a fact
about its clients: none in the repository sends one. Only `LoneDeletionSucceeds` rests on it.

### CatalogMerge

`merge_product` as seven UPDATEs and a DELETE, with PostgreSQL's locks (`WaitsFor`): a row another merge has
moved is waited for, a foreign key holds the product it points to, a DELETE waits for those and is refused
by rows it finds afterwards. A writer looks a product up and inserts a row for it later; nothing
inserts a variant. `heir[p]` is the product that the rows of `p` have been merged into.

### FxRates

A job is one transaction over its currencies: look for the row, insert or update it, commit at the end. A
quote that is no rate raises and undoes everything. A sync converts the price and the old price of an offer
with two queries for the newest rate.

### TelegramBot

A message of the user is looked up among the newest twenty unarchived lists and then acted on in a second
request, while the web app changes the same lists. A handler of the API reads the list and writes the flags
it found different. A timeout is no `BackendClientError`: the message is not answered although the API may
still carry it out (`Drop`). The history variables `shown` and `meant` hold the lists the last `/watchlists`
showed and a command is meant for; both lose a list that is archived, deleted, or pushed out of the newest twenty by
a new or a restored one (`Remain`), because from then on the bot can not know it.

## Runs

A module named `MC...` gives the constants values. Where one run checks several instances, each is a *scene*:
the variable `scene` is chosen at the start, the scene's instance of the module takes its steps and all other
variables stay. Every cfg has `CHECK_DEADLOCK FALSE`: with its bounds used up and nothing queued the system
really stops.

| Run | Instance | Shows |
|---|---|---|
| `notif_generate` | 2 generators, 2 watchlists, 2 runs | unique keys and foreign keys hold although generators, deletes, retention and account deletion overlap; no transaction stays blocked |
| `notif_dispatch` | 2 workers that generate or dispatch, 1 key, 2 runs, 1 fault | sent means delivered; duplicates only from rolled back sends and overlap; no settled row is queued again; the table implements `AlertOutbox` |
| `notif_single` | the cycle script or a dispatcher beside a generator, 2 users, 1 fault | failed means not delivered; an alert without a row is a rolled back send or one of the open cycle; every queued alert is settled once faults stop |
| `notif_optout` | as `notif_dispatch` | **violated**: a paused watchlist's queued alert is still sent |
| `sync_safety` | scenes: 2 workers, 1 config, 1 crash; 1 worker, 2 stores, 3 configs; 2 workers, records that fail early or late | offers agree with mappings, no stray products, duplicates bounded by overlap and none without it; a run that reads succeeded left every item offered with sizes |
| `sync_progress` | scenes: 2 tickers that insert the same rows, one also by hand, 1 crash; 2 tickers, 2 configs | neither losing inserts nor deadlocks starve a config |
| `sync_poison` | 1 worker, 2 configs, one record the database refuses | **violated**: that record starves both configs |
| `auth` | a page and a bot chat of one user with a call each, deletions, a lost reply | one account per Telegram id, no session without account; a page keeps the current token; expired sessions are removed |
| `shop` | 2 handlers at once, 2 texts, 3 overrides, 4 requests, 2 lists | drafts are those of the constraints until two edits overlap, the last edit's in any case; a linked list says what its request says until an edit and a confirmation overlap; edits end |
| `prices` | scenes: 1 session at a time; 2 without rows; 2 with rows; a day passes; opposite orders | exact rows until sessions overlap; no invented minimum; honest historical minima; the job repairs windows; sessions end |
| `rules` | scenes: `match`, `draft`, `identity`, `feed`, `leaf`, `account`, `bot`, `config` | see below |
| `backoffice` | scenes: 2 merges and a writer on two products; 2 jobs, 3 currencies, 2 days, a sync, the admin | rows follow merges, a lone merge succeeds, merges end; rates of a day are of one answer, conversions never go back in time, jobs end |

The scenes of `rules`:

| Scene | Instance | Shows |
|---|---|---|
| `match` | all pairs of watchlists in either order, up to 4 of 5 offers | an alerted offer is among the deals, a reached target is told, leafing meets every deal of a score of its own once |
| `draft` | catalogues of up to 2 of 16 products, 36 wishes, 1 draft kept | the offer can be bought and fits the budget it is said to fit; no better fit is left out |
| `identity` | no or 2 products of the admin, 5 items that agree in SKU, model, name | syncs add no duplicates to the admin's list |
| `feed` | up to 2 shoes in all notations of a price | prices as meant or refused; CSV and Heureka agree on sizes; a sale is one |
| `leaf` | up to 5 products, pages of 2, 2 changes | nothing the shop keeps is skipped unless it takes products away; nothing comes twice unless it lists new ones |
| `account` | 7 rows of one user, 3 of another, 2 changes beside the command | complete exports, true counts, deletions that leave nothing and are not refused by themselves |
| `bot` | 3 lists, 2 of which begin alike, 2 requests, 5 and 20 cut to 1 and 2 | the right list; what was shown is found; a resume restores nothing it did not see; archived lists are not active |
| `config` | 2 operators, 4 files of 2 stores, 4 applies or changes | a file nobody interferes with is applied as written, once, to nothing else |

What belongs together is one property, a conjunction of named parts; for each part a mutant of the code is
listed that breaks it:

| Property | Parts |
|---|---|
| `ProductsTidy` | `NoStrayProducts`, `DuplicatesNeedOverlap` of `SourceSync`: at most as many size lists or products as workers |
| `LosersEventuallySynced` | `EventuallySynced` of `SourceSync` with lost inserts, and with deadlocks |
| `JobRepairs` | `ProductRowsRepaired`, `SessionsEnd` of `PriceAnalytics` |
| `DealsComplete` | `AlertedIsDeal`, `TargetShown`, `PagesCover` of `MatchingRules` |
| `DraftsServe` | `OfferServes`, `BetterFitKept` of `Recommendations` |
| `RecordAsMeant`, `FetchedOnce` | `NumberAsMeant`, `SizesReachProduct`, `SaleIsHonest` of `FeedRecords`; `NothingSkipped`, `NoneTwice` of `PagedListing` |
| `ReportsTrue`, `DeletionComplete` | `ExportComplete`, `CountsAreTrue`; `LoneDeletionSucceeds`, `ErasedMeansGone` of `AccountData` |
| `CommandsAsMeant` | `RightList`, `ArchivedIsPaused`, `ShownIsFound`, `ResumeIsNoRestore` of `TelegramBot` |
| `RatesConsistent` | `QuotesTogether`, `ConversionMovesOn` of `FxRates` |
| `TransactionsAnswered` | `LoneMergeSucceeds`, `MergesEnd` of `CatalogMerge`, `JobsEnd` of `FxRates` |

Bounds. Two workers suffice for every race in the code, all of which are between a reader and one other
writer; three would only repeat them. `Limit = 1` makes the order of dispatch matter with two rows.
`MaxRuns = 2` lets a key be generated, removed by retention and generated again. One fault separates
"before", "after" and "during" a send. In `SourceSync`, two records of one product exercise the product
lookup inside a transaction, and `Copies = 3` leaves room for a product more than overlap explains. Two
products are what opposite merges need, and one row in the first and the last but one table they go through
lies before and after everything else. Three currencies with EUR in the middle have a skipped one between two
rows that two jobs can lock in turn. Pages of two with five products have a full, a full and a broken page.
One user beside another is enough to tell whose rows a command touches.

Fairness. Celery beat queues a dispatch and a tick again and again and a worker takes it in the end: weak
fairness of `StartDispatch`, strong fairness of `StartTick` and of the analytics job, because a worker may be
busy with other work whenever one looks; weak fairness of session cleanup. An open transaction that can take
its next step takes it. In `SourceSync` a waiting transaction stands in the lock queue, as PostgreSQL's do,
and is served before later ones; in `CatalogMerge`, `PriceAnalytics` and `FxRates` the same queue is strong
fairness of the step that waits. Crashes, lost replies and transport errors are bounded and not fair. Nothing
assumes that a send, a fetch, a login or a call of the bot succeeds; no request of a user is fair to begin.

## Disagreements with the documentation

Shown by a run:

* `docs/privacy-data-retention.md` gives pausing or archiving as the notification opt-out. Dispatch looks
  only at the status of a notification, so what was queued before the pause is sent (`notif_optout`).
* `backend/tests/test_source_sync.py` records item errors and continues, and `docs/staging-deployment.md`
  promises a summary when a run fails. An error of the database in one record undoes the tick, and every
  later one (`sync_poison`).

Met while modelling, and left out of the properties by a precondition that says so:

* `docs/privacy-data-retention.md` 48 keeps sessions until expiry or logout. Calls a page sends at once all
  refresh with the same token (`webapp/src/app/page.tsx` 406-416, five calls in `refreshDashboard`); the
  losers clear the tokens and sign the page out. `SessionLasts` is checked with one call at a time.
* `api/v1/shopping_requests.py` 103-107 refuses to edit a confirmed request. A request confirmed while an
  edit waits for Ollama is edited all the same, and its watchlist asks for something else.
  `WatchlistMatches` says so until an edit and a confirmation are under way at once.
* `backend/tests/test_offers.py` 109 expects one analytics row per product and store. Two first writes of a
  product insert two (`domains/offers/service.py` 151), after which reads return either;
  `HistoricalMinHonest` asks for one row of the product for all stores.
* `README.md` 27 and the bot's messages show targets with their currency; the alert rules compare them with
  prices in EUR whatever it is (`domains/notifications/service.py` 151). In `match` targets are in EUR.
* A merge moves both analytics rows of a product to the other, which then has two, neither recomputed.
  Opposite merges of products without rows delete both.
* Overlapping applies of one feed file, or the admin, make two configs of a type and URL; every later apply
  raises `MultipleResultsFound`, where `backend/tests/test_store_feed_config.py` 33 expects an update.
* Two overlapping requests, one to archive a list and one to restore it, can leave it archived and active:
  each writes the flags it found different.
* The bot catches `BackendClientError` only; after a timeout it stays silent and the command may have worked.
* A Srovname server that caps the page size below `items_per_page`, or lists entries that are no objects,
  ends the listing at the first page (`srovname_api.py` 64); currency of sale price and price are not
  compared; "nan" and "inf" are prices to every adapter.
* `docs/postgres-backup-restore.md` 93 compares counts before and after a deletion: they agree if nobody
  writes meanwhile, which is what `CountsAreTrue` assumes.

## Proofs

Every theorem below holds for all values of the constants that satisfy the `ASSUME` of its module; what the
runs check on an instance, it says of any number of workers, rows, records, prices and faults. The
assumptions say which constants are sets, functions and numbers, which sets are finite, and how the
constants fit together; each names a fact of the code or of the instance, and TLC evaluates it in a run.
`property` under `theorems` in `PROJECT.json` gives the property of a run that a theorem states.

The layout is the same throughout: the invariant that the steps need, in named parts; that it holds at
first; one lemma for all steps with a case per action, the longer actions as lemmas of their own; that it
implies the property; and a temporal step. What follows says why each property is not inductive as it
stands and what was added. The strengthenings were model-checked on small instances before they were proved.

`NotificationsProofs`

* `TypeCorrect`: `TypeOK`. A flush names its row by the run of the transaction. `TypeInv` adds that a
  generating transaction has a run number that was handed out and that its inserts carry it.
* `KeysStayUnique`: `OneRowPerKey`. Committed rows alone do not say why the next commit keeps keys apart.
  `KeyInv` adds that no uncommitted insert has a key that is committed, and that no two transactions have
  inserted the same one. `FlushInsert` establishes it (it waits, then is refused), `Commit` uses it.
* `NoneOrphaned`: `NoOrphans`. `OrphanInv` carries the foreign keys into open transactions: what a
  transaction has inserted pins its watchlist, and a watchlist pins its account.
* `SentMeansDelivered`, `DuplicatesAreBounded`, `FailedMeansUndelivered`, `PhantomsComeFromTheCycle`: the
  four delivery properties. The statuses do not say how often something was sent. `DeliveryInv` counts, per
  alert, the deliveries that are settled (sent, and not lost to a rollback) and the transactions that hold
  the row: a row that is still queued has as many settled deliveries as open transactions that sent it.
  `RunsOnce` and `HeldRows` say which rows those can be.
* `SettledStaysSettled`: `NeverRequeued`, an action property, from the same facts.
* `RefinesOutbox`: `ImplementsOutbox`. Each step of `Notifications` is a step of `AlertOutbox` or a stutter
  where no worker runs the cycle script. A commit of a generator publishes, one of a dispatcher settles, a
  send delivers; retention, deletions and rollbacks of rows are withdrawals or nothing.

`SourceSyncProofs`

* `OffersFollowMappings` and `TypeCorrect` share `SyncInv`, with the lemma `NoProductStrays`. It says of each
  open transaction, against a table that others change meanwhile, that it adds a mapping only where none is, that
  the product in its hand is the one its mapping leads to, that the offers it has written agree with
  mappings it sees, that the size lists it drops are still there, and that what it made is mapped at once;
  and of two transactions, that they never write the same row.
* `SucceededIsListed`: `SucceededMeansListed`. `ToldInv` adds that a transaction records a run for every
  config whose offers it has written before it commits, and calls it succeeded only with a size list for
  every record of the feed; records done so far have one unless one of them was rejected.
* `ProductsStayTidy`: `ProductsTidy`. A bound by the number of workers is no invariant by itself: what counts
  is who may still add. `TidyInv` says that the size lists of an offer, and the products of an identity,
  can be assigned to different workers: one that is to store another size list has read its own and deletes
  it, and one that has made a product not committed yet has none among those committed. The bound is then a pigeonhole argument, by an injection into the workers.

`AuthSessionsProofs`

* `TypeCorrect`: a token is a number, and the calls that may still be issued one bound how many there are.
* `NoGhostSessions`: `NoGhosts`. `GhostInv` adds that an account is numbered after the deletions of its
  user, so that a login that lost a race cannot bring back an old one, and that sessions are current.
* `SessionsLast`: `SessionLasts`. The promise is about the page, the row and the answers on their way.
  `LastInv` says for each step of a call what it knows: that it carries the page's token, that it rotates
  the page's session and no other, and that no two calls own the same session.

`RulesProofs`

* `DealsAreComplete`: `DealsComplete`, the sum of three facts about the code's operators, for any lists and
  offers in any order of the queries: the filter lets through whatever an alert matches; the first list
  that matches stands for all in the test of the target; and an offer whose score nobody shares has a rank
  that depends on no order, which puts it on one page. The last rests on a lemma that finite sets of
  numbers have a least element and on counting.
* `SyncsMakeNoDuplicates`: `SyncMakesNoCandidates`. Whatever product the admin would be shown beside an item
  is among those the sync compares, and a finite set of them has an oldest one; so an item is appended only
  if it is a candidate with nothing there.
* `RecommendationsServe`: `DraftsServe`. `Before` is a strict order of the drafts, so each has as many
  before it as its place says, the places are distinct, and those below `Limit` are all taken, by counting.
  A score grows with its reasons, so no better fit with the same offers comes later.
* `RecordsAreMeant`: `RecordAsMeant`. A record keeps the fields of its format; the notations are a handful of
  cases; the discount is in range by arithmetic.
* `FetchesAreComplete`: `FetchedOnce`. `PagesFull` says that the pages read so far were full, so that the next
  begins where they ended. `NoneMissed` and `NoneAgain` say what the places before and after that point hold as
  long as nothing was taken away, or nothing listed: an insertion only moves products down, a removal only up.

`PriceAnalyticsProofs`

* `TypeCorrect`: `TypeInv` gives the shape of what a session has in hand (its work left, rows as loaded,
  columns it wrote, locks) and bounds the row numbers in it.
* `MinimaAreReal`: `NoInventedMinimum`. A minimum travels from a snapshot into a number read, into a loaded
  row, into a committed row. `BackedInv` follows it there: each is backed by a snapshot that is committed or
  the session's own.
* `MinimaAreHonest`: `HistoricalMinHonest`. The ORM writes only columns it believes changed, from a row
  loaded before others committed, so a minimum could be stale. It is not, because every session locks the
  product's row for all stores before it touches a store's: `LockInv` has locks disjoint and this order;
  `HonestInv` says what a session knows of the store's row, unless it is doomed: has itself inserted a
  second row for all stores, which its commit would show and the property excludes.
* `RowsAreExact`: `Exact`. Until sessions overlap there is one at most. `ExactInv` says that what it has loaded,
  read and written is right for every key but those it has still to recompute; the lemmas about minima are
  shared with `HonestInv`.

`BackOfficeProofs`

* `RowsFollow`: `RowsFollowMerges`. `MergeInv` says who holds what: no two merges have moved the same row, a
  merge about to delete its product has every row of it and nobody else points to it, a writer's row pins its
  product; and a product that is there was merged into none.
* `LoneMergesSucceed`: an action property. The DELETE of a merge nobody overlaps is not refused, because
  every table a handler writes is among those moved before it. `MergesTypeCorrect` likewise.
* `RatesAgree`: `RatesConsistent`. `RatesInv` says that what a job has written is exactly the rates of its
  fetch, up to the currency it is at, and that no two jobs hold the same row; so the rates of a day are all of
  the fetch whose job committed last, which is the witness. That conversions move on follows from `RatesRemain`:
  no step takes a rate away, so the newest one is never older than the one found before.
* `WaitingIsAhead`: a job waits only for one that is further on in the order of the currencies. Circles of
  any number of jobs are ruled out, not only those of the two in the run.

`ShoppingRequestsProofs`

* `TypeCorrect`: `TypeInv` adds what a handler has read, parsed, locked and is about to delete. A row is
  written column by column from what two handlers found different; it is a row of the table all the same.
* `DraftsFollow`: `DraftsFollowEdits`. The drafts of the last edit are there because clearing comes
  before adding in one transaction. That there are no others rests on `DraftsInv`: while no two edits have
  overlapped there is one at most, the row it read is the row there is, and what it deletes is all there is.
* `WatchlistsMatch`: `WatchlistMatches`. `ListInv` adds that what is to be confirmed is the row as it is, and
  that no edit is past the check of the lock once there is a list, both until the two kinds overlap. The lock
  itself is a read, nothing holds it; the theorem says exactly how far that carries.

`CommandsProofs`

* `ReportsAreTrue`, `DeletionsComplete`: the properties of `AccountData`. The programs are sequences of
  statements; what matters of their order is a lemma, `ProgramShape`: the requests are read before what hangs on
  them, reads come before deletes, notifications are deleted first and the user last. `SteadyRead` says that
  what has been there since the start is found by every query passed; `UserKept` that the user's row is there
  until the commit, so nobody can insert it anew; `KeysHold` that the keys of what is left lead to what is
  left, whence an account without its user has no rows: cascades close after two levels. `AloneReads` says
  that a lone transaction reads just what was there, and that the notifications it deletes, the only rows
  that refuse, do not come back.
* `FilesAreApplied`: `AppliedAsWritten`. `AppliesSound` says what an apply holds or will insert, `LocksApart`
  that locks are exclusive, and `AloneFinds` that while it is alone, what it found of its store and config is
  what there is, and what it did not find different is as the file has it or is a row it holds.
* `CommandsAreMeant`: `CommandsAsMeant`. `MessagesSound` says that the lists meant are still among those
  looked up and that the one found is the only one that may be called so; `ResumesSound` that a list archived
  under a resume was archived after its lookup; `Unmet` that until two requests meet on a list, each would
  find the same fields different as when it read them.

Left to TLC. Liveness (`TransactionsEnd`, `EventuallySettled`, `LosersEventuallySynced`, `JobRepairs`,
`ExpiredRemoved`, `TransactionsAnswered`, `HandlersEnd`) rests on fairness and ENABLED, which are
beyond the prover. `OverlapTypeOK` is `TypeOK` of `SourceSync`, which `TypeCorrect` proves, in the one scene
whose constants are those of the module; TLC checks it there. Every other invariant, action property and
refinement the passing runs check is a theorem.

## Not modelled

Keyword tables and regular expressions of the request parser, category maps and normalization of names
character by character, wording of messages, cryptography of tokens and Telegram signatures, metrics,
logging, settings, seeds and migrations (their constraints are in the modules that rely on them), what the
web app shows, and the scripts that only call routes and print. The retention of sync runs and the limit of
fifty configs per tick are left out of modelled components. The reasons are with each component in
`PROJECT.json`.

## Plan

1. Composition of `CatalogMerge` with the keys of `SourceSync`, to see what a merge does to a tick that has
   read a mapping.
2. Two messages with different senders in `TelegramBot`, and the retention of sync runs in `SourceSync`.
3. Progress of `SourceSync` and `FxRates` by measures: that every step of a tick or a job brings it nearer to
   its end can be proved as an action property, and leaves fairness alone to TLC.
