------------------------------ MODULE FxRates ------------------------------
(* Exchange rates (app/domains/fx/service.py): the job that fetches them    *)
(* (app/jobs/fx.py), the admin who enters one, and the syncs that convert   *)
(* prices with them (_normalized_offer_prices of stores/sync.py).  A job    *)
(* is one transaction at READ COMMITTED over all its currencies.            *)
(*                                                                          *)
(* A fetch is the answer of the source: its day, and for each currency the  *)
(* quote (units for one EUR) or None.  Rates count in 1/Scale EUR.          *)
EXTENDS Integers, Sequences, FiniteSets, FiniteSetsExt

CONSTANTS
    Currencies,
    Wanted,       \* currencies a job goes through, in order
    Days, Fetches,
    Manual,       \* the rate the admin enters
    Scale, Jobs, Syncs,
    MaxJobs,      \* bound: jobs begun that have not failed
    None

ASSUME FxRatesAssumption ==
    /\ Wanted \in Seq(Currencies)
    /\ Days \subseteq Nat /\ IsFiniteSet(Days)
    /\ Fetches \subseteq [day: Days, quotes: [Currencies -> Int \cup {None}]]
    /\ {Manual, Scale} \subseteq Nat \ {0} /\ MaxJobs \in Nat
    /\ None \notin Int

VARIABLES
    rates,    \* [Currencies -> [Days -> committed rate_to_eur, 0 where no row is]]
    job,      \* [Jobs -> transaction of update_fx_rates_task]
    sync,     \* [Syncs -> what a sync has converted of one offer]
    done      \* history: the fetches whose jobs committed, in order

ratesVars == <<rates, job, sync, done>>

NoJob  == [pc |-> "idle", fetch |-> None, at |-> 0, saw |-> FALSE, wrote |-> {}]
NoSync == [currency |-> None, price |-> None, old |-> None]

RatesInit ==
    /\ rates = [c \in Currencies |-> [d \in Days |-> 0]]
    /\ job = [j \in Jobs |-> NoJob]
    /\ sync = [s \in Syncs |-> NoSync]
    /\ done = <<>>

(* round(1 / quote, 6): a quote that is too large is a rate of nothing.     *)
RateOf(q) == (2 * Scale + q) \div (2 * q)

(* Every quote has to be positive, and so has the rate FxRateCreate takes.  *)
Acceptable(q) == q > 0 /\ RateOf(q) > 0

(* Mutant: the currencies in the order of their quotes.                     *)
CurrencyByQuote(j) ==
    LET q == job[j].fetch.quotes IN
    Wanted[IF q[Wanted[1]] # None /\ q[Wanted[1]] > 2
           THEN Len(Wanted) + 1 - job[j].at ELSE job[j].at]

Currency(j) == Wanted[job[j].at]

Quote(j)    == job[j].fetch.quotes[Currency(j)]
Row(j)      == <<Currency(j), job[j].fetch.day>>
Here(j)     == rates[Currency(j)][job[j].fetch.day]
RowsOf(t)   == {<<w[1], w[2]>> : w \in t.wrote}
Ended(j)    == job[j].pc # "idle" /\ job[j].at > Len(Wanted)

(* A job with nothing wanted or a failed fetch changes nothing.             *)
StartJob(j, f) ==
    /\ job[j] = NoJob
    /\ Len(done) + Cardinality({k \in Jobs : job[k] # NoJob}) < MaxJobs
    /\ job' = [job EXCEPT ![j] = [NoJob EXCEPT !.pc = "select", !.fetch = f, !.at = 1]]
    /\ UNCHANGED <<rates, sync, done>>

NextCurrency(t) == [t EXCEPT !.pc = "select", !.at = @ + 1]

(* EUR and a currency without a quote are skipped; a quote that cannot be   *)
(* a rate raises and undoes the whole job; else upsert_fx_rate looks for    *)
(* the row.                                                                 *)
SelectRate(j) ==
    /\ job[j].pc = "select" /\ ~Ended(j)
    /\ job' = [job EXCEPT ![j] =
          IF Currency(j) = "EUR" THEN NextCurrency(@)
          ELSE IF Quote(j) = None THEN NextCurrency(@)
          ELSE IF ~Acceptable(Quote(j)) THEN NoJob
          ELSE [@ EXCEPT !.pc = "write",
                         !.saw = Here(j) # 0 \/ Row(j) \in RowsOf(job[j])]]
    /\ UNCHANGED <<rates, sync, done>>

Blocked(j) == \E k \in Jobs \ {j} : Row(j) \in RowsOf(job[k])

(* UPDATE or INSERT: either waits for a job that has written the row, and   *)
(* an INSERT of a row that is there by then ends the job.  (The UPDATE is   *)
(* sent even for an equal rate: a float differs from the column's Decimal.) *)
WriteRate(j) ==
    LET others == {w \in job[j].wrote : <<w[1], w[2]>> # Row(j)}
        mine   == <<Currency(j), job[j].fetch.day, RateOf(Quote(j))>>
    IN
    /\ job[j].pc = "write" /\ ~Blocked(j)
    /\ job' = [job EXCEPT ![j] =
          IF ~@.saw /\ Here(j) # 0 THEN NoJob
          ELSE NextCurrency([@ EXCEPT !.wrote = others \cup {mine}])]
    /\ UNCHANGED <<rates, sync, done>>

Written(t) ==
    [c \in Currencies |-> [d \in Days |->
        IF \E w \in t.wrote : w[1] = c /\ w[2] = d
        THEN (CHOOSE w \in t.wrote : w[1] = c /\ w[2] = d)[3] ELSE rates[c][d]]]

(* Mutant: the commit stands inside the loop.                               *)
CommitJobEach(j) ==
    /\ job[j].pc = "select" /\ job[j].wrote # {}
    /\ rates' = Written(job[j])
    /\ job' = [job EXCEPT ![j] = IF Ended(j) THEN NoJob ELSE [@ EXCEPT !.wrote = {}]]
    /\ done' = IF Ended(j) THEN Append(done, job[j].fetch) ELSE done
    /\ UNCHANGED sync

CommitJob(j) ==
    /\ Ended(j)
    /\ rates' = Written(job[j])
    /\ done' = Append(done, job[j].fetch)
    /\ job' = [job EXCEPT ![j] = NoJob]
    /\ UNCHANGED sync

(* create_fx_rate of the admin: refused where a row is, or waits for it.    *)
AdminCreate(c, d) ==
    /\ c # "EUR" /\ rates[c][d] = 0
    /\ \A j \in Jobs : <<c, d>> \notin RowsOf(job[j])
    /\ rates' = [rates EXCEPT ![c][d] = Manual]
    /\ UNCHANGED <<job, sync, done>>

-----------------------------------------------------------------------------
(* get_latest_fx_rate without a time: the newest row, be it of a day to     *)
(* come.  Mutant: the row that comes first.                                 *)
LatestFirst(c) == Min({d \in Days : rates[c][d] # 0})

Latest(c) == Max({d \in Days : rates[c][d] # 0})

(* The price and the old price of an offer are converted one after the      *)
(* other, each by the rate it finds; without one the record fails.          *)
ConvertPrice(s, c) ==
    /\ sync[s] = NoSync /\ c # "EUR"
    /\ \E d \in Days : rates[c][d] # 0
    /\ sync' = [sync EXCEPT ![s] = [NoSync EXCEPT !.currency = c, !.price = Latest(c)]]
    /\ UNCHANGED <<rates, job, done>>

ConvertOldPrice(s) ==
    /\ sync[s].price # None /\ sync[s].old = None
    /\ sync' = [sync EXCEPT ![s].old = Latest(sync[s].currency)]
    /\ UNCHANGED <<rates, job, done>>

NextOffer(s) ==
    /\ sync[s].old # None
    /\ sync' = [sync EXCEPT ![s] = NoSync]
    /\ UNCHANGED <<rates, job, done>>

Step(j) == SelectRate(j) \/ WriteRate(j) \/ CommitJob(j)

RatesNext ==
    \/ \E j \in Jobs :
          \/ \E f \in Fetches : StartJob(j, f)
          \/ SelectRate(j) \/ WriteRate(j) \/ CommitJob(j)
    \/ \E c \in Currencies, d \in Days : AdminCreate(c, d)
    \/ \E s \in Syncs : (\E c \in Currencies : ConvertPrice(s, c)) \/ ConvertOldPrice(s)
                            \/ NextOffer(s)

(* An open transaction goes on, and whoever waits for a row has its turn:   *)
(* the database grants locks in the order they were asked for.              *)
RatesFairness == \A j \in Jobs : WF_ratesVars(Step(j)) /\ SF_ratesVars(WriteRate(j))

RatesSpec == RatesInit /\ [][RatesNext]_ratesVars /\ RatesFairness

-----------------------------------------------------------------------------
Quoted(f) ==
    {c \in Currencies \ {"EUR"} : f.quotes[c] # None /\ \E n \in DOMAIN Wanted : Wanted[n] = c}

(* The rates of a day are those of one fetch: jobs that overlap, lose an    *)
(* insert to each other or meet a quote they cannot take never leave some   *)
(* currencies at one answer of the source and some at another.              *)
QuotesTogether ==
    \A d \in Days :
        LET own == {f \in {done[n] : n \in DOMAIN done} : f.day = d} IN
        own # {} => \E f \in own : \A c \in Quoted(f) : rates[c][d] = RateOf(f.quotes[c])

(* While an offer is converted the rates it meets never go back to an older *)
(* day, although answers of the source may come late and in any order.      *)
ConversionMovesOn ==
    \A s \in Syncs : sync[s].old # None => sync[s].price <= sync[s].old

(* A job waits only for jobs that are further on, so no circle of jobs      *)
(* waits: all go through their currencies in one order.                     *)
WaitsAhead ==
    \A j, k \in Jobs : j # k /\ job[j].pc = "write" /\ Row(j) \in RowsOf(job[k])
                          => job[j].at < job[k].at

(* Jobs that run at once wait for each other's rows and all end.            *)
JobsEnd == \A j \in Jobs : job[j] # NoJob ~> job[j] = NoJob

(* Offers are converted by the rates of one answer, and by newer ones after *)
(* older ones.                                                              *)
RatesConsistent == QuotesTogether /\ ConversionMovesOn

=============================================================================
