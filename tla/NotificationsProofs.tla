------------------------ MODULE NotificationsProofs ------------------------
(* Proofs about Notifications, for every set of workers, users and          *)
(* watchlists and every number of runs and faults: keys and references of   *)
(* the table; then how often an alert reaches the chat, what its status     *)
(* says of that, and that the table implements AlertOutbox.                 *)
EXTENDS Notifications, FiniteSetTheorems, TLAPS

-----------------------------------------------------------------------------
(* Type correctness *)

(* The transaction of an idle worker is a transaction. *)
LEMMA IdleIsTxn == Idle \in Txn
  BY NotificationsAssumption DEF Idle, Txn

(* Ending a transaction by rollback leaves a well-typed idle worker. *)
LEMMA RollbackType ==
  ASSUME TypeOK, NEW w \in Workers, NEW reached, Rollback(w, reached)
  PROVE  tx' \in [Workers -> Txn] /\ lost' \in [RowIds -> Nat]
  BY IdleIsTxn DEF TypeOK, Rollback

(* So does a commit, and it writes proper statuses. *)
LEMMA CommitType ==
  ASSUME TypeOK, NEW w \in Workers, Commit(w)
  PROVE  tx' \in [Workers -> Txn] /\ row' \in [RowIds -> {"none", "gone"} \cup Statuses]
  BY IdleIsTxn DEF TypeOK, Commit, Statuses

(* Selecting a batch reads rows and nothing else. *)
LEMMA SelectType ==
  ASSUME TypeOK, NEW w \in Workers, NEW job \in {"dispatch", "cycle"},
         NEW rows \in SUBSET RowIds, Select(w, job, rows)
  PROVE  \E B \in SUBSET rows :
            /\ tx' = [tx EXCEPT ![w] = ReadBatch(tx[w], job, B)]
            /\ tx' \in [Workers -> Txn]
  <1>1. PICK B \in SUBSET rows :
          tx' = [tx EXCEPT ![w] = ReadBatch(tx[w], job, B)]
    BY DEF Select, Oldest
  <1>2. \A t \in Txn : ReadBatch(t, job, B) \in Txn
    BY DEF Txn, ReadBatch
  <1> QED BY <1>1, <1>2 DEF TypeOK

(* The updates the steps of a transaction make. *)
LEMMA TxnUpdates ==
  ASSUME NEW t \in Txn
  PROVE  /\ t.run \in 0..MaxRuns
         /\ \A L \in SUBSET Watchlists, n \in 0..MaxRuns, j \in {"generate", "cycle"} :
               [t EXCEPT !.pc = "generate", !.job = j, !.run = n, !.todo = L] \in Txn
         /\ \A l \in Watchlists, K \in SUBSET Keys :
               [t EXCEPT !.todo = @ \ {l}, !.keys = K] \in Txn
         /\ \A k \in Keys, K \in SUBSET Keys : [t EXCEPT !.keys = @ \ {k}, !.add = K] \in Txn
         /\ \A r \in RowIds :
               /\ [t EXCEPT !.add = {}, !.ins = @ \cup {r}] \in Txn
               /\ [t EXCEPT !.batch = @ \ {r}, !.ok = @ \cup {r}] \in Txn
               /\ [t EXCEPT !.batch = @ \ {r}, !.bad = @ \cup {r}] \in Txn
  BY DEF Txn

(* Every step keeps every variable in its type and every generating         *)
(* transaction numbered.                                                    *)
LEMMA TypeInvStep == TypeInv /\ [Next]_vars => TypeInv'
  <1> SUFFICES ASSUME TypeInv, [Next]_vars PROVE TypeInv' OBVIOUS
  <1>a. TypeOK /\ RunsNumbered /\ tx \in [Workers -> Txn] /\ clock \in Nat /\ MaxRuns \in Nat
    BY NotificationsAssumption DEF TypeInv, TypeOK
  <1>1. CASE UNCHANGED vars
    BY <1>1, <1>a DEF TypeInv, TypeOK, RunsNumbered, vars
  <1>2. ASSUME NEW w \in Workers, NEW job \in {"generate", "cycle"}, StartGenerate(w, job)
        PROVE  TypeInv'
    <2> DEFINE new == [Idle EXCEPT !.pc = "generate", !.job = job, !.run = clock + 1,
                                   !.todo = ActiveWatchlists]
    <2>1. clock + 1 \in 1..MaxRuns /\ clock' = clock + 1
      BY <1>2, <1>a DEF StartGenerate, TypeOK
    <2>2. ActiveWatchlists \in SUBSET Watchlists /\ clock + 1 \in 0..MaxRuns
      BY <2>1, <1>a DEF ActiveWatchlists
    <2>3. new \in Txn BY <2>2, IdleIsTxn, TxnUpdates
    <2>4. new.run = clock + 1 /\ new.ins = {} BY DEF Idle
    <2> HIDE DEF new
    <2>5. tx' = [tx EXCEPT ![w] = new] BY <1>2 DEF StartGenerate, new
    <2>6. TypeOK' BY <1>2, <1>a, <2>1, <2>3, <2>5 DEF StartGenerate, TypeOK
    <2>7. RunsNumbered'
      BY <1>a, <2>1, <2>4, <2>5 DEF RunsNumbered, TypeOK
    <2> QED BY <2>6, <2>7 DEF TypeInv
  <1>3. ASSUME NEW w \in Workers, NEW l \in Watchlists, MatchOffers(w, l)
        PROVE  TypeInv'
    <2>1. PICK fired \in SUBSET Triggers :
            tx' = [tx EXCEPT ![w].todo = @ \ {l}, ![w].keys = {l} \X fired]
      BY <1>3 DEF MatchOffers
    <2>2. {l} \X fired \in SUBSET Keys BY DEF Keys
    <2>3. tx' \in [Workers -> Txn] BY <1>a, <2>1, <2>2, TxnUpdates
    <2>4. TypeOK' BY <1>3, <1>a, <2>3 DEF MatchOffers, TypeOK
    <2>5. RunsNumbered' BY <1>3, <1>a, <2>1 DEF MatchOffers, RunsNumbered
    <2> QED BY <2>4, <2>5 DEF TypeInv
  <1>4. ASSUME NEW w \in Workers, NEW k \in Keys, CheckKey(w, k)
        PROVE  TypeInv'
    <2>1. tx' \in [Workers -> Txn] BY <1>4, <1>a, TxnUpdates DEF CheckKey
    <2>2. TypeOK' BY <1>4, <1>a, <2>1 DEF CheckKey, TypeOK
    <2>3. RunsNumbered' BY <1>4, <1>a DEF CheckKey, RunsNumbered
    <2> QED BY <2>2, <2>3 DEF TypeInv
  <1>5. ASSUME NEW w \in Workers, FlushInsert(w)
        PROVE  TypeInv'
    <2>1. CASE Rollback(w, {})
      <3>1. TypeOK' BY <1>5, <1>a, <2>1, RollbackType DEF FlushInsert, TypeOK
      <3>2. RunsNumbered' BY <1>5, <1>a, <2>1 DEF FlushInsert, RunsNumbered, Rollback, Idle
      <3> QED BY <3>1, <3>2 DEF TypeInv
    <2>2. CASE ~Rollback(w, {})
      <3>1. PICK k \in Keys :
              /\ tx' = [tx EXCEPT ![w].add = {}, ![w].ins = @ \cup {<<tx[w].run, k>>}]
              /\ UNCHANGED lost
        BY <1>5, <2>2, <1>a DEF FlushInsert, Txn
      <3>2. <<tx[w].run, k>> \in RowIds
        BY <1>5, <1>a DEF FlushInsert, RunsNumbered, RowIds, TypeOK
      <3>3. tx' \in [Workers -> Txn] BY <1>a, <3>1, <3>2, TxnUpdates
      <3>4. TypeOK' BY <1>5, <1>a, <3>1, <3>3 DEF FlushInsert, TypeOK
      <3>5. RunsNumbered' BY <1>5, <1>a, <3>1 DEF FlushInsert, RunsNumbered, RunOf
      <3> QED BY <3>4, <3>5 DEF TypeInv
    <2> QED BY <2>1, <2>2
  <1>6. ASSUME NEW w \in Workers, DeadlockVictim(w) PROVE TypeInv'
    <2>1. TypeOK' BY <1>6, <1>a, RollbackType DEF DeadlockVictim, TypeOK
    <2>2. RunsNumbered' BY <1>6, <1>a DEF DeadlockVictim, RunsNumbered, Rollback, Idle
    <2> QED BY <2>1, <2>2 DEF TypeInv
  <1>7. ASSUME NEW w \in Workers, EndGenerate(w) PROVE TypeInv'
    <2>1. TypeOK' BY <1>7, <1>a, CommitType DEF EndGenerate, TypeOK
    <2>2. RunsNumbered' BY <1>7, <1>a DEF EndGenerate, RunsNumbered, Commit, Idle
    <2> QED BY <2>1, <2>2 DEF TypeInv
  <1>8. ASSUME NEW w \in Workers, NEW job \in {"dispatch", "cycle"},
               NEW rows \in SUBSET RowIds, Select(w, job, rows),
               UNCHANGED <<accounts, watch, row, clock, erasing, purged, sends, lost, faults>>
        PROVE  TypeInv'
    <2>1. PICK B \in SUBSET rows :
            /\ tx' = [tx EXCEPT ![w] = ReadBatch(tx[w], job, B)]
            /\ tx' \in [Workers -> Txn]
      BY <1>8, <1>a, SelectType
    <2>2. TypeOK' BY <1>8, <1>a, <2>1 DEF TypeOK
    <2>3. RunsNumbered' BY <1>8, <1>a, <2>1 DEF RunsNumbered, ReadBatch
    <2> QED BY <2>2, <2>3 DEF TypeInv
  <1>9. ASSUME NEW w \in Workers, StartDispatch(w) \/ ContinueCycle(w) PROVE TypeInv'
    <2>1. Queued \in SUBSET RowIds /\ Queued \cup tx[w].ins \in SUBSET RowIds
      BY <1>a DEF Queued, Txn
    <2> QED BY <1>8, <1>9, <2>1 DEF StartDispatch, ContinueCycle
  <1>10. ASSUME NEW w \in Workers, NEW r \in RowIds, SendAccepted(w, r) \/ MarkFailed(w, r)
         PROVE  TypeInv'
    <2>1. CASE SendAccepted(w, r)
      <3>1. tx' \in [Workers -> Txn] BY <2>1, <1>a, TxnUpdates DEF SendAccepted
      <3>2. TypeOK' BY <2>1, <1>a, <3>1 DEF SendAccepted, TypeOK
      <3>3. RunsNumbered' BY <2>1, <1>a DEF SendAccepted, RunsNumbered
      <3> QED BY <3>2, <3>3 DEF TypeInv
    <2>2. CASE MarkFailed(w, r)
      <3>1. tx' \in [Workers -> Txn] BY <2>2, <1>a, TxnUpdates DEF MarkFailed
      <3>2. TypeOK' BY <2>2, <1>a, <3>1 DEF MarkFailed, TypeOK
      <3>3. RunsNumbered' BY <2>2, <1>a DEF MarkFailed, RunsNumbered
      <3> QED BY <3>2, <3>3 DEF TypeInv
    <2> QED BY <1>10, <2>1, <2>2
  <1>11. ASSUME NEW w \in Workers, NEW r \in RowIds, TransportError(w, r) PROVE TypeInv'
    <2>1. PICK reached \in {{}, {r}} :
            /\ Rollback(w, reached)
            /\ sends' = [s \in RowIds |-> sends[s] + IF s \in reached THEN 1 ELSE 0]
      BY <1>11 DEF TransportError
    <2>2. sends' \in [RowIds -> Nat] BY <1>a, <2>1 DEF TypeOK
    <2>3. faults' \in 0..MaxFaults
      BY <1>11, <1>a, NotificationsAssumption DEF TransportError, TypeOK
    <2>4. TypeOK' BY <1>11, <1>a, <2>1, <2>2, <2>3, RollbackType DEF TransportError, TypeOK
    <2>5. RunsNumbered' BY <1>11, <1>a, <2>1 DEF TransportError, RunsNumbered, Rollback, Idle
    <2> QED BY <2>4, <2>5 DEF TypeInv
  <1>12. ASSUME NEW w \in Workers, EndDispatch(w) PROVE TypeInv'
    <2>1. TypeOK' BY <1>12, <1>a, CommitType, RollbackType DEF EndDispatch, TypeOK
    <2>2. RunsNumbered' BY <1>12, <1>a DEF EndDispatch, RunsNumbered, Commit, Rollback, Idle
    <2> QED BY <2>1, <2>2 DEF TypeInv
  <1>13. ASSUME NEW w \in Workers, Crash(w) PROVE TypeInv'
    <2>1. faults' \in 0..MaxFaults
      BY <1>13, <1>a, NotificationsAssumption DEF Crash, TypeOK
    <2>2. TypeOK' BY <1>13, <1>a, <2>1, RollbackType DEF Crash, TypeOK
    <2>3. RunsNumbered' BY <1>13, <1>a DEF Crash, RunsNumbered, Rollback, Idle
    <2> QED BY <2>2, <2>3 DEF TypeInv
  <1>14. ASSUME NEW l \in Watchlists,
                CreateWatchlist(l) \/ UpdateWatchlist(l) \/ DeleteWatchlist(l)
         PROVE  TypeInv'
    BY <1>14, <1>a
    DEF CreateWatchlist, UpdateWatchlist, DeleteWatchlist, TypeInv, TypeOK, RunsNumbered
  <1>15. ASSUME NEW cutoff \in 1..MaxRuns, CleanupRetainedData(cutoff) PROVE TypeInv'
    BY <1>15, <1>a DEF CleanupRetainedData, TypeInv, TypeOK, RunsNumbered
  <1>16. ASSUME NEW u \in Users, StartErase(u) \/ FinishErase(u) \/ AbortErase(u)
         PROVE  TypeInv'
    BY <1>16, <1>a
    DEF StartErase, FinishErase, AbortErase, EndErase, RowsOf, Live, TypeInv, TypeOK, RunsNumbered
  <1> QED
    BY <1>1, <1>2, <1>3, <1>4, <1>5, <1>6, <1>7, <1>9, <1>10, <1>11, <1>12, <1>13,
       <1>14, <1>15, <1>16 DEF Next, Step

(* Every variable keeps its type in every behaviour. *)
THEOREM TypeCorrect == Spec => []TypeOK
  <1>1. Init => TypeInv
    BY NotificationsAssumption, IdleIsTxn DEF Init, TypeInv, TypeOK, RunsNumbered, Idle
  <1>2. TypeInv => TypeOK BY DEF TypeInv
  <1> QED BY <1>1, <1>2, TypeInvStep, PTL DEF Spec

-----------------------------------------------------------------------------
(* One row per dedupe key *)

(* Steps that neither publish nor insert rows keep keys unique. *)
LEMMA KeysFrame ==
  ASSUME InsertsUnique, OneRowPerKey, Live' \subseteq Live,
         \A x \in Workers : tx'[x].ins \subseteq tx[x].ins
  PROVE  InsertsUnique' /\ OneRowPerKey'
  <1>1. OneRowPerKey' BY DEF OneRowPerKey
  <1>2. \A k : KeyTaken(k)' => KeyTaken(k) BY DEF KeyTaken
  <1>3. \A x \in Workers : KeysOf(tx'[x].ins) \subseteq KeysOf(tx[x].ins) BY DEF KeysOf
  <1>4. \A x \in Workers : \A r \in tx'[x].ins : ~KeyTaken(KeyOf(r))'
    BY <1>2 DEF InsertsUnique
  <1>5. \A w, x \in Workers : w # x => KeysOf(tx'[w].ins) \cap KeysOf(tx'[x].ins) = {}
    BY <1>3 DEF InsertsUnique
  <1>6. InsertsUnique' BY <1>4, <1>5 DEF InsertsUnique, KeysOf
  <1> QED BY <1>1, <1>6

(* A commit publishes rows of one run, on keys nothing else has. *)
LEMMA KeysCommit ==
  ASSUME TypeInv, InsertsUnique, OneRowPerKey, NEW w \in Workers, Commit(w)
  PROVE  InsertsUnique' /\ OneRowPerKey'
  <1>1. tx' = [tx EXCEPT ![w] = Idle] /\ tx \in [Workers -> Txn]
    BY DEF Commit, TypeInv, TypeOK
  <1>2. Live' \subseteq Live \cup tx[w].ins
    BY DEF Commit, Live, Statuses
  <1>3. tx[w].ins \subseteq RowIds BY <1>1 DEF Txn
  <1>4. tx'[w].ins = {} BY <1>1 DEF Idle
  <1>5. \A x \in Workers \ {w} : tx'[x].ins = tx[x].ins BY <1>1
  <1>6. \A r, s \in tx[w].ins : KeyOf(r) = KeyOf(s) => r = s
    BY <1>3 DEF TypeInv, RunsNumbered, RunOf, KeyOf, RowIds
  <1>7. \A r \in tx[w].ins, s \in Live : KeyOf(r) # KeyOf(s)
    BY DEF InsertsUnique, KeyTaken
  <1>8. OneRowPerKey' BY <1>2, <1>6, <1>7 DEF OneRowPerKey
  <1>9. \A x \in Workers : \A r \in tx'[x].ins : ~KeyTaken(KeyOf(r))'
    <2> SUFFICES ASSUME NEW x \in Workers, NEW r \in tx'[x].ins, NEW s \in Live'
                 PROVE  KeyOf(s) # KeyOf(r)
      BY DEF KeyTaken
    <2>1. x # w /\ r \in tx[x].ins BY <1>4, <1>5
    <2>2. CASE s \in Live BY <2>1, <2>2 DEF InsertsUnique, KeyTaken
    <2>3. CASE s \in tx[w].ins BY <2>1, <2>3 DEF InsertsUnique, KeysOf
    <2> QED BY <1>2, <2>2, <2>3
  <1>10. \A x, y \in Workers : x # y => KeysOf(tx'[x].ins) \cap KeysOf(tx'[y].ins) = {}
    BY <1>4, <1>5 DEF InsertsUnique, KeysOf
  <1>11. InsertsUnique' BY <1>9, <1>10 DEF InsertsUnique, KeysOf
  <1> QED BY <1>8, <1>11

(* The keys of a set of rows with one more row. *)
LEMMA KeysOfAdd ==
  ASSUME NEW R, NEW r PROVE KeysOf(R \cup {r}) = KeysOf(R) \cup {KeyOf(r)}
  BY DEF KeysOf

(* An insert that the unique index neither delays nor refuses. *)
LEMMA KeysInsert ==
  ASSUME TypeInv, InsertsUnique, OneRowPerKey, NEW w \in Workers, NEW k \in tx[w].add,
         \A x \in Workers : ~Waits(w, x), ~KeyTaken(k), row' = row,
         tx' = [tx EXCEPT ![w].add = {}, ![w].ins = @ \cup {<<tx[w].run, k>>}]
  PROVE  InsertsUnique' /\ OneRowPerKey'
  <1>1. tx \in [Workers -> Txn] BY DEF TypeInv, TypeOK
  <1>2. Live' = Live BY DEF Live
  <1>3. OneRowPerKey' BY <1>2 DEF OneRowPerKey
  <1>4. tx'[w].ins = tx[w].ins \cup {<<tx[w].run, k>>} BY <1>1
  <1>5. \A x \in Workers \ {w} : tx'[x].ins = tx[x].ins BY <1>1
  <1>6. \A x \in Workers \ {w} : k \notin KeysOf(tx[x].ins) BY DEF Waits
  <1>7. KeysOf(tx'[w].ins) = KeysOf(tx[w].ins) \cup {k}
    <2> DEFINE r == <<tx[w].run, k>>
    <2>1. KeyOf(r) = k BY DEF KeyOf
    <2> HIDE DEF r
    <2>2. KeysOf(tx[w].ins \cup {r}) = KeysOf(tx[w].ins) \cup {KeyOf(r)} BY KeysOfAdd
    <2> QED BY <1>4, <2>1, <2>2 DEF r
  <1>8. \A x \in Workers \ {w} : KeysOf(tx'[x].ins) = KeysOf(tx[x].ins) BY <1>5 DEF KeysOf
  <1>9. \A x, y \in Workers : x # y => KeysOf(tx'[x].ins) \cap KeysOf(tx'[y].ins) = {}
    <2> SUFFICES ASSUME NEW x \in Workers, NEW y \in Workers, x # y,
                        NEW c \in KeysOf(tx'[x].ins), c \in KeysOf(tx'[y].ins)
                 PROVE  FALSE
      OBVIOUS
    <2>1. \A z \in Workers : z # x => KeysOf(tx[x].ins) \cap KeysOf(tx[z].ins) = {}
      BY DEF InsertsUnique
    <2>2. CASE x = w BY <1>6, <1>7, <1>8, <2>1, <2>2
    <2>3. CASE y = w BY <1>6, <1>7, <1>8, <2>1, <2>3
    <2>4. CASE x # w /\ y # w BY <1>8, <2>1, <2>4
    <2> QED BY <2>2, <2>3, <2>4
  <1>10. \A x \in Workers : \A r \in tx'[x].ins : ~KeyTaken(KeyOf(r))
    <2>1. KeyOf(<<tx[w].run, k>>) = k BY DEF KeyOf
    <2> QED BY <1>4, <1>5, <2>1 DEF InsertsUnique
  <1>11. InsertsUnique' BY <1>2, <1>9, <1>10 DEF InsertsUnique, KeyTaken, KeysOf
  <1> QED BY <1>3, <1>11

(* Every step keeps keys unique across committed rows and open inserts. *)
LEMMA KeyInvStep == KeyInv /\ [Next]_vars => KeyInv'
  <1> SUFFICES ASSUME KeyInv, [Next]_vars PROVE (InsertsUnique /\ OneRowPerKey)'
    BY TypeInvStep DEF KeyInv
  <1>a. TypeInv /\ InsertsUnique /\ OneRowPerKey /\ tx \in [Workers -> Txn]
    BY DEF KeyInv, TypeInv, TypeOK
  <1>b. ASSUME NEW w \in Workers, NEW reached, Rollback(w, reached), row' = row
        PROVE  (InsertsUnique /\ OneRowPerKey)'
    <2>1. \A x \in Workers : tx'[x].ins \subseteq tx[x].ins
      BY <1>a, <1>b DEF Rollback, Idle
    <2>2. Live' = Live BY <1>b DEF Live
    <2> QED BY <1>a, <2>1, <2>2, KeysFrame
  <1>c. ASSUME NEW w \in Workers, NEW job \in {"dispatch", "cycle"},
               NEW rows \in SUBSET RowIds, Select(w, job, rows), row' = row
        PROVE  (InsertsUnique /\ OneRowPerKey)'
    <2>1. PICK B : tx' = [tx EXCEPT ![w] = ReadBatch(tx[w], job, B)]
      BY <1>c DEF Select
    <2>2. \A x \in Workers : tx'[x].ins \subseteq tx[x].ins
      BY <1>a, <2>1 DEF ReadBatch
    <2>3. Live' = Live BY <1>c DEF Live
    <2> QED BY <1>a, <2>2, <2>3, KeysFrame
  <1>1. CASE UNCHANGED vars
    BY <1>1, <1>a, KeysFrame DEF vars, Live
  <1>2. ASSUME NEW w \in Workers, NEW job \in {"generate", "cycle"}, StartGenerate(w, job)
        PROVE  (InsertsUnique /\ OneRowPerKey)'
    <2>1. \A x \in Workers : tx'[x].ins \subseteq tx[x].ins
      BY <1>2, <1>a DEF StartGenerate, Idle
    <2>2. Live' = Live BY <1>2 DEF StartGenerate, Live
    <2> QED BY <1>a, <2>1, <2>2, KeysFrame
  <1>3. ASSUME NEW w \in Workers, NEW l \in Watchlists, MatchOffers(w, l)
        PROVE  (InsertsUnique /\ OneRowPerKey)'
    <2>1. \A x \in Workers : tx'[x].ins \subseteq tx[x].ins
      BY <1>3, <1>a DEF MatchOffers
    <2>2. Live' = Live BY <1>3 DEF MatchOffers, Live
    <2> QED BY <1>a, <2>1, <2>2, KeysFrame
  <1>4. ASSUME NEW w \in Workers, NEW k \in Keys, CheckKey(w, k)
        PROVE  (InsertsUnique /\ OneRowPerKey)'
    <2>1. \A x \in Workers : tx'[x].ins \subseteq tx[x].ins
      BY <1>4, <1>a DEF CheckKey
    <2>2. Live' = Live BY <1>4 DEF CheckKey, Live
    <2> QED BY <1>a, <2>1, <2>2, KeysFrame
  <1>5. ASSUME NEW w \in Workers, FlushInsert(w)
        PROVE  (InsertsUnique /\ OneRowPerKey)'
    <2>1. PICK k \in tx[w].add :
            IF Refused(k) THEN Rollback(w, {})
            ELSE /\ tx' = [tx EXCEPT ![w].add = {}, ![w].ins = @ \cup {<<tx[w].run, k>>}]
                 /\ UNCHANGED lost
      BY <1>5 DEF FlushInsert
    <2>2. row' = row /\ \A x \in Workers : ~Waits(w, x) BY <1>5 DEF FlushInsert
    <2>3. CASE Refused(k) BY <1>b, <2>1, <2>2, <2>3
    <2>4. CASE ~Refused(k)
      <3>1. ~KeyTaken(k) BY <2>4 DEF Refused
      <3> QED BY <1>a, <2>1, <2>2, <2>4, <3>1, KeysInsert
    <2> QED BY <2>3, <2>4
  <1>6. ASSUME NEW w \in Workers,
               \/ DeadlockVictim(w) \/ Crash(w)
               \/ \E r \in RowIds : TransportError(w, r)
        PROVE  (InsertsUnique /\ OneRowPerKey)'
    BY <1>6, <1>b DEF DeadlockVictim, Crash, TransportError
  <1>7. ASSUME NEW w \in Workers, EndGenerate(w) PROVE (InsertsUnique /\ OneRowPerKey)'
    BY <1>7, <1>a, KeysCommit DEF EndGenerate
  <1>8. ASSUME NEW w \in Workers, StartDispatch(w) \/ ContinueCycle(w)
        PROVE  (InsertsUnique /\ OneRowPerKey)'
    <2>1. Queued \in SUBSET RowIds /\ Queued \cup tx[w].ins \in SUBSET RowIds
      BY <1>a DEF Queued, Txn
    <2> QED BY <1>8, <1>c, <2>1 DEF StartDispatch, ContinueCycle
  <1>9. ASSUME NEW w \in Workers, NEW r \in RowIds, SendAccepted(w, r) \/ MarkFailed(w, r)
        PROVE  (InsertsUnique /\ OneRowPerKey)'
    <2>1. CASE SendAccepted(w, r)
      <3>1. \A x \in Workers : tx'[x].ins \subseteq tx[x].ins
        BY <2>1, <1>a DEF SendAccepted
      <3>2. Live' = Live BY <2>1 DEF SendAccepted, Live
      <3> QED BY <1>a, <3>1, <3>2, KeysFrame
    <2>2. CASE MarkFailed(w, r)
      <3>1. \A x \in Workers : tx'[x].ins \subseteq tx[x].ins
        BY <2>2, <1>a DEF MarkFailed
      <3>2. Live' = Live BY <2>2 DEF MarkFailed, Live
      <3> QED BY <1>a, <3>1, <3>2, KeysFrame
    <2> QED BY <1>9, <2>1, <2>2
  <1>10. ASSUME NEW w \in Workers, EndDispatch(w) PROVE (InsertsUnique /\ OneRowPerKey)'
    BY <1>10, <1>a, <1>b, KeysCommit DEF EndDispatch
  <1>11. ASSUME NEW l \in Watchlists,
                CreateWatchlist(l) \/ UpdateWatchlist(l) \/ DeleteWatchlist(l)
         PROVE  (InsertsUnique /\ OneRowPerKey)'
    <2>1. tx' = tx /\ row' = row
      BY <1>11 DEF CreateWatchlist, UpdateWatchlist, DeleteWatchlist
    <2> QED BY <1>a, <2>1, KeysFrame DEF Live
  <1>12. ASSUME NEW cutoff \in 1..MaxRuns, CleanupRetainedData(cutoff)
         PROVE  (InsertsUnique /\ OneRowPerKey)'
    <2>1. tx' = tx /\ Live' \subseteq Live
      BY <1>12 DEF CleanupRetainedData, Live, Statuses
    <2> QED BY <1>a, <2>1, KeysFrame
  <1>13. ASSUME NEW u \in Users, StartErase(u) \/ FinishErase(u) \/ AbortErase(u)
         PROVE  (InsertsUnique /\ OneRowPerKey)'
    <2>1. tx' = tx /\ Live' \subseteq Live
      BY <1>13 DEF StartErase, FinishErase, AbortErase, Live, Statuses
    <2> QED BY <1>a, <2>1, KeysFrame
  <1> QED
    BY <1>1, <1>2, <1>3, <1>4, <1>5, <1>6, <1>7, <1>8, <1>9, <1>10, <1>11, <1>12, <1>13
    DEF Next, Step

(* However many generators overlap, crash or deadlock, no two notifications *)
(* of the table have the same dedupe key.                                   *)
THEOREM KeysStayUnique == Spec => []OneRowPerKey
  <1>1. Init => KeyInv
    <2>1. Init => TypeInv
      BY NotificationsAssumption, IdleIsTxn DEF Init, TypeInv, TypeOK, RunsNumbered, Idle
    <2>2. Init => Live = {} /\ \A w \in Workers : tx[w].ins = {}
      BY DEF Init, Live, Statuses, Idle
    <2> QED BY <2>1, <2>2 DEF KeyInv, InsertsUnique, OneRowPerKey, KeysOf
  <1>2. KeyInv => OneRowPerKey BY DEF KeyInv
  <1> QED BY <1>1, <1>2, KeyInvStep, PTL DEF Spec

-----------------------------------------------------------------------------
(* No notification outlives its watchlist or its account *)

(* A step that neither writes watchlists and accounts nor inserts, and      *)
(* leaves an open transaction at most what it had, keeps references.        *)
LEMMA ReferencesFrame ==
  ASSUME ReferencesHeld, watch' = watch, accounts' = accounts, Live' \subseteq Live,
         \A x \in Workers : /\ tx'[x].ins \subseteq tx[x].ins
                            /\ tx'[x].todo \subseteq tx[x].todo
                            /\ tx'[x].keys \subseteq tx[x].keys
                            /\ tx'[x].add \subseteq tx[x].add \cup tx[x].keys
  PROVE  ReferencesHeld'
  BY DEF ReferencesHeld, Registered

(* Ending a transaction hands its rows over to the table, or drops them. *)
LEMMA ReferencesEnd ==
  ASSUME TypeInv, ReferencesHeld, watch' = watch, accounts' = accounts,
         NEW w \in Workers, tx' = [tx EXCEPT ![w] = Idle],
         Live' \subseteq Live \cup tx[w].ins
  PROVE  ReferencesHeld'
  <1>1. tx \in [Workers -> Txn] BY DEF TypeInv, TypeOK
  <1>2. /\ tx'[w].ins = {} /\ tx'[w].todo = {}
        /\ tx'[w].keys = {} /\ tx'[w].add = {}
    BY <1>1 DEF Idle
  <1>3. \A x \in Workers \ {w} : tx'[x] = tx[x] BY <1>1
  <1> QED BY <1>2, <1>3 DEF ReferencesHeld, Registered

(* Every step keeps the references of rows and of open inserts. *)
LEMMA OrphanInvStep == OrphanInv /\ [Next]_vars => OrphanInv'
  <1> SUFFICES ASSUME OrphanInv, [Next]_vars PROVE ReferencesHeld'
    BY TypeInvStep DEF OrphanInv
  <1>a. /\ TypeInv /\ ReferencesHeld
        /\ tx \in [Workers -> Txn]
        /\ watch \in [Watchlists -> {"none", "watching", "resting", "gone"}]
        /\ Owner \in [Watchlists -> Users]
    BY NotificationsAssumption DEF OrphanInv, TypeInv, TypeOK
  <1>b. ASSUME NEW w \in Workers, NEW reached, Rollback(w, reached),
               row' = row, watch' = watch, accounts' = accounts
        PROVE  ReferencesHeld'
    <2>1. Live' = Live BY <1>b DEF Live
    <2>2. tx' = [tx EXCEPT ![w] = Idle] BY <1>b DEF Rollback
    <2> QED BY <1>a, <1>b, <2>1, <2>2, ReferencesEnd
  <1>c. ASSUME NEW w \in Workers, Commit(w), watch' = watch, accounts' = accounts
        PROVE  ReferencesHeld'
    <2>1. Live' \subseteq Live \cup tx[w].ins BY <1>c DEF Commit, Live, Statuses
    <2>2. tx' = [tx EXCEPT ![w] = Idle] BY <1>c DEF Commit
    <2> QED BY <1>a, <1>c, <2>1, <2>2, ReferencesEnd
  <1>d. ASSUME NEW w \in Workers, NEW job, NEW rows, Select(w, job, rows),
               row' = row, watch' = watch, accounts' = accounts
        PROVE  ReferencesHeld'
    <2>1. PICK B : tx' = [tx EXCEPT ![w] = ReadBatch(tx[w], job, B)]
      BY <1>d DEF Select
    <2>2. \A x \in Workers : /\ tx'[x].ins = tx[x].ins /\ tx'[x].todo = tx[x].todo
                             /\ tx'[x].keys = tx[x].keys /\ tx'[x].add = tx[x].add
      BY <1>a, <2>1 DEF ReadBatch
    <2>3. Live' = Live BY <1>d DEF Live
    <2> QED BY <1>a, <1>d, <2>2, <2>3, ReferencesFrame
  <1>1. CASE UNCHANGED vars
    BY <1>1, <1>a, ReferencesFrame DEF vars, Live
  <1>2. ASSUME NEW w \in Workers, NEW job \in {"generate", "cycle"}, StartGenerate(w, job)
        PROVE  ReferencesHeld'
    <2>1. /\ tx'[w].ins = {} /\ tx'[w].keys = {} /\ tx'[w].add = {}
          /\ tx'[w].todo = ActiveWatchlists
      BY <1>2, <1>a DEF StartGenerate, Idle
    <2>2. \A x \in Workers \ {w} : tx'[x] = tx[x] BY <1>2, <1>a DEF StartGenerate
    <2>3. Live' = Live /\ watch' = watch /\ accounts' = accounts
      BY <1>2 DEF StartGenerate, Live
    <2>4. \A l \in ActiveWatchlists : watch[l] # "none" BY DEF ActiveWatchlists
    <2> QED BY <1>a, <2>1, <2>2, <2>3, <2>4 DEF ReferencesHeld, Registered
  <1>3. ASSUME NEW w \in Workers, NEW l \in Watchlists, MatchOffers(w, l)
        PROVE  ReferencesHeld'
    <2>1. PICK fired \in SUBSET Triggers :
            tx' = [tx EXCEPT ![w].todo = @ \ {l}, ![w].keys = {l} \X fired]
      BY <1>3 DEF MatchOffers
    <2>2. watch[l] # "none" BY <1>3, <1>a DEF MatchOffers, ReferencesHeld
    <2>3. \A k \in {l} \X fired : watch[ListOf(k)] # "none" BY <2>2 DEF ListOf
    <2>4. /\ tx'[w].ins = tx[w].ins /\ tx'[w].add = tx[w].add
          /\ tx'[w].todo \subseteq tx[w].todo /\ tx'[w].keys = {l} \X fired
      BY <1>a, <2>1
    <2>5. \A x \in Workers \ {w} : tx'[x] = tx[x] BY <1>a, <2>1
    <2>6. Live' = Live /\ watch' = watch /\ accounts' = accounts
      BY <1>3 DEF MatchOffers, Live
    <2> QED BY <1>a, <2>3, <2>4, <2>5, <2>6 DEF ReferencesHeld, Registered
  <1>4. ASSUME NEW w \in Workers, NEW k \in Keys, CheckKey(w, k)
        PROVE  ReferencesHeld'
    <2>1. \A x \in Workers : /\ tx'[x].ins \subseteq tx[x].ins
                             /\ tx'[x].todo \subseteq tx[x].todo
                             /\ tx'[x].keys \subseteq tx[x].keys
                             /\ tx'[x].add \subseteq tx[x].add \cup tx[x].keys
      BY <1>4, <1>a DEF CheckKey
    <2>2. Live' = Live /\ watch' = watch /\ accounts' = accounts
      BY <1>4 DEF CheckKey, Live
    <2> QED BY <1>a, <2>1, <2>2, ReferencesFrame
  <1>5. ASSUME NEW w \in Workers, FlushInsert(w)
        PROVE  ReferencesHeld'
    <2>1. PICK k \in tx[w].add :
            IF Refused(k) THEN Rollback(w, {})
            ELSE /\ tx' = [tx EXCEPT ![w].add = {}, ![w].ins = @ \cup {<<tx[w].run, k>>}]
                 /\ UNCHANGED lost
      BY <1>5 DEF FlushInsert
    <2>2. row' = row /\ watch' = watch /\ accounts' = accounts BY <1>5 DEF FlushInsert
    <2>3. CASE Refused(k) BY <1>b, <2>1, <2>2, <2>3
    <2>4. CASE ~Refused(k)
      <3>1. k \in Keys /\ ListOf(k) \in Watchlists BY <1>a DEF Txn, Keys, ListOf
      <3>2. watch[ListOf(k)] # "none" BY <1>a DEF ReferencesHeld
      <3>3. Registered(ListOf(k)) BY <1>a, <2>4, <3>1, <3>2 DEF Refused, Registered
      <3>4. KeyOf(<<tx[w].run, k>>) = k BY DEF KeyOf
      <3>a. tx' = [tx EXCEPT ![w].add = {}, ![w].ins = @ \cup {<<tx[w].run, k>>}]
        BY <2>1, <2>4
      <3>5. /\ tx'[w].ins = tx[w].ins \cup {<<tx[w].run, k>>} /\ tx'[w].add = {}
            /\ tx'[w].todo = tx[w].todo /\ tx'[w].keys = tx[w].keys
        BY <1>a, <3>a
      <3>6. \A x \in Workers \ {w} : tx'[x] = tx[x] BY <1>a, <3>a
      <3>7. Live' = Live BY <2>2 DEF Live
      <3>8. \A r \in tx'[w].ins : Registered(ListOf(KeyOf(r)))
        BY <1>a, <3>3, <3>4, <3>5 DEF ReferencesHeld
      <3> QED BY <1>a, <2>2, <3>5, <3>6, <3>7, <3>8 DEF ReferencesHeld, Registered
    <2> QED BY <2>3, <2>4
  <1>6. ASSUME NEW w \in Workers,
               \/ DeadlockVictim(w) \/ Crash(w)
               \/ \E r \in RowIds : TransportError(w, r)
        PROVE  ReferencesHeld'
    BY <1>6, <1>b DEF DeadlockVictim, Crash, TransportError
  <1>7. ASSUME NEW w \in Workers, EndGenerate(w) \/ EndDispatch(w) PROVE ReferencesHeld'
    BY <1>7, <1>b, <1>c DEF EndGenerate, EndDispatch
  <1>8. ASSUME NEW w \in Workers, StartDispatch(w) \/ ContinueCycle(w)
        PROVE  ReferencesHeld'
    BY <1>8, <1>d DEF StartDispatch, ContinueCycle
  <1>9. ASSUME NEW w \in Workers, NEW r \in RowIds, SendAccepted(w, r) \/ MarkFailed(w, r)
        PROVE  ReferencesHeld'
    <2>1. row' = row /\ watch' = watch /\ accounts' = accounts
      BY <1>9 DEF SendAccepted, MarkFailed
    <2>2. CASE SendAccepted(w, r)
      <3>1. \A x \in Workers : /\ tx'[x].ins = tx[x].ins /\ tx'[x].todo = tx[x].todo
                               /\ tx'[x].keys = tx[x].keys /\ tx'[x].add = tx[x].add
        BY <2>2, <1>a DEF SendAccepted
      <3> QED BY <1>a, <2>1, <3>1, ReferencesFrame DEF Live
    <2>3. CASE MarkFailed(w, r)
      <3>1. \A x \in Workers : /\ tx'[x].ins = tx[x].ins /\ tx'[x].todo = tx[x].todo
                               /\ tx'[x].keys = tx[x].keys /\ tx'[x].add = tx[x].add
        BY <2>3, <1>a DEF MarkFailed
      <3> QED BY <1>a, <2>1, <3>1, ReferencesFrame DEF Live
    <2> QED BY <1>9, <2>2, <2>3
  <1>10. ASSUME NEW l \in Watchlists, CreateWatchlist(l) \/ UpdateWatchlist(l)
         PROVE  ReferencesHeld'
    <2>1. tx' = tx /\ accounts' = accounts /\ Live' = Live
      BY <1>10 DEF CreateWatchlist, UpdateWatchlist, Live
    <2>2. /\ Registered(l)' /\ watch'[l] # "none"
          /\ Owner[l] \in accounts
      BY <1>10, <1>a DEF CreateWatchlist, UpdateWatchlist, Registered, ReferencesHeld
    <2>3. \A m \in Watchlists : m # l => watch'[m] = watch[m]
      BY <1>10, <1>a DEF CreateWatchlist, UpdateWatchlist
    <2>4. \A m \in Watchlists : Registered(m) => Registered(m)'
      BY <2>2, <2>3 DEF Registered
    <2>5. \A m \in Watchlists : watch[m] # "none" => watch'[m] # "none"
      BY <2>2, <2>3
    <2>6. \A w \in Workers : /\ tx[w].todo \subseteq Watchlists
                             /\ \A k \in tx[w].keys \cup tx[w].add : ListOf(k) \in Watchlists
                             /\ \A r \in tx[w].ins : ListOf(KeyOf(r)) \in Watchlists
      BY <1>a DEF Txn, Keys, ListOf, RowIds, KeyOf
    <2>7. \A r \in Live : ListOf(KeyOf(r)) \in Watchlists
      BY DEF Live, RowIds, Keys, KeyOf, ListOf
    <2>8. \A m \in Watchlists : Registered(m)' => Owner[m] \in accounts'
      BY <1>a, <2>1, <2>2, <2>3 DEF ReferencesHeld, Registered
    <2> QED BY <1>a, <2>1, <2>4, <2>5, <2>6, <2>7, <2>8 DEF ReferencesHeld
  <1>11. ASSUME NEW l \in Watchlists, DeleteWatchlist(l) PROVE ReferencesHeld'
    <2>1. tx' = tx /\ accounts' = accounts /\ Live' = Live
      BY <1>11 DEF DeleteWatchlist, Live
    <2>2. watch' = [watch EXCEPT ![l] = "gone"] BY <1>11 DEF DeleteWatchlist
    <2>3. \A r \in Live : ListOf(KeyOf(r)) # l BY <1>11 DEF DeleteWatchlist
    <2>4. \A w \in Workers : \A r \in tx[w].ins : ListOf(KeyOf(r)) # l
      BY <1>11 DEF DeleteWatchlist, Referenced
    <2>5. \A m : m # l /\ Registered(m) => Registered(m)' BY <1>a, <2>2 DEF Registered
    <2>6. \A m \in Watchlists : /\ Registered(m)' => Registered(m)
                                /\ watch[m] # "none" => watch'[m] # "none"
      BY <1>a, <2>2 DEF Registered
    <2>7. \A w \in Workers : /\ tx[w].todo \subseteq Watchlists
                             /\ \A k \in tx[w].keys \cup tx[w].add : ListOf(k) \in Watchlists
      BY <1>a DEF Txn, Keys, ListOf
    <2> QED BY <1>a, <2>1, <2>3, <2>4, <2>5, <2>6, <2>7 DEF ReferencesHeld
  <1>12. ASSUME NEW cutoff \in 1..MaxRuns, CleanupRetainedData(cutoff) PROVE ReferencesHeld'
    <2>1. tx' = tx /\ watch' = watch /\ accounts' = accounts /\ Live' \subseteq Live
      BY <1>12 DEF CleanupRetainedData, Live, Statuses
    <2> QED BY <1>a, <2>1, ReferencesFrame
  <1>13. ASSUME NEW u \in Users, StartErase(u) \/ AbortErase(u) PROVE ReferencesHeld'
    <2>1. tx' = tx /\ watch' = watch /\ accounts' = accounts /\ Live' = Live
      BY <1>13 DEF StartErase, AbortErase, Live
    <2> QED BY <1>a, <2>1, ReferencesFrame
  <1>14. ASSUME NEW u \in Users, FinishErase(u) PROVE ReferencesHeld'
    <2>1. /\ tx' = tx /\ accounts' = accounts \ {u}
          /\ row' = [r \in RowIds |-> IF r \in RowsOf(u) THEN "gone" ELSE row[r]]
          /\ watch' = [l \in Watchlists |-> IF Owner[l] = u THEN "gone" ELSE watch[l]]
      BY <1>14 DEF FinishErase
    <2>2. \A r \in Live' : r \in Live /\ UserOf(r) # u
      BY <2>1 DEF Live, RowsOf, Statuses
    <2>3. \A w \in Workers : \A r \in tx[w].ins :
             ListOf(KeyOf(r)) \in Watchlists => UserOf(r) # u
      BY <1>14 DEF FinishErase, Referenced, UserOf
    <2>4. \A m \in Watchlists : /\ Owner[m] # u /\ Registered(m) => Registered(m)'
                                /\ Registered(m)' => Registered(m) /\ Owner[m] # u
                                /\ watch[m] # "none" => watch'[m] # "none"
      BY <1>a, <2>1 DEF Registered
    <2>5. \A w \in Workers : /\ tx[w].todo \subseteq Watchlists
                             /\ \A k \in tx[w].keys \cup tx[w].add : ListOf(k) \in Watchlists
                             /\ \A r \in tx[w].ins : ListOf(KeyOf(r)) \in Watchlists
      BY <1>a DEF Txn, Keys, ListOf, RowIds, KeyOf
    <2>6. \A r \in Live : ListOf(KeyOf(r)) \in Watchlists
      BY DEF Live, RowIds, Keys, KeyOf, ListOf
    <2>7. \A m \in Watchlists : Registered(m)' => Owner[m] \in accounts'
      BY <1>a, <2>1, <2>4 DEF ReferencesHeld
    <2>8. \A r \in Live' : Registered(ListOf(KeyOf(r)))'
      BY <1>a, <2>2, <2>4, <2>6 DEF ReferencesHeld, UserOf
    <2>9. \A w \in Workers :
            /\ \A l \in tx'[w].todo : watch'[l] # "none"
            /\ \A k \in tx'[w].keys \cup tx'[w].add : watch'[ListOf(k)] # "none"
            /\ \A r \in tx'[w].ins : Registered(ListOf(KeyOf(r)))'
      BY <1>a, <2>1, <2>3, <2>4, <2>5 DEF ReferencesHeld, UserOf
    <2> QED BY <2>7, <2>8, <2>9 DEF ReferencesHeld
  <1> QED
    BY <1>1, <1>2, <1>3, <1>4, <1>5, <1>6, <1>7, <1>8, <1>9, <1>10, <1>11, <1>12, <1>13, <1>14
    DEF Next, Step

(* A deletion of a watchlist or of an account never leaves a notification   *)
(* behind, even one that was being generated meanwhile.                     *)
THEOREM NoneOrphaned == Spec => []NoOrphans
  <1>1. Init => OrphanInv
    <2>1. Init => TypeInv
      BY NotificationsAssumption, IdleIsTxn DEF Init, TypeInv, TypeOK, RunsNumbered, Idle
    <2> QED BY <2>1 DEF OrphanInv, Init, ReferencesHeld, Registered, Live, Statuses, Idle
  <1>2. OrphanInv => NoOrphans
    <2>1. \A r \in Live : ListOf(KeyOf(r)) \in Watchlists
      BY DEF Live, RowIds, Keys, KeyOf, ListOf
    <2> QED BY <2>1 DEF OrphanInv, ReferencesHeld, NoOrphans, Registered, UserOf
  <1> QED BY <1>1, <1>2, OrphanInvStep, PTL DEF Spec

-----------------------------------------------------------------------------
(* Rows are inserted by one run, at most once *)

(* A run number belongs to one transaction; the rows of a run that is still *)
(* open are not in the table yet.                                           *)
RunsOnce ==
    /\ \A w \in Workers : tx[w].run \in 0..clock
    /\ \A w, x \in Workers : w # x /\ tx[w].run # 0 => tx[w].run # tx[x].run
    /\ \A r \in RowIds : row[r] # "none" =>
          RunOf(r) =< clock /\ \A w \in Workers : RunOf(r) # tx[w].run

(* A row that an open transaction inserts is not in the table. *)
LEMMA InsertsNew ==
  ASSUME TypeInv, RunsOnce, NEW w \in Workers, NEW r \in tx[w].ins
  PROVE  r \in RowIds /\ row[r] = "none"
  <1>1. r \in RowIds BY DEF TypeInv, TypeOK, Txn
  <1> QED BY <1>1 DEF TypeInv, RunsNumbered, RunsOnce

(* A transaction that ends publishes rows of its own run only. *)
LEMMA RunsEnd ==
  ASSUME TypeInv, RunsOnce, NEW w \in Workers, tx' = [tx EXCEPT ![w] = Idle], clock' = clock,
         \A r \in RowIds : row'[r] # "none" => row[r] # "none" \/ RunOf(r) = tx[w].run
  PROVE  RunsOnce'
  <1>1. /\ tx \in [Workers -> Txn] /\ clock \in Nat
        /\ \A x \in Workers : tx'[x] = IF x = w THEN Idle ELSE tx[x]
    BY NotificationsAssumption DEF TypeInv, TypeOK
  <1>2. Idle.run = 0 BY DEF Idle
  <1>3. \A r \in RowIds : RunOf(r) \in Nat /\ RunOf(r) # 0
    BY NotificationsAssumption DEF RowIds, RunOf
  <1>4. \A r \in RowIds : row'[r] # "none" =>
           RunOf(r) =< clock /\ \A x \in Workers : RunOf(r) # tx'[x].run
    <2> SUFFICES ASSUME NEW r \in RowIds, row'[r] # "none"
                 PROVE  RunOf(r) =< clock /\ \A x \in Workers : RunOf(r) # tx'[x].run
      OBVIOUS
    <2>1. CASE row[r] # "none" BY <1>1, <1>2, <1>3, <2>1 DEF RunsOnce
    <2>2. CASE RunOf(r) = tx[w].run BY <1>1, <1>2, <1>3, <2>2 DEF RunsOnce
    <2> QED BY <2>1, <2>2
  <1>5. \A x \in Workers : tx'[x].run \in 0..clock BY <1>1, <1>2 DEF RunsOnce
  <1>6. \A x, y \in Workers : x # y /\ tx'[x].run # 0 => tx'[x].run # tx'[y].run
    BY <1>1, <1>2 DEF RunsOnce
  <1> QED BY <1>4, <1>5, <1>6 DEF RunsOnce

(* Steps that begin no run and publish no row. *)
LEMMA RunsFrame ==
  ASSUME RunsOnce, clock' = clock, \A x \in Workers : tx'[x].run = tx[x].run,
         \A r \in RowIds : row'[r] # "none" => row[r] # "none"
  PROVE  RunsOnce'
  BY DEF RunsOnce

(* A commit writes rows that are in the table, and its own inserts. *)
LEMMA CommitPublishes ==
  ASSUME TypeInv, NEW w \in Workers, Commit(w)
  PROVE  \A r \in RowIds : row'[r] # "none" => row[r] # "none" \/ r \in tx[w].ins
  BY DEF Commit, Live, Statuses

LEMMA RunsOnceStep == TypeInv /\ RunsOnce /\ [Next]_vars => RunsOnce'
  <1> SUFFICES ASSUME TypeInv, RunsOnce, [Next]_vars PROVE RunsOnce' OBVIOUS
  <1>a. tx \in [Workers -> Txn] /\ clock \in Nat /\ MaxRuns \in Nat
    BY NotificationsAssumption DEF TypeInv, TypeOK
  <1>b. ASSUME NEW w \in Workers, NEW reached, Rollback(w, reached), row' = row, clock' = clock
        PROVE  RunsOnce'
    BY <1>b, RunsEnd DEF Rollback
  <1>c. ASSUME NEW w \in Workers, Commit(w), clock' = clock PROVE RunsOnce'
    <2>1. \A r \in tx[w].ins : RunOf(r) = tx[w].run BY DEF TypeInv, RunsNumbered
    <2> QED BY <1>c, <2>1, CommitPublishes, RunsEnd DEF Commit
  <1>1. CASE UNCHANGED vars
    BY <1>1, RunsFrame DEF vars
  <1>2. ASSUME NEW w \in Workers, NEW job \in {"generate", "cycle"}, StartGenerate(w, job)
        PROVE  RunsOnce'
    <2>1. tx'[w].run = clock + 1 /\ \A x \in Workers \ {w} : tx'[x] = tx[x]
      BY <1>2, <1>a DEF StartGenerate, Idle
    <2>2. clock' = clock + 1 /\ row' = row BY <1>2 DEF StartGenerate
    <2>3. \A r \in RowIds : RunOf(r) \in Nat BY <1>a DEF RowIds, RunOf
    <2>4. \A x \in Workers : tx'[x].run \in 0..clock' BY <1>a, <2>1, <2>2 DEF RunsOnce
    <2>5. \A x, y \in Workers : x # y /\ tx'[x].run # 0 => tx'[x].run # tx'[y].run
      BY <1>a, <2>1, <2>2 DEF RunsOnce
    <2>6. \A r \in RowIds : row'[r] # "none" =>
             RunOf(r) =< clock' /\ \A x \in Workers : RunOf(r) # tx'[x].run
      BY <1>a, <2>1, <2>2, <2>3 DEF RunsOnce
    <2> QED BY <2>4, <2>5, <2>6 DEF RunsOnce
  <1>3. ASSUME NEW w \in Workers,
               \/ \E l \in Watchlists : MatchOffers(w, l)
               \/ \E k \in Keys : CheckKey(w, k)
               \/ \E r \in RowIds : SendAccepted(w, r) \/ MarkFailed(w, r)
        PROVE  RunsOnce'
    <2>1. row' = row /\ clock' = clock
      BY <1>3 DEF MatchOffers, CheckKey, SendAccepted, MarkFailed
    <2>2. ASSUME NEW l, MatchOffers(w, l) PROVE \A x \in Workers : tx'[x].run = tx[x].run
      BY <2>2, <1>a DEF MatchOffers
    <2>3. ASSUME NEW k, CheckKey(w, k) PROVE \A x \in Workers : tx'[x].run = tx[x].run
      BY <2>3, <1>a DEF CheckKey
    <2>4. ASSUME NEW r, SendAccepted(w, r) PROVE \A x \in Workers : tx'[x].run = tx[x].run
      BY <2>4, <1>a DEF SendAccepted
    <2>5. ASSUME NEW r, MarkFailed(w, r) PROVE \A x \in Workers : tx'[x].run = tx[x].run
      BY <2>5, <1>a DEF MarkFailed
    <2> QED BY <1>3, <2>1, <2>2, <2>3, <2>4, <2>5, RunsFrame
  <1>4. ASSUME NEW w \in Workers, FlushInsert(w) PROVE RunsOnce'
    <2>1. CASE Rollback(w, {}) BY <1>4, <2>1, <1>b DEF FlushInsert
    <2>2. CASE ~Rollback(w, {})
      <3>1. PICK k : tx' = [tx EXCEPT ![w].add = {}, ![w].ins = @ \cup {<<tx[w].run, k>>}]
        BY <1>4, <2>2 DEF FlushInsert
      <3>2. \A x \in Workers : tx'[x].run = tx[x].run BY <1>a, <3>1
      <3> QED BY <1>4, <3>2, RunsFrame DEF FlushInsert
    <2> QED BY <2>1, <2>2
  <1>5. ASSUME NEW w \in Workers,
               \/ DeadlockVictim(w) \/ Crash(w) \/ EndGenerate(w) \/ EndDispatch(w)
               \/ \E r \in RowIds : TransportError(w, r)
        PROVE  RunsOnce'
    BY <1>5, <1>b, <1>c DEF DeadlockVictim, Crash, TransportError, EndGenerate, EndDispatch
  <1>6. ASSUME NEW w \in Workers, StartDispatch(w) \/ ContinueCycle(w) PROVE RunsOnce'
    <2>1. PICK job, B : tx' = [tx EXCEPT ![w] = ReadBatch(tx[w], job, B)]
      BY <1>6 DEF StartDispatch, ContinueCycle, Select
    <2>2. \A x \in Workers : tx'[x].run = tx[x].run BY <1>a, <2>1 DEF ReadBatch
    <2>3. row' = row /\ clock' = clock BY <1>6 DEF StartDispatch, ContinueCycle
    <2> QED BY <2>2, <2>3, RunsFrame
  <1>7. ASSUME \/ \E l \in Watchlists : CreateWatchlist(l) \/ UpdateWatchlist(l) \/ DeleteWatchlist(l)
               \/ \E cutoff \in 1..MaxRuns : CleanupRetainedData(cutoff)
               \/ \E u \in Users : StartErase(u) \/ FinishErase(u) \/ AbortErase(u)
        PROVE  RunsOnce'
    <2>1. tx' = tx /\ clock' = clock
      BY <1>7 DEF CreateWatchlist, UpdateWatchlist, DeleteWatchlist, CleanupRetainedData,
                  StartErase, FinishErase, AbortErase
    <2>2. \A r \in RowIds : row'[r] # "none" => row[r] # "none"
      BY <1>7 DEF CreateWatchlist, UpdateWatchlist, DeleteWatchlist, CleanupRetainedData,
                  StartErase, FinishErase, AbortErase, RowsOf, Live, Statuses
    <2> QED BY <2>1, <2>2, RunsFrame
  <1> QED
    BY <1>1, <1>2, <1>3, <1>4, <1>5, <1>6, <1>7 DEF Next, Step

(* A row that was settled is never queued again, and one that was deleted   *)
(* never comes back, however dispatches, runs and deletions overlap.        *)
THEOREM SettledStaysSettled == Spec => NeverRequeued
  <1>1. Init => TypeInv /\ RunsOnce
    BY NotificationsAssumption, IdleIsTxn
    DEF Init, TypeInv, TypeOK, RunsNumbered, RunsOnce, Idle
  <1>2. ASSUME TypeInv, RunsOnce, [Next]_vars
        PROVE  [\A r \in RowIds : row[r] \notin {"none", "created"} => row'[r] # "created"
                                  /\ (row[r] = "gone" => row'[r] = "gone")]_vars
    <2> SUFFICES ASSUME NEW r \in RowIds, row[r] \notin {"none", "created"}
                 PROVE  row'[r] # "created" /\ (row[r] = "gone" => row'[r] = "gone")
      OBVIOUS
    <2>1. ASSUME NEW w \in Workers, Commit(w)
          PROVE  row'[r] # "created" /\ (row[r] = "gone" => row'[r] = "gone")
      <3>1. r \notin tx[w].ins BY <1>2, InsertsNew
      <3> QED BY <2>1, <3>1 DEF Commit, Live, Statuses
    <2>2. ASSUME row' = row
          PROVE  row'[r] # "created" /\ (row[r] = "gone" => row'[r] = "gone")
      BY <2>2
    <2>3. ASSUME row'[r] \in {row[r], "gone"}
          PROVE  row'[r] # "created" /\ (row[r] = "gone" => row'[r] = "gone")
      BY <2>3
    <2> QED
      BY <1>2, <2>1, <2>2, <2>3
      DEF Next, Step, vars, StartGenerate, StartDispatch, MatchOffers, CheckKey, FlushInsert,
          DeadlockVictim, EndGenerate, ContinueCycle, SendAccepted, MarkFailed, EndDispatch,
          TransportError, Crash, CreateWatchlist, UpdateWatchlist, DeleteWatchlist,
          CleanupRetainedData, StartErase, FinishErase, AbortErase
  <1> QED BY <1>1, <1>2, TypeInvStep, RunsOnceStep, PTL DEF Spec, NeverRequeued

-----------------------------------------------------------------------------
(* What a dispatch holds *)

(* The rows a dispatch has read and not yet written back. *)
Held(w) == tx[w].batch \cup tx[w].ok \cup tx[w].bad

(* Only a dispatch holds rows, each in one state; they are committed, or    *)
(* its own inserts when it is the cycle script.                             *)
HeldRowsOf(w) ==
    /\ tx[w].pc = "generate" => tx[w].job \in Jobs[w] \cap {"generate", "cycle"}
    /\ tx[w].pc = "dispatch" => tx[w].job \in Jobs[w] \cap {"dispatch", "cycle"}
    /\ Held(w) # {} => tx[w].pc = "dispatch"
    /\ tx[w].ins # {} => tx[w].pc = "generate" \/ (tx[w].pc = "dispatch" /\ tx[w].job = "cycle")
    /\ tx[w].batch \cap tx[w].ok = {}
    /\ tx[w].batch \cap tx[w].bad = {}
    /\ tx[w].ok \cap tx[w].bad = {}
    /\ \A r \in Held(w) : row[r] # "none" \/ r \in tx[w].ins

HeldRows == \A w \in Workers : HeldRowsOf(w)

(* A row that exists leaves a trace for ever. *)
LEMMA RowsStay ==
  ASSUME [Next]_vars, NEW r \in RowIds, row[r] # "none" PROVE row'[r] # "none"
  <1>1. ASSUME NEW w \in Workers, Commit(w) PROVE row'[r] # "none"
    BY <1>1 DEF Commit
  <1>2. ASSUME row'[r] \in {row[r], "gone"} PROVE row'[r] # "none"
    BY <1>2
  <1> QED
    BY <1>1, <1>2
    DEF Next, Step, vars, StartGenerate, StartDispatch, MatchOffers, CheckKey, FlushInsert,
        DeadlockVictim, EndGenerate, ContinueCycle, SendAccepted, MarkFailed, EndDispatch,
        TransportError, Crash, CreateWatchlist, UpdateWatchlist, DeleteWatchlist,
        CleanupRetainedData, StartErase, FinishErase, AbortErase

(* A step of one worker leaves what the others hold alone. *)
LEMMA HeldFrame ==
  ASSUME TypeInv, HeldRows, [Next]_vars,
         \E w \in Workers : HeldRowsOf(w)' /\ \A x \in Workers \ {w} : tx'[x] = tx[x]
  PROVE  HeldRows'
  <1> SUFFICES ASSUME NEW x \in Workers, tx'[x] = tx[x] PROVE HeldRowsOf(x)'
    BY DEF HeldRows
  <1>1. Held(x) \subseteq RowIds BY DEF Held, TypeInv, TypeOK, Txn
  <1>2. \A r \in Held(x) : row[r] # "none" => row'[r] # "none" BY <1>1, RowsStay
  <1> QED BY <1>2 DEF HeldRows, HeldRowsOf, Held

LEMMA HeldRowsStep == TypeInv /\ HeldRows /\ [Next]_vars => HeldRows'
  <1> SUFFICES ASSUME TypeInv, HeldRows, [Next]_vars PROVE HeldRows' OBVIOUS
  <1>a. tx \in [Workers -> Txn] BY DEF TypeInv, TypeOK
  <1>b. ASSUME NEW w \in Workers, tx' = [tx EXCEPT ![w] = Idle] PROVE HeldRows'
    <2>1. HeldRowsOf(w)' BY <1>a, <1>b DEF HeldRowsOf, Held, Idle
    <2> QED BY <1>a, <1>b, <2>1, HeldFrame
  <1>c. ASSUME tx' = tx PROVE HeldRows'
    <2>1. \A x \in Workers : \A r \in Held(x) : row[r] # "none" => row'[r] # "none"
      BY <1>a, RowsStay DEF Held, Txn
    <2> QED BY <1>c, <2>1 DEF HeldRows, HeldRowsOf, Held
  <1>1. ASSUME NEW w \in Workers, NEW job \in {"generate", "cycle"}, StartGenerate(w, job)
        PROVE  HeldRows'
    <2>1. /\ tx'[w].pc = "generate" /\ tx'[w].job = job /\ tx'[w].ins = {}
          /\ tx'[w].batch = {} /\ tx'[w].ok = {} /\ tx'[w].bad = {}
          /\ job \in Jobs[w]
      BY <1>1, <1>a DEF StartGenerate, Idle
    <2>2. HeldRowsOf(w)' BY <2>1 DEF HeldRowsOf, Held
    <2>3. \A x \in Workers \ {w} : tx'[x] = tx[x] BY <1>1, <1>a DEF StartGenerate
    <2> QED BY <2>2, <2>3, HeldFrame
  <1>2. ASSUME NEW w \in Workers, tx[w].pc = "generate",
               \A x \in Workers \ {w} : tx'[x] = tx[x],
               /\ tx'[w].pc = tx[w].pc /\ tx'[w].job = tx[w].job
               /\ tx'[w].batch = tx[w].batch /\ tx'[w].ok = tx[w].ok /\ tx'[w].bad = tx[w].bad
        PROVE  HeldRows'
    <2>1. HeldRowsOf(w)' BY <1>2 DEF HeldRows, HeldRowsOf, Held
    <2> QED BY <1>2, <2>1, HeldFrame
  <1>3. ASSUME NEW w \in Workers, NEW l \in Watchlists, MatchOffers(w, l) PROVE HeldRows'
    <2>1. PICK fired \in SUBSET Triggers :
            tx' = [tx EXCEPT ![w].todo = @ \ {l}, ![w].keys = {l} \X fired]
      BY <1>3 DEF MatchOffers
    <2> QED BY <1>2, <1>3, <1>a, <2>1 DEF MatchOffers
  <1>4. ASSUME NEW w \in Workers, NEW k \in Keys, CheckKey(w, k) PROVE HeldRows'
    <2>1. PICK K : tx' = [tx EXCEPT ![w].keys = @ \ {k}, ![w].add = K]
      BY <1>4 DEF CheckKey
    <2> QED BY <1>2, <1>4, <1>a, <2>1 DEF CheckKey
  <1>5. ASSUME NEW w \in Workers, FlushInsert(w) PROVE HeldRows'
    <2>1. CASE Rollback(w, {}) BY <1>b, <2>1 DEF Rollback
    <2>2. CASE ~Rollback(w, {})
      <3>1. PICK k : tx' = [tx EXCEPT ![w].add = {}, ![w].ins = @ \cup {<<tx[w].run, k>>}]
        BY <1>5, <2>2 DEF FlushInsert
      <3> QED BY <1>2, <1>5, <1>a, <3>1 DEF FlushInsert
    <2> QED BY <2>1, <2>2
  <1>6. ASSUME NEW w \in Workers,
               \/ DeadlockVictim(w) \/ Crash(w) \/ EndGenerate(w) \/ EndDispatch(w)
               \/ \E r \in RowIds : TransportError(w, r)
        PROVE  HeldRows'
    BY <1>6, <1>b
    DEF DeadlockVictim, Crash, TransportError, EndGenerate, EndDispatch, Rollback, Commit
  <1>7. ASSUME NEW w \in Workers, NEW job, NEW rows, Select(w, job, rows), row' = row,
               \/ tx[w].pc = "idle" /\ job = "dispatch" /\ rows = Queued
               \/ tx[w].pc = "generate" /\ job = "cycle" /\ rows = Queued \cup tx[w].ins,
               job \in Jobs[w]
        PROVE  HeldRows'
    <2>1. PICK B \in SUBSET rows : tx' = [tx EXCEPT ![w] = ReadBatch(tx[w], job, B)]
      BY <1>7 DEF Select, Oldest
    <2>2. /\ tx'[w].pc = "dispatch" /\ tx'[w].job = job /\ tx'[w].batch = B
          /\ tx'[w].ins = tx[w].ins /\ tx'[w].ok = tx[w].ok /\ tx'[w].bad = tx[w].bad
      BY <1>a, <2>1 DEF ReadBatch, Txn
    <2>3. tx[w].ok = {} /\ tx[w].bad = {} /\ (tx[w].pc = "idle" => tx[w].ins = {})
      BY <1>a, <1>7 DEF HeldRows, HeldRowsOf, Held
    <2>4. \A r \in B : row'[r] # "none" \/ r \in tx[w].ins BY <1>7, <2>1 DEF Queued
    <2>5. HeldRowsOf(w)' BY <1>7, <2>2, <2>3, <2>4 DEF HeldRowsOf, Held
    <2>6. \A x \in Workers \ {w} : tx'[x] = tx[x] BY <1>a, <2>1
    <2> QED BY <2>5, <2>6, HeldFrame
  <1>8. ASSUME NEW w \in Workers, StartDispatch(w) \/ ContinueCycle(w) PROVE HeldRows'
    <2>1. CASE StartDispatch(w) BY <1>7, <2>1 DEF StartDispatch
    <2>2. CASE ContinueCycle(w)
      <3>1. "cycle" \in Jobs[w] BY <2>2 DEF ContinueCycle, GenerateDone, HeldRows, HeldRowsOf
      <3> QED BY <1>7, <2>2, <3>1 DEF ContinueCycle, GenerateDone
    <2> QED BY <1>8, <2>1, <2>2
  <1>9. ASSUME NEW w \in Workers, NEW r \in RowIds, SendAccepted(w, r) PROVE HeldRows'
    <2>1. /\ tx'[w].pc = tx[w].pc /\ tx'[w].job = tx[w].job /\ tx'[w].ins = tx[w].ins
          /\ tx'[w].batch = tx[w].batch \ {r} /\ tx'[w].ok = tx[w].ok \cup {r}
          /\ tx'[w].bad = tx[w].bad /\ r \in tx[w].batch /\ row' = row
      BY <1>9, <1>a DEF SendAccepted
    <2>2. HeldRowsOf(w)' BY <2>1 DEF HeldRows, HeldRowsOf, Held
    <2>3. \A x \in Workers \ {w} : tx'[x] = tx[x] BY <1>9, <1>a DEF SendAccepted
    <2> QED BY <2>2, <2>3, HeldFrame
  <1>10. ASSUME NEW w \in Workers, NEW r \in RowIds, MarkFailed(w, r) PROVE HeldRows'
    <2>1. /\ tx'[w].pc = tx[w].pc /\ tx'[w].job = tx[w].job /\ tx'[w].ins = tx[w].ins
          /\ tx'[w].batch = tx[w].batch \ {r} /\ tx'[w].bad = tx[w].bad \cup {r}
          /\ tx'[w].ok = tx[w].ok /\ r \in tx[w].batch /\ row' = row
      BY <1>10, <1>a DEF MarkFailed
    <2>2. HeldRowsOf(w)' BY <2>1 DEF HeldRows, HeldRowsOf, Held
    <2>3. \A x \in Workers \ {w} : tx'[x] = tx[x] BY <1>10, <1>a DEF MarkFailed
    <2> QED BY <2>2, <2>3, HeldFrame
  <1>11. ASSUME \/ \E l \in Watchlists : CreateWatchlist(l) \/ UpdateWatchlist(l) \/ DeleteWatchlist(l)
                \/ \E cutoff \in 1..MaxRuns : CleanupRetainedData(cutoff)
                \/ \E u \in Users : StartErase(u) \/ FinishErase(u) \/ AbortErase(u)
                \/ UNCHANGED vars
         PROVE  HeldRows'
    BY <1>11, <1>c
    DEF CreateWatchlist, UpdateWatchlist, DeleteWatchlist, CleanupRetainedData,
        StartErase, FinishErase, AbortErase, vars
  <1> QED
    BY <1>1, <1>3, <1>4, <1>5, <1>6, <1>8, <1>9, <1>10, <1>11 DEF Next, Step

-----------------------------------------------------------------------------
(* Every dispatcher settles a row at most once *)

OkBy(r)    == {w \in Workers : r \in tx[w].ok}
Holders(r) == {w \in Workers : r \in Held(w)}

(* Deliveries of transactions that committed. *)
Settled(r) == sends[r] - lost[r] - Cardinality(OkBy(r))

(* A row can be read until some dispatcher has settled it; those that read  *)
(* it before that each have one settlement left.                            *)
SettledRow(r) ==
    /\ Settled(r) >= 0
    /\ row[r] \in {"none", "created"} => Settled(r) = 0
    /\ row[r] = "sent" => Settled(r) >= 1
    /\ row[r] = "failed" => Settled(r) + Cardinality(Holders(r)) + 1 =< Cardinality(Dispatchers)
    /\ Settled(r) + Cardinality(Holders(r)) =< Cardinality(Dispatchers)

SettledOnce == \A r \in RowIds : SettledRow(r)

(* How a count changes when one element may enter or leave the set. *)
LEMMA CountChange ==
  ASSUME NEW S, NEW T, NEW w, IsFiniteSet(S), IsFiniteSet(T), S \ {w} = T \ {w}
  PROVE  /\ Cardinality(S) \in Nat /\ Cardinality(T) \in Nat
         /\ (w \in S <=> w \in T) => Cardinality(T) = Cardinality(S)
         /\ w \in T /\ w \notin S => Cardinality(T) = Cardinality(S) + 1
         /\ w \in S /\ w \notin T => Cardinality(T) = Cardinality(S) - 1
  <1>1. Cardinality(S) \in Nat /\ Cardinality(T) \in Nat BY FS_CardinalityType
  <1>2. CASE w \in S <=> w \in T
    <2>1. S = T BY <1>2
    <2> QED BY <1>1, <2>1
  <1>3. CASE w \in T /\ w \notin S
    <2>1. T = S \cup {w} BY <1>3
    <2> QED BY <1>1, <1>3, <2>1, FS_AddElement
  <1>4. CASE w \in S /\ w \notin T
    <2>1. T = S \ {w} BY <1>4
    <2> QED BY <1>1, <1>4, <2>1, FS_RemoveElement
  <1> QED BY <1>2, <1>3, <1>4

(* What a step of worker w does to the counts of one row. *)
LEMMA CountsChange ==
  ASSUME NEW w \in Workers, \A x \in Workers \ {w} : tx'[x] = tx[x], NEW r
  PROVE  /\ Cardinality(OkBy(r)) \in Nat /\ Cardinality(OkBy(r)') \in Nat
         /\ Cardinality(Holders(r)) \in Nat /\ Cardinality(Holders(r)') \in Nat
         /\ (r \in tx[w].ok <=> r \in tx'[w].ok) => Cardinality(OkBy(r)') = Cardinality(OkBy(r))
         /\ r \in tx'[w].ok /\ r \notin tx[w].ok => Cardinality(OkBy(r)') = Cardinality(OkBy(r)) + 1
         /\ r \in tx[w].ok /\ r \notin tx'[w].ok => Cardinality(OkBy(r)') = Cardinality(OkBy(r)) - 1
         /\ (r \in Held(w) <=> r \in Held(w)') => Cardinality(Holders(r)') = Cardinality(Holders(r))
         /\ r \in Held(w)' /\ r \notin Held(w) => Cardinality(Holders(r)') = Cardinality(Holders(r)) + 1
         /\ r \in Held(w) /\ r \notin Held(w)' => Cardinality(Holders(r)') = Cardinality(Holders(r)) - 1
  <1>1. OkBy(r) \subseteq Workers /\ OkBy(r)' \subseteq Workers BY DEF OkBy
  <1>2. Holders(r) \subseteq Workers /\ Holders(r)' \subseteq Workers BY DEF Holders
  <1>3. /\ IsFiniteSet(OkBy(r)) /\ IsFiniteSet(OkBy(r)')
        /\ IsFiniteSet(Holders(r)) /\ IsFiniteSet(Holders(r)')
    BY <1>1, <1>2, FS_Subset, NotificationsAssumption
  <1>4. OkBy(r) \ {w} = OkBy(r)' \ {w} BY DEF OkBy
  <1>5. Holders(r) \ {w} = Holders(r)' \ {w} BY DEF Holders, Held
  <1>6. /\ w \in OkBy(r) <=> r \in tx[w].ok
        /\ w \in OkBy(r)' <=> r \in tx'[w].ok
        /\ w \in Holders(r) <=> r \in Held(w)
        /\ w \in Holders(r)' <=> r \in Held(w)'
    BY DEF OkBy, Holders
  <1>7. /\ Cardinality(OkBy(r)) \in Nat /\ Cardinality(OkBy(r)') \in Nat
        /\ (w \in OkBy(r) <=> w \in OkBy(r)') => Cardinality(OkBy(r)') = Cardinality(OkBy(r))
        /\ w \in OkBy(r)' /\ w \notin OkBy(r) => Cardinality(OkBy(r)') = Cardinality(OkBy(r)) + 1
        /\ w \in OkBy(r) /\ w \notin OkBy(r)' => Cardinality(OkBy(r)') = Cardinality(OkBy(r)) - 1
    BY <1>3, <1>4, CountChange
  <1>8. /\ Cardinality(Holders(r)) \in Nat /\ Cardinality(Holders(r)') \in Nat
        /\ (w \in Holders(r) <=> w \in Holders(r)') => Cardinality(Holders(r)') = Cardinality(Holders(r))
        /\ w \in Holders(r)' /\ w \notin Holders(r) => Cardinality(Holders(r)') = Cardinality(Holders(r)) + 1
        /\ w \in Holders(r) /\ w \notin Holders(r)' => Cardinality(Holders(r)') = Cardinality(Holders(r)) - 1
    BY <1>3, <1>5, CountChange
  <1> QED BY <1>6, <1>7, <1>8

(* The counts of a state. *)
LEMMA CountsType ==
  ASSUME TypeInv, HeldRows, NEW r \in RowIds
  PROVE  /\ sends[r] \in Nat /\ lost[r] \in Nat
         /\ Cardinality(OkBy(r)) \in Nat /\ Cardinality(Holders(r)) \in Nat
         /\ Cardinality(Dispatchers) \in Nat
         /\ Cardinality(OkBy(r)) =< Cardinality(Holders(r))
         /\ Cardinality(Holders(r)) =< Cardinality(Dispatchers)
  <1>1. OkBy(r) \subseteq Holders(r) BY DEF OkBy, Holders, Held
  <1>2. Holders(r) \subseteq Dispatchers
    BY DEF Holders, HeldRows, HeldRowsOf, Dispatchers
  <1>3. IsFiniteSet(Dispatchers)
    BY FS_Subset, NotificationsAssumption DEF Dispatchers
  <1>4. IsFiniteSet(Holders(r)) /\ Cardinality(Holders(r)) =< Cardinality(Dispatchers)
    BY <1>2, <1>3, FS_Subset
  <1>5. IsFiniteSet(OkBy(r)) /\ Cardinality(OkBy(r)) =< Cardinality(Holders(r))
    BY <1>1, <1>4, FS_Subset
  <1> QED BY <1>3, <1>4, <1>5, FS_CardinalityType DEF TypeInv, TypeOK

(* Steps that neither send nor settle, and only delete rows. *)
LEMMA SettledFrame ==
  ASSUME TypeInv, HeldRows, SettledOnce, sends' = sends, lost' = lost,
         \A x \in Workers : tx'[x].ok = tx[x].ok /\ Held(x)' = Held(x),
         \A r \in RowIds : row'[r] \in {row[r], "gone"}
  PROVE  SettledOnce'
  <1>1. \A r : OkBy(r)' = OkBy(r) BY DEF OkBy
  <1>2. \A r : Holders(r)' = Holders(r) BY DEF Holders
  <1> SUFFICES ASSUME NEW r \in RowIds PROVE SettledRow(r)'
    BY DEF SettledOnce
  <1>3. SettledRow(r) BY DEF SettledOnce
  <1>4. Cardinality(OkBy(r))' = Cardinality(OkBy(r)) /\ Cardinality(Holders(r))' = Cardinality(Holders(r))
    BY <1>1, <1>2
  <1>5. Settled(r)' = Settled(r) BY <1>4 DEF Settled
  <1> QED BY <1>3, <1>4, <1>5 DEF SettledRow

(* A rollback moves deliveries from the transaction to lost. *)
LEMMA SettledRollback ==
  ASSUME TypeInv, HeldRows, SettledOnce, NEW w \in Workers, NEW reached \in SUBSET tx[w].batch,
         Rollback(w, reached), row' = row,
         sends' = [r \in RowIds |-> sends[r] + IF r \in reached THEN 1 ELSE 0]
  PROVE  SettledOnce'
  <1> SUFFICES ASSUME NEW r \in RowIds PROVE SettledRow(r)'
    BY DEF SettledOnce
  <1>1. /\ tx'[w].ok = {} /\ Held(w)' = {}
        /\ \A x \in Workers \ {w} : tx'[x] = tx[x]
    BY DEF Rollback, TypeInv, TypeOK, Idle, Held
  <1>2. tx[w].ok \subseteq Held(w) /\ tx[w].ok \cap reached = {}
    BY DEF Held, HeldRows, HeldRowsOf
  <1>3. /\ lost'[r] = lost[r] + IF r \in tx[w].ok \cup reached THEN 1 ELSE 0
        /\ sends'[r] = sends[r] + IF r \in reached THEN 1 ELSE 0
    BY DEF Rollback
  <1>4. SettledRow(r) BY DEF SettledOnce
  <1>5. Settled(r)' = Settled(r)
    BY <1>1, <1>2, <1>3, CountsChange, CountsType DEF Settled
  <1>6. Cardinality(Holders(r))' =< Cardinality(Holders(r))
    BY <1>1, CountsChange
  <1>7. Cardinality(Holders(r))' \in Nat /\ Settled(r) \in Int
    BY <1>1, CountsChange, CountsType DEF Settled
  <1> QED BY <1>4, <1>5, <1>6, <1>7, CountsType DEF SettledRow

(* A commit turns the deliveries of the transaction into settlements. *)
LEMMA SettledCommit ==
  ASSUME TypeInv, RunsOnce, HeldRows, SettledOnce, NEW w \in Workers,
         Commit(w), sends' = sends, lost' = lost
  PROVE  SettledOnce'
  <1> SUFFICES ASSUME NEW r \in RowIds PROVE SettledRow(r)'
    BY DEF SettledOnce
  <1>1. /\ tx'[w].ok = {} /\ Held(w)' = {}
        /\ \A x \in Workers \ {w} : tx'[x] = tx[x]
    BY DEF Commit, TypeInv, TypeOK, Idle, Held
  <1>2. /\ tx[w].ok \subseteq Held(w) /\ tx[w].bad \subseteq Held(w)
        /\ tx[w].ok \cap tx[w].bad = {}
        /\ r \in Held(w) => row[r] # "none" \/ r \in tx[w].ins
    BY DEF Held, HeldRows, HeldRowsOf
  <1>3. SettledRow(r) BY DEF SettledOnce
  <1>4. /\ r \in tx[w].ok => Settled(r)' = Settled(r) + 1
        /\ r \notin tx[w].ok => Settled(r)' = Settled(r)
    BY <1>1, CountsChange, CountsType DEF Settled
  <1>5. /\ r \in Held(w) => Cardinality(Holders(r))' = Cardinality(Holders(r)) - 1
        /\ r \notin Held(w) => Cardinality(Holders(r))' = Cardinality(Holders(r))
    BY <1>1, CountsChange
  <1>6. r \in tx[w].ins => row[r] = "none" BY InsertsNew
  <1>7. row[r] \in {"none", "gone", "created", "sent", "failed"} BY DEF TypeInv, TypeOK, Statuses
  <1>8. Settled(r) \in Int /\ Cardinality(Holders(r)) \in Nat /\ Cardinality(Dispatchers) \in Nat
    BY CountsType DEF Settled
  <1>9. row'[r] = IF r \in tx[w].ok /\ (r \in Live \/ r \in tx[w].ins) THEN "sent"
                  ELSE IF r \in tx[w].bad /\ (r \in Live \/ r \in tx[w].ins) THEN "failed"
                  ELSE IF r \in tx[w].ins THEN "created" ELSE row[r]
    BY <1>2 DEF Commit
  <1>10. r \in Live <=> row[r] \in {"created", "sent", "failed"} BY DEF Live, Statuses
  <1>11. row'[r] \in {"none", "created"} => r \notin tx[w].ok /\ row[r] \in {"none", "created"}
    BY <1>2, <1>6, <1>7, <1>9, <1>10
  <1>12. row'[r] = "sent" => r \in tx[w].ok \/ (row[r] = "sent" /\ r \notin tx[w].ok)
    BY <1>9
  <1>13. row'[r] = "failed" => r \notin tx[w].ok /\ (r \in Held(w) \/ row[r] = "failed")
    BY <1>2, <1>9, <1>10
  <1> QED BY <1>2, <1>3, <1>4, <1>5, <1>8, <1>11, <1>12, <1>13 DEF SettledRow

(* A batch is read while nobody has settled its rows. *)
LEMMA SettledSelect ==
  ASSUME TypeInv, RunsOnce, HeldRows, HeldRows', SettledOnce, NEW w \in Workers, NEW job,
         NEW B \in SUBSET RowIds, Held(w) = {},
         tx' = [tx EXCEPT ![w] = ReadBatch(tx[w], job, B)], row' = row, sends' = sends, lost' = lost,
         TypeInv', \A r \in B : row[r] = "created" \/ r \in tx[w].ins
  PROVE  SettledOnce'
  <1> SUFFICES ASSUME NEW r \in RowIds PROVE SettledRow(r)'
    BY DEF SettledOnce
  <1>1. /\ tx'[w].ok = tx[w].ok /\ Held(w)' = B
        /\ \A x \in Workers \ {w} : tx'[x] = tx[x]
    BY DEF TypeInv, TypeOK, Txn, ReadBatch, Held
  <1>2. SettledRow(r) BY DEF SettledOnce
  <1>3. Settled(r)' = Settled(r) BY <1>1, CountsChange DEF Settled
  <1>4. Cardinality(Holders(r))' =< Cardinality(Dispatchers)
    <2>1. Holders(r)' \subseteq Dispatchers
      BY DEF Holders, HeldRows, HeldRowsOf, Dispatchers
    <2>2. IsFiniteSet(Dispatchers) BY FS_Subset, NotificationsAssumption DEF Dispatchers
    <2> QED BY <2>1, <2>2, FS_Subset
  <1>5. r \notin B => Cardinality(Holders(r))' = Cardinality(Holders(r))
    BY <1>1, CountsChange
  <1>6. r \in B => row[r] \in {"none", "created"} BY InsertsNew
  <1>7. Settled(r) \in Int /\ Cardinality(Holders(r))' \in Nat /\ Cardinality(Dispatchers) \in Nat
    BY <1>1, CountsType, CountsChange DEF Settled
  <1> QED BY <1>2, <1>3, <1>4, <1>5, <1>6, <1>7 DEF SettledRow

LEMMA SettledOnceStep ==
  ASSUME TypeInv, RunsOnce, HeldRows, SettledOnce, [Next]_vars PROVE SettledOnce'
  <1>a. tx \in [Workers -> Txn] BY DEF TypeInv, TypeOK
  <1>b. TypeInv' /\ HeldRows' BY TypeInvStep, HeldRowsStep
  <1>c. ASSUME NEW w \in Workers, Rollback(w, {}), row' = row, sends' = sends PROVE SettledOnce'
    <2>1. sends' = [r \in RowIds |-> sends[r] + IF r \in {} THEN 1 ELSE 0]
      BY <1>c DEF TypeInv, TypeOK
    <2> QED BY <1>c, <2>1, SettledRollback
  <1>d. ASSUME sends' = sends, lost' = lost, row' = row, NEW w \in Workers,
               \A x \in Workers \ {w} : tx'[x] = tx[x],
               tx'[w].batch = tx[w].batch /\ tx'[w].ok = tx[w].ok /\ tx'[w].bad = tx[w].bad
        PROVE  SettledOnce'
    BY <1>d, SettledFrame DEF Held
  <1>1. ASSUME NEW w \in Workers, NEW job \in {"generate", "cycle"}, StartGenerate(w, job)
        PROVE  SettledOnce'
    <2>1. tx'[w].batch = {} /\ tx'[w].ok = {} /\ tx'[w].bad = {}
      BY <1>1, <1>a DEF StartGenerate, Idle
    <2>2. tx[w].batch = {} /\ tx[w].ok = {} /\ tx[w].bad = {}
      BY <1>1 DEF StartGenerate, HeldRows, HeldRowsOf, Held
    <2>3. \A x \in Workers \ {w} : tx'[x] = tx[x] BY <1>1, <1>a DEF StartGenerate
    <2> QED BY <1>1, <1>d, <2>1, <2>2, <2>3 DEF StartGenerate
  <1>2. ASSUME NEW w \in Workers, NEW l \in Watchlists, MatchOffers(w, l) PROVE SettledOnce'
    <2>1. PICK fired \in SUBSET Triggers :
            tx' = [tx EXCEPT ![w].todo = @ \ {l}, ![w].keys = {l} \X fired]
      BY <1>2 DEF MatchOffers
    <2> QED BY <1>2, <1>a, <1>d, <2>1 DEF MatchOffers
  <1>3. ASSUME NEW w \in Workers, NEW k \in Keys, CheckKey(w, k) PROVE SettledOnce'
    <2>1. PICK K : tx' = [tx EXCEPT ![w].keys = @ \ {k}, ![w].add = K]
      BY <1>3 DEF CheckKey
    <2> QED BY <1>3, <1>a, <1>d, <2>1 DEF CheckKey
  <1>4. ASSUME NEW w \in Workers, FlushInsert(w) PROVE SettledOnce'
    <2>1. CASE Rollback(w, {}) BY <1>4, <1>c, <2>1 DEF FlushInsert
    <2>2. CASE ~Rollback(w, {})
      <3>1. PICK k : /\ tx' = [tx EXCEPT ![w].add = {}, ![w].ins = @ \cup {<<tx[w].run, k>>}]
                     /\ UNCHANGED lost
        BY <1>4, <2>2 DEF FlushInsert
      <3> QED BY <1>4, <1>a, <1>d, <3>1 DEF FlushInsert
    <2> QED BY <2>1, <2>2
  <1>5. ASSUME NEW w \in Workers, DeadlockVictim(w) \/ Crash(w) PROVE SettledOnce'
    BY <1>5, <1>c DEF DeadlockVictim, Crash
  <1>6. ASSUME NEW w \in Workers, NEW r \in RowIds, TransportError(w, r) PROVE SettledOnce'
    <2>1. PICK reached \in {{}, {r}} :
            /\ Rollback(w, reached)
            /\ sends' = [s \in RowIds |-> sends[s] + IF s \in reached THEN 1 ELSE 0]
      BY <1>6 DEF TransportError
    <2>2. reached \in SUBSET tx[w].batch BY <1>6 DEF TransportError
    <2> QED BY <1>6, <2>1, <2>2, SettledRollback DEF TransportError
  <1>7. ASSUME NEW w \in Workers, EndGenerate(w) \/ EndDispatch(w) PROVE SettledOnce'
    BY <1>7, <1>c, SettledCommit DEF EndGenerate, EndDispatch
  <1>8. ASSUME NEW w \in Workers, StartDispatch(w) PROVE SettledOnce'
    <2>1. PICK B \in SUBSET Queued : tx' = [tx EXCEPT ![w] = ReadBatch(tx[w], "dispatch", B)]
      BY <1>8 DEF StartDispatch, Select, Oldest
    <2>2. Held(w) = {} BY <1>8 DEF StartDispatch, HeldRows, HeldRowsOf
    <2>3. B \in SUBSET RowIds /\ \A r \in B : row[r] = "created" BY <2>1 DEF Queued
    <2> QED BY <1>8, <1>b, <2>1, <2>2, <2>3, SettledSelect DEF StartDispatch
  <1>9. ASSUME NEW w \in Workers, ContinueCycle(w) PROVE SettledOnce'
    <2>1. PICK B \in SUBSET (Queued \cup tx[w].ins) :
            tx' = [tx EXCEPT ![w] = ReadBatch(tx[w], "cycle", B)]
      BY <1>9 DEF ContinueCycle, Select, Oldest
    <2>2. Held(w) = {} BY <1>9 DEF ContinueCycle, GenerateDone, HeldRows, HeldRowsOf
    <2>3. B \in SUBSET RowIds /\ \A r \in B : row[r] = "created" \/ r \in tx[w].ins
      BY <1>a, <2>1 DEF Queued, Txn
    <2> QED BY <1>9, <1>b, <2>1, <2>2, <2>3, SettledSelect DEF ContinueCycle
  <1>10. ASSUME NEW w \in Workers, NEW r \in RowIds, SendAccepted(w, r) PROVE SettledOnce'
    <2> SUFFICES ASSUME NEW s \in RowIds PROVE SettledRow(s)'
      BY DEF SettledOnce
    <2>1. /\ tx'[w].ok = tx[w].ok \cup {r} /\ Held(w)' = Held(w) /\ r \notin tx[w].ok
          /\ \A x \in Workers \ {w} : tx'[x] = tx[x]
      BY <1>10, <1>a DEF SendAccepted, Held, HeldRows, HeldRowsOf
    <2>2. sends'[s] = sends[s] + (IF s = r THEN 1 ELSE 0) /\ lost'[s] = lost[s] /\ row' = row
      BY <1>10 DEF SendAccepted, TypeInv, TypeOK
    <2>3. Settled(s)' = Settled(s)
      BY <2>1, <2>2, CountsChange, CountsType DEF Settled
    <2>4. Cardinality(Holders(s))' = Cardinality(Holders(s)) BY <2>1, CountsChange
    <2> QED BY <2>2, <2>3, <2>4 DEF SettledOnce, SettledRow
  <1>11. ASSUME NEW w \in Workers, NEW r \in RowIds, MarkFailed(w, r) PROVE SettledOnce'
    <2>1. /\ tx'[w].ok = tx[w].ok /\ Held(w)' = Held(w)
          /\ \A x \in Workers \ {w} : tx'[x] = tx[x]
      BY <1>11, <1>a DEF MarkFailed, Held
    <2> QED BY <1>11, <2>1, SettledFrame DEF MarkFailed, Held
  <1>12. ASSUME \/ \E l \in Watchlists : CreateWatchlist(l) \/ UpdateWatchlist(l) \/ DeleteWatchlist(l)
                \/ \E cutoff \in 1..MaxRuns : CleanupRetainedData(cutoff)
                \/ \E u \in Users : StartErase(u) \/ FinishErase(u) \/ AbortErase(u)
                \/ UNCHANGED vars
         PROVE  SettledOnce'
    <2>1. tx' = tx /\ sends' = sends /\ lost' = lost /\ \A r \in RowIds : row'[r] \in {row[r], "gone"}
      BY <1>12
      DEF CreateWatchlist, UpdateWatchlist, DeleteWatchlist, CleanupRetainedData,
          StartErase, FinishErase, AbortErase, vars
    <2> QED BY <2>1, SettledFrame DEF Held
  <1> QED
    BY <1>1, <1>2, <1>3, <1>4, <1>5, <1>6, <1>7, <1>8, <1>9, <1>10, <1>11, <1>12 DEF Next, Step

-----------------------------------------------------------------------------
(* What the statuses of notifications say *)

DeliveryInv == TypeInv /\ RunsOnce /\ HeldRows /\ SettledOnce

LEMMA DeliveryInvariant == Spec => []DeliveryInv
  <1>1. Init => DeliveryInv
    <2> SUFFICES ASSUME Init PROVE DeliveryInv OBVIOUS
    <2>1. TypeInv /\ RunsOnce
      BY NotificationsAssumption, IdleIsTxn
      DEF Init, TypeInv, TypeOK, RunsNumbered, RunsOnce, Idle
    <2>2. HeldRows BY DEF Init, HeldRows, HeldRowsOf, Held, Idle
    <2>3. \A r : OkBy(r) = {} /\ Holders(r) = {} BY DEF Init, OkBy, Holders, Held, Idle
    <2>4. Cardinality(Dispatchers) \in Nat
      BY FS_Subset, FS_CardinalityType, NotificationsAssumption DEF Dispatchers
    <2>5. \A r \in RowIds : Settled(r) = 0 /\ row[r] = "none" /\ Cardinality(Holders(r)) = 0
      BY <2>3, FS_EmptySet DEF Init, Settled
    <2>6. SettledOnce BY <2>4, <2>5 DEF SettledOnce, SettledRow
    <2> QED BY <2>1, <2>2, <2>6 DEF DeliveryInv
  <1>2. DeliveryInv /\ [Next]_vars => DeliveryInv'
    BY TypeInvStep, RunsOnceStep, HeldRowsStep, SettledOnceStep DEF DeliveryInv
  <1> QED BY <1>1, <1>2, PTL DEF Spec

(* A notification is shown as sent only if it reached the chat in a         *)
(* transaction that was not rolled back.                                    *)
THEOREM SentMeansDelivered == Spec => []SentWasDelivered
  <1>1. ASSUME DeliveryInv PROVE SentWasDelivered
    <2> SUFFICES ASSUME NEW r \in RowIds, row[r] = "sent" PROVE sends[r] > lost[r]
      BY DEF SentWasDelivered
    <2>1. Settled(r) >= 1 BY <1>1 DEF DeliveryInv, SettledOnce, SettledRow
    <2> QED BY <1>1, <2>1, CountsType DEF DeliveryInv, Settled
  <1> QED BY <1>1, DeliveryInvariant, PTL

(* However dispatches overlap and jobs die, each dispatcher delivers an     *)
(* alert at most once for good.                                             *)
THEOREM DuplicatesAreBounded == Spec => []DuplicatesBounded
  <1>1. ASSUME DeliveryInv PROVE DuplicatesBounded
    <2> SUFFICES ASSUME NEW r \in RowIds
                 PROVE  sends[r] =< lost[r] + Cardinality(Dispatchers)
      BY DEF DuplicatesBounded
    <2>1. Settled(r) + Cardinality(Holders(r)) =< Cardinality(Dispatchers)
      BY <1>1 DEF DeliveryInv, SettledOnce, SettledRow
    <2> QED BY <1>1, <2>1, CountsType DEF DeliveryInv, Settled
  <1> QED BY <1>1, DeliveryInvariant, PTL

(* With one dispatcher, a failed notification was delivered by no           *)
(* transaction that committed.                                              *)
THEOREM FailedMeansUndelivered == Spec => []FailedWasNotDelivered
  <1>1. ASSUME DeliveryInv PROVE FailedWasNotDelivered
    <2> SUFFICES ASSUME Cardinality(Dispatchers) = 1, NEW r \in RowIds, row[r] = "failed"
                 PROVE  sends[r] = lost[r]
      BY DEF FailedWasNotDelivered
    <2>1. Settled(r) >= 0 /\ Settled(r) + Cardinality(Holders(r)) + 1 =< 1
      BY <1>1 DEF DeliveryInv, SettledOnce, SettledRow
    <2> QED BY <1>1, <2>1, CountsType DEF DeliveryInv, Settled
  <1> QED BY <1>1, DeliveryInvariant, PTL

(* An alert that is not in the table was sent by the cycle script, before   *)
(* its commit or before the rollback that undid it.                         *)
THEOREM PhantomsComeFromTheCycle == Spec => []NoPhantomAlert
  <1>1. ASSUME DeliveryInv PROVE NoPhantomAlert
    <2> SUFFICES ASSUME NEW r \in RowIds, sends[r] > 0, row[r] = "none", ~(lost[r] > 0)
                 PROVE  \E w \in Workers : tx[w].job = "cycle" /\ r \in tx[w].ok
      BY DEF NoPhantomAlert
    <2>1. Settled(r) = 0 BY <1>1 DEF DeliveryInv, SettledOnce, SettledRow
    <2>2. Cardinality(OkBy(r)) # 0
      BY <1>1, <2>1, CountsType DEF DeliveryInv, Settled
    <2>3. PICK w \in Workers : r \in tx[w].ok
      BY <2>2, FS_EmptySet DEF OkBy
    <2>4. r \in tx[w].ins /\ tx[w].pc = "dispatch"
      BY <1>1, <2>3 DEF DeliveryInv, HeldRows, HeldRowsOf, Held
    <2>5. tx[w].job = "cycle" BY <1>1, <2>4 DEF DeliveryInv, HeldRows, HeldRowsOf
    <2> QED BY <2>3, <2>5
  <1> QED BY <1>1, DeliveryInvariant, PTL

-----------------------------------------------------------------------------
(* The table is an outbox *)

(* The jobs of a deployment that never runs scripts/notification_cycle.py.  *)
WithoutCycle == \A w \in Workers : "cycle" \notin Jobs[w]

OutboxVars == <<row, Delivered>>

(* Without the script a dispatch has no inserts, and a generation run holds *)
(* no rows.                                                                 *)
LEMMA OneJobAtATime ==
  ASSUME WithoutCycle, HeldRows, NEW w \in Workers
  PROVE  /\ tx[w].pc = "dispatch" => tx[w].ins = {}
         /\ tx[w].pc = "generate" => tx[w].ok = {} /\ tx[w].bad = {}
  BY DEF WithoutCycle, HeldRows, HeldRowsOf, Held

(* Ending a generation run publishes its rows. *)
LEMMA GeneratePublishes ==
  ASSUME WithoutCycle, DeliveryInv, KeyInv, NEW w \in Workers, EndGenerate(w)
  PROVE  Outbox!Publish(tx[w].ins)
  <1>1. tx[w].ok = {} /\ tx[w].bad = {}
    BY OneJobAtATime DEF DeliveryInv, EndGenerate, GenerateDone
  <1>2. tx[w].ins \subseteq RowIds /\ \A r \in tx[w].ins : row[r] = "none"
    BY InsertsNew DEF DeliveryInv
  <1>3. \A r, s \in tx[w].ins : KeyOf(r) = KeyOf(s) => r = s
    BY <1>2 DEF DeliveryInv, TypeInv, RunsNumbered, RunOf, KeyOf, RowIds
  <1>4. \A r \in tx[w].ins, s \in Live : KeyOf(r) # KeyOf(s)
    BY DEF KeyInv, InsertsUnique, KeyTaken
  <1>5. row' = [r \in RowIds |-> IF r \in tx[w].ins THEN "created" ELSE row[r]]
    BY <1>1 DEF EndGenerate, Commit
  <1>6. Delivered' = Delivered BY DEF EndGenerate, Delivered
  <1>7. Live = Outbox!LiveMsgs BY DEF Live, Statuses, Outbox!LiveMsgs
  <1> QED BY <1>2, <1>3, <1>4, <1>5, <1>6, <1>7 DEF Outbox!Publish

(* Ending a dispatch settles the rows it holds that are still in the table. *)
LEMMA DispatchSettles ==
  ASSUME WithoutCycle, DeliveryInv, NEW w \in Workers, EndDispatch(w), Commit(w)
  PROVE  Outbox!Settle(tx[w].ok \cap Live, tx[w].bad \cap Live)
  <1>1. tx[w].ins = {} BY OneJobAtATime DEF DeliveryInv, EndDispatch
  <1>2. tx[w].ok \subseteq RowIds /\ IsFiniteSet(Workers)
    BY NotificationsAssumption DEF DeliveryInv, TypeInv, TypeOK, Txn
  <1>3. ASSUME NEW r \in tx[w].ok PROVE r \in Delivered
    <2>1. r \in RowIds /\ Settled(r) >= 0 BY <1>2, <1>3 DEF DeliveryInv, SettledOnce, SettledRow
    <2>2. w \in OkBy(r) /\ OkBy(r) \subseteq Workers BY <1>3 DEF OkBy
    <2>3. Cardinality(OkBy(r)) # 0 BY <1>2, <2>2, FS_EmptySet, FS_Subset
    <2> QED BY <2>1, <2>3, CountsType DEF DeliveryInv, Settled, Delivered
  <1>4. row' = [r \in RowIds |-> IF r \in tx[w].ok \cap Live THEN "sent"
                                 ELSE IF r \in tx[w].bad \cap Live THEN "failed" ELSE row[r]]
    <2>1. row' = [r \in RowIds |-> row'[r]] BY DEF Commit
    <2>2. \A r \in RowIds : row'[r] = IF r \in tx[w].ok \cap Live THEN "sent"
                                     ELSE IF r \in tx[w].bad \cap Live THEN "failed" ELSE row[r]
      <3>1. tx[w].ok \cap tx[w].bad = {} BY DEF DeliveryInv, HeldRows, HeldRowsOf
      <3> QED BY <1>1, <3>1 DEF Commit
    <2> QED BY <2>1, <2>2
  <1>5. Delivered' = Delivered BY DEF EndDispatch, Delivered
  <1>6. Live = Outbox!LiveMsgs BY DEF Live, Statuses, Outbox!LiveMsgs
  <1> QED BY <1>3, <1>4, <1>5, <1>6 DEF Outbox!Settle

(* A message that reaches the chat is delivered; its row was published.     *)
LEMMA SendDelivers ==
  ASSUME WithoutCycle, DeliveryInv, NEW w \in Workers, NEW r \in tx[w].batch, row' = row,
         \A s \in RowIds : sends'[s] = sends[s] + IF s = r THEN 1 ELSE 0
  PROVE  r \in RowIds /\ Outbox!Deliver(r)
  <1>1. r \in RowIds BY DEF DeliveryInv, TypeInv, TypeOK, Txn
  <1>2. r \in Held(w) /\ HeldRowsOf(w) BY DEF Held, DeliveryInv, HeldRows
  <1>3. row[r] # "none" BY <1>2, OneJobAtATime DEF DeliveryInv, HeldRowsOf
  <1>4. Delivered' = Delivered \cup {r}
    BY <1>1 DEF Delivered, DeliveryInv, TypeInv, TypeOK
  <1> QED BY <1>1, <1>3, <1>4 DEF Outbox!Deliver

(* Every step of the jobs and routes is a step of the outbox, or invisible. *)
LEMMA OutboxStep ==
  ASSUME WithoutCycle, DeliveryInv, KeyInv, [Next]_vars
  PROVE  [Outbox!Next]_OutboxVars
  <1>a. tx \in [Workers -> Txn] /\ sends \in [RowIds -> Nat]
    BY DEF DeliveryInv, TypeInv, TypeOK
  <1>b. ASSUME row' = row, sends' = sends PROVE [Outbox!Next]_OutboxVars
    BY <1>b DEF OutboxVars, Delivered
  <1>1. ASSUME NEW w \in Workers, EndGenerate(w) PROVE Outbox!Next
    <2>1. tx[w].ins \in SUBSET RowIds BY <1>a DEF Txn
    <2> QED BY <1>1, <2>1, GeneratePublishes DEF Outbox!Next
  <1>2. ASSUME NEW w \in Workers, EndDispatch(w) PROVE [Outbox!Next]_OutboxVars
    <2>1. CASE Commit(w)
      <3>1. tx[w].ok \cap Live \in SUBSET RowIds /\ tx[w].bad \cap Live \in SUBSET RowIds
        BY <1>a DEF Txn
      <3> QED BY <1>2, <2>1, <3>1, DispatchSettles DEF Outbox!Next
    <2>2. CASE UNCHANGED row BY <1>2, <1>b, <2>2 DEF EndDispatch
    <2> QED BY <1>2, <2>1, <2>2 DEF EndDispatch
  <1>3. ASSUME NEW w \in Workers, NEW r \in RowIds, SendAccepted(w, r) PROVE Outbox!Next
    <2>1. \A s \in RowIds : sends'[s] = sends[s] + IF s = r THEN 1 ELSE 0
      BY <1>3, <1>a DEF SendAccepted
    <2> QED BY <1>3, <2>1, SendDelivers DEF SendAccepted, Outbox!Next
  <1>4. ASSUME NEW w \in Workers, NEW r \in RowIds, TransportError(w, r)
        PROVE  [Outbox!Next]_OutboxVars
    <2>1. PICK reached \in {{}, {r}} :
            sends' = [s \in RowIds |-> sends[s] + IF s \in reached THEN 1 ELSE 0]
      BY <1>4 DEF TransportError
    <2>2. CASE reached = {}
      <3>1. sends' = sends BY <1>a, <2>1, <2>2
      <3> QED BY <1>4, <1>b, <3>1 DEF TransportError
    <2>3. CASE reached = {r}
      <3>1. Outbox!Deliver(r) BY <1>4, <2>1, <2>3, SendDelivers DEF TransportError
      <3> QED BY <3>1 DEF Outbox!Next
    <2> QED BY <2>2, <2>3
  <1>5. ASSUME NEW cutoff \in 1..MaxRuns, CleanupRetainedData(cutoff) PROVE Outbox!Next
    <2>1. Outbox!Remove({r \in Live : RunOf(r) < cutoff})
      BY <1>5 DEF CleanupRetainedData, Outbox!Remove, Outbox!LiveMsgs, Live, Statuses, Delivered
    <2>2. {r \in Live : RunOf(r) < cutoff} \in SUBSET RowIds BY DEF Live
    <2> QED BY <2>1, <2>2 DEF Outbox!Next
  <1>6. ASSUME NEW u \in Users, FinishErase(u) PROVE Outbox!Next
    <2>1. Outbox!Remove(RowsOf(u))
      BY <1>6 DEF FinishErase, Outbox!Remove, Outbox!LiveMsgs, RowsOf, Live, Statuses, Delivered
    <2>2. RowsOf(u) \in SUBSET RowIds BY DEF RowsOf, Live
    <2> QED BY <2>1, <2>2 DEF Outbox!Next
  <1> QED
    BY <1>b, <1>1, <1>2, <1>3, <1>4, <1>5, <1>6
    DEF Next, Step, vars, StartGenerate, StartDispatch, MatchOffers, CheckKey, FlushInsert,
        DeadlockVictim, ContinueCycle, MarkFailed, Crash, CreateWatchlist, UpdateWatchlist,
        DeleteWatchlist, StartErase, AbortErase

(* The jobs, the retention job and the account deletion implement the       *)
(* outbox, for every number of workers, as long as nobody runs the cycle    *)
(* script: published together or not at all, one live alert per key,        *)
(* delivered only once published, "sent" only once delivered.               *)
THEOREM RefinesOutbox ==
  ASSUME WithoutCycle PROVE Spec => ImplementsOutbox
  <1>1. Init => Outbox!Init
    BY DEF Init, Outbox!Init, Delivered
  <1>2. Init => KeyInv
    BY NotificationsAssumption, IdleIsTxn
    DEF Init, KeyInv, TypeInv, TypeOK, RunsNumbered, InsertsUnique, OneRowPerKey,
        Live, Statuses, KeysOf, Idle
  <1>3. Spec => []KeyInv
    BY <1>2, KeyInvStep, PTL DEF Spec
  <1>4. DeliveryInv /\ KeyInv /\ [Next]_vars => [Outbox!Next]_OutboxVars
    BY OutboxStep
  <1> QED
    BY <1>1, <1>3, <1>4, DeliveryInvariant, PTL
    DEF Spec, ImplementsOutbox, Outbox!Spec, OutboxVars
=============================================================================
