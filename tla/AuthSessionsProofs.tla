------------------------ MODULE AuthSessionsProofs ------------------------
(* Proofs about AuthSessions, for every set of users, pages and calls and   *)
(* every lifetime of tokens.                                                *)
EXTENDS AuthSessions, FiniteSetTheorems, TLAPS

-----------------------------------------------------------------------------
(* Type correctness *)

(* Calls that may still be issued a refresh token; each was started.        *)
Pending == {c \in Calls : call[c].pc \in {"login", "write", "send", "refresh", "rotate"}}

IssuedBound == issued + Cardinality(Pending) =< started

SessionsIssued == \A s \in sessions : s.id \in 1..issued /\ s.token \in 1..issued

TypeInv == TypeOK /\ IssuedBound /\ SessionsIssued

LEMMA Bounds ==
  /\ AccessTTL \in Nat /\ RefreshTTL \in Nat /\ MaxNow \in Nat
  /\ MaxStarts \in Nat /\ MaxErasures \in Nat /\ MaxFaults \in Nat
  BY AuthSessionsAssumption

(* Tokens once issued stay issued. *)
LEMMA TypesWiden ==
  ASSUME issued \in Nat, issued' \in Nat, issued =< issued'
  PROVE  PageType \subseteq PageType' /\ CallType \subseteq CallType'
  BY DEF PageType, CallType

(* The values the steps give to pages and calls. *)
LEMMA CleanValues ==
  ASSUME issued \in Nat
  PROVE  /\ NoAccess \in Access
         /\ Done \in CallType
         /\ [tokens |-> SignedOut, login |-> 0] \in PageType
  BY DEF NoAccess, Access, Done, CallType, SignedOut, PageType

LEMMA TypedParts ==
  ASSUME NEW t \in CallType, NEW q \in PageType
  PROVE  /\ t.access \in Access /\ t.refresh \in 0..issued /\ t.row \in 0..issued
         /\ t.user \in UserIds \cup {Nobody}
         /\ q.tokens.access \in Access /\ q.tokens.refresh \in 0..issued /\ q.login \in 0..issued
  BY DEF CallType, PageType

LEMMA TypedCalls ==
  ASSUME issued \in Nat, NEW t \in CallType
  PROVE  /\ \A pc \in {"login", "refresh", "retry"} :
               [t EXCEPT !.pc = pc] \in CallType /\ [t EXCEPT !.pc = pc].pc = pc
         /\ \A u \in UserIds \cup {Nobody} : [t EXCEPT !.pc = "write", !.user = u] \in CallType
         /\ \A n \in 0..issued : [t EXCEPT !.pc = "rotate", !.row = n] \in CallType
         /\ \A a \in Access, n \in 0..issued :
               [t EXCEPT !.pc = "rotated", !.access = a, !.refresh = n] \in CallType
  BY DEF CallType

LEMMA TypedNewCalls ==
  ASSUME issued \in Nat, NEW a \in Access, NEW n \in 0..issued
  PROVE  /\ [Done EXCEPT !.pc = "send", !.access = a, !.refresh = n] \in CallType
         /\ [Done EXCEPT !.pc = "loggedin", !.access = a, !.refresh = n, !.row = n] \in CallType
  <1>1. Done \in CallType BY CleanValues
  <1>2. \A t \in CallType :
          /\ [t EXCEPT !.pc = "send", !.access = a, !.refresh = n] \in CallType
          /\ [t EXCEPT !.pc = "loggedin", !.access = a, !.refresh = n, !.row = n] \in CallType
    BY DEF CallType
  <1> QED BY <1>1, <1>2

LEMMA TypedPages ==
  ASSUME issued \in Nat, NEW q \in PageType
  PROVE  /\ \A a \in Access, n \in 0..issued :
               [q EXCEPT !.tokens = [access |-> a, refresh |-> n]] \in PageType
         /\ \A a \in Access, n, m \in 0..issued :
               [tokens |-> [access |-> a, refresh |-> n], login |-> m] \in PageType
         /\ [q EXCEPT !.tokens = SignedOut] \in PageType
  <1>1. SignedOut \in [access: Access, refresh: 0..issued]
    BY CleanValues DEF SignedOut
  <1> QED BY <1>1 DEF PageType

(* A rotation replaces the token of a row, and nothing that identifies it.  *)
LEMMA RotatedRow ==
  ASSUME issued \in Nat, now \in Nat, NEW s \in Session
  PROVE  /\ Rotated(s) \in Session /\ Rotated(s).id = s.id /\ Rotated(s).owner = s.owner
         /\ Rotated(s).token = issued + 1 /\ Rotated(s).expires = now + RefreshTTL
  <1>1. \A n, m \in Nat :
          /\ [s EXCEPT !.token = n, !.expires = m] \in Session
          /\ [s EXCEPT !.token = n, !.expires = m].id = s.id
          /\ [s EXCEPT !.token = n, !.expires = m].owner = s.owner
          /\ [s EXCEPT !.token = n, !.expires = m].token = n
          /\ [s EXCEPT !.token = n, !.expires = m].expires = m
    BY DEF Session
  <1>2. issued + 1 \in Nat /\ now + RefreshTTL \in Nat BY Bounds
  <1> QED BY <1>1, <1>2 DEF Rotated

(* What a step of one call does to the number of pending calls. *)
LEMMA PendingChange ==
  ASSUME NEW c \in Calls, \A d \in Calls \ {c} : call'[d].pc = call[d].pc
  PROVE  /\ Cardinality(Pending) \in Nat /\ Cardinality(Pending)' \in Nat
         /\ (c \in Pending <=> c \in Pending') => Cardinality(Pending)' = Cardinality(Pending)
         /\ c \in Pending' => Cardinality(Pending)' =< Cardinality(Pending) + 1
         /\ c \notin Pending' => Cardinality(Pending)' =< Cardinality(Pending)
         /\ c \in Pending /\ c \notin Pending' => Cardinality(Pending)' = Cardinality(Pending) - 1
  <1>1. Pending \subseteq Calls /\ Pending' \subseteq Calls BY DEF Pending
  <1>2. IsFiniteSet(Pending) /\ IsFiniteSet(Pending')
    BY <1>1, FS_Subset, AuthSessionsAssumption
  <1>3. Pending \ {c} = Pending' \ {c} BY DEF Pending
  <1>4. Cardinality(Pending) \in Nat /\ Cardinality(Pending') \in Nat
    BY <1>2, FS_CardinalityType
  <1>5. CASE c \in Pending <=> c \in Pending'
    <2>1. Pending = Pending' BY <1>3, <1>5
    <2> QED BY <1>4, <1>5, <2>1
  <1>6. CASE c \in Pending /\ c \notin Pending'
    <2>1. Pending' = Pending \ {c} BY <1>3, <1>6
    <2> QED BY <1>2, <1>4, <1>6, <2>1, FS_RemoveElement
  <1>7. CASE c \notin Pending /\ c \in Pending'
    <2>1. Pending' = Pending \cup {c} BY <1>3, <1>7
    <2> QED BY <1>2, <1>4, <1>7, <2>1, FS_AddElement
  <1> QED BY <1>5, <1>6, <1>7

(* A step of one call that keeps its page and call well typed, and issues a *)
(* token only as it stops being pending.                                    *)
LEMMA CallTyped ==
  ASSUME TypeInv, NEW c \in Calls, NEW t, NEW q,
         call' = [call EXCEPT ![c] = t], page' = [page EXCEPT ![PageOf[c]] = q],
         t \in CallType', q \in PageType', issued' \in {issued, issued + 1}
  PROVE  /\ page' \in [Pages -> PageType'] /\ call' \in [Calls -> CallType']
         /\ c \in Pending /\ t.pc \in {"write", "refresh", "rotate"} /\ issued' = issued
               => issued' + Cardinality(Pending)' =< started
         /\ t.pc \notin {"login", "write", "send", "refresh", "rotate"} /\ issued' = issued
               => issued' + Cardinality(Pending)' =< started
         /\ c \in Pending /\ t.pc \notin {"login", "write", "send", "refresh", "rotate"}
               => issued' + Cardinality(Pending)' =< started
         /\ issued' = issued => issued' + Cardinality(Pending)' =< started + 1
  <1>1. /\ issued \in Nat /\ issued' \in Nat /\ issued =< issued' /\ started \in Nat
        /\ page \in [Pages -> PageType] /\ call \in [Calls -> CallType]
    BY Bounds DEF TypeInv, TypeOK
  <1>2. PageType \subseteq PageType' /\ CallType \subseteq CallType' BY <1>1, TypesWiden
  <1>3. page' \in [Pages -> PageType'] /\ call' \in [Calls -> CallType']
    BY <1>1, <1>2
  <1>4. call'[c] = t /\ \A d \in Calls \ {c} : call'[d].pc = call[d].pc BY <1>1
  <1>5. c \in Pending' <=> t.pc \in {"login", "write", "send", "refresh", "rotate"}
    BY <1>4 DEF Pending
  <1>6. issued + Cardinality(Pending) =< started BY DEF TypeInv, IssuedBound
  <1> QED BY <1>1, <1>3, <1>4, <1>5, <1>6, PendingChange

(* Every step keeps every variable in its type, and every token issued      *)
(* belongs to a call that was started.                                      *)
LEMMA TypeInvStep == TypeInv /\ [Next]_vars => TypeInv'
  <1> SUFFICES ASSUME TypeInv, [Next]_vars PROVE TypeInv' OBVIOUS
  <1>a. /\ issued \in Nat /\ started \in Nat /\ started =< MaxStarts /\ now \in 0..MaxNow
        /\ faults \in 0..MaxFaults
        /\ page \in [Pages -> PageType] /\ call \in [Calls -> CallType]
        /\ accounts \subseteq UserIds /\ sessions \subseteq Session
        /\ erased \in [Users -> 0..MaxErasures]
        /\ PageOf \in [Calls -> Pages] /\ UserOf \in [Pages -> Users]
    BY AuthSessionsAssumption, Bounds DEF TypeInv, TypeOK
  <1>b. issued' = issued => PageType' = PageType /\ CallType' = CallType
    BY DEF PageType, CallType
  <1>c. \A c \in Calls : /\ call[c] \in CallType /\ page[PageOf[c]] \in PageType
                          /\ page = [page EXCEPT ![PageOf[c]] = page[PageOf[c]]]
    BY <1>a
  <1>d. ASSUME NEW c \in Calls, SameServer, faults' \in 0..MaxFaults, started' = started,
               \E t \in CallType :
                  /\ call' = [call EXCEPT ![c] = t]
                  /\ \/ t.pc \notin {"login", "write", "send", "refresh", "rotate"}
                     \/ c \in Pending /\ t.pc \in {"write", "refresh", "rotate"},
               \E q \in PageType : page' = [page EXCEPT ![PageOf[c]] = q]
        PROVE  TypeInv'
    <2>1. issued' = issued BY <1>d DEF SameServer
    <2>2. /\ page' \in [Pages -> PageType'] /\ call' \in [Calls -> CallType']
          /\ issued' + Cardinality(Pending)' =< started
      BY <1>b, <1>d, <2>1, CallTyped
    <2> QED BY <1>a, <1>d, <2>2 DEF SameServer, TypeInv, TypeOK, IssuedBound, SessionsIssued
  <1>1. CASE UNCHANGED vars
    BY <1>1 DEF vars, TypeInv, TypeOK, IssuedBound, SessionsIssued, Pending, PageType, CallType
  <1>2. ASSUME NEW c \in Calls, StartLogin(c) \/ StartCall(c) PROVE TypeInv'
    <2>1. issued' = issued /\ started' = started + 1 /\ started' \in 0..MaxStarts
      BY <1>2, <1>a, Bounds DEF StartLogin, StartCall, SameServer
    <2>2. PICK t \in CallType : call' = [call EXCEPT ![c] = t]
      <3>1. CASE StartLogin(c) BY <3>1, <1>a, <1>c, TypedCalls DEF StartLogin, Goto
      <3>2. CASE StartCall(c)
        BY <3>2, <1>a, <1>c, TypedParts, TypedNewCalls DEF StartCall
      <3> QED BY <1>2, <3>1, <3>2
    <2>3. PICK q \in PageType : page' = [page EXCEPT ![PageOf[c]] = q]
      BY <1>2, <1>a, <1>c, CleanValues DEF StartLogin, StartCall
    <2>4. /\ page' \in [Pages -> PageType'] /\ call' \in [Calls -> CallType']
          /\ issued' + Cardinality(Pending)' =< started'
      BY <1>b, <2>1, <2>2, <2>3, CallTyped
    <2> QED
      BY <1>2, <1>a, <2>1, <2>4 DEF StartLogin, StartCall, SameServer, TypeInv, TypeOK, IssuedBound, SessionsIssued
  <1>3. ASSUME NEW c \in Calls, FindUser(c) PROVE TypeInv'
    <2>1. PICK id \in UserIds \cup {Nobody} : call' = [call EXCEPT ![c].pc = "write", ![c].user = id]
      BY <1>3, <1>a DEF FindUser, IdsOf
    <2>2. [call[c] EXCEPT !.pc = "write", !.user = id] \in CallType BY <1>a, TypedCalls
    <2>3. call' = [call EXCEPT ![c] = [call[c] EXCEPT !.pc = "write", !.user = id]]
      BY <1>a, <2>1
    <2>4. c \in Pending BY <1>3 DEF FindUser, Pending
    <2>5. [call[c] EXCEPT !.pc = "write", !.user = id].pc = "write" BY <1>c DEF CallType
    <2> QED BY <1>3, <1>a, <1>c, <1>d, <2>2, <2>3, <2>4, <2>5 DEF FindUser
  <1>4. ASSUME NEW c \in Calls, WriteLogin(c) PROVE TypeInv'
    <2>1. CASE LoginRefused(c)
      BY <1>4, <1>a, <1>c, <1>d, <2>1, CleanValues DEF WriteLogin, End, Done
    <2>2. CASE ~LoginRefused(c)
      <3> DEFINE u  == UserOf[PageOf[c]]
                 id == IF call[c].user = Nobody THEN <<u, erased[u] + 1>> ELSE call[c].user
                 t  == [Done EXCEPT !.pc = "loggedin", !.access = CreateAccessToken(id),
                                    !.refresh = issued + 1, !.row = issued + 1]
      <3>1. /\ call' = [call EXCEPT ![c] = t] /\ issued' = issued + 1
            /\ accounts' = accounts \cup (IF call[c].user = Nobody THEN {id} ELSE {})
            /\ sessions' = sessions \cup {[id |-> issued + 1, owner |-> id, token |-> issued + 1,
                                           expires |-> now + RefreshTTL]}
            /\ UNCHANGED <<page, started, faults, now, erased>>
            /\ call[c].pc = "write"
        BY <1>4, <2>2 DEF WriteLogin
      <3>2. u \in Users /\ erased[u] + 1 \in 1..(MaxErasures + 1)
        BY <1>a, Bounds
      <3>3. id \in UserIds BY <1>c, <3>2, TypedParts DEF UserIds
      <3>4. CreateAccessToken(id) \in Access
        BY <1>a, <3>3, Bounds DEF CreateAccessToken, Access
      <3>5. t.pc = "loggedin" BY DEF Done
      <3>6. t \in CallType'
        <4>1. /\ issued + 1 \in 0..(issued + 1)
              /\ Done \in CallType'
          BY <1>a, <3>1 DEF Done, CallType, Access, NoAccess
        <4>2. \A x \in CallType', a \in Access :
                [x EXCEPT !.pc = "loggedin", !.access = a, !.refresh = issued + 1, !.row = issued + 1]
                   \in CallType'
          BY <1>a, <3>1, <4>1 DEF CallType
        <4> QED BY <3>4, <4>1, <4>2
      <3> HIDE DEF t, id
      <3>7. page' = [page EXCEPT ![PageOf[c]] = page[PageOf[c]]] /\ page[PageOf[c]] \in PageType'
        BY <1>a, <1>c, <3>1, TypesWiden
      <3>8. c \in Pending BY <3>1 DEF Pending
      <3>9. /\ page' \in [Pages -> PageType'] /\ call' \in [Calls -> CallType']
            /\ issued' + Cardinality(Pending)' =< started
        BY <3>1, <3>5, <3>6, <3>7, <3>8, CallTyped
      <3>10. Cardinality(Pending)' \in Nat
        BY <1>a, <3>1, PendingChange
      <3>11. sessions' \subseteq Session
        BY <1>a, <3>1, <3>3, Bounds DEF Session
      <3>12. SessionsIssued' BY <1>a, <3>1 DEF SessionsIssued, TypeInv
      <3> QED
        BY <1>a, <3>1, <3>3, <3>9, <3>10, <3>11, <3>12, Bounds DEF TypeInv, TypeOK, IssuedBound
    <2> QED BY <2>1, <2>2
  <1>5. ASSUME NEW c \in Calls, ReceiveLogin(c) PROVE TypeInv'
    <2>1. call[c].access \in Access /\ call[c].refresh \in 0..issued /\ call[c].row \in 0..issued
      BY <1>c, TypedParts
    <2> DEFINE n == IF PageOf[c] \in Bots THEN 0 ELSE call[c].refresh
    <2>a. n \in 0..issued BY <1>a, <2>1
    <2>2. [tokens |-> [access |-> call[c].access, refresh |-> n], login |-> call[c].row] \in PageType
      BY <1>a, <1>c, <2>1, <2>a, TypedPages
    <2>3. Done \in CallType /\ Done.pc = "idle" BY <1>a, CleanValues DEF Done
    <2> QED BY <1>5, <1>a, <1>d, <2>2, <2>3 DEF ReceiveLogin, End
  <1>6. ASSUME NEW c \in Calls, Operation(c) PROVE TypeInv'
    <2>1. c \in Pending BY <1>6 DEF Operation, Pending
    <2>2. Done \in CallType /\ Done.pc = "idle" BY <1>a, CleanValues DEF Done
    <2>3. /\ [call[c] EXCEPT !.pc = "refresh"] \in CallType
          /\ [call[c] EXCEPT !.pc = "refresh"].pc = "refresh"
      BY <1>a, <1>c, TypedCalls DEF CallType
    <2>4. \E t \in CallType : call' = [call EXCEPT ![c] = t] /\ t.pc \in {"idle", "refresh"}
      BY <1>6, <2>2, <2>3 DEF Operation, End, Goto
    <2>5. page' = page /\ SameServer /\ started' = started /\ faults' = faults
      BY <1>6 DEF Operation
    <2> QED BY <1>a, <1>c, <1>d, <2>1, <2>4, <2>5
  <1>7. ASSUME NEW c \in Calls, ReadSession(c) PROVE TypeInv'
    <2>1. c \in Pending BY <1>7 DEF ReadSession, Pending
    <2>2. Done \in CallType /\ Done.pc = "idle" BY <1>a, CleanValues DEF Done
    <2>3. CASE ClearTokens(c)
      BY <1>7, <1>a, <1>c, <1>d, <2>2, <2>3, TypedPages DEF ReadSession, ClearTokens, End
    <2>4. CASE ~ClearTokens(c)
      <3>1. PICK s \in sessions : call' = [call EXCEPT ![c].pc = "rotate", ![c].row = s.id]
        BY <1>7, <2>4 DEF ReadSession
      <3>2. s.id \in 0..issued BY <1>a DEF TypeInv, SessionsIssued
      <3>3. [call[c] EXCEPT !.pc = "rotate", !.row = s.id] \in CallType
        BY <1>a, <1>c, <3>2, TypedCalls
      <3>4. [call[c] EXCEPT !.pc = "rotate", !.row = s.id].pc = "rotate" BY <1>c DEF CallType
      <3>5. call' = [call EXCEPT ![c] = [call[c] EXCEPT !.pc = "rotate", !.row = s.id]]
        BY <1>a, <3>1
      <3>6. page' = page /\ SameServer /\ started' = started /\ faults' = faults
        BY <1>7, <2>4 DEF ReadSession
      <3> QED BY <1>a, <1>c, <1>d, <2>1, <3>3, <3>4, <3>5, <3>6
    <2> QED BY <2>3, <2>4
  <1>8. ASSUME NEW c \in Calls, Rotate(c) PROVE TypeInv'
    <2>1. Done \in CallType /\ Done.pc = "idle" BY <1>a, CleanValues DEF Done
    <2>2. CASE ClearTokens(c) /\ SameServer
      BY <1>8, <1>a, <1>c, <1>d, <2>1, <2>2, TypedPages DEF Rotate, ClearTokens, End
    <2>3. CASE ~(ClearTokens(c) /\ SameServer)
      <3>1. PICK s \in sessions :
              /\ sessions' = (sessions \ {s}) \cup {Rotated(s)}
              /\ issued' = issued + 1
              /\ call' = [call EXCEPT ![c].pc = "rotated",
                   ![c].access = CreateAccessToken(s.owner), ![c].refresh = issued + 1]
              /\ UNCHANGED <<now, accounts, erased, page, started, faults>>
        BY <1>8, <2>3 DEF Rotate
      <3> DEFINE t == [call[c] EXCEPT !.pc = "rotated", !.access = CreateAccessToken(s.owner),
                                      !.refresh = issued + 1]
      <3>2. s \in Session /\ s.id \in 1..issued /\ s.token \in 1..issued
        BY <1>a DEF TypeInv, SessionsIssued
      <3>3. CreateAccessToken(s.owner) \in Access
        BY <1>a, <3>2, Bounds DEF CreateAccessToken, Access, Session
      <3>4. call' = [call EXCEPT ![c] = t] BY <1>a, <3>1
      <3>5. t.pc = "rotated" BY <1>c DEF CallType
      <3>6. t \in CallType'
        <4>1. call[c] \in CallType' /\ issued + 1 \in 0..issued'
          BY <1>a, <1>c, <3>1, TypesWiden
        <4>2. \A x \in CallType', a \in Access, n \in 0..issued' :
                [x EXCEPT !.pc = "rotated", !.access = a, !.refresh = n] \in CallType'
          BY DEF CallType
        <4> QED BY <3>3, <4>1, <4>2
      <3> HIDE DEF t
      <3>7. page' = [page EXCEPT ![PageOf[c]] = page[PageOf[c]]] /\ page[PageOf[c]] \in PageType'
        BY <1>a, <1>c, <3>1, TypesWiden
      <3>8. c \in Pending BY <1>8 DEF Rotate, Pending
      <3>9. /\ page' \in [Pages -> PageType'] /\ call' \in [Calls -> CallType']
            /\ issued' + Cardinality(Pending)' =< started
        BY <3>1, <3>4, <3>5, <3>6, <3>7, <3>8, CallTyped
      <3>10. Cardinality(Pending)' \in Nat BY <1>a, <3>4, PendingChange
      <3>11. Rotated(s) \in Session /\ Rotated(s).id = s.id /\ Rotated(s).token = issued + 1
        BY <1>a, <3>2, RotatedRow
      <3>12. sessions' \subseteq Session BY <1>a, <3>1, <3>11
      <3>13. SessionsIssued' BY <1>a, <3>1, <3>2, <3>11 DEF SessionsIssued, TypeInv
      <3> QED BY <1>a, <3>1, <3>9, <3>10, <3>12, <3>13, Bounds DEF TypeInv, TypeOK, IssuedBound
    <2> QED BY <2>2, <2>3
  <1>9. ASSUME NEW c \in Calls, StoreTokens(c) PROVE TypeInv'
    <2>1. /\ [call[c] EXCEPT !.pc = "retry"] \in CallType
          /\ [call[c] EXCEPT !.pc = "retry"].pc = "retry"
      BY <1>a, <1>c, TypedCalls
    <2>2. [page[PageOf[c]] EXCEPT !.tokens = [access |-> call[c].access, refresh |-> call[c].refresh]]
             \in PageType
      BY <1>a, <1>c, TypedPages, TypedParts
    <2>3. call' = [call EXCEPT ![c] = [call[c] EXCEPT !.pc = "retry"]]
      BY <1>9, <1>a DEF StoreTokens, Goto
    <2>4. page' = [page EXCEPT ![PageOf[c]] =
             [page[PageOf[c]] EXCEPT !.tokens = [access |-> call[c].access, refresh |-> call[c].refresh]]]
      BY <1>9, <1>a DEF StoreTokens
    <2>5. SameServer /\ started' = started /\ faults' = faults BY <1>9 DEF StoreTokens
    <2> QED BY <1>a, <1>d, <2>1, <2>2, <2>3, <2>4, <2>5
  <1>10. ASSUME NEW c \in Calls, Retry(c) \/ LoseReply(c) PROVE TypeInv'
    <2>1. Done \in CallType /\ Done.pc = "idle" BY <1>a, CleanValues DEF Done
    <2>2. End(c) /\ (page' = page \/ ClearTokens(c))
      BY <1>10 DEF Retry, LoseReply, ClearTokens
    <2>3. call' = [call EXCEPT ![c] = Done] BY <2>2 DEF End
    <2>4. \E q \in PageType : page' = [page EXCEPT ![PageOf[c]] = q]
      BY <1>a, <1>c, <2>2, TypedPages DEF ClearTokens
    <2>5. SameServer /\ started' = started /\ faults' \in 0..MaxFaults
      BY <1>10, <1>a, Bounds DEF Retry, LoseReply, Fault
    <2> QED BY <1>a, <1>d, <2>1, <2>3, <2>4, <2>5
  <1>11. ASSUME NEW u \in Users, DeleteUserData(u) PROVE TypeInv'
    <2>1. erased' \in [Users -> 0..MaxErasures]
      BY <1>11, <1>a, Bounds DEF DeleteUserData
    <2> QED
      BY <1>11, <1>a, <2>1
      DEF DeleteUserData, TypeInv, TypeOK, IssuedBound, SessionsIssued, Pending, PageType, CallType
  <1>12. CASE CleanupSessions
    BY <1>12 DEF CleanupSessions, TypeInv, TypeOK, IssuedBound, SessionsIssued, Pending, PageType, CallType
  <1>13. CASE TimePasses
    BY <1>13, <1>a, Bounds
    DEF TimePasses, TypeInv, TypeOK, IssuedBound, SessionsIssued, Pending, PageType, CallType
  <1> QED
    BY <1>1, <1>2, <1>3, <1>4, <1>5, <1>6, <1>7, <1>8, <1>9, <1>10, <1>11, <1>12, <1>13 DEF Next

(* Every variable keeps its type in every behaviour. *)
THEOREM TypeCorrect == Spec => []TypeOK
  <1>1. Init => TypeInv
    <2> SUFFICES ASSUME Init PROVE TypeInv OBVIOUS
    <2>1. Pending = {} BY DEF Init, Pending, Done
    <2>2. issued \in Nat /\ Cardinality(Pending) = 0 BY <2>1, FS_EmptySet DEF Init
    <2> QED BY <2>2, CleanValues, Bounds DEF Init, TypeInv, TypeOK, IssuedBound, SessionsIssued
  <1>2. TypeInv => TypeOK BY DEF TypeInv
  <1> QED BY <1>1, <1>2, TypeInvStep, PTL DEF Spec

-----------------------------------------------------------------------------
(* One account, one session *)

(* A login that creates an account numbers it after the deletions so far.   *)
AccountsCurrent == \A a \in accounts : a[2] = erased[a[1]] + 1

SessionsCurrent ==
    /\ \A s \in sessions : s.owner \in accounts
    /\ \A s, t \in sessions : s.id = t.id \/ s.token = t.token => s = t

GhostInv == TypeInv /\ AccountsCurrent /\ SessionsCurrent

(* Only a login, a rotation, a deletion and retention touch the rows. *)
LEMMA ServerFrame ==
  ASSUME [Next]_vars,
         ~(\E c \in Calls : WriteLogin(c) \/ Rotate(c)),
         ~(\E u \in Users : DeleteUserData(u)), ~CleanupSessions
  PROVE  UNCHANGED <<accounts, erased, sessions, issued>>
  BY DEF Next, vars, StartLogin, FindUser, ReceiveLogin, StartCall, Operation, ReadSession,
         StoreTokens, Retry, LoseReply, TimePasses, SameServer

LEMMA GhostInvStep == GhostInv /\ [Next]_vars => GhostInv'
  <1> SUFFICES ASSUME GhostInv, [Next]_vars PROVE AccountsCurrent' /\ SessionsCurrent'
    BY TypeInvStep DEF GhostInv
  <1>a. /\ AccountsCurrent /\ SessionsCurrent /\ SessionsIssued
        /\ issued \in Nat /\ now \in Nat /\ accounts \subseteq UserIds /\ sessions \subseteq Session
        /\ erased \in [Users -> 0..MaxErasures] /\ MaxErasures \in Nat
        /\ PageOf \in [Calls -> Pages] /\ UserOf \in [Pages -> Users]
        /\ call \in [Calls -> CallType]
    BY AuthSessionsAssumption, Bounds DEF GhostInv, TypeInv, TypeOK
  <1>1. ASSUME UNCHANGED <<accounts, erased, sessions, issued>>
        PROVE  AccountsCurrent' /\ SessionsCurrent'
    BY <1>1, <1>a DEF AccountsCurrent, SessionsCurrent
  <1>2. ASSUME NEW c \in Calls, WriteLogin(c) PROVE AccountsCurrent' /\ SessionsCurrent'
    <2> DEFINE u  == UserOf[PageOf[c]]
               id == IF call[c].user = Nobody THEN <<u, erased[u] + 1>> ELSE call[c].user
               new == [id |-> issued + 1, owner |-> id, token |-> issued + 1,
                       expires |-> now + RefreshTTL]
    <2>1. CASE LoginRefused(c) BY <1>1, <1>2, <2>1 DEF WriteLogin, SameServer
    <2>2. CASE ~LoginRefused(c)
      <3>1. /\ accounts' = accounts \cup (IF call[c].user = Nobody THEN {id} ELSE {})
            /\ sessions' = sessions \cup {new} /\ erased' = erased
        BY <1>2, <2>2 DEF WriteLogin
      <3>2. u \in Users /\ erased[u] + 1 \in 1..(MaxErasures + 1) BY <1>a
      <3>3. call[c].user = Nobody => id = <<u, erased[u] + 1>> /\ id \in UserIds
        BY <3>2 DEF UserIds
      <3>4. call[c].user # Nobody => id \in accounts BY <2>2 DEF LoginRefused
      <3>5. AccountsCurrent'
        BY <1>a, <3>1, <3>3 DEF AccountsCurrent
      <3>6. id \in accounts' BY <3>1, <3>4
      <3>7. new.owner = id /\ new.id = issued + 1 /\ new.token = issued + 1 OBVIOUS
      <3> HIDE DEF new, id
      <3>8. \A s \in sessions' : s.owner \in accounts'
        BY <1>a, <3>1, <3>6, <3>7 DEF SessionsCurrent
      <3>9. \A s \in sessions : s.id # new.id /\ s.token # new.token
        BY <1>a, <3>7 DEF SessionsIssued
      <3>10. \A s, t \in sessions' : s.id = t.id \/ s.token = t.token => s = t
        BY <1>a, <3>1, <3>9 DEF SessionsCurrent
      <3> QED BY <3>5, <3>8, <3>10 DEF SessionsCurrent
    <2> QED BY <2>1, <2>2
  <1>3. ASSUME NEW c \in Calls, Rotate(c) PROVE AccountsCurrent' /\ SessionsCurrent'
    <2>1. CASE SameServer BY <1>1, <2>1 DEF SameServer
    <2>2. CASE ~SameServer
      <3>1. PICK s \in sessions : /\ sessions' = (sessions \ {s}) \cup {Rotated(s)}
                                  /\ UNCHANGED <<accounts, erased>>
        BY <1>3, <2>2 DEF Rotate
      <3>2. Rotated(s).id = s.id /\ Rotated(s).owner = s.owner /\ Rotated(s).token = issued + 1
        BY <1>a, RotatedRow
      <3>3. \A t \in sessions : t.token # issued + 1 BY <1>a DEF SessionsIssued
      <3>4. \A t \in sessions \ {s} : t.id # s.id BY <1>a DEF SessionsCurrent
      <3>5. \A t \in sessions' : t.owner \in accounts'
        BY <1>a, <3>1, <3>2 DEF SessionsCurrent
      <3>6. \A t, v \in sessions' : t.id = v.id \/ t.token = v.token => t = v
        BY <1>a, <3>1, <3>2, <3>3, <3>4 DEF SessionsCurrent
      <3>7. AccountsCurrent' BY <1>a, <3>1 DEF AccountsCurrent
      <3> QED BY <3>5, <3>6, <3>7 DEF SessionsCurrent
    <2> QED BY <2>1, <2>2
  <1>4. ASSUME NEW u \in Users, DeleteUserData(u) PROVE AccountsCurrent' /\ SessionsCurrent'
    <2>1. /\ accounts' = accounts \ IdsOf(u) /\ sessions' = {s \in sessions : s.owner[1] # u}
          /\ erased' = [erased EXCEPT ![u] = @ + 1]
      BY <1>4 DEF DeleteUserData
    <2>2. \A a \in accounts' : a \in accounts /\ a[1] # u /\ a[1] \in Users
      BY <1>a, <2>1 DEF IdsOf, UserIds
    <2>3. AccountsCurrent' BY <1>a, <2>1, <2>2 DEF AccountsCurrent
    <2>4. SessionsCurrent' BY <1>a, <2>1 DEF SessionsCurrent, IdsOf
    <2> QED BY <2>3, <2>4
  <1>5. CASE CleanupSessions
    BY <1>5, <1>a DEF CleanupSessions, AccountsCurrent, SessionsCurrent
  <1> QED BY <1>1, <1>2, <1>3, <1>4, <1>5, ServerFrame

(* However logins of one user and deletions of the account overlap: one     *)
(* account per Telegram id, no session without its account, one session per *)
(* token.                                                                   *)
THEOREM NoGhostSessions == Spec => []NoGhosts
  <1>1. Init => GhostInv
    <2> SUFFICES ASSUME Init PROVE GhostInv OBVIOUS
    <2>1. Pending = {} BY DEF Init, Pending, Done
    <2>2. issued \in Nat /\ Cardinality(Pending) = 0 BY <2>1, FS_EmptySet DEF Init
    <2>3. TypeInv BY <2>2, CleanValues, Bounds DEF Init, TypeInv, TypeOK, IssuedBound, SessionsIssued
    <2> QED BY <2>3 DEF Init, GhostInv, AccountsCurrent, SessionsCurrent
  <1>2. GhostInv => NoGhosts
    <2> SUFFICES ASSUME GhostInv PROVE NoGhosts OBVIOUS
    <2>1. accounts \subseteq UserIds BY DEF GhostInv, TypeInv, TypeOK
    <2>2. \A a, b \in accounts : a[1] = b[1] => a = b
      BY <2>1 DEF GhostInv, AccountsCurrent, UserIds
    <2> QED BY <2>2 DEF GhostInv, SessionsCurrent, NoGhosts
  <1> QED BY <1>1, <1>2, GhostInvStep, PTL DEF Spec

-----------------------------------------------------------------------------
(* One call at a time *)

(* The session a page signed in to, which an answer may still carry.        *)
Own(c) == IF call[c].pc = "loggedin" THEN call[c].row ELSE page[PageOf[c]].login

(* The newest token of that session on the page's side.                     *)
Token(c) == IF call[c].pc \in {"loggedin", "rotated"}
            THEN call[c].refresh ELSE page[PageOf[c]].tokens.refresh

OwnsDistinct ==
    /\ \A c, d \in Calls : c # d /\ Own(c) # 0 => Own(c) # Own(d)
    /\ \A p \in Pages : (\A c \in Calls : PageOf[c] # p) => page[p].login = 0

(* A call carries the page's token, rotates the page's session, and holds   *)
(* an access token for its owner from the rotation to the retry.            *)
CallFollows(c) ==
    /\ call[c].pc \in {"login", "write"} => page[PageOf[c]].login = 0
    /\ call[c].pc \in {"send", "refresh", "rotate", "retry"} =>
          call[c].refresh = page[PageOf[c]].tokens.refresh
    /\ call[c].pc = "rotate" => call[c].row = Own(c) /\ call[c].row # 0
    /\ \A s \in sessions : s.token = Token(c) => s.id = Own(c)
    /\ call[c].pc \in {"rotated", "retry"} =>
          \A s \in sessions : s.id = Own(c) =>
             call[c].access.sub = s.owner /\ call[c].access.exp >= now

TokenCurrent(c) ==
    PageOf[c] \notin Bots =>
       \A s \in sessions : s.id = Own(c) /\ s.expires >= now => s.token = Token(c)

Follows == \A c \in Calls : CallFollows(c) /\ TokenCurrent(c)

LastInv == GhostInv /\ (OneCallEach /\ faults = 0 => OwnsDistinct /\ Follows)

(* Both are numbers of tokens issued. *)
LEMMA OwnType ==
  ASSUME TypeInv, NEW c \in Calls
  PROVE  Own(c) \in 0..issued /\ Token(c) \in 0..issued
  BY TypedParts, AuthSessionsAssumption DEF TypeInv, TypeOK, Own, Token

(* What happens to the calls that take no step. *)
LEMMA OthersFollow ==
  ASSUME TypeInv, NEW d \in Calls, CallFollows(d), TokenCurrent(d),
         call'[d] = call[d], page'[PageOf[d]] = page[PageOf[d]], now \in Nat, now' \in Nat, now =< now',
         now' = now \/ call[d].pc \notin {"rotated", "retry"},
         \A s \in sessions' : s \in sessions \/ (s.id # Own(d) /\ s.token # Token(d))
  PROVE  CallFollows(d)' /\ TokenCurrent(d)'
  <1>1. Own(d)' = Own(d) /\ Token(d)' = Token(d) BY DEF Own, Token
  <1>2. CallFollows(d)' BY <1>1 DEF CallFollows
  <1>3. \A s \in sessions : s.expires \in Nat BY DEF TypeInv, TypeOK, Session
  <1>4. TokenCurrent(d)' BY <1>1, <1>3 DEF TokenCurrent
  <1> QED BY <1>2, <1>4

(* A step of one call.  The other pages have calls of their own. *)
LEMMA CallSteps ==
  ASSUME TypeInv, OneCallEach, OwnsDistinct, Follows, NEW c \in Calls, now' = now,
         \A d \in Calls \ {c} : call'[d] = call[d],
         \A p \in Pages \ {PageOf[c]} : page'[p] = page[p],
         \A s \in sessions' : \A d \in Calls \ {c} :
            s \in sessions \/ (s.id # Own(d) /\ s.token # Token(d)),
         Own(c)' = 0 \/ Own(c)' = Own(c) \/ Own(c)' = issued + 1,
         CallFollows(c)', TokenCurrent(c)'
  PROVE  OwnsDistinct' /\ Follows'
  <1>1. \A d \in Calls \ {c} : PageOf[d] \in Pages \ {PageOf[c]}
    BY AuthSessionsAssumption DEF OneCallEach
  <1>2. now \in Nat /\ issued \in Nat BY Bounds DEF TypeInv, TypeOK
  <1>3. \A d \in Calls \ {c} : CallFollows(d)' /\ TokenCurrent(d)'
    BY <1>1, <1>2, OthersFollow DEF Follows
  <1>4. \A d \in Calls \ {c} : Own(d)' = Own(d) /\ Own(d) \in 0..issued
    BY <1>1, OwnType DEF Own
  <1>5. \A d, e \in Calls : d # e /\ Own(d)' # 0 => Own(d)' # Own(e)'
    BY <1>2, <1>4 DEF OwnsDistinct
  <1>6. \A p \in Pages : (\A d \in Calls : PageOf[d] # p) => page'[p].login = 0
    BY DEF OwnsDistinct
  <1> QED BY <1>3, <1>5, <1>6 DEF OwnsDistinct, Follows

(* Every step keeps a page's token the current one of its session.          *)
LEMMA LastInvStep == LastInv /\ [Next]_vars => LastInv'
  <1> SUFFICES ASSUME LastInv, [Next]_vars, OneCallEach, faults' = 0
               PROVE  OwnsDistinct' /\ Follows'
    BY GhostInvStep DEF LastInv
  <1>a. /\ issued \in Nat /\ now \in Nat /\ faults \in Nat
        /\ page \in [Pages -> PageType] /\ call \in [Calls -> CallType]
        /\ sessions \subseteq Session /\ PageOf \in [Calls -> Pages]
        /\ TypeInv /\ SessionsIssued /\ SessionsCurrent
    BY AuthSessionsAssumption, Bounds DEF LastInv, GhostInv, TypeInv, TypeOK
  <1>b. faults = 0 /\ \A c \in Calls : ~LoseReply(c)
    <2>1. faults' = faults \/ faults' = faults + 1
      BY DEF Next, vars, StartLogin, FindUser, WriteLogin, ReceiveLogin, StartCall, Operation,
             ReadSession, Rotate, StoreTokens, Retry, LoseReply, Fault, DeleteUserData,
             CleanupSessions, TimePasses
    <2> QED BY <1>a, <2>1 DEF LoseReply, Fault
  <1>c. OwnsDistinct /\ Follows BY <1>b DEF LastInv
  <1>d. \A c \in Calls : /\ call[c] \in CallType /\ page[PageOf[c]] \in PageType
                          /\ CallFollows(c) /\ TokenCurrent(c)
                          /\ Own(c) \in 0..issued /\ Token(c) \in 0..issued
    BY <1>a, <1>c, OwnType DEF Follows
  <1>e. ASSUME NEW c \in Calls, NEW t, NEW q,
               call' = [call EXCEPT ![c] = t], page' = [page EXCEPT ![PageOf[c]] = q],
               UNCHANGED <<sessions, now, issued>>,
               Own(c)' = 0 \/ Own(c)' = Own(c), CallFollows(c)', TokenCurrent(c)'
        PROVE  OwnsDistinct' /\ Follows'
    BY <1>a, <1>c, <1>e, CallSteps
  <1>1. CASE UNCHANGED vars
    BY <1>1, <1>c DEF vars, OwnsDistinct, Follows, CallFollows, TokenCurrent, Own, Token
  <1>2. ASSUME NEW c \in Calls, StartLogin(c) PROVE OwnsDistinct' /\ Follows'
    <2> DEFINE t == [call[c] EXCEPT !.pc = "login"]
               q == [tokens |-> SignedOut, login |-> 0]
    <2>1. /\ call' = [call EXCEPT ![c] = t] /\ page' = [page EXCEPT ![PageOf[c]] = q]
          /\ UNCHANGED <<sessions, now, issued>>
      BY <1>2, <1>a DEF StartLogin, Goto, SameServer
    <2>2. call'[c].pc = "login" /\ page'[PageOf[c]].login = 0 /\ page'[PageOf[c]].tokens.refresh = 0
      BY <1>a, <1>d, <2>1 DEF CallType, SignedOut
    <2>3. Own(c)' = 0 /\ Token(c)' = 0 BY <2>2 DEF Own, Token
    <2>4. \A s \in sessions' : s.token # 0 /\ s.id # 0 BY <1>a, <2>1 DEF SessionsIssued
    <2>5. CallFollows(c)' /\ TokenCurrent(c)'
      BY <2>2, <2>3, <2>4 DEF CallFollows, TokenCurrent
    <2> QED BY <1>e, <2>1, <2>3, <2>5
  <1>3. ASSUME NEW c \in Calls, FindUser(c) PROVE OwnsDistinct' /\ Follows'
    <2>1. PICK id : call' = [call EXCEPT ![c].pc = "write", ![c].user = id]
      BY <1>3 DEF FindUser
    <2> DEFINE t == [call[c] EXCEPT !.pc = "write", !.user = id]
    <2>2. /\ call' = [call EXCEPT ![c] = t] /\ page' = [page EXCEPT ![PageOf[c]] = page[PageOf[c]]]
          /\ UNCHANGED <<sessions, now, issued>> /\ page' = page /\ call[c].pc = "login"
      BY <1>3, <1>a, <2>1 DEF FindUser, SameServer
    <2>3. call'[c].pc = "write" BY <1>a, <1>d, <2>2 DEF CallType
    <2>4. Own(c)' = Own(c) /\ Token(c)' = Token(c) BY <2>2, <2>3 DEF Own, Token
    <2>5. CallFollows(c)' /\ TokenCurrent(c)'
      BY <1>d, <2>2, <2>3, <2>4 DEF CallFollows, TokenCurrent
    <2> QED BY <1>e, <2>2, <2>4, <2>5
  <1>4. ASSUME NEW c \in Calls, End(c), page' = page, UNCHANGED <<sessions, now, issued>>,
               call[c].pc \notin {"loggedin", "rotated"}
        PROVE  OwnsDistinct' /\ Follows'
    <2>1. call' = [call EXCEPT ![c] = Done] BY <1>4 DEF End
    <2>2. call'[c].pc = "idle" BY <1>a, <2>1 DEF Done
    <2>3. Own(c)' = Own(c) /\ Token(c)' = Token(c) BY <1>4, <2>2 DEF Own, Token
    <2>4. CallFollows(c)' /\ TokenCurrent(c)'
      BY <1>d, <1>4, <2>2, <2>3 DEF CallFollows, TokenCurrent
    <2> QED BY <1>e, <1>4, <1>d, <1>a, <2>1, <2>3, <2>4
  <1>5. ASSUME NEW c \in Calls, ClearTokens(c), UNCHANGED <<sessions, now, issued>>,
               call[c].pc # "loggedin",
               PageOf[c] \notin Bots => \A s \in sessions : s.id = Own(c) => s.expires < now
        PROVE  OwnsDistinct' /\ Follows'
    <2>1. /\ call' = [call EXCEPT ![c] = Done]
          /\ page' = [page EXCEPT ![PageOf[c]] = [page[PageOf[c]] EXCEPT !.tokens = SignedOut]]
      BY <1>5, <1>a DEF ClearTokens, End
    <2>2. /\ call'[c].pc = "idle" /\ page'[PageOf[c]].tokens.refresh = 0
          /\ page'[PageOf[c]].login = page[PageOf[c]].login
      BY <1>a, <1>d, <2>1 DEF Done, SignedOut, PageType
    <2>3. Own(c)' = Own(c) /\ Token(c)' = 0 BY <1>5, <2>2 DEF Own, Token
    <2>4. \A s \in sessions' : s.token # 0 /\ s.expires \in Nat
      BY <1>a, <1>5 DEF SessionsIssued, Session
    <2>5. CallFollows(c)' /\ TokenCurrent(c)'
      BY <1>5, <1>a, <2>2, <2>3, <2>4 DEF CallFollows, TokenCurrent
    <2> QED BY <1>e, <1>5, <2>1, <2>3, <2>5
  <1>6. ASSUME NEW c \in Calls, WriteLogin(c) PROVE OwnsDistinct' /\ Follows'
    <2>1. CASE LoginRefused(c) BY <1>4, <1>6, <2>1 DEF WriteLogin, SameServer
    <2>2. CASE ~LoginRefused(c)
      <3>1. PICK new, access :
              /\ sessions' = sessions \cup {new} /\ new.id = issued + 1 /\ new.token = issued + 1
              /\ call' = [call EXCEPT ![c] = [Done EXCEPT
                   !.pc = "loggedin", !.access = access, !.refresh = issued + 1, !.row = issued + 1]]
              /\ page' = page /\ now' = now
        BY <1>6, <2>2 DEF WriteLogin
      <3>2. call'[c].pc = "loggedin" /\ call'[c].row = issued + 1 /\ call'[c].refresh = issued + 1
        BY <1>a, <3>1 DEF Done
      <3>3. Own(c)' = issued + 1 /\ Token(c)' = issued + 1 BY <3>2 DEF Own, Token
      <3>4. \A s \in sessions : s.id # issued + 1 /\ s.token # issued + 1
        BY <1>a DEF SessionsIssued
      <3>5. CallFollows(c)' /\ TokenCurrent(c)'
        BY <3>1, <3>2, <3>3, <3>4 DEF CallFollows, TokenCurrent
      <3>6. \A s \in sessions' : \A d \in Calls \ {c} :
               s \in sessions \/ (s.id # Own(d) /\ s.token # Token(d))
        BY <1>a, <1>d, <3>1
      <3>7. \A d \in Calls \ {c} : call'[d] = call[d] BY <1>a, <3>1
      <3> QED BY <1>a, <1>c, <3>1, <3>3, <3>5, <3>6, <3>7, CallSteps
    <2> QED BY <2>1, <2>2
  <1>7. ASSUME NEW c \in Calls, ReceiveLogin(c) PROVE OwnsDistinct' /\ Follows'
    <2> DEFINE n == IF PageOf[c] \in Bots THEN 0 ELSE call[c].refresh
               q == [tokens |-> [access |-> call[c].access, refresh |-> n], login |-> call[c].row]
    <2>1. /\ call' = [call EXCEPT ![c] = Done] /\ page' = [page EXCEPT ![PageOf[c]] = q]
          /\ UNCHANGED <<sessions, now, issued>> /\ call[c].pc = "loggedin"
      BY <1>7 DEF ReceiveLogin, End, SameServer
    <2>2. /\ call'[c].pc = "idle" /\ page'[PageOf[c]].tokens.refresh = n
          /\ page'[PageOf[c]].login = call[c].row
      BY <1>a, <2>1 DEF Done
    <2>3. Own(c)' = Own(c) /\ Token(c)' = n BY <2>1, <2>2 DEF Own, Token
    <2>4. n = 0 \/ n = Token(c) BY <2>1 DEF Token
    <2>5. PageOf[c] \notin Bots => n = Token(c) BY <2>1 DEF Token
    <2>6. \A s \in sessions' : s.token # 0 BY <1>a, <2>1 DEF SessionsIssued
    <2> HIDE DEF n
    <2>7. CallFollows(c)' /\ TokenCurrent(c)'
      BY <1>d, <2>1, <2>2, <2>3, <2>4, <2>5, <2>6 DEF CallFollows, TokenCurrent
    <2> QED BY <1>e, <2>1, <2>3, <2>7
  <1>8. ASSUME NEW c \in Calls, StartCall(c) PROVE OwnsDistinct' /\ Follows'
    <2>1. PICK access :
            /\ call' = [call EXCEPT ![c] = [Done EXCEPT !.pc = "send", !.access = access,
                                            !.refresh = page[PageOf[c]].tokens.refresh]]
            /\ page' = page /\ UNCHANGED <<sessions, now, issued>> /\ call[c].pc = "idle"
      BY <1>8 DEF StartCall, SameServer
    <2>2. call'[c].pc = "send" /\ call'[c].refresh = page[PageOf[c]].tokens.refresh
      BY <1>a, <2>1 DEF Done
    <2>3. Own(c)' = Own(c) /\ Token(c)' = Token(c) BY <2>1, <2>2 DEF Own, Token
    <2>4. CallFollows(c)' /\ TokenCurrent(c)'
      BY <1>d, <2>1, <2>2, <2>3 DEF CallFollows, TokenCurrent
    <2> QED BY <1>e, <1>a, <2>1, <2>3, <2>4
  <1>9. ASSUME NEW c \in Calls, Operation(c) PROVE OwnsDistinct' /\ Follows'
    <2>1. CASE End(c) BY <1>4, <1>9, <2>1 DEF Operation, SameServer
    <2>2. CASE ~End(c)
      <3>1. /\ call' = [call EXCEPT ![c] = [call[c] EXCEPT !.pc = "refresh"]]
            /\ page' = page /\ UNCHANGED <<sessions, now, issued>> /\ call[c].pc = "send"
        BY <1>9, <1>a, <2>2 DEF Operation, Goto, SameServer
      <3>2. call'[c].pc = "refresh" /\ call'[c].refresh = call[c].refresh
        BY <1>a, <1>d, <3>1 DEF CallType
      <3>3. Own(c)' = Own(c) /\ Token(c)' = Token(c) BY <3>1, <3>2 DEF Own, Token
      <3>4. CallFollows(c)' /\ TokenCurrent(c)'
        BY <1>d, <3>1, <3>2, <3>3 DEF CallFollows, TokenCurrent
      <3> QED BY <1>e, <1>a, <3>1, <3>3, <3>4
    <2> QED BY <2>1, <2>2
  <1>10. ASSUME NEW c \in Calls, ReadSession(c) PROVE OwnsDistinct' /\ Follows'
    <2>1. /\ call[c].pc = "refresh" /\ UNCHANGED <<sessions, now, issued>>
          /\ call[c].refresh = Token(c)
      BY <1>10, <1>d DEF ReadSession, SameServer, CallFollows, Token
    <2>2. CASE ClearTokens(c)
      <3>1. CASE \A s \in sessions : ~(s.token = call[c].refresh /\ s.expires >= now)
        <4>1. \A s \in sessions : s.expires \in Nat BY <1>a DEF Session
        <4>2. PageOf[c] \notin Bots => \A s \in sessions : s.id = Own(c) => s.expires < now
          BY <1>a, <1>d, <2>1, <3>1, <4>1 DEF TokenCurrent
        <4> QED BY <1>5, <2>1, <2>2, <4>2
      <3>2. CASE \E s \in sessions : s.token = call[c].refresh /\ s.expires >= now
        <4>1. PICK s : call' = [call EXCEPT ![c].pc = "rotate", ![c].row = s.id]
          BY <1>10, <3>2 DEF ReadSession
        <4>2. call'[c].pc = "rotate" BY <1>a, <1>d, <4>1 DEF CallType
        <4>3. call'[c].pc = "idle" BY <1>a, <2>2 DEF ClearTokens, End, Done
        <4> QED BY <4>2, <4>3
      <3> QED BY <3>1, <3>2
    <2>3. CASE ~ClearTokens(c)
      <3>1. PICK s \in sessions : /\ call' = [call EXCEPT ![c].pc = "rotate", ![c].row = s.id]
                                  /\ s.token = call[c].refresh /\ page' = page
        BY <1>10, <2>3 DEF ReadSession
      <3>2. call' = [call EXCEPT ![c] = [call[c] EXCEPT !.pc = "rotate", !.row = s.id]]
        BY <1>a, <3>1
      <3>3. call'[c].pc = "rotate" /\ call'[c].row = s.id /\ call'[c].refresh = call[c].refresh
        BY <1>a, <1>d, <3>2 DEF CallType
      <3>4. Own(c)' = Own(c) /\ Token(c)' = Token(c) BY <2>1, <3>1, <3>3 DEF Own, Token
      <3>5. s.id = Own(c) /\ s.id # 0
        BY <1>a, <1>d, <2>1, <3>1 DEF CallFollows, SessionsIssued
      <3>6. CallFollows(c)' /\ TokenCurrent(c)'
        BY <1>d, <2>1, <3>1, <3>3, <3>4, <3>5 DEF CallFollows, TokenCurrent
      <3>7. page' = [page EXCEPT ![PageOf[c]] = page[PageOf[c]]] BY <1>a, <3>1
      <3> DEFINE r == [call[c] EXCEPT !.pc = "rotate", !.row = s.id]
      <3>8. call' = [call EXCEPT ![c] = r] BY <3>2
      <3> HIDE DEF r
      <3> QED BY <1>e, <2>1, <3>4, <3>6, <3>7, <3>8
    <2> QED BY <2>2, <2>3
  <1>11. ASSUME NEW c \in Calls, Rotate(c) PROVE OwnsDistinct' /\ Follows'
    <2>1. call[c].pc = "rotate" /\ call[c].row = Own(c) /\ Own(c) # 0
      BY <1>11, <1>d DEF Rotate, CallFollows
    <2>2. CASE SameServer
      <3>1. CASE \E s \in sessions : s.id = call[c].row
        <4>1. issued' = issued + 1 BY <1>11, <3>1 DEF Rotate
        <4> QED BY <1>a, <2>2, <4>1 DEF SameServer
      <3>2. CASE ~\E s \in sessions : s.id = call[c].row
        <4>1. ClearTokens(c) BY <1>11, <3>2 DEF Rotate
        <4>2. \A s \in sessions : s.id = Own(c) => s.expires < now BY <2>1, <3>2
        <4> QED BY <1>5, <2>1, <2>2, <4>1, <4>2 DEF SameServer
      <3> QED BY <3>1, <3>2
    <2>3. CASE ~SameServer
      <3>1. PICK s \in sessions :
              /\ s.id = call[c].row
              /\ sessions' = (sessions \ {s}) \cup {Rotated(s)}
              /\ call' = [call EXCEPT ![c].pc = "rotated",
                   ![c].access = CreateAccessToken(s.owner), ![c].refresh = issued + 1]
              /\ UNCHANGED <<now, page>>
        BY <1>11, <2>3 DEF Rotate
      <3>2. /\ Rotated(s).id = s.id /\ Rotated(s).owner = s.owner
            /\ Rotated(s).token = issued + 1
        BY <1>a, RotatedRow
      <3>3. /\ call'[c].pc = "rotated" /\ call'[c].refresh = issued + 1
            /\ call'[c].access = CreateAccessToken(s.owner)
        BY <1>a, <1>d, <3>1 DEF CallType
      <3>4. call'[c].access.sub = s.owner /\ call'[c].access.exp >= now'
        BY <1>a, <3>1, <3>3, Bounds DEF CreateAccessToken
      <3>5. Own(c)' = Own(c) /\ Token(c)' = issued + 1 BY <2>1, <3>1, <3>3 DEF Own, Token
      <3>6. /\ \A t \in sessions : t.token # issued + 1
            /\ \A t \in sessions \ {s} : t.id # s.id
        BY <1>a DEF SessionsIssued, SessionsCurrent
      <3>7. CallFollows(c)' /\ TokenCurrent(c)'
        BY <2>1, <3>1, <3>2, <3>3, <3>4, <3>5, <3>6 DEF CallFollows, TokenCurrent
      <3>8. \A t \in sessions' : \A d \in Calls \ {c} :
               t \in sessions \/ (t.id # Own(d) /\ t.token # Token(d))
        BY <1>a, <1>c, <1>d, <2>1, <3>1, <3>2 DEF OwnsDistinct
      <3>9. \A d \in Calls \ {c} : call'[d] = call[d] BY <1>a, <3>1
      <3> QED BY <1>a, <1>c, <3>1, <3>5, <3>7, <3>8, <3>9, CallSteps
    <2> QED BY <2>2, <2>3
  <1>12. ASSUME NEW c \in Calls, StoreTokens(c) PROVE OwnsDistinct' /\ Follows'
    <2> DEFINE q == [page[PageOf[c]] EXCEPT !.tokens =
                       [access |-> call[c].access, refresh |-> call[c].refresh]]
    <2>1. /\ call' = [call EXCEPT ![c] = [call[c] EXCEPT !.pc = "retry"]]
          /\ page' = [page EXCEPT ![PageOf[c]] = q]
          /\ UNCHANGED <<sessions, now, issued>> /\ call[c].pc = "rotated"
      BY <1>12, <1>a DEF StoreTokens, Goto, SameServer
    <2>2. /\ call'[c].pc = "retry" /\ call'[c].refresh = call[c].refresh
          /\ call'[c].access = call[c].access
          /\ page'[PageOf[c]].tokens.refresh = call[c].refresh
          /\ page'[PageOf[c]].login = page[PageOf[c]].login
      BY <1>a, <1>d, <2>1 DEF CallType, PageType
    <2>3. Own(c)' = Own(c) /\ Token(c)' = Token(c) BY <2>1, <2>2 DEF Own, Token
    <2>4. CallFollows(c)' /\ TokenCurrent(c)'
      BY <1>d, <2>1, <2>2, <2>3 DEF CallFollows, TokenCurrent
    <2> QED BY <1>e, <2>1, <2>3, <2>4
  <1>13. ASSUME NEW c \in Calls, Retry(c) PROVE OwnsDistinct' /\ Follows'
    <2>1. /\ call[c].pc = "retry" /\ UNCHANGED <<sessions, now, issued>> /\ faults' # faults + 1
          /\ \/ End(c) /\ page' = page
             \/ ~Authorized(call[c].access) /\ ClearTokens(c)
      BY <1>13, <1>b DEF Retry, SameServer, Fault
    <2>2. CASE End(c) /\ page' = page BY <1>4, <2>1, <2>2
    <2>3. CASE ~Authorized(call[c].access) /\ ClearTokens(c)
      <3>1. \A s \in sessions : s.id = Own(c) => Authorized(call[c].access)
        BY <1>a, <1>d, <2>1 DEF CallFollows, Authorized, SessionsCurrent
      <3> QED BY <1>5, <2>1, <2>3, <3>1
    <2> QED BY <2>1, <2>2, <2>3
  <1>14. ASSUME call' = call, page' = page, now' = now, sessions' \subseteq sessions
         PROVE  OwnsDistinct' /\ Follows'
    <2>1. \A c \in Calls : Own(c)' = Own(c) /\ CallFollows(c)' /\ TokenCurrent(c)'
      BY <1>14, <1>a, <1>d, OthersFollow DEF Own
    <2> QED BY <1>14, <1>c, <2>1 DEF OwnsDistinct, Follows
  <1>15. ASSUME (\E u \in Users : DeleteUserData(u)) \/ CleanupSessions
         PROVE  OwnsDistinct' /\ Follows'
    BY <1>14, <1>15 DEF DeleteUserData, CleanupSessions
  <1>16. CASE TimePasses
    <2>1. /\ call' = call /\ page' = page /\ sessions' = sessions /\ now' = now + 1
          /\ \A c \in Calls : call[c].pc \notin {"rotated", "retry"}
      BY <1>16 DEF TimePasses
    <2>2. \A c \in Calls : Own(c)' = Own(c) /\ CallFollows(c)' /\ TokenCurrent(c)'
      BY <1>a, <1>d, <2>1, OthersFollow DEF Own
    <2> QED BY <1>c, <2>1, <2>2 DEF OwnsDistinct, Follows
  <1> QED
    BY <1>b, <1>1, <1>2, <1>3, <1>6, <1>7, <1>8, <1>9, <1>10, <1>11, <1>12, <1>13, <1>15, <1>16
    DEF Next

(* A page that calls one thing at a time keeps the current token of its     *)
(* session until the session ends or expires, whatever other pages, the     *)
(* bot, retention and account deletions do, as long as no reply was lost    *)
(* and no retried operation failed.                                         *)
THEOREM SessionsLast == Spec => []SessionLasts
  <1>1. Init => LastInv
    <2> SUFFICES ASSUME Init PROVE LastInv OBVIOUS
    <2>1. Pending = {} BY DEF Init, Pending, Done
    <2>2. issued \in Nat /\ Cardinality(Pending) = 0 BY <2>1, FS_EmptySet DEF Init
    <2>3. TypeInv BY <2>2, CleanValues, Bounds DEF Init, TypeInv, TypeOK, IssuedBound, SessionsIssued
    <2>4. GhostInv BY <2>3 DEF Init, GhostInv, AccountsCurrent, SessionsCurrent
    <2>5. \A c \in Calls : Own(c) = 0 /\ call[c].pc = "idle"
      BY AuthSessionsAssumption DEF Init, Own, Done
    <2>6. OwnsDistinct BY <2>5 DEF Init, OwnsDistinct
    <2>7. Follows BY <2>5 DEF Init, Follows, CallFollows, TokenCurrent
    <2> QED BY <2>4, <2>6, <2>7 DEF LastInv
  <1>2. ASSUME LastInv PROVE SessionLasts
    <2> SUFFICES ASSUME OneCallEach, faults = 0, NEW p \in Pages \ Bots, NEW s \in sessions,
                        s.id = page[p].login, s.expires >= now, Quiet(p)
                 PROVE  page[p].tokens.refresh = s.token
      BY DEF SessionLasts
    <2>1. OwnsDistinct /\ Follows /\ s.id # 0
      BY <1>2 DEF LastInv, GhostInv, TypeInv, SessionsIssued
    <2>2. PICK c \in Calls : PageOf[c] = p BY <2>1 DEF OwnsDistinct
    <2>3. call[c].pc = "idle" BY <2>2 DEF Quiet, CallsOf
    <2>4. Own(c) = page[p].login /\ Token(c) = page[p].tokens.refresh
      BY <2>2, <2>3 DEF Own, Token
    <2> QED BY <2>1, <2>2, <2>4 DEF Follows, TokenCurrent
  <1> QED BY <1>1, <1>2, LastInvStep, PTL DEF Spec
=============================================================================
