---------------------------- MODULE AuthSessions ----------------------------
(* Sign-in: users, their refresh sessions, and the clients that hold tokens.*)
(*                                                                          *)
(* The web app keeps an access and a refresh token and wraps every call in  *)
(* withAuthRetry; several calls of one page run at once (the dashboard      *)
(* sends five) and each refreshes for itself when it is answered 401.  The  *)
(* Telegram bot signs in for every message and drops the refresh token.     *)
(* A request is one transaction; what it reads and what it writes are       *)
(* separate steps, since others may commit in between.                      *)
EXTENDS Naturals, FiniteSets

CONSTANTS
    Users,        \* Telegram ids
    Allowed,      \* those the allowlist admits
    Pages, UserOf,     \* clients: open web app pages and bot chats
    Bots,         \* clients that drop the refresh token
    Calls, PageOf,     \* calls in flight at once, of a page each
    AccessTTL, RefreshTTL,
    MaxNow,       \* bound: the clock
    MaxStarts,    \* bound: logins and calls begun
    MaxErasures,  \* bound: deletions of an account
    MaxFaults     \* bound: replies lost and retried operations that fail

ASSUME AuthSessionsAssumption ==
    /\ Allowed \subseteq Users
    /\ UserOf \in [Pages -> Users]
    /\ Bots \subseteq Pages
    /\ PageOf \in [Calls -> Pages]
    /\ IsFiniteSet(Calls)
    /\ {AccessTTL, RefreshTTL, MaxNow, MaxStarts, MaxErasures, MaxFaults} \subseteq Nat

VARIABLES
    now,
    accounts,     \* ids of the users that exist: who, and the how manieth time
    erased,       \* how often an account of the user was deleted
    sessions,     \* rows of user_sessions
    issued,       \* refresh tokens issued so far; a token is its number
    page,         \* what a client holds
    call,         \* the calls in flight
    started, faults

vars == <<now, accounts, erased, sessions, issued, page, call, started, faults>>

Nobody     == <<>>
UserIds    == Users \X (1..(MaxErasures + 1))
IdsOf(u)   == {a \in accounts : a[1] = u}

(* id is the primary key; a rotation replaces token and expires.            *)
Session == [id: Nat, owner: UserIds, token: Nat, expires: Nat]

NoAccess  == [sub |-> Nobody, exp |-> 0]
SignedOut == [access |-> NoAccess, refresh |-> 0]
Done      == [pc |-> "idle", access |-> NoAccess, refresh |-> 0, user |-> Nobody, row |-> 0]

Init ==
    /\ now = 0
    /\ accounts = {}
    /\ erased = [u \in Users |-> 0]
    /\ sessions = {}
    /\ issued = 0
    /\ page = [p \in Pages |-> [tokens |-> SignedOut, login |-> 0]]
    /\ call = [c \in Calls |-> Done]
    /\ started = 0
    /\ faults = 0

CallsOf(p) == {c \in Calls : PageOf[c] = p}
Quiet(p)   == \A c \in CallsOf(p) : call[c].pc = "idle"

(* Mutant: a token for the Telegram id in place of the user id.             *)
CreateAccessTokenTelegram(id) == [sub |-> id[1], exp |-> now + AccessTTL]

CreateAccessToken(id) == [sub |-> id, exp |-> now + AccessTTL]

(* get_current_user: the token has not expired and its user still exists.   *)
Authorized(access) == access.sub \in accounts /\ now <= access.exp

Goto(c, pc) == call' = [call EXCEPT ![c].pc = pc]

(* The call is over; clearStoredTokens signs the page out.                  *)
End(c)           == call' = [call EXCEPT ![c] = Done]
ClearTokens(c)   == End(c) /\ page' = [page EXCEPT ![PageOf[c]].tokens = SignedOut]
SameServer       == UNCHANGED <<now, accounts, erased, sessions, issued>>
Fault            == faults < MaxFaults /\ faults' = faults + 1

-----------------------------------------------------------------------------
(* Signing in.  A page that loads with Telegram's init data signs in and    *)
(* ignores stored tokens; a bot chat signs in when a message arrives.       *)
StartLogin(c) ==
    /\ Quiet(PageOf[c])
    /\ UserOf[PageOf[c]] \in Allowed
    /\ started < MaxStarts
    /\ started' = started + 1
    /\ Goto(c, "login")
    /\ page' = [page EXCEPT ![PageOf[c]] = [tokens |-> SignedOut, login |-> 0]]
    /\ SameServer /\ UNCHANGED faults

FindUser(c) ==
    /\ call[c].pc = "login"
    /\ LET ids == IdsOf(UserOf[PageOf[c]])
       IN \E id \in IF ids = {} THEN {Nobody} ELSE ids :
             call' = [call EXCEPT ![c].pc = "write", ![c].user = id]
    /\ SameServer /\ UNCHANGED <<page, started, faults>>

(* Mutant: a login that trusts the user it looked up.                       *)
LoginRefusedNever(c) == FALSE

(* The unique telegram_id or the foreign key of the session refuses.        *)
LoginRefused(c) ==
    IF call[c].user = Nobody
    THEN IdsOf(UserOf[PageOf[c]]) # {}
    ELSE call[c].user \notin accounts

WriteLogin(c) ==
    LET u  == UserOf[PageOf[c]]
        id == IF call[c].user = Nobody THEN <<u, erased[u] + 1>> ELSE call[c].user
    IN
    /\ call[c].pc = "write"
    /\ IF LoginRefused(c)
       THEN End(c) /\ SameServer
       ELSE /\ accounts' = accounts \cup (IF call[c].user = Nobody THEN {id} ELSE {})
            /\ issued' = issued + 1
            /\ sessions' = sessions \cup
                 {[id |-> issued + 1, owner |-> id, token |-> issued + 1,
                   expires |-> now + RefreshTTL]}
            /\ call' = [call EXCEPT ![c] = [Done EXCEPT
                 !.pc = "loggedin", !.access = CreateAccessToken(id),
                 !.refresh = issued + 1, !.row = issued + 1]]
            /\ UNCHANGED <<now, erased>>
    /\ UNCHANGED <<page, started, faults>>

ReceiveLogin(c) ==
    LET p == PageOf[c] IN
    /\ call[c].pc = "loggedin"
    /\ page' = [page EXCEPT ![p] =
         [tokens |-> [access  |-> call[c].access,
                      refresh |-> IF p \in Bots THEN 0 ELSE call[c].refresh],
          login  |-> call[c].row]]
    /\ End(c)
    /\ SameServer /\ UNCHANGED <<started, faults>>

-----------------------------------------------------------------------------
(* A call of the page, with the tokens of the render that began it.         *)
StartCall(c) ==
    LET t == page[PageOf[c]].tokens IN
    /\ call[c].pc = "idle"
    /\ \A d \in CallsOf(PageOf[c]) : call[d].pc \notin {"login", "write", "loggedin"}
    /\ t.access # NoAccess
    /\ started < MaxStarts
    /\ started' = started + 1
    /\ call' = [call EXCEPT ![c] = [Done EXCEPT
         !.pc = "send", !.access = t.access, !.refresh = t.refresh]]
    /\ SameServer /\ UNCHANGED <<page, faults>>

(* 401 leads to a refresh if there is a refresh token; any other answer is  *)
(* the caller's business and leaves the tokens alone.                       *)
Operation(c) ==
    /\ call[c].pc = "send"
    /\ IF Authorized(call[c].access) \/ call[c].refresh = 0
       THEN End(c)
       ELSE Goto(c, "refresh")
    /\ SameServer /\ UNCHANGED <<page, started, faults>>

(* rotate_refresh_token looks the row up.  An expired row is deleted there, *)
(* but the route answers 401 without a commit, so the row stays.            *)
ReadSession(c) ==
    LET rows == {s \in sessions : s.token = call[c].refresh /\ s.expires >= now} IN
    /\ call[c].pc = "refresh"
    /\ \/ /\ rows = {}
          /\ ClearTokens(c)
       \/ \E s \in rows : call' = [call EXCEPT ![c].pc = "rotate", ![c].row = s.id]
                          /\ UNCHANGED page
    /\ SameServer /\ UNCHANGED <<started, faults>>

(* Mutant: a rotation that leaves the hash in the row as it was.            *)
RotatedStale(s) == [s EXCEPT !.expires = now + RefreshTTL]

Rotated(s) == [s EXCEPT !.token = issued + 1, !.expires = now + RefreshTTL]

(* UPDATE by primary key: whatever token the row has by now is replaced.    *)
(* When the row is gone, zero rows match and the request fails.             *)
Rotate(c) ==
    LET rows == {s \in sessions : s.id = call[c].row} IN
    /\ call[c].pc = "rotate"
    /\ \/ /\ rows = {}
          /\ ClearTokens(c)
          /\ SameServer
       \/ \E s \in rows :
            /\ sessions' = (sessions \ {s}) \cup {Rotated(s)}
            /\ issued' = issued + 1
            /\ call' = [call EXCEPT ![c].pc = "rotated",
                 ![c].access = CreateAccessToken(s.owner), ![c].refresh = issued + 1]
            /\ UNCHANGED <<now, accounts, erased, page>>
    /\ UNCHANGED <<started, faults>>

StoreTokens(c) ==
    /\ call[c].pc = "rotated"
    /\ page' = [page EXCEPT ![PageOf[c]].tokens =
                  [access |-> call[c].access, refresh |-> call[c].refresh]]
    /\ Goto(c, "retry")
    /\ SameServer /\ UNCHANGED <<started, faults>>

(* The operation again; whatever it fails with ends in the same handler as  *)
(* a failed refresh.                                                        *)
Retry(c) ==
    /\ call[c].pc = "retry"
    /\ \/ /\ Authorized(call[c].access)
          /\ End(c)
          /\ UNCHANGED <<page, faults>>
       \/ /\ ~Authorized(call[c].access)
          /\ ClearTokens(c)
          /\ UNCHANGED faults
       \/ /\ ClearTokens(c)
          /\ Fault
    /\ SameServer /\ UNCHANGED started

(* The transaction was committed, but the answer does not arrive.           *)
LoseReply(c) ==
    /\ \/ call[c].pc = "loggedin" /\ End(c) /\ UNCHANGED page
       \/ call[c].pc = "rotated" /\ ClearTokens(c)
    /\ Fault
    /\ SameServer /\ UNCHANGED started

-----------------------------------------------------------------------------
(* delete_user_data.  Rows of the user's sessions go with the user.         *)
DeleteUserData(u) ==
    /\ erased[u] < MaxErasures
    /\ IdsOf(u) # {}
    /\ accounts' = accounts \ IdsOf(u)
    /\ sessions' = {s \in sessions : s.owner[1] # u}
    /\ erased' = [erased EXCEPT ![u] = @ + 1]
    /\ UNCHANGED <<now, issued, page, call, started, faults>>

(* Mutant: retention with the strict comparison of _is_expired.             *)
RetainedStrict(s) == s.expires >= now

Retained(s) == s.expires > now

CleanupSessions ==
    /\ \E s \in sessions : ~Retained(s)
    /\ sessions' = {s \in sessions : Retained(s)}
    /\ UNCHANGED <<now, accounts, erased, issued, page, call, started, faults>>

(* An answer and the retry that follows it do not outlast an access token.  *)
TimePasses ==
    /\ now < MaxNow
    /\ \A c \in Calls : call[c].pc \notin {"rotated", "retry"}
    /\ now' = now + 1
    /\ UNCHANGED <<accounts, erased, sessions, issued, page, call, started, faults>>

Next ==
    \/ \E c \in Calls :
          \/ StartLogin(c) \/ FindUser(c) \/ WriteLogin(c) \/ ReceiveLogin(c)
          \/ StartCall(c) \/ Operation(c) \/ ReadSession(c) \/ Rotate(c)
          \/ StoreTokens(c) \/ Retry(c) \/ LoseReply(c)
    \/ \E u \in Users : DeleteUserData(u)
    \/ CleanupSessions
    \/ TimePasses

(* Celery beat runs the retention job again and again.                      *)
Fairness == WF_vars(CleanupSessions)

Spec == Init /\ [][Next]_vars /\ Fairness

-----------------------------------------------------------------------------
(* The shape of the state.                                                  *)
Access   == [sub: UserIds \cup {Nobody}, exp: Nat]
PageType == [tokens: [access: Access, refresh: 0..issued], login: 0..issued]
CallType == [pc: {"idle", "login", "write", "loggedin", "send", "refresh",
                  "rotate", "rotated", "retry"},
             access: Access, refresh: 0..issued,
             user: UserIds \cup {Nobody}, row: 0..issued]

TypeOK ==
    /\ now \in 0..MaxNow
    /\ accounts \subseteq UserIds
    /\ erased \in [Users -> 0..MaxErasures]
    /\ sessions \subseteq Session
    /\ issued \in 0..MaxStarts
    /\ page \in [Pages -> PageType]
    /\ call \in [Calls -> CallType]
    /\ started \in 0..MaxStarts
    /\ faults \in 0..MaxFaults

(* However logins of one user and deletions of the account overlap, there   *)
(* is one account per Telegram id, every session belongs to an account that *)
(* exists, and a token leads to one session (upsert_telegram_user, whose    *)
(* lookup may be stale, and delete_user_data).                              *)
NoGhosts ==
    /\ \A a, b \in accounts : a[1] = b[1] => a = b
    /\ \A s \in sessions : s.owner \in accounts
    /\ \A s, t \in sessions : s.id = t.id \/ s.token = t.token => s = t

(* docs/privacy-data-retention.md keeps a session "Until expiration or      *)
(* logout": while the session a page signed in to exists and has not        *)
(* expired, the page, once its call is answered, holds its current token.   *)
(* For pages that call one thing at a time, until an answer is lost or a    *)
(* retried operation fails (withAuthRetry signs the page out on both).      *)
OneCallEach == \A c, d \in Calls : PageOf[c] = PageOf[d] => c = d

SessionLasts ==
    OneCallEach /\ faults = 0 =>
        \A p \in Pages \ Bots : \A s \in sessions :
            s.id = page[p].login /\ s.expires >= now /\ Quiet(p)
            => page[p].tokens.refresh = s.token

(* Every session that has expired is removed in the end: those the bot      *)
(* opens for each message are held by nobody.                               *)
ExpiredRemoved ==
    \A id \in 1..MaxStarts :
        (\E s \in sessions : s.id = id /\ s.expires <= now)
        ~> ~(\E s \in sessions : s.id = id /\ s.expires <= now)

=============================================================================
