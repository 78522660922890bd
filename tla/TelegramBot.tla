----------------------------- MODULE TelegramBot -----------------------------
(* The watchlist commands of the bot (src/telegram_bot/bot/router.py and     *)
(* backend_client.py) on one user's lists, by way of the API                 *)
(* (app/api/v1/watchlists.py), which the web app uses at the same time.      *)
EXTENDS Absence, Naturals, Sequences, FiniteSets

CONSTANTS
    Lists,
    Typed, Starts,           \* what may be typed, [Typed -> lists whose id starts so]
    ShowLimit, FindLimit,    \* list_watchlists: 5 to show, 20 to look up
    Messages,                \* messages the bot handles at a time
    Calls,                   \* requests the API handles at a time
    MaxCalls                 \* bound: requests that change a list, in all

Verbs   == {"pause", "resume", "archive", "restore", "delete"}
Replies == Verbs \cup {"deleted", "unknown", "ambiguous", "unavailable"}

ASSUME TelegramBotAssumption ==
    /\ None \notin Lists \cup Typed \cup Calls \cup Replies /\ None \notin BOOLEAN
    /\ IsFiniteSet(Lists) /\ Starts \in [Typed -> SUBSET Lists]
    /\ {ShowLimit, FindLimit} \subseteq Nat /\ ShowLimit <= FindLimit

VARIABLES
    shelf,     \* the lists the user has made, newest first
    deleted,   \* of these, the ones that are gone
    flags,     \* [Lists -> active and archived]
    message,   \* [Messages -> state of its handler]
    call,      \* [Calls -> state of its handler]
    made,      \* history: requests so far
    shown,     \* history: lists the last /watchlists showed, as long as they can be named
    overlapped \* history: whether two requests were at work on one list

botVars == <<shelf, deleted, flags, message, call, made, shown, overlapped>>

(* history: meant are the lists shown when the command was typed, as long   *)
(* as they can be named.                                                    *)
NoMessage == [pc |-> "idle", command |-> None, typed |-> None, meant |-> {},
              found |-> None, gone |-> FALSE, call |-> None, reply |-> None]
NoCall    == [verb |-> None, list |-> None, gone |-> FALSE, sets |-> None]

Fresh == [active |-> TRUE, archived |-> FALSE]

(* Lists in the order of created_at.                                        *)
InSomeOrder(S) == {f \in [1..Cardinality(S) -> S] : \A i, j \in DOMAIN f : i # j => f[i] # f[j]}

BotInit ==
    /\ \E S \in SUBSET Lists : shelf \in InSomeOrder(S)
    /\ flags = [l \in Lists |-> Fresh]
    /\ message = [m \in Messages |-> NoMessage]
    /\ call = [c \in Calls |-> NoCall]
    /\ deleted = {} /\ made = 0 /\ shown = {}
    /\ overlapped = FALSE

Made == {shelf[n] : n \in DOMAIN shelf}
Kept == Made \ deleted

-----------------------------------------------------------------------------
(* Mutant: archived lists are listed too.                                   *)
UnarchivedAll == {n \in DOMAIN shelf : shelf[n] \in Kept}

(* GET /watchlists?archived=false, before the limit.                        *)
Unarchived == {n \in DOMAIN shelf : shelf[n] \in Kept /\ ~flags[shelf[n]].archived}

Newest(limit) ==
    {shelf[n] : n \in {k \in Unarchived : Cardinality({i \in Unarchived : i < k}) < limit}}

(* What is archived, deleted, or no longer among the newest can not be      *)
(* named from then on.                                                      *)
Remain(S) == S \cap Newest(FindLimit)'

(* /watchlists.                                                             *)
ShowLists(m) ==
    /\ message[m].pc = "idle"
    /\ shown' = Newest(ShowLimit)
    /\ UNCHANGED <<shelf, deleted, flags, message, call, made, overlapped>>

(* /pause, /resume or /archive with the beginning of an id.                 *)
Command(m, command, p) ==
    /\ message[m].pc = "idle" /\ made < MaxCalls
    /\ message' = [message EXCEPT ![m] =
          [NoMessage EXCEPT !.pc = "lookup", !.command = command, !.typed = p,
                     !.meant = shown]]
    /\ UNCHANGED <<shelf, deleted, flags, call, made, shown, overlapped>>

Replied(m, text) == [message EXCEPT ![m] = [NoMessage EXCEPT !.reply = text]]

(* Mutant: paused lists are not looked for.                                 *)
NamedActive(p) == {l \in Newest(FindLimit) \cap Starts[p] : flags[l].active}

(* Mutant: the first of several is taken.                                   *)
NamedFirst(p) ==
    LET found == {n \in DOMAIN shelf : shelf[n] \in Newest(FindLimit) \cap Starts[p]}
    IN  {shelf[n] : n \in {k \in found : \A i \in found : k <= i}}

(* _resolve_watchlist.                                                      *)
Named(p) == Newest(FindLimit) \cap Starts[p]

LookUp(m) ==
    /\ message[m].pc = "lookup"
    /\ LET found == Named(message[m].typed) IN
       message' =
          IF Cardinality(found) = 1
          THEN [message EXCEPT ![m].pc = "call", ![m].found = CHOOSE l \in found : TRUE]
          ELSE Replied(m, IF found = {} THEN "unknown" ELSE "ambiguous")
    /\ UNCHANGED <<shelf, deleted, flags, call, made, shown, overlapped>>

-----------------------------------------------------------------------------
(* Mutant: archiving leaves a list active.                                  *)
EffectArchivedOnly(verb) ==
    CASE verb = "pause"   -> [active |-> FALSE, archived |-> None]
      [] verb = "archive" -> [active |-> None, archived |-> TRUE]
      [] verb = "delete"  -> [active |-> None, archived |-> None]
      [] OTHER            -> [active |-> TRUE, archived |-> FALSE]

(* What a request says of the flags; to resume is what restore does.        *)
Effect(verb) ==
    CASE verb = "pause"   -> [active |-> FALSE, archived |-> None]
      [] verb = "archive" -> [active |-> FALSE, archived |-> TRUE]
      [] verb = "delete"  -> [active |-> None, archived |-> None]
      [] OTHER            -> [active |-> TRUE, archived |-> FALSE]

(* update_watchlist: only what differs from the row that was read is        *)
(* written.                                                                 *)
Differing(l, verb) ==
    LET If(old, new) == IF new = old THEN None ELSE new
    IN  [active   |-> If(flags[l].active, Effect(verb).active),
         archived |-> If(flags[l].archived, Effect(verb).archived)]

Written(row, sets) ==
    LET Put(old, new) == IF new = None THEN old ELSE new
    IN  [active |-> Put(row.active, sets.active), archived |-> Put(row.archived, sets.archived)]

(* A handler of the API reads the list.                                     *)
Accept(c, verb, l, gone) ==
    /\ call[c] = NoCall /\ l \in Kept
    /\ made < MaxCalls /\ made' = made + 1
    /\ call' = [call EXCEPT ![c] =
          [verb |-> verb, list |-> l, gone |-> gone, sets |-> Differing(l, verb)]]
    /\ overlapped' = (overlapped \/ \E d \in Calls : call[d].list = l)
    /\ UNCHANGED <<shelf, deleted, flags, shown>>

BotCalls(m, c) ==
    /\ message[m].pc = "call"
    /\ Accept(c, message[m].command, message[m].found, message[m].gone)
    /\ message' = [message EXCEPT ![m].pc = "wait", ![m].call = c]

WebCalls(c, verb, l) ==
    /\ Accept(c, verb, l, FALSE)
    /\ UNCHANGED message

(* The web app makes a list, of a request or by itself.                     *)
WebCreates(l) ==
    /\ made < MaxCalls /\ made' = made + 1
    /\ l \in Lists \ Made
    /\ shelf' = <<l>> \o shelf
    /\ UNCHANGED <<flags, deleted, call, overlapped>>
    /\ shown' = Remain(shown)
    /\ message' = [m \in Messages |-> [message[m] EXCEPT !.meant = Remain(@)]]

(* The handler ends, and a message that waits for it is answered. Lists     *)
(* that are gone can no longer be looked up.                                *)
Answer(c, text, gone) ==
    /\ call' = [d \in Calls |-> IF d = c THEN NoCall
                                ELSE [call[d] EXCEPT !.gone = @ \/ call[d].list \in gone]]
    /\ message' = [m \in Messages |->
          IF message[m].call = c THEN [NoMessage EXCEPT !.reply = text]
          ELSE [message[m] EXCEPT !.gone = @ \/ message[m].found \in gone,
                                  !.meant = Remain(@)]]
    /\ shown' = Remain(shown)
    /\ UNCHANGED <<made, overlapped>>

(* The UPDATE is committed, the list read again and returned.               *)
CommitUpdate(c) ==
    LET l == call[c].list IN
    /\ call[c].verb \notin {None, "delete"} /\ l \in Kept
    /\ flags' = [flags EXCEPT ![l] = Written(@, call[c].sets)]
    /\ UNCHANGED <<shelf, deleted>>
    /\ Answer(c, call[c].verb, IF flags'[l].archived THEN {l} ELSE {})

CommitDelete(c) ==
    /\ call[c].verb = "delete"
    /\ deleted' = deleted \cup {call[c].list}
    /\ UNCHANGED <<shelf, flags>>
    /\ Answer(c, "deleted", {call[c].list})

(* The database fails, a notification refers to a list that is to be        *)
(* deleted, or a list that is to be changed is no longer there.             *)
Fail(c) ==
    /\ call[c] # NoCall
    /\ UNCHANGED <<shelf, deleted, flags>>
    /\ Answer(c, "unavailable", {})

(* The backend refuses a message before its request for the list is made:   *)
(* 401, 404 or 500.                                                         *)
Refuse(m) ==
    /\ message[m].pc \in {"lookup", "call"}
    /\ message' = Replied(m, "unavailable")
    /\ UNCHANGED <<shelf, deleted, flags, call, made, shown, overlapped>>

(* A timeout of 10 seconds or an error of the connection is no              *)
(* BackendClientError: the message is not answered, and what the API is     *)
(* doing for it goes on.                                                    *)
Drop(m) ==
    /\ message[m].pc # "idle"
    /\ message' = Replied(m, None)
    /\ UNCHANGED <<shelf, deleted, flags, call, made, shown, overlapped>>

BotNext ==
    \/ \E m \in Messages :
          \/ ShowLists(m) \/ LookUp(m) \/ Refuse(m) \/ Drop(m)
          \/ \E command \in {"pause", "resume", "archive"}, p \in Typed :
                Command(m, command, p)
          \/ \E c \in Calls : BotCalls(m, c)
    \/ \E c \in Calls :
          \/ CommitUpdate(c) \/ CommitDelete(c) \/ Fail(c)
          \/ \E verb \in {"pause", "archive", "restore", "delete"}, l \in Lists :
                WebCalls(c, verb, l)
    \/ \E l \in Lists : WebCreates(l)

BotSpec == BotInit /\ [][BotNext]_botVars

-----------------------------------------------------------------------------
(* A command that fits a list the user had been shown when it was typed is  *)
(* carried out on that list, unless it was archived or deleted since or     *)
(* pushed out of the newest 20.                                             *)
RightList ==
    \A m \in Messages : message[m].pc = "call" =>
        message[m].meant \cap Starts[message[m].typed] \subseteq {message[m].found}

(* What was shown can be named for as long: the bot knows such a list by    *)
(* its id or finds the id too short.                                        *)
ShownIsFound ==
    [][\A m \in Messages :
          message[m].pc = "lookup" /\ message'[m].reply = "unknown"
              => shown \cap Starts[message[m].typed] = {}]_botVars

(* /resume brings no archived list back: it restores one only when it was   *)
(* archived after the bot had looked it up.                                 *)
ResumeIsNoRestore ==
    [][\A c \in Calls :
          call[c].verb = "resume" /\ call'[c] = NoCall
          /\ flags[call[c].list].archived /\ ~flags'[call[c].list].archived
              => call[c].gone]_botVars

(* An archived list is not active, unless two requests were at work on one  *)
(* list: each writes the fields it found different.                         *)
ArchivedIsPaused ==
    overlapped \/ \A l \in Kept : flags[l].archived => ~flags[l].active

(* Commands typed to the bot reach the list they are meant for and do to it *)
(* what they say.                                                           *)
CommandsAsMeant ==
    [](RightList /\ ArchivedIsPaused) /\ ShownIsFound /\ ResumeIsNoRestore

=============================================================================
