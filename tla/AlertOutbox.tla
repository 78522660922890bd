---------------------------- MODULE AlertOutbox ----------------------------
(* What the notifications table promises its users, whatever transactions,  *)
(* locks and retries bring it about: alerts are published together or not   *)
(* at all, one live alert per topic, delivered only after publication and   *)
(* at least once before they are shown as sent.                             *)
CONSTANTS
    Msgs,         \* every alert that may ever exist
    Topic(_)      \* what an alert is about: live alerts have distinct topics

VARIABLES
    state,        \* none, created, sent, failed or gone
    inbox         \* alerts that have reached their reader

LiveMsgs == {m \in Msgs : state[m] \in {"created", "sent", "failed"}}

Init ==
    /\ state = [m \in Msgs |-> "none"]
    /\ inbox = {}

(* One generation run: its alerts appear together, on topics nothing live   *)
(* is about.                                                                *)
Publish(S) ==
    /\ \A m \in S : state[m] = "none"
    /\ \A m \in S, n \in S \cup LiveMsgs : Topic(m) = Topic(n) => m = n
    /\ state' = [m \in Msgs |-> IF m \in S THEN "created" ELSE state[m]]
    /\ UNCHANGED inbox

(* An alert may be delivered again, even after it was settled or removed:   *)
(* whoever read it as created may be late.                                  *)
Deliver(m) ==
    /\ state[m] # "none"
    /\ inbox' = inbox \cup {m}
    /\ UNCHANGED state

(* One dispatch: what it reports as sent has been delivered.                *)
Settle(S, F) ==
    /\ S \subseteq inbox \cap LiveMsgs
    /\ F \subseteq LiveMsgs
    /\ state' = [m \in Msgs |-> IF m \in S THEN "sent"
                                ELSE IF m \in F THEN "failed" ELSE state[m]]
    /\ UNCHANGED inbox

(* Retention and account deletion.                                          *)
Remove(S) ==
    /\ S \subseteq LiveMsgs
    /\ state' = [m \in Msgs |-> IF m \in S THEN "gone" ELSE state[m]]
    /\ UNCHANGED inbox

Next ==
    \/ \E S \in SUBSET Msgs : Publish(S) \/ Remove(S)
    \/ \E m \in Msgs : Deliver(m)
    \/ \E S, F \in SUBSET Msgs : Settle(S, F)

Spec == Init /\ [][Next]_<<state, inbox>>
=============================================================================
