----------------------------- MODULE EventOutbox -----------------------------
(***************************************************************************)
(* What NF Compose promises an IN_ORDER consumer ("guaranteed delivery" in *)
(* README.md): every published event stays pending until it has reached    *)
(* the consumer or is given up, and an event is not delivered while an     *)
(* earlier one that was published in time is still on its way. Delivering  *)
(* an event again is allowed. ConsumerDelivery is shown to implement this. *)
(***************************************************************************)
EXTENDS Naturals

CONSTANTS
    Events,     \* the events, a number is the place in the order
    MayGiveUp   \* the consumer has a retry_max

VARIABLES
    status,     \* future, pending or closed
    reached,    \* the events the consumer has processed at least once
    overtaken   \* the events published after a later one was picked up

outboxVars == <<status, reached, overtaken>>

Init ==
    /\ status = [e \in Events |-> "future"]
    /\ reached = {}
    /\ overtaken = {}

\* Only an event that is not the last one can have come too late.
MarkOvertaken(e) ==
    \/ overtaken' = overtaken
    \/ /\ \E d \in Events : e < d /\ status[d] # "future"
       /\ overtaken' = overtaken \cup {e}

Publish(e) ==
    /\ status[e] = "future"
    /\ status' = [status EXCEPT ![e] = "pending"]
    /\ MarkOvertaken(e)
    /\ UNCHANGED reached

\* The head of the line, or an event that had its turn before.
Deliver(e) ==
    /\ status[e] = "pending"
    /\ \A d \in Events : d < e /\ status[d] = "pending"
                         => d \in reached \cup overtaken
    /\ reached' = reached \cup {e}
    /\ UNCHANGED <<status, overtaken>>

\* Delivered events are acknowledged; with them at most one is given up.
Settle(S) ==
    /\ \A e \in S : status[e] = "pending"
    /\ \/ S \subseteq reached
       \/ MayGiveUp /\ \E g \in S : S \ {g} \subseteq reached
    /\ status' = [e \in Events |-> IF e \in S THEN "closed" ELSE status[e]]
    /\ UNCHANGED <<reached, overtaken>>

\* Truncating the data withdraws what is pending and announces itself.
Truncate(e) ==
    /\ status[e] = "future"
    /\ status' = [d \in Events |-> IF d = e THEN "pending"
                                   ELSE IF status[d] = "future" THEN "future"
                                   ELSE "closed"]
    /\ MarkOvertaken(e)
    /\ UNCHANGED reached

Next ==
    \/ \E e \in Events : Publish(e) \/ Deliver(e) \/ Truncate(e)
    \/ \E S \in SUBSET Events : Settle(S)

Spec == Init /\ [][Next]_outboxVars
============================================================================
