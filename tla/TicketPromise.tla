--------------------------- MODULE TicketPromise ---------------------------
(***************************************************************************)
(* What the bus promises to whoever files a ticket and waits for its       *)
(* outcome.  A ticket is pending from its submission until it ends, and    *)
(* only an operator gives it another life.  A life ends once, answered or  *)
(* not; its answer may be told any number of times, as long as it lasts,   *)
(* and nothing else is ever told.  DeliveryBus implements it: leases,      *)
(* attempts, deliveries and their loss are not seen from here.             *)
(***************************************************************************)
EXTENDS Naturals

CONSTANT Tickets

VARIABLES
    outcome,   \* "none" before submission, then "pending" or how the ticket ended
    life,      \* how often the ticket has been reopened
    answer,    \* the answer of its present life, "none" while there is none
    notices    \* what consumers have been told

vars == <<outcome, life, answer, notices>>

Final == {"done", "failed", "cancelled", "expired", "dead"}

Init ==
    /\ outcome = [t \in Tickets |-> "none"]
    /\ life = [t \in Tickets |-> 0]
    /\ answer = [t \in Tickets |-> "none"]
    /\ notices = {}

Submit(t) ==
    /\ outcome[t] = "none"
    /\ outcome' = [outcome EXCEPT ![t] = "pending"]
    /\ UNCHANGED <<life, answer, notices>>

\* A pending ticket is done or has failed, and there is something to tell.
Answer(t, s) ==
    /\ outcome[t] = "pending"
    /\ outcome' = [outcome EXCEPT ![t] = s]
    /\ answer' = [answer EXCEPT ![t] = s]
    /\ UNCHANGED <<life, notices>>

\* Pending tickets end without an answer: cancelled, expired, out of attempts.
End(T) ==
    /\ \A t \in T : outcome[t] = "pending"
    /\ \E how \in [T -> Final] :
           outcome' = [t \in Tickets |-> IF t \in T THEN how[t] ELSE outcome[t]]
    /\ UNCHANGED <<life, answer, notices>>

Notify(T) ==
    /\ \A t \in T : answer[t] # "none"
    /\ notices' = notices \cup {[ticket |-> t, life |-> life[t], says |-> answer[t]] : t \in T}
    /\ UNCHANGED <<outcome, life, answer>>

\* The operator: what is done, cancelled or expired is never reopened.
Reopen(t) ==
    /\ outcome[t] \in {"pending", "failed", "dead"}
    /\ outcome' = [outcome EXCEPT ![t] = "pending"]
    /\ life' = [life EXCEPT ![t] = @ + 1]
    /\ answer' = [answer EXCEPT ![t] = "none"]
    /\ UNCHANGED notices

Next ==
    \/ \E t \in Tickets : Submit(t) \/ Reopen(t) \/ \E s \in {"done", "failed"} : Answer(t, s)
    \/ \E T \in SUBSET Tickets : End(T) \/ Notify(T)

Spec == Init /\ [][Next]_vars

=============================================================================
