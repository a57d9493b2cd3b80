--------------------------- MODULE MCCapabilityCheck ---------------------------
(* The daily capability check: the runtime publishes its ticket under the key   *)
(* "capability_check" (runtime.py), recovery under "collection_task".           *)
EXTENDS CollectionWorkers

CONSTANTS w1, w2, agent, scheduled, republished, check

MCMessages == {scheduled, republished}
MCTickets == {check}
MCWorkers == {w1, w2}
MCWorkerIds == {agent}
MCIdOf == [w \in {w1, w2} |-> agent]
MCTicketOf == [m \in {scheduled, republished} |-> check]
MCEnvelopeOf == [t \in {check} |-> scheduled]
MCRecoveryEnvelopeOf == [t \in {check} |-> republished]
MCExpirable == {}
MCDemandTickets == {}
MCRequests == {}
MCChildrenOf == <<>>
MCScheduled == {check}
MCByHand == {}
MCMicTasks == {}
MCOutcomes == {[run |-> "success", action |-> "done"]}
=============================================================================
