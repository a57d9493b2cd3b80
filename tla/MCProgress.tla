----------------------------- MODULE MCProgress -----------------------------
(* One process, a request that plans one task: what gets done in the end.   *)
EXTENDS CollectionWorkers

CONSTANTS w1, agent, mr, mc, request, task

MCMessages == {mr, mc}
MCTickets == {request, task}
MCWorkers == {w1}
MCWorkerIds == {agent}
MCIdOf == [w \in {w1} |-> agent]
MCTicketOf == [m \in {mr, mc} |-> IF m = mr THEN request ELSE task]
MCEnvelopeOf == [t \in {request, task} |-> IF t = request THEN mr ELSE mc]
MCExpirable == {}
MCDemandTickets == {request, task}
MCRequests == {request}
MCChildrenOf == [q \in {request} |-> <<task>>]
MCScheduled == {request}
MCByHand == {}
MCMicTasks == {task}
MCOutcomes == {[run |-> "success", action |-> "done"], [run |-> "failed", action |-> "retry"]}
=============================================================================
