----------------------------- MODULE MCPlanning -----------------------------
(* Two processes under one worker id, a request that plans one task, and the *)
(* delivery of each.  The demand behind both may be cancelled.               *)
EXTENDS CollectionWorkers, TLC

CONSTANTS w1, w2, agent, mr, mc, request, task

Symmetry == Permutations({w1, w2})
MCMessages == {mr, mc}
MCTickets == {request, task}
MCWorkers == {w1, w2}
MCWorkerIds == {agent}
MCIdOf == [w \in {w1, w2} |-> agent]
MCTicketOf == [m \in {mr, mc} |-> IF m = mr THEN request ELSE task]
MCEnvelopeOf == [t \in {request, task} |-> IF t = request THEN mr ELSE mc]
MCExpirable == {}
MCDemandTickets == {request, task}
MCRequests == {request}
MCChildrenOf == [q \in {request} |-> <<task>>]
MCScheduled == {request}
MCByHand == {}
MCMicTasks == {task}
MCOutcomes == {[run |-> "success", action |-> "done"]}
=============================================================================
