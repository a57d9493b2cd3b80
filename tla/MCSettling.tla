----------------------------- MODULE MCSettling -----------------------------
(* Two processes under one worker id that settle one MIC task: the message its *)
(* creator published, one an operator may publish by hand, a retry, expiry and *)
(* the cancelling of its demand.                                               *)
EXTENDS CollectionWorkers, TLC

CONSTANTS w1, w2, agent, mc, mh, task

Symmetry == Permutations({w1, w2})
MCMessages == {mc, mh}
MCTickets == {task}
MCWorkers == {w1, w2}
MCWorkerIds == {agent}
MCIdOf == [w \in {w1, w2} |-> agent]
MCTicketOf == [m \in {mc, mh} |-> task]
MCEnvelopeOf == [t \in {task} |-> mc]
MCExpirable == {mc}
MCDemandTickets == {task}
MCRequests == {}
MCChildrenOf == <<>>
MCScheduled == {task}
MCByHand == {mh}
MCMicTasks == {task}
MCOutcomes == {[run |-> "success", action |-> "done"], [run |-> "success", action |-> "failed"],
               [run |-> "failed", action |-> "retry"]}
=============================================================================
