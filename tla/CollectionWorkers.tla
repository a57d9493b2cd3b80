------------------------- MODULE CollectionWorkers -------------------------
(***************************************************************************)
(* The processes that share the bus store: agent workers running          *)
(* run_once (plan a request into task tickets, or execute a task and      *)
(* settle it), the runtime controller that compiles requests and cancels  *)
(* them, recovery, and the operator.  A process may crash between any two *)
(* of its transactions.  Each step of a worker is one transaction of      *)
(* DeliveryBus or of the data store, so the steps of this module are      *)
(* exactly the interleavings SQLite allows.                                *)
(***************************************************************************)
EXTENDS DeliveryBus, Sequences

CONSTANTS
    Requests,     \* the COLLECTION_REQUEST_TICKETs; the other tickets are tasks
    ChildrenOf,   \* the task tickets a request plans, in planning order
    Scheduled,    \* tickets created outside these deliveries: requests, the
                  \* capability check, tasks whose planner is not in the instance
    Outcomes,     \* what a tool call may come to, among ToolOutcomes
    MicTasks,     \* tasks that look for an earlier successful run before a tool call
    EnvelopeOf,   \* the message its creator publishes for a ticket
    RecoveryEnvelopeOf, \* the message recovery publishes for an orphan ticket
    ByHand        \* messages an operator publishes for a ticket: no key, so always new rows

\* status of the saved run, and what _tool_message_action makes of the result.
Verdict == [run: {"success", "failed"}, action: {"done", "failed", "retry"}]
ToolOutcomes == Verdict \ {[run |-> "failed", action |-> "done"]}

ASSUME WorkersAssumption ==
    /\ Requests \subseteq Tickets
    /\ ChildrenOf \in [Requests -> Seq(Tickets \ Requests)]
    /\ Scheduled \subseteq Tickets
    /\ Outcomes \subseteq ToolOutcomes
    /\ MicTasks \subseteq Tickets \ Requests
    /\ EnvelopeOf \in [Tickets -> Messages]
    /\ RecoveryEnvelopeOf \in [Tickets -> Messages]

\* A message is published with the id of its ticket.  The creator of a MIC task and
\* recovery publish it under one key, so only an operator gives it a further message.
ASSUME DeliveryAssumption ==
    /\ \A t \in Tickets : TicketOf[EnvelopeOf[t]] = t
    /\ ByHand \subseteq Messages
    /\ \A t \in Tickets : EnvelopeOf[t] \notin ByHand /\ RecoveryEnvelopeOf[t] \notin ByHand
    /\ \A m, n \in Messages \ ByHand :
           TicketOf[m] = TicketOf[n] /\ TicketOf[m] \in MicTasks => m = n

\* A planned task carries the demand_id of its request, and nobody but a planner
\* creates it.
ASSUME PlanAssumption ==
    \A q \in Requests : \A i \in DOMAIN ChildrenOf[q] :
        /\ ChildrenOf[q][i] \notin Scheduled
        /\ q \in DemandTickets => ChildrenOf[q][i] \in DemandTickets

VARIABLES
    pc,       \* where each worker stands in run_once
    child,    \* index of the task a worker plans next
    verdict,  \* the tool outcome a worker is settling
    rows,     \* tickets with a collection_tasks row
    runs,     \* collection_runs: one per ticket and execution key
    orphans   \* tickets recovery has read and not yet republished

workerVars == <<pc, child, verdict, rows, runs, orphans>>
vars == <<msgs, tickets, receipts, results, held, retries,
          pc, child, verdict, rows, runs, orphans>>

Steps == {"idle", "read", "republish", "claim", "create", "row", "send",
          "check", "reuse", "start", "tool", "persist", "settle", "deliver", "ack", "nack"}

NoVerdict == [run |-> "failed", action |-> "retry"]

Run == [ticket: Tickets, generation: Nat, status: {"success", "failed"}]

\* A process holds a delivery exactly while it is inside run_once.
WorkersTypeOK ==
    /\ BusTypeOK
    /\ pc \in [Workers -> Steps]
    /\ child \in [Workers -> Nat \ {0}]
    /\ verdict \in [Workers -> Verdict]
    /\ rows \subseteq Tickets \ Requests
    /\ runs \subseteq Run
    /\ orphans \subseteq Tickets
    /\ \A w \in Workers : pc[w] = "idle" <=> held[w] = NoLease

TicketHeld(w) == TicketOf[held[w].message]
GoTo(w, step) == pc' = [pc EXCEPT ![w] = step]

\* The local state of run_once ends with it.
BecomeIdle(w) ==
    /\ GoTo(w, "idle")
    /\ child' = [child EXCEPT ![w] = 1]
    /\ verdict' = [verdict EXCEPT ![w] = NoVerdict]

\* WorkRevoked, or a loss seen by the keepalive: nothing more is written.
Lost(w) ==
    /\ Abandon(w)
    /\ BecomeIdle(w)
    /\ UNCHANGED <<rows, runs, orphans>>

-----------------------------------------------------------------------------
(* run_once and _handle_message                                            *)

Take(w, m) ==
    /\ pc[w] = "idle"
    /\ LeaseMessage(w, m)
    /\ GoTo(w, "read")
    /\ UNCHANGED <<child, verdict, rows, runs, orphans>>

ReadTicket(w) ==
    /\ pc[w] = "read"
    /\ GoTo(w, IF Terminal(TicketHeld(w)) THEN "republish" ELSE "claim")
    /\ UNCHANGED busVars
    /\ UNCHANGED <<child, verdict, rows, runs, orphans>>

\* A delivery of a finished ticket only repairs its notification.
RepublishFinished(w) ==
    /\ pc[w] = "republish"
    /\ PublishReadyResults({TicketHeld(w)})
    /\ GoTo(w, "ack")
    /\ UNCHANGED <<child, verdict, rows, runs, orphans>>

Claim(w) ==
    /\ pc[w] = "claim"
    /\ UpdateStatus(w, "in_progress", FALSE)
    /\ GoTo(w, IF TicketHeld(w) \in Requests THEN "create" ELSE "check")
    /\ UNCHANGED <<child, verdict, rows, runs, orphans>>

-----------------------------------------------------------------------------
(* _handle_collection_request: for each planned task a ticket, a row and a *)
(* message, each in its own transaction.                                   *)

Planned(w) == ChildrenOf[TicketHeld(w)]

\* Regression: a task whose ticket exists is taken for planned and skipped.
CreateChildOnlyIfNew(w) ==
    /\ pc[w] = "create"
    /\ child[w] <= Len(Planned(w))
    /\ CreateTaskTicket(w, Planned(w)[child[w]])
    /\ IF tickets[Planned(w)[child[w]]] = "absent"
       THEN GoTo(w, "row") /\ UNCHANGED child
       ELSE child' = [child EXCEPT ![w] = @ + 1] /\ UNCHANGED pc
    /\ UNCHANGED <<verdict, rows, runs, orphans>>

CreateChild(w) ==
    /\ pc[w] = "create"
    /\ child[w] <= Len(Planned(w))
    /\ CreateTaskTicket(w, Planned(w)[child[w]])
    /\ GoTo(w, "row")
    /\ UNCHANGED <<child, verdict, rows, runs, orphans>>

\* _save_task: INSERT OR IGNORE into the data store, not fenced.
SaveChildRow(w) ==
    /\ pc[w] = "row"
    /\ rows' = rows \cup {Planned(w)[child[w]]}
    /\ GoTo(w, "send")
    /\ UNCHANGED busVars
    /\ UNCHANGED <<child, verdict, runs, orphans>>

SendChild(w) ==
    /\ pc[w] = "send"
    /\ PublishTask(w, EnvelopeOf[Planned(w)[child[w]]])
    /\ child' = [child EXCEPT ![w] = @ + 1]
    /\ GoTo(w, "create")
    /\ UNCHANGED <<verdict, rows, runs, orphans>>

FinishRequest(w) ==
    /\ pc[w] = "create"
    /\ child[w] > Len(Planned(w))
    /\ UpdateStatus(w, "done", FALSE)
    /\ GoTo(w, "ack")
    /\ UNCHANGED <<child, verdict, rows, runs, orphans>>

-----------------------------------------------------------------------------
(* _handle_collection_task                                                 *)

SuccessfulRun(t) == \E r \in runs : r.ticket = t /\ r.status = "success"

\* Tool disabled, capability check or unknown type: done, without a receipt.
FinishWithoutResult(w) ==
    /\ pc[w] = "check"
    /\ UpdateStatus(w, "done", FALSE)
    /\ GoTo(w, "ack")
    /\ UNCHANGED <<child, verdict, rows, runs, orphans>>

\* _handle_circuit_open: no tool call, the ticket goes back to open.
CircuitOpen(w) ==
    /\ pc[w] = "check"
    /\ UpdateStatus(w, "open", FALSE)
    /\ GoTo(w, "nack")
    /\ UNCHANGED <<child, verdict, rows, runs, orphans>>

\* Regression: every delivery calls the tool again.
LookUpNothing(w) ==
    /\ pc[w] = "check"
    /\ GoTo(w, "start")
    /\ UNCHANGED busVars
    /\ UNCHANGED <<child, verdict, rows, runs, orphans>>

\* _successful_mic_run: a redelivery looks for the run an earlier one saved.
LookUpRun(w) ==
    /\ pc[w] = "check"
    /\ GoTo(w, IF TicketHeld(w) \in MicTasks /\ SuccessfulRun(TicketHeld(w))
               THEN "reuse" ELSE "start")
    /\ UNCHANGED busVars
    /\ UNCHANGED <<child, verdict, rows, runs, orphans>>

\* The task is settled from the saved run, without a tool call.
ReuseRun(w) ==
    /\ pc[w] = "reuse"
    /\ RequireWork(w)
    /\ \E a \in {"done", "failed"} :
           verdict' = [verdict EXCEPT ![w] = [run |-> "success", action |-> a]]
    /\ GoTo(w, "settle")
    /\ UNCHANGED busVars
    /\ UNCHANGED <<child, rows, runs, orphans>>

\* _assert_current_work just before the tool is called.
CallTool(w) ==
    /\ pc[w] = "start"
    /\ RequireWork(w)
    /\ GoTo(w, "tool")
    /\ UNCHANGED busVars
    /\ UNCHANGED <<child, verdict, rows, runs, orphans>>

\* lease_heartbeat while the tool runs.
KeepAlive(w) ==
    /\ pc[w] = "tool"
    /\ ExtendLease(w)
    /\ UNCHANGED workerVars

ToolReturns(w) ==
    /\ pc[w] = "tool"
    /\ \E v \in Outcomes : verdict' = [verdict EXCEPT ![w] = v]
    /\ GoTo(w, "persist")
    /\ UNCHANGED busVars
    /\ UNCHANGED <<child, rows, runs, orphans>>

\* Regression: save_run outside result_write_guard.
PersistRunUnguarded(w) ==
    /\ pc[w] = "persist"
    /\ runs' = runs \cup {[ticket |-> TicketHeld(w), generation |-> held[w].generation,
                           status |-> verdict[w].run]}
    /\ GoTo(w, "settle")
    /\ UNCHANGED busVars
    /\ UNCHANGED <<child, verdict, rows, orphans>>

\* save_run under result_write_guard: the bus lock is held while the row is written.
PersistRun(w) ==
    /\ pc[w] = "persist"
    /\ RequireWork(w)
    /\ runs' = runs \cup {[ticket |-> TicketHeld(w), generation |-> held[w].generation,
                           status |-> verdict[w].run]}
    /\ GoTo(w, "settle")
    /\ UNCHANGED busVars
    /\ UNCHANGED <<child, verdict, rows, orphans>>

\* The retry branch of _finish_mic_task and its siblings.
ScheduleRetry(w) ==
    /\ pc[w] = "settle"
    /\ verdict[w].action = "retry"
    /\ UpdateStatus(w, "open", FALSE)
    /\ GoTo(w, "nack")
    /\ verdict' = [verdict EXCEPT ![w] = NoVerdict]
    /\ UNCHANGED <<child, rows, runs, orphans>>

\* _complete_task: outcome and receipt in one transaction ...
CompleteTask(w) ==
    /\ pc[w] = "settle"
    /\ verdict[w].action # "retry"
    /\ UpdateStatus(w, verdict[w].action, TRUE)
    /\ GoTo(w, "deliver")
    /\ verdict' = [verdict EXCEPT ![w] = NoVerdict]
    /\ UNCHANGED <<child, rows, runs, orphans>>

\* ... then the notification in another.
DeliverResult(w) ==
    /\ pc[w] = "deliver"
    /\ PublishReadyResults({TicketHeld(w)})
    /\ GoTo(w, "ack")
    /\ UNCHANGED <<child, verdict, rows, runs, orphans>>

\* Regression: the acknowledgement does not name the lease it belongs to.
AckDeliveryByMessage(w) ==
    /\ pc[w] = "ack"
    /\ msgs' = [msgs EXCEPT ![held[w].message] = Released(@, "done")]
    /\ Forget(w)
    /\ BecomeIdle(w)
    /\ UNCHANGED <<tickets, receipts, results, retries>>
    /\ UNCHANGED <<rows, runs, orphans>>

AckDelivery(w) ==
    /\ pc[w] = "ack"
    /\ Ack(w)
    /\ BecomeIdle(w)
    /\ UNCHANGED <<rows, runs, orphans>>

NackDelivery(w) ==
    /\ pc[w] = "nack"
    /\ Nack(w, TRUE)
    /\ BecomeIdle(w)
    /\ UNCHANGED <<rows, runs, orphans>>

-----------------------------------------------------------------------------
(* What else can happen to a worker                                        *)

\* A fenced write that finds the delivery or its ticket gone.
Fenced == {"claim", "create", "send", "check", "reuse", "start", "tool", "persist", "settle"}

Revoked(w) ==
    /\ pc[w] \in Fenced
    /\ ~RequireWork(w)
    /\ Lost(w)

\* The exception handler of run_once: give up, ack a finished ticket, or nack.
StepFails(w) ==
    /\ pc[w] \notin {"idle", "ack", "nack"}
    /\ \/ ~Owns(w) /\ Lost(w)
       \/ /\ Owns(w)
          /\ GoTo(w, IF Terminal(TicketHeld(w)) THEN "ack" ELSE "nack")
          /\ UNCHANGED busVars
          /\ UNCHANGED <<child, verdict, rows, runs, orphans>>

\* The process dies, or leaves the delivery to the lease timeout because an
\* operator revoked its attempt.
Crash(w) == pc[w] # "idle" /\ Lost(w)

-----------------------------------------------------------------------------
(* Runtime controller, recovery, operator, time                            *)

Compile(t) == t \in Scheduled /\ CreateTicket(t) /\ UNCHANGED workerVars

SendScheduled(t) == t \in Scheduled /\ Publish(EnvelopeOf[t]) /\ UNCHANGED workerVars

\* queue publish --ticket-id: another message for a ticket that has one already.
PublishByHand(m) ==
    /\ m \in ByHand
    /\ msgs[m].status = "absent"
    /\ Publish(m)
    /\ UNCHANGED workerVars

\* The live tickets whose republication inserts a message: the rest is a no-op, now
\* and later, because a message once inserted keeps its key.
Orphaned == {t \in Tickets : Live(t) /\ msgs[RecoveryEnvelopeOf[t]].status = "absent"}

\* Regression: recovery republishes task tickets only.
ScanOrphanTasks ==
    /\ orphans = {}
    /\ orphans' = {t \in Orphaned : t \notin Requests}
    /\ orphans' # {}
    /\ UNCHANGED busVars
    /\ UNCHANGED <<pc, child, verdict, rows, runs>>

\* _republish_orphan_task_tickets: reads the live tickets, then publishes each.
ScanOrphans ==
    /\ orphans = {}
    /\ orphans' = Orphaned
    /\ orphans' # {}
    /\ UNCHANGED busVars
    /\ UNCHANGED <<pc, child, verdict, rows, runs>>

RepublishOrphan(t) ==
    /\ t \in orphans
    /\ orphans' = orphans \ {t}
    /\ Publish(RecoveryEnvelopeOf[t])
    /\ UNCHANGED <<pc, child, verdict, rows, runs>>

PublishAllReady ==
    /\ Ready(Tickets) # {}
    /\ PublishReadyResults(Tickets)
    /\ UNCHANGED workerVars

Lapse(m) == LeaseLapses(m) /\ UNCHANGED workerVars
Requeue == RequeueExpiredLeases /\ UNCHANGED workerVars
Expire(m) == ExpireMessages({m}) /\ UNCHANGED workerVars
DeadLetter(m) == MoveToDeadLetter(m) /\ UNCHANGED workerVars
OperatorRetry(m) == RetryMessage(m) /\ UNCHANGED workerVars
CancelDemand == CancelOpenWork /\ UNCHANGED workerVars
RetireCompleted == AckCompleted /\ UNCHANGED workerVars

-----------------------------------------------------------------------------
Init ==
    /\ BusInit
    /\ pc = [w \in Workers |-> "idle"]
    /\ child = [w \in Workers |-> 1]
    /\ verdict = [w \in Workers |-> NoVerdict]
    /\ rows = {}
    /\ runs = {}
    /\ orphans = {}

\* What a worker does when nothing goes wrong.
Work(w) ==
    \/ ReadTicket(w) \/ RepublishFinished(w) \/ Claim(w)
    \/ CreateChild(w) \/ SaveChildRow(w) \/ SendChild(w) \/ FinishRequest(w)
    \/ FinishWithoutResult(w) \/ CircuitOpen(w) \/ LookUpRun(w) \/ ReuseRun(w) \/ CallTool(w)
    \/ ToolReturns(w) \/ PersistRun(w) \/ ScheduleRetry(w)
    \/ CompleteTask(w) \/ DeliverResult(w) \/ AckDelivery(w) \/ NackDelivery(w)
    \/ Revoked(w)

Worker(w) ==
    \/ \E m \in Messages : Take(w, m)
    \/ Work(w)
    \/ KeepAlive(w) \/ StepFails(w) \/ Crash(w)

Recovery ==
    \/ ScanOrphans
    \/ \E t \in Tickets : RepublishOrphan(t)
    \/ PublishAllReady
    \/ Requeue
    \/ RetireCompleted

Environment ==
    \/ \E t \in Tickets : Compile(t) \/ SendScheduled(t)
    \/ \E m \in Messages : Lapse(m) \/ Expire(m) \/ DeadLetter(m) \/ OperatorRetry(m)
                            \/ PublishByHand(m)
    \/ CancelDemand

Next == (\E w \in Workers : Worker(w)) \/ Recovery \/ Environment

Spec == Init /\ [][Next]_vars

\* A started worker goes on with its step; some worker keeps polling; every poll and
\* every tick requeues; the clock advances; recover is run again and again.
Fairness ==
    /\ \A w \in Workers : WF_vars(Work(w)) /\ WF_vars(\E m \in Messages : Take(w, m))
    /\ \A m \in Messages : WF_vars(Lapse(m))
    /\ WF_vars(Requeue)
    /\ WF_vars(ScanOrphans)
    /\ \A t \in Tickets : WF_vars(RepublishOrphan(t))
    /\ WF_vars(PublishAllReady)

FairSpec == Spec /\ Fairness

-----------------------------------------------------------------------------
(* Safety                                                                  *)

\* Work is never lost to the queue: a live ticket has a delivery that is waiting or
\* running, or it was never sent and recovery republishes it.
NoStrandedTicket ==
    \A t \in Tickets :
        Live(t) => \/ msgs[EnvelopeOf[t]].status = "absent"
                   \/ \E m \in Messages : /\ TicketOf[m] = t
                                          /\ msgs[m].status \in {"open", "in_progress"}

\* An operator has published a further message for the ticket.
SentByHand(t) == \E m \in ByHand : TicketOf[m] = t /\ msgs[m].status # "absent"

\* MIC budget is not spent twice: whatever crashes, redeliveries, retries and lapsed
\* leases intervene, a MIC task records at most one successful collection, as long as no
\* operator has published a further message for it, which no lease relates to the first.
SuccessRecordedOnce ==
    \A r, s \in runs :
        /\ r.ticket = s.ticket /\ r.ticket \in MicTasks
        /\ r.status = "success" /\ s.status = "success"
        => r = s \/ SentByHand(r.ticket)

\* A result that comes in after its ticket was cancelled or settled by someone else
\* is not recorded, although the tool ran to its end.
NoRunAfterFinal ==
    [][\A t \in Tickets :
         Terminal(t) => {r \in runs' : r.ticket = t} = {r \in runs : r.ticket = t}]_vars

\* A request is done only when every task it planned has its ticket, its row and its
\* delivery, in whatever order crashed and later planners wrote them.
DoneRequestIsFullyPlanned ==
    \A r \in Requests : tickets[r] = "done" =>
        \A i \in DOMAIN ChildrenOf[r] :
            LET c == ChildrenOf[r][i]
            IN /\ tickets[c] # "absent"
               /\ c \in rows
               /\ msgs[EnvelopeOf[c]].status # "absent"

\* Cancelling a demand leaves nothing running: a planner that was under way adds no
\* task behind it, so a live task has another request or an operator's retry.
CancelledRequestHasNoLiveChild ==
    \A r \in Requests : tickets[r] = "cancelled" =>
        \A i \in DOMAIN ChildrenOf[r] :
            LET c == ChildrenOf[r][i]
            IN Live(c) => \/ retries[c] > 0
                          \/ \E q \in Requests \ {r} :
                                /\ tickets[q] # "cancelled"
                                /\ \E j \in DOMAIN ChildrenOf[q] : ChildrenOf[q][j] = c

\* recovery.py's comment on its publish call: "a no-op when the message exists", so
\* a ticket never has two deliveries waiting or running.
OneDeliveryPerTicket ==
    \A m, n \in Messages :
        /\ TicketOf[m] = TicketOf[n]
        /\ msgs[m].status \in {"open", "in_progress"}
        /\ msgs[n].status \in {"open", "in_progress"}
        => m = n

-----------------------------------------------------------------------------
(* Liveness                                                                *)

\* Every ticket reaches an outcome: crashes, lapsed leases, an unsent delivery or a
\* failing tool delay it by at most max_attempts deliveries.
TicketsSettle == \A t \in Tickets : Live(t) ~> Terminal(t)

\* Every outcome is notified to the consumers unless an operator reopens the ticket
\* first, even when the process that completed the task dies before it publishes.
ResultsDelivered ==
    \A t \in Tickets :
        receipts[t].standing ~>
            \/ ~receipts[t].standing
            \/ \E r \in results : r.ticket = t /\ r.receipt = receipts[t].count

=============================================================================
