------------------- MODULE CollectionWorkersSafetyProofs -------------------
(***************************************************************************)
(* What the workers guarantee together with recovery, the runtime and the  *)
(* operator, for any number of each: no live ticket is without a delivery, *)
(* a plan is complete, a cancelled request stays quiet, a MIC task records *)
(* one success.                                                            *)
(***************************************************************************)
EXTENDS CollectionWorkersProofs

USE DEF MessageStatus, TicketStatus, TERMINAL_TICKET_STATES

\* A claim no later lease has outdated; the one a fence lets through is such a claim.
Newest(w) == held[w] # NoLease /\ held[w].generation = msgs[held[w].message].generation

LEMMA OwnerIsNewest ==
    ASSUME NEW w, Owns(w)
    PROVE  Newest(w)
  BY DEF Owns, OwnsLease, Newest

-----------------------------------------------------------------------------
(* What a call may do to the tables                                        *)

LEMMA ReleasedFields ==
    ASSUME BusTypeOK, NEW m \in Messages, NEW s
    PROVE  /\ Released(msgs[m], s).status = s
           /\ Released(msgs[m], s).generation = msgs[m].generation
  BY DEF BusTypeOK, Released, Message

\* No row is ever deleted, and the history of retries grows.
Remembers ==
    /\ \A m \in Messages : msgs[m].status # "absent" => msgs'[m].status # "absent"
    /\ \A t \in Tickets : tickets[t] # "absent" => tickets'[t] # "absent"
    /\ \A t \in Tickets : retries[t] <= retries'[t]

LEMMA StepRemembers ==
    ASSUME BusTypeOK, [BusNext]_busVars
    PROVE  Remembers
<1> USE DEF Remembers
<1>a. /\ msgs \in [Messages -> Message] /\ tickets \in [Tickets -> TicketStatus]
      /\ retries \in [Tickets -> Nat]
  BY DEF BusTypeOK
<1>b. \A m \in Messages : \A s : Released(msgs[m], s).status = s
  BY ReleasedFields
<1>1. ASSUME UNCHANGED <<msgs, tickets, retries>>
      PROVE  Remembers
  BY <1>1, <1>a
<1>2. ASSUME NEW m \in Messages, NEW s \in MessageStatus \ {"absent"},
             msgs' = [msgs EXCEPT ![m] = Released(@, s)]
      PROVE  \A n \in Messages : msgs[n].status # "absent" => msgs'[n].status # "absent"
  BY <1>2, <1>a DEF Released, Message
<1>3. ASSUME NEW T, NEW s \in TicketStatus \ {"absent"}, SyncDeliveryTicket(T, s)
      PROVE  \A t \in Tickets : tickets[t] # "absent" => tickets'[t] # "absent"
  BY <1>3, <1>a DEF SyncDeliveryTicket
<1>4. ASSUME NEW m \in Messages, Publish(m)
      PROVE  Remembers
  BY <1>4, <1>a DEF Publish, Message
<1>5. ASSUME NEW w \in Workers, WorkerCall(w)
      PROVE  Remembers
  <2>1. ASSUME NEW m \in Messages, LeaseMessage(w, m)
        PROVE  Remembers
    BY <2>1, <1>a DEF LeaseMessage, Message
  <2>2. ASSUME NEW t \in Tickets, CreateTaskTicket(w, t)
        PROVE  Remembers
    BY <2>2, <1>a DEF CreateTaskTicket
  <2>3. ASSUME NEW s \in {"in_progress", "open", "done", "failed"}, NEW b, UpdateStatus(w, s, b)
        PROVE  Remembers
    BY <2>3, <1>a DEF UpdateStatus
  <2>4. ASSUME ExtendLease(w)
        PROVE  Remembers
    BY <2>4, <1>a DEF ExtendLease, Message
  <2>5. ASSUME Ack(w)
        PROVE  Remembers
    <3>1. CASE ~Owns(w)
      BY <2>5, <3>1, <1>1 DEF Ack
    <3>2. CASE Owns(w)
      <4>1. \A n \in Messages : msgs[n].status # "absent" => msgs'[n].status # "absent"
        <5>1. held[w].message \in Messages
          BY <2>5, LeaseHeld DEF Ack
        <5>2. msgs' = [msgs EXCEPT ![held[w].message] = Released(@, "done")]
          BY <2>5, <3>2 DEF Ack
        <5> QED
          BY <5>1, <5>2, <1>a, <1>b
      <4> QED
        BY <2>5, <4>1, <1>a DEF Ack
    <3> QED
      BY <3>1, <3>2
  <2>6. ASSUME NEW b \in BOOLEAN, Nack(w, b)
        PROVE  Remembers
    <3>1. CASE ~Owns(w)
      BY <2>6, <3>1, <1>1 DEF Nack
    <3>2. CASE Owns(w)
      <4>1. \A n \in Messages : msgs[n].status # "absent" => msgs'[n].status # "absent"
        BY <2>6, <3>2, <1>2, LeaseHeld DEF Nack
      <4>2. \A t \in Tickets : tickets[t] # "absent" => tickets'[t] # "absent"
        BY <2>6, <3>2, <1>3 DEF Nack
      <4> QED
        BY <4>1, <4>2, <2>6, <1>a DEF Nack
    <3> QED
      BY <3>1, <3>2
  <2>7. QED
    BY <1>1, <1>4, <1>5, <2>1, <2>2, <2>3, <2>4, <2>5, <2>6 DEF WorkerCall, PublishTask, Abandon
<1>6. ASSUME OtherCall
      PROVE  Remembers
  <2>1. ASSUME NEW t \in Tickets, CreateTicket(t)
        PROVE  Remembers
    BY <2>1, <1>a DEF CreateTicket
  <2>2. ASSUME NEW m \in Messages, LeaseLapses(m)
        PROVE  Remembers
    BY <2>2, <1>a DEF LeaseLapses, Message
  <2>3. ASSUME RequeueExpiredLeases
        PROVE  Remembers
    BY <2>3, <1>a, <1>b DEF RequeueExpiredLeases
  <2>4. ASSUME NEW M, ExpireMessages(M)
        PROVE  Remembers
    BY <2>4, <1>a, <1>3 DEF ExpireMessages, Message
  <2>5. ASSUME NEW m \in Messages, MoveToDeadLetter(m)
        PROVE  Remembers
    <3>1. \A n \in Messages : msgs[n].status # "absent" => msgs'[n].status # "absent"
      BY <2>5, <1>2 DEF MoveToDeadLetter
    <3>2. \A t \in Tickets : tickets[t] # "absent" => tickets'[t] # "absent"
      BY <2>5, <1>3 DEF MoveToDeadLetter
    <3> QED
      BY <3>1, <3>2, <2>5, <1>a DEF MoveToDeadLetter
  <2>6. ASSUME NEW m \in Messages, RetryMessage(m)
        PROVE  Remembers
    <3>1. msgs'[m].status = "open" /\ \A n \in Messages \ {m} : msgs'[n] = msgs[n]
      BY <2>6, <1>a DEF RetryMessage, Released, Message
    <3>2. /\ tickets' = [tickets EXCEPT ![TicketOf[m]] = "open"]
          /\ retries' = [retries EXCEPT ![TicketOf[m]] = retries[TicketOf[m]] + 1]
      BY <2>6 DEF RetryMessage
    <3>3. \A n \in Messages : msgs[n].status # "absent" => msgs'[n].status # "absent"
      BY <3>1
    <3>4. /\ \A t \in Tickets : tickets[t] # "absent" => tickets'[t] # "absent"
          /\ \A t \in Tickets : retries[t] <= retries'[t]
      BY <3>2, <1>a
    <3> QED
      BY <3>3, <3>4
  <2>7. ASSUME CancelOpenWork
        PROVE  Remembers
    BY <2>7, <1>a, <1>b DEF CancelOpenWork
  <2>8. ASSUME AckCompleted
        PROVE  Remembers
    BY <2>8, <1>a, <1>b DEF AckCompleted
  <2>9. QED
    BY <1>1, <1>4, <1>6, <2>1, <2>2, <2>3, <2>4, <2>5, <2>6, <2>7, <2>8
    DEF OtherCall, PublishReadyResults
<1>7. QED
  BY <1>1, <1>5, <1>6 DEF BusNext, busVars

-----------------------------------------------------------------------------
(* The kinds of steps                                                      *)

\* The calls that neither take nor finish a delivery, nor create a ticket, nor
\* settle one.
OrdinaryCall ==
    \/ \E w \in Workers :
          \/ \E m \in Messages : PublishTask(w, m)
          \/ \E s \in {"in_progress", "open"} : UpdateStatus(w, s, FALSE)
          \/ ExtendLease(w)
          \/ Nack(w, TRUE)
          \/ Abandon(w)
    \/ \E m \in Messages : Publish(m)
    \/ \E T \in SUBSET Tickets : PublishReadyResults(T)
    \/ \E m \in Messages : LeaseLapses(m)
    \/ RequeueExpiredLeases
    \/ \E m \in Messages : ExpireMessages({m})
    \/ \E m \in Messages : MoveToDeadLetter(m)
    \/ \E m \in Messages : RetryMessage(m)
    \/ CancelOpenWork
    \/ AckCompleted
    \/ UNCHANGED busVars

\* The steps of a worker that end the work on a ticket with an outcome.
Settles(w) == FinishRequest(w) \/ FinishWithoutResult(w) \/ CompleteTask(w)

LEMMA WorkerStepKinds ==
    ASSUME WorkersInv, NEW w \in Workers, Worker(w)
    PROVE  \/ \E m \in Messages : Take(w, m)
           \/ AckDelivery(w)
           \/ CreateChild(w)
           \/ Settles(w)
           \/ OrdinaryCall
<1>1. CASE SendChild(w)
  <2>1. EnvelopeOf[Planned(w)[child[w]]] \in Messages
    BY <1>1, PlannedTask, WorkersAssumption DEF SendChild, WorkersInv
  <2> QED
    BY <1>1, <2>1 DEF SendChild, OrdinaryCall
<1>2. CASE RepublishFinished(w) \/ DeliverResult(w)
  BY <1>2, WorkerHolds DEF RepublishFinished, DeliverResult, WorkersInv, OrdinaryCall
<1>3. CASE Claim(w) \/ CircuitOpen(w) \/ ScheduleRetry(w)
  BY <1>3 DEF Claim, CircuitOpen, ScheduleRetry, OrdinaryCall
<1>4. CASE NackDelivery(w) \/ KeepAlive(w) \/ Crash(w) \/ Revoked(w)
  BY <1>4 DEF NackDelivery, KeepAlive, Crash, Revoked, Lost, OrdinaryCall
<1>5. CASE StepFails(w)
  BY <1>5 DEF StepFails, Lost, OrdinaryCall
<1>6. CASE ReadTicket(w) \/ SaveChildRow(w) \/ LookUpRun(w) \/ ReuseRun(w) \/ CallTool(w)
           \/ ToolReturns(w) \/ PersistRun(w)
  BY <1>6 DEF ReadTicket, SaveChildRow, LookUpRun, ReuseRun, CallTool, ToolReturns, PersistRun,
              OrdinaryCall
<1> QED
  BY <1>1, <1>2, <1>3, <1>4, <1>5, <1>6 DEF Worker, Work, Settles

LEMMA StepKinds ==
    ASSUME WorkersInv, [Next]_vars
    PROVE  \/ \E w \in Workers, m \in Messages : Take(w, m)
           \/ \E w \in Workers : AckDelivery(w) \/ CreateChild(w) \/ Settles(w)
           \/ \E t \in Tickets : Compile(t)
           \/ OrdinaryCall
<1>1. CASE Recovery
  BY <1>1, WorkersAssumption
  DEF Recovery, ScanOrphans, RepublishOrphan, PublishAllReady, Requeue, RetireCompleted,
      OrdinaryCall
<1>2. CASE Environment
  BY <1>2, WorkersAssumption
  DEF Environment, SendScheduled, PublishByHand, Lapse, Expire, DeadLetter, OperatorRetry, CancelDemand,
      OrdinaryCall
<1>3. CASE UNCHANGED vars
  BY <1>3 DEF vars, busVars, OrdinaryCall
<1> QED
  BY <1>1, <1>2, <1>3, WorkerStepKinds DEF Next

-----------------------------------------------------------------------------
(* Who moves                                                               *)

\* A worker changes nobody else's local state.
LEMMA OtherWorkersStand ==
    ASSUME WorkersInv, NEW w \in Workers, Worker(w), NEW v \in Workers \ {w}
    PROVE  pc'[v] = pc[v] /\ held'[v] = held[v] /\ child'[v] = child[v]
<1>a. /\ pc \in [Workers -> Steps] /\ child \in [Workers -> Nat \ {0}]
      /\ held \in [Workers -> Lease \cup {NoLease}]
  BY DEF WorkersInv, WorkersTypeOK, BusTypeOK
<1>1. ASSUME Forget(w), BecomeIdle(w)
      PROVE  pc'[v] = pc[v] /\ held'[v] = held[v] /\ child'[v] = child[v]
  BY <1>1, <1>a DEF Forget, BecomeIdle, GoTo
<1>2. CASE \E m \in Messages : Take(w, m)
  BY <1>2, <1>a DEF Take, LeaseMessage, GoTo
<1>3. CASE AckDelivery(w) \/ NackDelivery(w) \/ Crash(w) \/ Revoked(w) \/ Lost(w)
  BY <1>1, <1>3 DEF AckDelivery, NackDelivery, Crash, Revoked, Lost, Abandon, Ack, Nack
<1>4. CASE StepFails(w) /\ ~Lost(w)
  BY <1>4, <1>a DEF StepFails, GoTo, busVars
<1>5. CASE KeepAlive(w)
  BY <1>5 DEF KeepAlive, ExtendLease, workerVars
<1>6. CASE \/ Claim(w) \/ CircuitOpen(w) \/ ScheduleRetry(w) \/ FinishRequest(w)
           \/ FinishWithoutResult(w) \/ CompleteTask(w)
  BY <1>6, <1>a DEF Claim, CircuitOpen, ScheduleRetry, FinishRequest, FinishWithoutResult,
                    CompleteTask, UpdateStatus, GoTo
<1>7. CASE RepublishFinished(w) \/ DeliverResult(w) \/ CreateChild(w) \/ SendChild(w)
  BY <1>7, <1>a DEF RepublishFinished, DeliverResult, CreateChild, SendChild,
                    PublishReadyResults, CreateTaskTicket, PublishTask, Publish, GoTo
<1>8. CASE ReadTicket(w) \/ SaveChildRow(w) \/ LookUpRun(w) \/ ReuseRun(w) \/ CallTool(w)
           \/ ToolReturns(w) \/ PersistRun(w)
  BY <1>8, <1>a DEF ReadTicket, SaveChildRow, LookUpRun, ReuseRun, CallTool, ToolReturns,
                    PersistRun, busVars, GoTo
<1> QED
  BY <1>2, <1>3, <1>4, <1>5, <1>6, <1>7, <1>8 DEF Worker, Work

\* Recovery, the runtime and the operator change nobody's.
LEMMA OthersLeaveWorkers ==
    ASSUME Recovery \/ Environment \/ UNCHANGED vars
    PROVE  UNCHANGED <<pc, child, verdict, rows, runs, held>>
  BY DEF Recovery, Environment, ScanOrphans, RepublishOrphan, PublishAllReady, Requeue,
         RetireCompleted, Compile, SendScheduled, PublishByHand, Lapse, Expire, DeadLetter, OperatorRetry,
         CancelDemand, workerVars, busVars, Publish, PublishReadyResults,
         RequeueExpiredLeases, AckCompleted, CreateTicket, LeaseLapses, ExpireMessages,
         MoveToDeadLetter, RetryMessage, CancelOpenWork, vars

\* Only a step of its own changes a worker's local state.
LEMMA OwnStep ==
    ASSUME WorkersInv, [Next]_vars, NEW w \in Workers, ~Worker(w)
    PROVE  pc'[w] = pc[w] /\ held'[w] = held[w] /\ child'[w] = child[w]
  BY OtherWorkersStand, OthersLeaveWorkers DEF Next

-----------------------------------------------------------------------------
(* What the calls leave of the work                                        *)

Waiting(m) == msgs[m].status = "open"
Underway(m) == msgs[m].status \in {"open", "in_progress"}

\* No call but an acknowledgement takes the delivery of a ticket that stays live, and
\* a ticket that becomes live again has one waiting.
KeepsWork ==
    /\ \A t \in Tickets : Live(t)' => \/ Live(t)
                                       \/ tickets[t] = "absent"
                                       \/ \E m \in Messages : TicketOf[m] = t /\ Waiting(m)'
    /\ \A m \in Messages : Underway(m) /\ Live(TicketOf[m])' => Underway(m)'
    /\ \A m \in Messages : msgs[m].status = "absent" /\ msgs'[m].status # "absent" =>
                           Waiting(m)' /\ tickets[TicketOf[m]] # "absent"
    /\ \A m \in Messages : msgs'[m].status = "in_progress" => msgs[m].status = "in_progress"

\* No such call makes a ticket live unless an operator retried it, or done; and what
\* cancels a ticket of the demand leaves none of them live.
KeepsOutcomes ==
    /\ \A t \in Tickets : Live(t)' => Live(t) \/ retries'[t] > 0
    /\ \A t \in Tickets : tickets'[t] = "done" => tickets[t] = "done"
    /\ \A t \in Tickets : tickets'[t] = "cancelled" /\ tickets[t] # "cancelled" =>
           t \in DemandTickets /\ \A u \in DemandTickets : ~Live(u)'

LEMMA TicketsUnchangedKeep ==
    ASSUME UNCHANGED tickets
    PROVE  KeepsOutcomes
  BY DEF KeepsOutcomes, Live

LEMMA SyncKeepsOutcomes ==
    ASSUME BusTypeOK, NEW T, NEW s \in {"open", "failed", "expired"}, SyncDeliveryTicket(T, s)
    PROVE  KeepsOutcomes
<1>1. ASSUME NEW t \in Tickets
      PROVE  tickets'[t] = tickets[t] \/ (Live(t) /\ tickets'[t] = s)
  BY <1>1 DEF SyncDeliveryTicket
<1> QED
  BY <1>1 DEF KeepsOutcomes, Live

LEMMA UpdateKeepsWork ==
    ASSUME BusTypeOK, NEW w \in Workers, NEW s \in TicketStatus, NEW b, UpdateStatus(w, s, b)
    PROVE  KeepsWork
<1>1. /\ Live(TicketHeld(w)) /\ msgs' = msgs
      /\ tickets' = [tickets EXCEPT ![TicketHeld(w)] = s]
  BY DEF UpdateStatus, RequireWork, TicketHeld
<1> QED
  BY <1>1 DEF KeepsWork, Live, Underway, BusTypeOK

LEMMA OrdinaryKeepsOutcomes ==
    ASSUME BusTypeOK, OrdinaryCall
    PROVE  KeepsOutcomes
<1>a. tickets \in [Tickets -> TicketStatus] /\ retries \in [Tickets -> Nat]
  BY DEF BusTypeOK
<1>1. ASSUME NEW w \in Workers, NEW s \in {"in_progress", "open"}, UpdateStatus(w, s, FALSE)
      PROVE  KeepsOutcomes
  BY <1>1, <1>a DEF UpdateStatus, RequireWork, KeepsOutcomes, Live
<1>2. ASSUME NEW w \in Workers, Nack(w, TRUE)
      PROVE  KeepsOutcomes
  BY <1>2, SyncKeepsOutcomes, TicketsUnchangedKeep DEF Nack
<1>3. ASSUME RequeueExpiredLeases
      PROVE  KeepsOutcomes
  BY <1>3, <1>a DEF RequeueExpiredLeases, KeepsOutcomes, Live
<1>4. ASSUME NEW m \in Messages, ExpireMessages({m}) \/ MoveToDeadLetter(m)
      PROVE  KeepsOutcomes
  BY <1>4, SyncKeepsOutcomes DEF ExpireMessages, MoveToDeadLetter
<1>5. ASSUME NEW m \in Messages, RetryMessage(m)
      PROVE  KeepsOutcomes
  <2>1. TicketOf[m] \in Tickets
    BY BusAssumption
  <2>2. /\ tickets' = [tickets EXCEPT ![TicketOf[m]] = "open"]
        /\ retries' = [retries EXCEPT ![TicketOf[m]] = @ + 1]
    BY <1>5 DEF RetryMessage
  <2> QED
    BY <2>1, <2>2, <1>a DEF KeepsOutcomes, Live
<1>6. ASSUME CancelOpenWork
      PROVE  KeepsOutcomes
  BY <1>6, <1>a, BusAssumption DEF CancelOpenWork, KeepsOutcomes, Live
<1> QED
  BY <1>1, <1>2, <1>3, <1>4, <1>5, <1>6, TicketsUnchangedKeep
  DEF OrdinaryCall, PublishTask, ExtendLease, Abandon, Publish, PublishReadyResults, LeaseLapses,
      AckCompleted, busVars

LEMMA SyncEndsLife ==
    ASSUME BusTypeOK, NEW t \in Tickets, NEW s \in {"open", "failed"}, SyncDeliveryTicket({t}, s)
    PROVE  /\ \A u \in Tickets : Live(u)' => Live(u)
           /\ s = "failed" => ~Live(t)'
  BY DEF BusTypeOK, SyncDeliveryTicket, Live

\* A delivery that comes back to the queue, or that ends with its ticket.
LEMMA ReleaseKeepsWork ==
    ASSUME NEW m \in Messages, msgs[m].status # "absent",
           msgs'[m].status = "open" \/ (msgs'[m].status = "dead" /\ ~Live(TicketOf[m])'),
           \A n \in Messages \ {m} : msgs'[n] = msgs[n],
           \A t \in Tickets \ {TicketOf[m]} : Live(t)' => Live(t),
           Live(TicketOf[m])' => Live(TicketOf[m]) \/ msgs'[m].status = "open"
    PROVE  KeepsWork
  BY DEF KeepsWork, Waiting, Underway

LEMMA OrdinaryKeepsWork ==
    ASSUME BusTypeOK, OrdinaryCall
    PROVE  KeepsWork
<1> USE DEF Waiting, Underway
<1>a. /\ msgs \in [Messages -> Message] /\ tickets \in [Tickets -> TicketStatus]
      /\ \A m \in Messages : TicketOf[m] \in Tickets
  BY BusAssumption DEF BusTypeOK
<1>b. \A m \in Messages : \A s : Released(msgs[m], s).status = s
  BY ReleasedFields
<1>1. ASSUME UNCHANGED <<msgs, tickets>>
      PROVE  KeepsWork
  BY <1>1 DEF KeepsWork, Live
<1>2. ASSUME NEW m \in Messages, Publish(m)
      PROVE  KeepsWork
  BY <1>2, <1>a DEF Publish, KeepsWork, Live, Message
<1>3. ASSUME NEW m \in Messages, NEW b \in BOOLEAN, UNCHANGED tickets,
             msgs' = [msgs EXCEPT ![m].live = b]
      PROVE  KeepsWork
  BY <1>3, <1>a DEF KeepsWork, Live, Message
<1>4. ASSUME NEW w \in Workers, Nack(w, TRUE)
      PROVE  KeepsWork
  <2>1. CASE ~Owns(w)
    BY <1>1, <1>4, <2>1 DEF Nack
  <2>2. CASE Owns(w)
    <3>1. PICK m \in Messages : m = held[w].message /\ msgs[m].status = "in_progress"
      BY <1>4, <2>2, LeaseHeld DEF Nack, Owns, OwnsLease
    <3>2. PICK s \in {"open", "dead"} :
             /\ msgs' = [msgs EXCEPT ![m] = Released(@, s)]
             /\ SyncDeliveryTicket({TicketOf[m]}, IF s = "dead" THEN "failed" ELSE "open")
      BY <1>4, <2>2, <3>1 DEF Nack
    <3>3. msgs'[m].status = s /\ \A n \in Messages \ {m} : msgs'[n] = msgs[n]
      BY <3>2, <1>a, <1>b
    <3>4. /\ \A t \in Tickets : Live(t)' => Live(t)
          /\ s = "dead" => ~Live(TicketOf[m])'
      BY <3>2, <1>a, SyncEndsLife
    <3> QED
      BY <3>1, <3>3, <3>4, <1>a, ReleaseKeepsWork
  <2> QED
    BY <2>1, <2>2
<1>5. ASSUME RequeueExpiredLeases
      PROVE  KeepsWork
  BY <1>5, <1>a, <1>b DEF RequeueExpiredLeases, KeepsWork, Live
<1>6. ASSUME NEW m \in Messages, ExpireMessages({m})
      PROVE  KeepsWork
  BY <1>6, <1>a DEF ExpireMessages, SyncDeliveryTicket, KeepsWork, Live, Message
<1>7. ASSUME NEW m \in Messages, MoveToDeadLetter(m)
      PROVE  KeepsWork
  <2>1. /\ msgs[m].status # "absent" /\ msgs'[m].status = "dead"
        /\ \A n \in Messages \ {m} : msgs'[n] = msgs[n]
    BY <1>7, <1>a, <1>b DEF MoveToDeadLetter
  <2>2. SyncDeliveryTicket({TicketOf[m]}, "failed")
    BY <1>7 DEF MoveToDeadLetter
  <2> QED
    BY <2>1, <2>2, <1>a, SyncEndsLife, ReleaseKeepsWork
<1>8. ASSUME NEW m \in Messages, RetryMessage(m)
      PROVE  KeepsWork
  <2>1. /\ msgs[m].status # "absent" /\ msgs'[m].status = "open"
        /\ \A n \in Messages \ {m} : msgs'[n] = msgs[n]
    BY <1>8, <1>a DEF RetryMessage, Released, Message
  <2>2. \A t \in Tickets \ {TicketOf[m]} : Live(t)' => Live(t)
    BY <1>8, <1>a DEF RetryMessage, Live
  <2> QED
    BY <2>1, <2>2, ReleaseKeepsWork
<1>9. ASSUME CancelOpenWork
      PROVE  KeepsWork
  BY <1>9, <1>a, <1>b DEF CancelOpenWork, KeepsWork, Live
<1>10. ASSUME AckCompleted
       PROVE  KeepsWork
  BY <1>10, <1>a, <1>b DEF AckCompleted, KeepsWork, Live, Terminal
<1>11. ASSUME NEW w \in Workers, ExtendLease(w)
       PROVE  KeepsWork
  BY <1>3, <1>11, LeaseHeld DEF ExtendLease, Owns
<1>12. ASSUME NEW w \in Workers, NEW s \in {"in_progress", "open"}, UpdateStatus(w, s, FALSE)
       PROVE  KeepsWork
  BY <1>12, UpdateKeepsWork
<1> QED
  BY <1>1, <1>2, <1>3, <1>4, <1>5, <1>6, <1>7, <1>8, <1>9, <1>10, <1>11, <1>12
  DEF OrdinaryCall, PublishTask, Abandon, PublishReadyResults, LeaseLapses, busVars

-----------------------------------------------------------------------------
(* Claims                                                                  *)

LEMMA OnlyTakeLeases ==
    ASSUME WorkersInv, NEW w \in Workers, Worker(w), ~\E m \in Messages : Take(w, m)
    PROVE  held'[w] \in {held[w], NoLease}
<1>1. ASSUME Forget(w)
      PROVE  held'[w] = NoLease
  BY <1>1 DEF Forget, WorkersInv, WorkersTypeOK, BusTypeOK
<1>2. CASE AckDelivery(w) \/ NackDelivery(w) \/ Crash(w) \/ Revoked(w) \/ Lost(w)
  BY <1>1, <1>2 DEF AckDelivery, NackDelivery, Crash, Revoked, Lost, Abandon, Ack, Nack
<1>3. CASE StepFails(w) /\ ~Lost(w)
  BY <1>3 DEF StepFails, busVars
<1>4. CASE KeepAlive(w)
  BY <1>4 DEF KeepAlive, ExtendLease
<1>5. CASE \/ Claim(w) \/ CircuitOpen(w) \/ ScheduleRetry(w) \/ FinishRequest(w)
           \/ FinishWithoutResult(w) \/ CompleteTask(w)
  BY <1>5 DEF Claim, CircuitOpen, ScheduleRetry, FinishRequest, FinishWithoutResult,
              CompleteTask, UpdateStatus
<1>6. CASE RepublishFinished(w) \/ DeliverResult(w) \/ CreateChild(w) \/ SendChild(w)
  BY <1>6 DEF RepublishFinished, DeliverResult, CreateChild, SendChild,
              PublishReadyResults, CreateTaskTicket, PublishTask, Publish
<1>7. CASE ReadTicket(w) \/ SaveChildRow(w) \/ LookUpRun(w) \/ ReuseRun(w) \/ CallTool(w)
           \/ ToolReturns(w) \/ PersistRun(w)
  BY <1>7 DEF ReadTicket, SaveChildRow, LookUpRun, ReuseRun, CallTool, ToolReturns,
              PersistRun, busVars
<1> QED
  BY <1>2, <1>3, <1>4, <1>5, <1>6, <1>7 DEF Worker, Work

\* A step that takes no delivery gives nobody a claim and outdates none.
LEMMA NoTakeKeeps ==
    ASSUME WorkersInv, [Next]_vars, ~\E w \in Workers, m \in Messages : Take(w, m)
    PROVE  Keeps
<1>1. \A w \in Workers : held'[w] \in {held[w], NoLease}
  BY OwnStep, OnlyTakeLeases
<1>2. BusTypeOK
  BY DEF WorkersInv, WorkersTypeOK
<1>3. ASSUME NEW w \in Workers, NEW m \in Messages, LeaseMessage(w, m)
      PROVE  FALSE
  <2>1. [message |-> m, worker |-> IdOf[w], attempt |-> msgs[m].attempts + 1,
         generation |-> msgs[m].generation + 1] \in Lease
    BY <1>2, BusAssumption DEF Lease, BusTypeOK, Message
  <2>2. held'[w] \in Lease /\ held[w] = NoLease
    BY <1>2, <1>3, <2>1 DEF LeaseMessage, BusTypeOK
  <2> QED
    BY <1>1, <2>2, BusAssumption
<1>4. CASE UNCHANGED busVars
  BY <1>4 DEF busVars, Keeps
<1>5. CASE BusNext
  BY <1>2, <1>3, <1>5, OtherCallsKeep
<1> QED
  BY <1>4, <1>5, EveryStepIsABusStep

\* A step that takes no delivery leaves each of the newest claims or drops it.
LEMMA NewestWasNewest ==
    ASSUME WorkersInv, Keeps, NEW w \in Workers, Newest(w)'
    PROVE  Newest(w) /\ held'[w] = held[w]
  BY LeaseHeld DEF Keeps, Newest, WorkersInv, WorkersTypeOK

\* A delivery that is taken outdates every earlier claim to it.
LEMMA TakeOutdates ==
    ASSUME LeaseInv, WorkersInv, NEW w \in Workers, NEW m \in Messages, Take(w, m),
           NEW v \in Workers \ {w}, Newest(v)'
    PROVE  Newest(v) /\ held'[v] = held[v] /\ held[v].message # m
<1>1. held'[v] = held[v]
  BY OtherWorkersStand DEF Worker
<1>2. /\ held[v] # NoLease /\ held[v].message \in Messages /\ held[v].generation \in Nat
      /\ held[v].generation <= msgs[held[v].message].generation
  BY <1>1, LeaseHeld DEF Newest, LeaseInv
<1>3. /\ msgs[m].generation \in Nat /\ msgs'[m].generation = msgs[m].generation + 1
      /\ \A n \in Messages \ {m} : msgs'[n] = msgs[n]
  BY DEF Take, LeaseMessage, LeaseInv, BusTypeOK, Message
<1> QED
  BY <1>1, <1>2, <1>3 DEF Newest

\* The steps at which the work on a ticket is over and only its delivery is not.
Ending == {"republish", "deliver", "ack"}

\* A worker comes to its end only with an outcome of the ticket.
LEMMA EndsWithOutcome ==
    ASSUME WorkersInv, NEW w \in Workers, [Next]_vars, pc'[w] \in Ending, pc[w] \notin Ending
    PROVE  held'[w] = held[w] /\ Terminal(TicketHeld(w))'
<1> USE DEF Ending
<1>a. pc \in [Workers -> Steps] /\ tickets \in [Tickets -> TicketStatus] /\ BusTypeOK
  BY DEF WorkersInv, WorkersTypeOK, BusTypeOK
<1>b. Worker(w)
  BY OwnStep
<1>1. CASE ReadTicket(w)
  BY <1>1, <1>a DEF ReadTicket, GoTo, busVars, TicketHeld, Terminal
<1>2. CASE FinishRequest(w) \/ FinishWithoutResult(w) \/ CompleteTask(w)
  <2>1. verdict[w].action # "retry" => verdict[w].action \in {"done", "failed"}
    BY DEF WorkersInv, WorkersTypeOK, Verdict
  <2>2. PICK s \in {"done", "failed"}, b \in BOOLEAN : UpdateStatus(w, s, b)
    BY <1>2, <2>1 DEF FinishRequest, FinishWithoutResult, CompleteTask
  <2>3. TicketHeld(w) \in Tickets
    BY <1>a, <2>2, LeaseHeld DEF UpdateStatus, RequireWork, Owns, TicketHeld
  <2> QED
    BY <1>a, <2>2, <2>3 DEF UpdateStatus, TicketHeld, Terminal
<1>3. CASE StepFails(w)
  BY <1>3, <1>a DEF StepFails, Lost, BecomeIdle, GoTo, busVars, TicketHeld, Terminal
<1>4. CASE (\E m \in Messages : Take(w, m)) \/ KeepAlive(w)
  BY <1>4, <1>a DEF Take, KeepAlive, GoTo, workerVars
<1>5. CASE AckDelivery(w) \/ NackDelivery(w) \/ Crash(w) \/ Revoked(w)
  BY <1>5, <1>a DEF AckDelivery, NackDelivery, Crash, Revoked, Lost, BecomeIdle, GoTo
<1>6. CASE Claim(w) \/ CircuitOpen(w) \/ ScheduleRetry(w) \/ CreateChild(w) \/ SendChild(w)
           \/ SaveChildRow(w) \/ LookUpRun(w) \/ ReuseRun(w) \/ CallTool(w) \/ ToolReturns(w)
           \/ PersistRun(w)
  BY <1>6, <1>a DEF Claim, CircuitOpen, ScheduleRetry, CreateChild, SendChild, SaveChildRow,
                    LookUpRun, ReuseRun, CallTool, ToolReturns, PersistRun, GoTo
<1>7. CASE RepublishFinished(w) \/ DeliverResult(w)
  BY <1>7 DEF RepublishFinished, DeliverResult
<1> QED
  BY <1>b, <1>1, <1>2, <1>3, <1>4, <1>5, <1>6, <1>7 DEF Worker, Work

-----------------------------------------------------------------------------
(* No live ticket is stranded                                              *)

\* A delivery that somebody will still work on: it waits, or it is under way and the
\* worker that has its newest claim, if it is alive, is not about to acknowledge it.
StillWorks(m) ==
    \/ Waiting(m)
    \/ /\ msgs[m].status = "in_progress"
       /\ \A w \in Workers : Newest(w) /\ held[w].message = m => pc[w] \notin Ending

\* NoStrandedTicket is not inductive by itself: an acknowledgement must not end the
\* delivery a live ticket has, so that delivery is one not about to be acknowledged.
WorkInv ==
    /\ WorkersInv
    /\ LeaseInv
    /\ EnvelopesHaveTickets
    /\ \A t \in Tickets : Live(t) => \/ msgs[EnvelopeOf[t]].status = "absent"
                                     \/ \E m \in Messages : TicketOf[m] = t /\ StillWorks(m)

LEMMA WorkInvGivesNoStranded == WorkInv => NoStrandedTicket
  BY DEF WorkInv, NoStrandedTicket, StillWorks, Waiting

LEMMA InitWorkInv == Init => WorkInv
  BY InitWorkers, InitLeaseInv DEF Init, BusInit, WorkInv, EnvelopesHaveTickets, Unsent, Live

\* A call that keeps the work keeps the deliveries somebody will still work on.
LEMMA KeptWorkIsStillWork ==
    ASSUME WorkersInv, [Next]_vars, Keeps, KeepsWork, NEW m \in Messages, StillWorks(m),
           Live(TicketOf[m])'
    PROVE  StillWorks(m)'
<1>1. Underway(m)'
  BY DEF KeepsWork, StillWorks, Waiting, Underway
<1>2. CASE msgs'[m].status = "in_progress"
  <2>1. msgs[m].status = "in_progress"
    BY <1>2 DEF KeepsWork
  <2>2. ASSUME NEW w \in Workers, Newest(w)', held'[w].message = m, pc'[w] \in Ending
        PROVE  FALSE
    <3>1. Newest(w) /\ held[w].message = m
      BY <2>2, NewestWasNewest
    <3>2. pc[w] \notin Ending
      BY <2>1, <3>1 DEF StillWorks, Waiting
    <3>3. Terminal(TicketOf[m])'
      BY <2>2, <3>2, EndsWithOutcome DEF TicketHeld
    <3> QED
      BY <3>3 DEF Terminal, Live
  <2> QED
    BY <1>2, <2>2 DEF StillWorks
<1> QED
  BY <1>1, <1>2 DEF StillWorks, Waiting, Underway

LEMMA KeepsWorkInv ==
    ASSUME WorkInv, [Next]_vars, WorkersInv', LeaseInv', Remembers, Keeps, KeepsWork
    PROVE  WorkInv'
<1>a. \A t \in Tickets : EnvelopeOf[t] \in Messages /\ TicketOf[EnvelopeOf[t]] = t
  BY WorkersAssumption, DeliveryAssumption
<1>b. \A m \in Messages : TicketOf[m] \in Tickets
  BY BusAssumption
<1>1. EnvelopesHaveTickets'
  BY <1>b DEF WorkInv, EnvelopesHaveTickets, Remembers, KeepsWork
<1>2. ASSUME NEW t \in Tickets, Live(t)', msgs'[EnvelopeOf[t]].status # "absent"
      PROVE  \E m \in Messages : TicketOf[m] = t /\ StillWorks(m)'
  <2>1. CASE msgs[EnvelopeOf[t]].status = "absent"
    BY <1>2, <1>a, <2>1 DEF KeepsWork, StillWorks
  <2>2. CASE msgs[EnvelopeOf[t]].status # "absent" /\ Live(t)
    <3>1. PICK m \in Messages : TicketOf[m] = t /\ StillWorks(m)
      BY <2>2 DEF WorkInv
    <3> QED
      BY <1>2, <3>1, KeptWorkIsStillWork DEF WorkInv
  <2>3. CASE msgs[EnvelopeOf[t]].status # "absent" /\ ~Live(t)
    <3>1. tickets[t] # "absent"
      BY <1>a, <2>3 DEF WorkInv, EnvelopesHaveTickets
    <3> QED
      BY <1>2, <2>3, <3>1 DEF KeepsWork, StillWorks
  <2> QED
    BY <2>1, <2>2, <2>3
<1> QED
  BY <1>1, <1>2 DEF WorkInv

\* A delivery that is taken is worked on: no earlier claim to it is the newest.
LEMMA TakeKeepsWorkInv ==
    ASSUME WorkInv, WorkersInv', LeaseInv', NEW w \in Workers, NEW m \in Messages, Take(w, m)
    PROVE  WorkInv'
<1>1. /\ msgs'[m].status = "in_progress" /\ msgs[m].status = "open"
      /\ \A n \in Messages \ {m} : msgs'[n] = msgs[n]
      /\ tickets' = tickets /\ pc'[w] = "read"
  BY DEF Take, LeaseMessage, GoTo, WorkInv, WorkersInv, WorkersTypeOK, BusTypeOK
<1>2. ASSUME NEW n \in Messages, StillWorks(n)
      PROVE  StillWorks(n)'
  <2>1. ASSUME NEW v \in Workers, Newest(v)', held'[v].message = n, pc'[v] \in Ending
        PROVE  msgs[n].status # "in_progress" /\ n # m
    <3>1. v # w
      BY <1>1, <2>1 DEF Ending
    <3>2. /\ Newest(v) /\ held[v].message = n /\ n # m /\ pc[v] \in Ending
      BY <2>1, <3>1, TakeOutdates, OtherWorkersStand DEF WorkInv, Worker
    <3> QED
      BY <1>2, <3>2 DEF StillWorks, Waiting
  <2> QED
    BY <1>1, <1>2, <2>1 DEF StillWorks, Waiting
<1>3. /\ EnvelopesHaveTickets'
      /\ \A t \in Tickets : Live(t)' = Live(t)
      /\ \A n \in Messages : msgs'[n].status = "absent" <=> msgs[n].status = "absent"
  BY <1>1 DEF WorkInv, EnvelopesHaveTickets, Live
<1>4. \A t \in Tickets : EnvelopeOf[t] \in Messages
  BY WorkersAssumption
<1> QED
  BY <1>2, <1>3, <1>4 DEF WorkInv

\* What an acknowledgement ends, nobody will still work on.
LEMMA AckKeepsWorkInv ==
    ASSUME WorkInv, WorkersInv', LeaseInv', NEW w \in Workers, AckDelivery(w), Owns(w)
    PROVE  WorkInv'
<1>1. PICK m \in Messages : m = held[w].message
  BY LeaseHeld DEF Owns, WorkInv, LeaseInv
<1>2. msgs[m].status = "in_progress" /\ Newest(w) /\ pc[w] \in Ending
  BY <1>1, OwnerIsNewest DEF Owns, OwnsLease, AckDelivery, Ending
<1>3. msgs'[m].status = "done" /\ \A n \in Messages \ {m} : msgs'[n] = msgs[n]
  <2>1. msgs' = [msgs EXCEPT ![m] = Released(@, "done")]
    BY <1>1 DEF AckDelivery, Ack
  <2>2. msgs \in [Messages -> Message] /\ Released(msgs[m], "done").status = "done"
    BY ReleasedFields DEF WorkInv, LeaseInv, BusTypeOK
  <2> QED
    BY <2>1, <2>2
<1>4. tickets' = tickets /\ held'[w] = NoLease
  BY DEF AckDelivery, Ack, Forget, WorkInv, LeaseInv, BusTypeOK
<1>5. ASSUME NEW n \in Messages, StillWorks(n)
      PROVE  StillWorks(n)'
  <2>1. n # m
    BY <1>1, <1>2, <1>5 DEF StillWorks, Waiting
  <2>2. ASSUME NEW v \in Workers, Newest(v)', held'[v].message = n, pc'[v] \in Ending
        PROVE  Newest(v) /\ held[v].message = n /\ pc[v] \in Ending
    <3>1. v # w
      BY <1>4, <2>2 DEF Newest
    <3>2. held'[v] = held[v] /\ pc'[v] = pc[v]
      BY <3>1, OtherWorkersStand DEF WorkInv, Worker, Work
    <3> QED
      BY <1>3, <2>1, <2>2, <3>2 DEF Newest
  <2> QED
    BY <1>3, <1>5, <2>1, <2>2 DEF StillWorks, Waiting
<1>6. /\ EnvelopesHaveTickets'
      /\ \A t \in Tickets : Live(t)' = Live(t)
      /\ \A n \in Messages : msgs'[n].status = "absent" <=> msgs[n].status = "absent"
  BY <1>2, <1>3, <1>4 DEF WorkInv, EnvelopesHaveTickets, Live
<1>7. \A t \in Tickets : EnvelopeOf[t] \in Messages
  BY WorkersAssumption
<1> QED
  BY <1>5, <1>6, <1>7 DEF WorkInv

LEMMA CreationKeepsWork ==
    ASSUME BusTypeOK, NEW t \in Tickets,
           CreateTicket(t) \/ \E w \in Workers : CreateTaskTicket(w, t)
    PROVE  KeepsWork
<1>1. /\ msgs' = msgs
      /\ tickets' = [tickets EXCEPT ![t] = IF @ = "absent" THEN "open" ELSE @]
  BY DEF CreateTicket, CreateTaskTicket
<1> QED
  BY <1>1 DEF KeepsWork, Live, Underway, BusTypeOK

LEMMA StepWorkInv == WorkInv /\ [Next]_vars => WorkInv'
<1> SUFFICES ASSUME WorkInv, [Next]_vars
             PROVE  WorkInv'
  OBVIOUS
<1>1. WorkersInv /\ WorkersInv' /\ LeaseInv /\ LeaseInv' /\ BusTypeOK /\ Remembers
  BY EveryStepIsABusStep, StepWorkers, StepLeaseInv, StepRemembers DEF WorkInv, LeaseInv
<1>2. CASE \E w \in Workers, m \in Messages : Take(w, m)
  BY <1>1, <1>2, TakeKeepsWorkInv
<1>3. ASSUME ~\E w \in Workers, m \in Messages : Take(w, m)
      PROVE  WorkInv'
  <2>1. Keeps
    BY <1>1, <1>3, NoTakeKeeps
  <2>2. ASSUME NEW w \in Workers, AckDelivery(w)
        PROVE  WorkInv'
    <3>1. CASE Owns(w)
      BY <1>1, <2>2, <3>1, AckKeepsWorkInv
    <3>2. CASE ~Owns(w)
      <4>1. KeepsWork
        BY <2>2, <3>2 DEF AckDelivery, Ack, KeepsWork, Live, Underway
      <4> QED
        BY <1>1, <2>1, <4>1, KeepsWorkInv
    <3> QED
      BY <3>1, <3>2
  <2>3. ASSUME NEW w \in Workers, CreateChild(w)
        PROVE  KeepsWork
    BY <1>1, <2>3, PlannedTask, CreationKeepsWork DEF CreateChild
  <2>4. ASSUME NEW w \in Workers, Settles(w)
        PROVE  KeepsWork
    <3>1. verdict[w].action # "retry" => verdict[w].action \in {"done", "failed"}
      BY <1>1 DEF WorkersInv, WorkersTypeOK, Verdict
    <3>2. PICK s \in {"done", "failed"}, b \in BOOLEAN : UpdateStatus(w, s, b)
      BY <2>4, <3>1 DEF Settles, FinishRequest, FinishWithoutResult, CompleteTask
    <3> QED
      BY <1>1, <3>2, UpdateKeepsWork
  <2>5. ASSUME NEW t \in Tickets, Compile(t)
        PROVE  KeepsWork
    BY <1>1, <2>5, CreationKeepsWork DEF Compile
  <2> QED
    BY <1>1, <1>3, <2>1, <2>2, <2>3, <2>4, <2>5, StepKinds, OrdinaryKeepsWork, KeepsWorkInv
<1> QED
  BY <1>2, <1>3

\* A live ticket has a delivery that waits or is under way, or was never sent: no
\* crash, lapse, requeue, retry, cancellation or acknowledgement strands it.
THEOREM NoTicketIsStranded == Spec => []NoStrandedTicket
<1>1. Spec => []WorkInv
  BY InitWorkInv, StepWorkInv, PTL DEF Spec
<1> QED
  BY <1>1, WorkInvGivesNoStranded, PTL

-----------------------------------------------------------------------------
(* What is recorded of the tool calls                                      *)

\* The run PersistRun writes.
RunOf(w) ==
    [ticket |-> TicketHeld(w), generation |-> held[w].generation, status |-> verdict[w].run]

\* Runs are written under the guard and nowhere else.
LEMMA OnlyPersistWrites ==
    ASSUME WorkersInv, [Next]_vars, runs' # runs
    PROVE  \E w \in Workers : /\ PersistRun(w) /\ Newest(w) /\ Live(TicketHeld(w))
                             /\ runs' = runs \cup {RunOf(w)}
<1>1. PICK w \in Workers : Worker(w)
  BY OthersLeaveWorkers DEF Next
<1>2. CASE PersistRun(w)
  BY <1>2, OwnerIsNewest DEF PersistRun, RequireWork, TicketHeld, RunOf
<1>3. CASE (\E m \in Messages : Take(w, m)) \/ KeepAlive(w) \/ StepFails(w) \/ Crash(w)
  BY <1>3 DEF Take, KeepAlive, StepFails, Crash, Lost, workerVars
<1>4. CASE Work(w) /\ ~PersistRun(w)
  BY <1>4 DEF Work, ReadTicket, RepublishFinished, Claim, CreateChild, SaveChildRow, SendChild,
              FinishRequest, FinishWithoutResult, CircuitOpen, LookUpRun, ReuseRun, CallTool,
              ToolReturns, ScheduleRetry, CompleteTask, DeliverResult, AckDelivery, NackDelivery,
              Revoked, Lost
<1> QED
  BY <1>1, <1>2, <1>3, <1>4 DEF Worker

\* A ticket that is finished is given no further run.
THEOREM FinishedTicketsRecordNothing == Spec => NoRunAfterFinal
<1>1. ASSUME WorkersInv, [Next]_vars
      PROVE  [\A t \in Tickets :
                 Terminal(t) => {r \in runs' : r.ticket = t} = {r \in runs : r.ticket = t}]_vars
  <2>1. CASE runs' = runs
    BY <2>1
  <2>2. CASE runs' # runs
    <3>1. PICK w \in Workers : Live(TicketHeld(w)) /\ runs' = runs \cup {RunOf(w)}
      BY <1>1, <2>2, OnlyPersistWrites
    <3>2. RunOf(w).ticket = TicketHeld(w) /\ ~Terminal(TicketHeld(w))
      BY <3>1 DEF RunOf, Live, Terminal
    <3> QED
      BY <3>1, <3>2
  <2> QED
    BY <2>1, <2>2
<1> QED
  BY <1>1, InitWorkers, StepWorkers, PTL DEF Spec, NoRunAfterFinal

\* A worker on its way to a tool call for a MIC task, as long as its claim is the
\* newest, has no successful run to repeat: nobody recorded one since it looked, unless
\* the task has a second message.
CallsTool == {"start", "tool", "persist"}

MicInv ==
    /\ WorkersInv
    /\ LeaseInv
    /\ SuccessRecordedOnce
    /\ \A w \in Workers :
           pc[w] \in CallsTool /\ Newest(w) /\ TicketHeld(w) \in MicTasks =>
               SentByHand(TicketHeld(w)) \/ ~SuccessfulRun(TicketHeld(w))
    /\ \A w \in Workers : held[w] # NoLease => msgs[held[w].message].status # "absent"

LEMMA InitMicInv == Init => MicInv
  BY InitWorkers, InitLeaseInv
  DEF Init, BusInit, MicInv, SuccessRecordedOnce, CallsTool

\* A worker begins such a call only where it found none.
LEMMA CallsAfterLookUp ==
    ASSUME WorkersInv, NEW w \in Workers, [Next]_vars, pc'[w] \in CallsTool, pc[w] \notin CallsTool,
           TicketHeld(w) \in MicTasks
    PROVE  ~SuccessfulRun(TicketHeld(w))
<1> USE DEF CallsTool
<1>a. pc \in [Workers -> Steps]
  BY DEF WorkersInv, WorkersTypeOK
<1>b. Worker(w)
  BY OwnStep
<1>1. CASE LookUpRun(w)
  BY <1>1, <1>a DEF LookUpRun, GoTo
<1>2. CASE (\E m \in Messages : Take(w, m)) \/ KeepAlive(w)
  BY <1>2, <1>a DEF Take, KeepAlive, GoTo, workerVars
<1>3. CASE AckDelivery(w) \/ NackDelivery(w) \/ Crash(w) \/ Revoked(w) \/ StepFails(w)
  BY <1>3, <1>a DEF AckDelivery, NackDelivery, Crash, Revoked, StepFails, Lost, BecomeIdle, GoTo
<1>4. CASE CallTool(w) \/ ToolReturns(w) \/ PersistRun(w)
  BY <1>4 DEF CallTool, ToolReturns, PersistRun
<1>5. CASE Claim(w) \/ CircuitOpen(w) \/ ScheduleRetry(w) \/ CreateChild(w) \/ SendChild(w)
           \/ SaveChildRow(w) \/ ReuseRun(w) \/ ReadTicket(w) \/ Settles(w)
  BY <1>5, <1>a DEF Claim, CircuitOpen, ScheduleRetry, CreateChild, SendChild, SaveChildRow,
                    ReuseRun, ReadTicket, Settles, FinishRequest, FinishWithoutResult,
                    CompleteTask, GoTo
<1>6. CASE RepublishFinished(w) \/ DeliverResult(w)
  BY <1>6, <1>a DEF RepublishFinished, DeliverResult, GoTo
<1> QED
  BY <1>b, <1>1, <1>2, <1>3, <1>4, <1>5, <1>6 DEF Worker, Work, Settles

\* Whoever has the newest claim after a step has it before, except by taking it.
LEMMA NewestUnlessTaken ==
    ASSUME WorkersInv, LeaseInv, [Next]_vars, NEW w \in Workers, Newest(w)',
           pc'[w] \in CallsTool
    PROVE  Newest(w) /\ held'[w] = held[w]
<1>1. CASE \E v \in Workers, m \in Messages : Take(v, m)
  <2>1. PICK v \in Workers, m \in Messages : Take(v, m)
    BY <1>1
  <2>2. v # w
    BY <2>1 DEF Take, GoTo, CallsTool, WorkersInv, WorkersTypeOK
  <2> QED
    BY <2>1, <2>2, TakeOutdates
<1>2. CASE ~\E v \in Workers, m \in Messages : Take(v, m)
  BY <1>2, NoTakeKeeps, NewestWasNewest
<1> QED
  BY <1>1, <1>2

\* A message that is held was published, and stays.
LEMMA HeldMessagesExist ==
    ASSUME MicInv, BusTypeOK', [Next]_vars, Remembers, NEW w \in Workers, held'[w] # NoLease
    PROVE  msgs'[held'[w].message].status # "absent"
<1>1. CASE held'[w] = held[w]
  BY <1>1, LeaseHeld DEF MicInv, LeaseInv, Remembers
<1>2. CASE \E m \in Messages : Take(w, m)
  BY <1>2 DEF Take, LeaseMessage, MicInv, LeaseInv, BusTypeOK
<1>3. ASSUME NEW v \in Workers, NEW m \in Messages, Take(v, m), v # w
      PROVE  held'[w] = held[w]
  BY <1>3, OtherWorkersStand DEF Worker, MicInv
<1> QED
  BY <1>1, <1>2, <1>3, NoTakeKeeps DEF Keeps, MicInv

\* Two messages of a MIC task: an operator published one of them.
LEMMA SecondMessageIsByHand ==
    ASSUME MicInv, NEW v \in Workers, NEW w \in Workers, held[v] # NoLease, held[w] # NoLease,
           TicketHeld(v) = TicketHeld(w), TicketHeld(v) \in MicTasks,
           held[v].message # held[w].message
    PROVE  SentByHand(TicketHeld(v))
<1>1. held[v].message \in Messages /\ held[w].message \in Messages
  BY LeaseHeld DEF MicInv, LeaseInv
<1>2. held[v].message \in ByHand \/ held[w].message \in ByHand
  BY <1>1, DeliveryAssumption DEF TicketHeld
<1> QED
  BY <1>1, <1>2 DEF SentByHand, TicketHeld, MicInv

LEMMA StepMicInv == MicInv /\ [Next]_vars => MicInv'
<1> SUFFICES ASSUME MicInv, [Next]_vars
             PROVE  MicInv'
  OBVIOUS
<1>1. WorkersInv /\ WorkersInv' /\ LeaseInv /\ LeaseInv'
  BY EveryStepIsABusStep, StepWorkers, StepLeaseInv DEF MicInv
<1>r. Remembers
  BY <1>1, EveryStepIsABusStep, StepRemembers DEF LeaseInv
<1>h. \A t \in MicTasks : SentByHand(t) => SentByHand(t)'
  BY <1>r, DeliveryAssumption DEF SentByHand, Remembers
<1>e. \A w \in Workers : held'[w] # NoLease => msgs'[held'[w].message].status # "absent"
  BY <1>1, <1>r, HeldMessagesExist DEF LeaseInv
<1>2. ASSUME NEW w \in Workers, pc'[w] \in CallsTool, Newest(w)', TicketHeld(w)' \in MicTasks
      PROVE  /\ Newest(w) /\ held'[w] = held[w] /\ TicketHeld(w)' = TicketHeld(w)
             /\ SentByHand(TicketHeld(w)) \/ ~SuccessfulRun(TicketHeld(w))
  <2>1. Newest(w) /\ held'[w] = held[w] /\ TicketHeld(w)' = TicketHeld(w)
    BY <1>1, <1>2, NewestUnlessTaken DEF TicketHeld
  <2>2. CASE pc[w] \in CallsTool
    BY <1>2, <2>1, <2>2 DEF MicInv
  <2>3. CASE pc[w] \notin CallsTool
    BY <1>1, <1>2, <2>1, <2>3, CallsAfterLookUp
  <2> QED
    BY <2>1, <2>2, <2>3
<1>3. CASE runs' = runs
  BY <1>1, <1>2, <1>3, <1>h, <1>e DEF MicInv, SuccessRecordedOnce, SuccessfulRun
<1>4. CASE runs' # runs
  <2>1. PICK w \in Workers : /\ PersistRun(w) /\ Newest(w) /\ Live(TicketHeld(w))
                            /\ runs' = runs \cup {RunOf(w)}
    BY <1>1, <1>4, OnlyPersistWrites
  <2>2. /\ pc[w] = "persist" /\ pc'[w] = "settle" /\ RunOf(w).ticket = TicketHeld(w)
        /\ TicketHeld(w) \in MicTasks => SentByHand(TicketHeld(w)) \/ ~SuccessfulRun(TicketHeld(w))
    BY <2>1, <1>1 DEF PersistRun, GoTo, RunOf, MicInv, CallsTool, WorkersInv, WorkersTypeOK
  <2>3. SuccessRecordedOnce'
    BY <2>1, <2>2, <1>h DEF SuccessRecordedOnce, SuccessfulRun, MicInv
  <2>4. ASSUME NEW v \in Workers, pc'[v] \in CallsTool, Newest(v)', TicketHeld(v)' \in MicTasks
        PROVE  (SentByHand(TicketHeld(v)) \/ ~SuccessfulRun(TicketHeld(v)))'
    <3>1. /\ Newest(v) /\ TicketHeld(v)' = TicketHeld(v) /\ TicketHeld(v) \in MicTasks
          /\ SentByHand(TicketHeld(v)) \/ ~SuccessfulRun(TicketHeld(v))
      BY <1>2, <2>4
    <3>2. v # w
      BY <2>2, <2>4 DEF CallsTool
    <3>3. CASE SentByHand(TicketHeld(v))
      BY <1>h, <3>1, <3>3 DEF SentByHand
    <3>4. CASE ~SentByHand(TicketHeld(v))
      <4>1. held[v].message # held[w].message
        BY <1>1, <2>1, <3>1, <3>2 DEF Newest, LeaseInv, Claims
      <4>2. TicketHeld(v) # TicketHeld(w)
        BY <2>1, <3>1, <3>4, <4>1, SecondMessageIsByHand DEF Newest
      <4> QED
        BY <2>1, <2>2, <3>1, <3>4, <4>2 DEF SuccessfulRun
    <3> QED
      BY <3>3, <3>4
  <2> QED
    BY <1>1, <1>e, <2>3, <2>4 DEF MicInv
<1> QED
  BY <1>3, <1>4

\* As long as no operator publishes a second message for a MIC task, it records one
\* successful collection at most, for any number of workers, redeliveries and retries,
\* and whatever happens to other tasks: the lease generation and the look-up together
\* see to it.  They relate deliveries of one message only (see queue publish --ticket-id).
THEOREM MicTasksSucceedOnce == Spec => []SuccessRecordedOnce
<1>1. MicInv => SuccessRecordedOnce
  BY DEF MicInv
<1>2. MicInv /\ [Next]_vars => MicInv'
  BY StepMicInv
<1> QED
  BY <1>1, <1>2, InitMicInv, PTL DEF Spec

-----------------------------------------------------------------------------
(* What a planner leaves behind                                            *)

\* All that a planner writes for a task.
Delivered(c) == tickets[c] # "absent" /\ c \in rows /\ msgs[EnvelopeOf[c]].status # "absent"

\* A planner has delivered every task before the one it is at, and has written of
\* that one what its step says; a worker at a task's steps holds no request.
PlanProgress(w) ==
    /\ pc[w] \in {"create", "row", "send"} =>
           \A i \in DOMAIN Planned(w) : i < child[w] => Delivered(Planned(w)[i])
    /\ pc[w] \in {"row", "send"} => tickets[Planned(w)[child[w]]] # "absent"
    /\ pc[w] = "send" => Planned(w)[child[w]] \in rows
    /\ pc[w] \in {"idle", "read", "claim"} => child[w] = 1
    /\ pc[w] \in {"check", "reuse", "start", "tool", "persist", "settle"} =>
           TicketHeld(w) \notin Requests

PlanInv ==
    /\ WorkersInv
    /\ \A w \in Workers : PlanProgress(w)
    /\ DoneRequestIsFullyPlanned

LEMMA InitPlanInv == Init => PlanInv
  BY InitWorkers, WorkersAssumption
  DEF Init, BusInit, PlanInv, PlanProgress, DoneRequestIsFullyPlanned

LEMMA RowsGrow ==
    ASSUME WorkersInv, [Next]_vars
    PROVE  rows \subseteq rows'
<1>1. ASSUME NEW w \in Workers, Worker(w)
      PROVE  rows \subseteq rows'
  BY <1>1 DEF Worker, Work, Take, KeepAlive, StepFails, Crash, Lost, workerVars, ReadTicket,
              RepublishFinished, Claim, CreateChild, SaveChildRow, SendChild,
              FinishRequest, FinishWithoutResult, CircuitOpen, LookUpRun, ReuseRun, CallTool,
              ToolReturns, PersistRun, ScheduleRetry, CompleteTask, DeliverResult, AckDelivery,
              NackDelivery, Revoked
<1> QED
  BY <1>1, OthersLeaveWorkers DEF Next

\* What a planner has delivered stays delivered.
LEMMA DeliveredStays ==
    ASSUME WorkersInv, [Next]_vars, Remembers, NEW c \in Tickets, Delivered(c)
    PROVE  Delivered(c)'
  BY RowsGrow, WorkersAssumption DEF Delivered, Remembers

LEMMA PlannedTasks ==
    ASSUME NEW q \in Requests, NEW i \in DOMAIN ChildrenOf[q]
    PROVE  /\ ChildrenOf[q][i] \in Tickets \ Requests
           /\ i \in Nat \ {0} /\ i <= Len(ChildrenOf[q])
<1>1. ChildrenOf[q] \in Seq(Tickets \ Requests)
  BY WorkersAssumption
<1> QED
  BY <1>1

\* A planner that stays at its task, or the step of which says nothing new.
LEMMA SameProgress ==
    ASSUME PlanInv, [Next]_vars, Remembers, NEW w \in Workers, PlanProgress(w),
           held'[w] = held[w], child'[w] = child[w], pc'[w] = pc[w]
    PROVE  PlanProgress(w)'
<1>1. TicketHeld(w)' = TicketHeld(w) /\ Planned(w)' = Planned(w)
  BY DEF TicketHeld, Planned
<1>2. pc[w] \in {"create", "row", "send"} =>
        /\ TicketHeld(w) \in Requests
        /\ \A i \in DOMAIN Planned(w) : Planned(w)[i] \in Tickets
  BY PlannedTasks DEF PlanInv, WorkersInv, Planned
<1>3. pc[w] \in {"row", "send"} => Planned(w)[child[w]] \in Tickets
  BY PlannedTask DEF PlanInv, WorkersInv
<1> QED
  BY <1>1, <1>2, <1>3, DeliveredStays, RowsGrow DEF PlanProgress, PlanInv, Remembers

LEMMA WorkerKeepsProgress ==
    ASSUME PlanInv, [Next]_vars, Remembers, NEW w \in Workers, Worker(w)
    PROVE  PlanProgress(w)'
<1>a. /\ WorkersInv /\ pc \in [Workers -> Steps] /\ child \in [Workers -> Nat \ {0}]
      /\ BusTypeOK /\ PlanProgress(w)
  BY DEF PlanInv, WorkersInv, WorkersTypeOK
<1>1. ASSUME pc'[w] \in {"republish", "ack", "nack", "deliver"}
      PROVE  PlanProgress(w)'
  BY <1>1 DEF PlanProgress
<1>2. ASSUME BecomeIdle(w)
      PROVE  PlanProgress(w)'
  BY <1>2, <1>a DEF BecomeIdle, GoTo, PlanProgress
<1>3. ASSUME pc[w] \in {"check", "reuse", "start", "tool", "persist", "settle"},
             pc'[w] \in {"check", "reuse", "start", "tool", "persist", "settle"},
             held'[w] = held[w]
      PROVE  PlanProgress(w)'
  BY <1>3, <1>a DEF PlanProgress, TicketHeld
<1>4. CASE \E m \in Messages : Take(w, m)
  BY <1>4, <1>a DEF Take, GoTo, PlanProgress
<1>5. CASE ReadTicket(w)
  BY <1>5, <1>a DEF ReadTicket, GoTo, PlanProgress
<1>6. CASE Claim(w)
  <2>1. /\ held'[w] = held[w] /\ child'[w] = 1 /\ TicketHeld(w)' = TicketHeld(w)
        /\ pc'[w] = IF TicketHeld(w) \in Requests THEN "create" ELSE "check"
    BY <1>6, <1>a DEF Claim, UpdateStatus, GoTo, PlanProgress, TicketHeld
  <2>2. TicketHeld(w) \in Requests => \A i \in DOMAIN Planned(w)' : ~(i < 1)
    BY <2>1, PlannedTasks DEF Planned
  <2> QED
    BY <2>1, <2>2 DEF PlanProgress
<1>7. CASE CreateChild(w) \/ SaveChildRow(w) \/ SendChild(w)
  <2>1. /\ held'[w] = held[w] /\ TicketHeld(w)' = TicketHeld(w) /\ Planned(w)' = Planned(w)
        /\ pc[w] \in {"create", "row", "send"}
    BY <1>7 DEF CreateChild, SaveChildRow, SendChild, CreateTaskTicket, PublishTask, Publish,
                busVars, TicketHeld, Planned
  <2>2. TicketHeld(w) \in Requests /\ \A i \in DOMAIN Planned(w) : Planned(w)[i] \in Tickets
    BY <1>a, <2>1, PlannedTasks DEF WorkersInv, Planned
  <2>3. PICK c \in Tickets : /\ c = Planned(w)[child[w]]
                           /\ child[w] <= Len(Planned(w)) /\ child[w] \in Nat
    BY <1>7, <1>a, <2>1, PlannedTask DEF CreateChild, SaveChildRow, SendChild, WorkersInv
  <2>4. \A i \in DOMAIN Planned(w) : i < child[w] => Delivered(Planned(w)[i])'
    BY <1>a, <2>1, <2>2, DeliveredStays DEF PlanProgress
  <2>5. CASE CreateChild(w)
    <3>1. tickets'[c] # "absent" /\ pc'[w] = "row" /\ child'[w] = child[w]
      BY <2>5, <2>3, <1>a DEF CreateChild, CreateTaskTicket, GoTo, BusTypeOK
    <3> QED
      BY <2>1, <2>3, <2>4, <3>1 DEF PlanProgress
  <2>6. CASE SaveChildRow(w)
    <3>1. /\ tickets[c] # "absent" /\ tickets' = tickets /\ c \in rows'
          /\ pc'[w] = "send" /\ child'[w] = child[w]
      BY <2>6, <2>3, <1>a DEF SaveChildRow, GoTo, busVars, PlanProgress
    <3> QED
      BY <2>1, <2>3, <2>4, <3>1 DEF PlanProgress
  <2>7. CASE SendChild(w)
    <3>1. /\ tickets[c] # "absent" /\ c \in rows /\ rows' = rows /\ tickets' = tickets
          /\ pc'[w] = "create" /\ child'[w] = child[w] + 1
      BY <2>7, <2>3, <1>a DEF SendChild, PublishTask, Publish, GoTo, PlanProgress
    <3>2. msgs'[EnvelopeOf[c]].status # "absent"
      BY <2>7, <2>3, <1>a, WorkersAssumption DEF SendChild, PublishTask, Publish, BusTypeOK, Message
    <3>3. Delivered(c)'
      BY <3>1, <3>2 DEF Delivered
    <3>4. \A i \in DOMAIN Planned(w) : i \in Nat
      BY <2>2, PlannedTasks DEF Planned
    <3>5. \A i \in DOMAIN Planned(w) : i < child'[w] => Delivered(Planned(w)[i])'
      BY <2>1, <2>3, <2>4, <3>1, <3>3, <3>4 DEF Delivered
    <3> QED
      BY <2>1, <3>1, <3>5 DEF PlanProgress
  <2> QED
    BY <1>7, <2>5, <2>6, <2>7
<1>8. CASE ReuseRun(w) \/ CallTool(w) \/ ToolReturns(w) \/ PersistRun(w) \/ LookUpRun(w)
  <2>1. /\ pc[w] \in {"check", "reuse", "start", "tool", "persist", "settle"}
        /\ pc'[w] \in {"check", "reuse", "start", "tool", "persist", "settle"}
        /\ held'[w] = held[w]
    BY <1>8, <1>a DEF ReuseRun, CallTool, ToolReturns, PersistRun, LookUpRun, GoTo, busVars
  <2> QED
    BY <2>1, <1>3
<1>9. CASE KeepAlive(w)
  BY <1>9, <1>a, SameProgress DEF KeepAlive, ExtendLease, workerVars
<1>10. CASE AckDelivery(w) \/ NackDelivery(w) \/ Crash(w) \/ Revoked(w) \/ Lost(w)
  BY <1>2, <1>10 DEF AckDelivery, NackDelivery, Crash, Revoked, Lost
<1>11. CASE \/ StepFails(w) /\ ~Lost(w)
            \/ CircuitOpen(w) \/ ScheduleRetry(w) \/ Settles(w)
            \/ RepublishFinished(w) \/ DeliverResult(w)
  <2>1. pc'[w] \in {"republish", "ack", "nack", "deliver"}
    BY <1>11, <1>a DEF StepFails, CircuitOpen, ScheduleRetry, Settles, FinishRequest,
                       FinishWithoutResult, CompleteTask, RepublishFinished, DeliverResult, GoTo
  <2> QED
    BY <2>1, <1>1
<1> QED
  BY <1>4, <1>5, <1>6, <1>7, <1>8, <1>9, <1>10, <1>11 DEF Worker, Work, Settles

\* A request becomes done by the step of a planner that is through with its plan.
LEMMA OnlyPlannersFinishRequests ==
    ASSUME PlanInv, [Next]_vars, NEW r \in Requests, tickets'[r] = "done", tickets[r] # "done"
    PROVE  \E w \in Workers : TicketHeld(w) = r /\ FinishRequest(w)
<1>a. WorkersInv /\ BusTypeOK /\ r \in Tickets
  BY WorkersAssumption DEF PlanInv, WorkersInv, WorkersTypeOK
<1>1. ~OrdinaryCall
  BY <1>a, OrdinaryKeepsOutcomes DEF KeepsOutcomes
<1>2. ~\E w \in Workers, m \in Messages : Take(w, m)
  BY DEF Take, LeaseMessage
<1>3. ~\E w \in Workers : AckDelivery(w) \/ CreateChild(w)
  BY <1>a DEF AckDelivery, Ack, CreateChild, CreateTaskTicket, BusTypeOK
<1>4. ~\E t \in Tickets : Compile(t)
  BY <1>a DEF Compile, CreateTicket, BusTypeOK
<1>5. PICK w \in Workers : Settles(w)
  BY <1>a, <1>1, <1>2, <1>3, <1>4, StepKinds
<1>6. TicketHeld(w) = r
  BY <1>a, <1>5 DEF Settles, FinishRequest, FinishWithoutResult, CompleteTask, UpdateStatus,
                    TicketHeld, BusTypeOK
<1>7. pc[w] \notin {"check", "settle"}
  BY <1>6 DEF PlanInv, PlanProgress
<1> QED
  BY <1>5, <1>6, <1>7 DEF Settles, FinishWithoutResult, CompleteTask

LEMMA StepPlanInv == PlanInv /\ [Next]_vars => PlanInv'
<1> SUFFICES ASSUME PlanInv, [Next]_vars
             PROVE  PlanInv'
  OBVIOUS
<1>1. WorkersInv /\ WorkersInv' /\ Remembers
  BY EveryStepIsABusStep, StepWorkers, StepRemembers DEF PlanInv, WorkersInv, WorkersTypeOK
<1>2. ASSUME NEW w \in Workers
      PROVE  PlanProgress(w)'
  <2>1. CASE Worker(w)
    BY <1>1, <2>1, WorkerKeepsProgress
  <2>2. CASE ~Worker(w)
    BY <1>1, <2>2, OwnStep, SameProgress DEF PlanInv
  <2> QED
    BY <2>1, <2>2
<1>3. ASSUME NEW r \in Requests, tickets'[r] = "done", NEW i \in DOMAIN ChildrenOf[r]
      PROVE  Delivered(ChildrenOf[r][i])'
  <2>1. ChildrenOf[r][i] \in Tickets
    BY PlannedTasks
  <2>2. Delivered(ChildrenOf[r][i])
    <3>1. CASE tickets[r] = "done"
      BY <3>1 DEF PlanInv, DoneRequestIsFullyPlanned, Delivered
    <3>2. CASE tickets[r] # "done"
      <4>1. PICK w \in Workers : TicketHeld(w) = r /\ FinishRequest(w)
        BY <1>3, <3>2, OnlyPlannersFinishRequests
      <4>2. /\ Planned(w) = ChildrenOf[r] /\ pc[w] = "create" /\ child[w] \in Nat
            /\ i < child[w]
        BY <4>1, <1>1, PlannedTasks DEF FinishRequest, Planned, WorkersInv, WorkersTypeOK
      <4> QED
        BY <4>2 DEF PlanInv, PlanProgress
    <3> QED
      BY <3>1, <3>2
  <2> QED
    BY <1>1, <2>1, <2>2, DeliveredStays
<1> QED
  BY <1>1, <1>2, <1>3 DEF PlanInv, DoneRequestIsFullyPlanned, Delivered

\* A done request has all its tasks planned and sent, whichever of the planners that
\* were delivered it wrote them, and wherever the others crashed.
THEOREM DoneRequestsArePlanned == Spec => []DoneRequestIsFullyPlanned
<1>1. PlanInv => DoneRequestIsFullyPlanned
  BY DEF PlanInv
<1> QED
  BY <1>1, InitPlanInv, StepPlanInv, PTL DEF Spec

-----------------------------------------------------------------------------
(* What a cancellation leaves running                                      *)

Plans(q, c) == \E i \in DOMAIN ChildrenOf[q] : ChildrenOf[q][i] = c

\* CancelledRequestHasNoLiveChild speaks of a cancelled request only; what a step
\* keeps is that a live task has a request that is not.
QuietInv ==
    /\ WorkersInv
    /\ \A q \in Requests : \A c \in Tickets :
           Plans(q, c) /\ Live(c) /\ retries[c] = 0 =>
               \E p \in Requests : Plans(p, c) /\ tickets[p] # "cancelled"

LEMMA PlannedChild ==
    ASSUME NEW q \in Requests, NEW c, Plans(q, c)
    PROVE  /\ c \in Tickets \ Requests /\ c \notin Scheduled
           /\ q \in DemandTickets => c \in DemandTickets
  BY PlannedTasks, PlanAssumption DEF Plans

LEMMA QuietInvGivesNoLiveChild == QuietInv => CancelledRequestHasNoLiveChild
<1> SUFFICES ASSUME QuietInv, NEW r \in Requests, tickets[r] = "cancelled",
                    NEW i \in DOMAIN ChildrenOf[r], Live(ChildrenOf[r][i]),
                    ~(retries[ChildrenOf[r][i]] > 0)
             PROVE  \E q \in Requests \ {r} :
                       /\ tickets[q] # "cancelled"
                       /\ \E j \in DOMAIN ChildrenOf[q] : ChildrenOf[q][j] = ChildrenOf[r][i]
  BY DEF CancelledRequestHasNoLiveChild
<1>1. PICK c \in Tickets : c = ChildrenOf[r][i] /\ Plans(r, c)
  BY PlannedTasks DEF Plans
<1>2. retries[c] = 0
  BY <1>1 DEF QuietInv, WorkersInv, WorkersTypeOK, BusTypeOK
<1>3. PICK p \in Requests : Plans(p, c) /\ tickets[p] # "cancelled"
  BY <1>1, <1>2 DEF QuietInv
<1> QED
  BY <1>1, <1>3 DEF Plans

LEMMA InitQuietInv == Init => QuietInv
  BY InitWorkers DEF Init, BusInit, QuietInv, Live

\* A task becomes live, unless an operator retries it, because a live request plans
\* it; and what cancels its request cancels it with it.
LEMMA TaskComesToLife ==
    ASSUME WorkersInv, [Next]_vars, NEW q \in Requests, NEW c \in Tickets, Plans(q, c),
           Live(c)', ~Live(c), retries'[c] = 0
    PROVE  \E p \in Requests : Plans(p, c) /\ tickets'[p] # "cancelled"
<1>a. BusTypeOK /\ tickets \in [Tickets -> TicketStatus]
  BY DEF WorkersInv, WorkersTypeOK, BusTypeOK
<1>1. ~OrdinaryCall
  BY <1>a, OrdinaryKeepsOutcomes DEF KeepsOutcomes
<1>2. /\ ~\E w \in Workers, m \in Messages : Take(w, m)
      /\ ~\E w \in Workers : AckDelivery(w)
  BY DEF Take, LeaseMessage, AckDelivery, Ack, Live
<1>3. ~\E w \in Workers : Settles(w)
  <2> SUFFICES ASSUME NEW w \in Workers, Settles(w)
               PROVE  FALSE
    OBVIOUS
  <2>1. PICK s \in {"done", "failed", "retry"}, b \in BOOLEAN :
           UpdateStatus(w, s, b) /\ s # "retry"
    BY DEF Settles, FinishRequest, FinishWithoutResult, CompleteTask, WorkersInv,
           WorkersTypeOK, Verdict
  <2> QED
    BY <1>a, <2>1 DEF UpdateStatus, Live
<1>4. ~\E t \in Tickets : Compile(t)
  BY <1>a, PlannedChild DEF Compile, CreateTicket, Live
<1>5. PICK w \in Workers : CreateChild(w)
  BY <1>1, <1>2, <1>3, <1>4, StepKinds
<1>6. Planned(w)[child[w]] = c /\ Live(TicketHeld(w))
  BY <1>a, <1>5 DEF CreateChild, CreateTaskTicket, RequireWork, TicketHeld, Live
<1>7. TicketHeld(w) \in Requests /\ Plans(TicketHeld(w), c)
  <2>1. /\ TicketHeld(w) \in Requests /\ child[w] \in Nat \ {0}
        /\ child[w] <= Len(Planned(w)) /\ Planned(w) \in Seq(Tickets \ Requests)
    BY <1>5, WorkersAssumption DEF CreateChild, WorkersInv, WorkersTypeOK, Planned
  <2> QED
    BY <1>6, <2>1 DEF Plans, Planned
<1>8. tickets'[TicketHeld(w)] # "cancelled"
  <2>1. TicketHeld(w) \in Tickets /\ TicketHeld(w) # c
    BY <1>7, PlannedChild, WorkersAssumption
  <2> QED
    BY <1>a, <1>5, <1>6, <2>1 DEF CreateChild, CreateTaskTicket, Live
<1> QED
  BY <1>7, <1>8

LEMMA CancellationTakesTasks ==
    ASSUME WorkersInv, [Next]_vars, NEW q \in Requests, NEW c \in Tickets, Plans(q, c),
           tickets'[q] = "cancelled", tickets[q] # "cancelled"
    PROVE  ~Live(c)'
<1>a. BusTypeOK /\ tickets \in [Tickets -> TicketStatus] /\ q \in Tickets
  BY WorkersAssumption DEF WorkersInv, WorkersTypeOK, BusTypeOK
<1>1. /\ ~\E w \in Workers, m \in Messages : Take(w, m)
      /\ ~\E w \in Workers : AckDelivery(w) \/ CreateChild(w)
      /\ ~\E t \in Tickets : Compile(t)
  BY <1>a DEF Take, LeaseMessage, AckDelivery, Ack, CreateChild, CreateTaskTicket, Compile,
              CreateTicket
<1>2. ~\E w \in Workers : Settles(w)
  <2> SUFFICES ASSUME NEW w \in Workers, Settles(w)
               PROVE  FALSE
    OBVIOUS
  <2>1. PICK s \in {"done", "failed", "retry"}, b \in BOOLEAN :
           UpdateStatus(w, s, b) /\ s # "retry"
    BY DEF Settles, FinishRequest, FinishWithoutResult, CompleteTask, WorkersInv,
           WorkersTypeOK, Verdict
  <2> QED
    BY <1>a, <2>1 DEF UpdateStatus
<1>3. KeepsOutcomes
  BY <1>a, <1>1, <1>2, StepKinds, OrdinaryKeepsOutcomes
<1> QED
  BY <1>a, <1>3, PlannedChild DEF KeepsOutcomes

LEMMA StepQuietInv == QuietInv /\ [Next]_vars => QuietInv'
<1> SUFFICES ASSUME QuietInv, [Next]_vars
             PROVE  QuietInv'
  OBVIOUS
<1>1. WorkersInv /\ WorkersInv' /\ Remembers
  BY EveryStepIsABusStep, StepWorkers, StepRemembers DEF QuietInv, WorkersInv, WorkersTypeOK
<1>2. ASSUME NEW q \in Requests, NEW c \in Tickets, Plans(q, c), Live(c)', retries'[c] = 0
      PROVE  \E p \in Requests : Plans(p, c) /\ tickets'[p] # "cancelled"
  <2>1. CASE Live(c)
    <3>1. retries[c] = 0
      BY <1>1, <1>2 DEF Remembers, WorkersInv, WorkersTypeOK, BusTypeOK
    <3>2. PICK p \in Requests : Plans(p, c) /\ tickets[p] # "cancelled"
      BY <1>2, <2>1, <3>1 DEF QuietInv
    <3> QED
      BY <1>1, <1>2, <3>2, CancellationTakesTasks
  <2>2. CASE ~Live(c)
    BY <1>1, <1>2, <2>2, TaskComesToLife
  <2> QED
    BY <2>1, <2>2
<1> QED
  BY <1>1, <1>2 DEF QuietInv, Plans

\* After a cancellation no planner adds a task behind it: for any plans, also plans
\* that share tasks, a live task of a cancelled request has another reason to be so.
THEOREM CancelledRequestsStayQuiet == Spec => []CancelledRequestHasNoLiveChild
<1>1. Spec => []QuietInv
  BY InitQuietInv, StepQuietInv, PTL DEF Spec
<1> QED
  BY <1>1, QuietInvGivesNoLiveChild, PTL

-----------------------------------------------------------------------------
(* What the bus store guarantees, the workers have                         *)

\* Through WorkersImplementBus everything proved of the transactions alone holds of
\* the processes: one owner, bounded attempts, current results, final losses and
\* final outcomes.
THEOREM WorkersKeepTheBusGuarantees ==
    Spec => /\ [](OneOwner /\ AttemptsBounded /\ NoSupersededResult)
            /\ LostLeaseStaysLost
            /\ FinalStatusIsStable
  BY WorkersImplementBus, MessageHasOneOwner, DeliveriesAreBounded, ResultsAreCurrent,
     LossIsFinal, FinalTicketsAreFinal, PTL

\* Seen from outside, workers, recovery, controller and operator together keep the
\* bus's promise of a ticket, and its consumers hear of one receipt per life.
THEOREM WorkersKeepPromise == Spec => TicketPromiseKept /\ []HeardOncePerLife
  BY WorkersImplementBus, BusKeepsPromise, ConsumersHearOncePerLife, PTL

=============================================================================
