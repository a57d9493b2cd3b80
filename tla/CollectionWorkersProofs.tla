---------------------- MODULE CollectionWorkersProofs ----------------------
(***************************************************************************)
(* The workers, recovery and the operator make the calls DeliveryBus       *)
(* allows and no other, so everything proved of the bus store holds of     *)
(* them.                                                                   *)
(***************************************************************************)
EXTENDS CollectionWorkers, DeliveryBusProofs

\* While a worker plans, it holds a request and the index of a task of its plan.
WorkersInv ==
    /\ WorkersTypeOK
    /\ \A w \in Workers :
           /\ pc[w] \in {"create", "row", "send"} => TicketHeld(w) \in Requests
           /\ pc[w] \in {"row", "send"} => child[w] <= Len(Planned(w))

-----------------------------------------------------------------------------
(* Every step is a call of the bus store, or leaves it alone               *)

\* A worker past "idle" holds a delivery, whose ticket exists.
LEMMA WorkerHolds ==
    ASSUME WorkersTypeOK, NEW w \in Workers, pc[w] # "idle"
    PROVE  held[w] # NoLease /\ TicketHeld(w) \in Tickets
  BY LeaseHeld DEF WorkersTypeOK, TicketHeld

\* The task a planner works on is a task ticket.
LEMMA PlannedTask ==
    ASSUME WorkersInv, NEW w \in Workers, pc[w] \in {"create", "row", "send"},
           child[w] <= Len(Planned(w))
    PROVE  Planned(w)[child[w]] \in Tickets \ Requests
<1>1. Planned(w) \in Seq(Tickets \ Requests)
  BY WorkersAssumption DEF WorkersInv, Planned
<1>2. child[w] \in Nat \ {0}
  BY DEF WorkersInv, WorkersTypeOK
<1>3. QED
  BY <1>1, <1>2

LEMMA WorkerSteps ==
    ASSUME WorkersInv, NEW w \in Workers, Worker(w)
    PROVE  BusNext \/ UNCHANGED busVars
<1>1. ASSUME WorkerCall(w)
      PROVE  BusNext
  BY <1>1 DEF BusNext
<1>2. ASSUME NEW T \in SUBSET Tickets, PublishReadyResults(T)
      PROVE  BusNext
  BY <1>2 DEF BusNext, OtherCall
<1>3. CASE \E m \in Messages : Take(w, m)
  BY <1>1, <1>3 DEF Take, WorkerCall
<1>4. CASE RepublishFinished(w) \/ DeliverResult(w)
  BY <1>2, <1>4, WorkerHolds DEF RepublishFinished, DeliverResult, WorkersInv
<1>5. CASE Claim(w) \/ FinishRequest(w) \/ FinishWithoutResult(w) \/ CircuitOpen(w)
           \/ ScheduleRetry(w)
  BY <1>1, <1>5 DEF Claim, FinishRequest, FinishWithoutResult, CircuitOpen, ScheduleRetry,
                    WorkerCall
<1>6. CASE CompleteTask(w)
  <2>1. verdict[w].action \in {"done", "failed"}
    BY <1>6 DEF CompleteTask, WorkersInv, WorkersTypeOK, Verdict
  <2>2. QED
    BY <1>1, <1>6, <2>1 DEF CompleteTask, WorkerCall
<1>7. CASE CreateChild(w)
  BY <1>1, <1>7, PlannedTask DEF CreateChild, WorkerCall
<1>8. CASE SendChild(w)
  <2>1. EnvelopeOf[Planned(w)[child[w]]] \in Messages
    BY <1>8, PlannedTask, WorkersAssumption DEF SendChild, WorkersInv
  <2>2. QED
    BY <1>1, <1>8, <2>1 DEF SendChild, WorkerCall
<1>9. CASE AckDelivery(w) \/ NackDelivery(w) \/ KeepAlive(w) \/ Crash(w) \/ Revoked(w)
  BY <1>1, <1>9 DEF AckDelivery, NackDelivery, KeepAlive, Crash, Revoked, Lost, WorkerCall
<1>10. CASE StepFails(w)
  BY <1>1, <1>10 DEF StepFails, Lost, WorkerCall
<1>11. CASE ReadTicket(w) \/ SaveChildRow(w) \/ LookUpRun(w) \/ ReuseRun(w) \/ CallTool(w)
            \/ ToolReturns(w) \/ PersistRun(w)
  BY <1>11 DEF ReadTicket, SaveChildRow, LookUpRun, ReuseRun, CallTool, ToolReturns, PersistRun
<1>12. QED
  BY <1>3, <1>4, <1>5, <1>6, <1>7, <1>8, <1>9, <1>10, <1>11 DEF Worker, Work

LEMMA OtherSteps ==
    ASSUME Recovery \/ Environment
    PROVE  BusNext \/ UNCHANGED busVars
<1>1. ASSUME OtherCall
      PROVE  BusNext
  BY <1>1 DEF BusNext
<1>2. CASE Recovery
  BY <1>1, <1>2, WorkersAssumption
  DEF Recovery, ScanOrphans, RepublishOrphan, PublishAllReady, Requeue, RetireCompleted, OtherCall
<1>3. CASE Environment
  BY <1>1, <1>3, WorkersAssumption
  DEF Environment, Compile, SendScheduled, PublishByHand, Lapse, Expire, DeadLetter, OperatorRetry,
      CancelDemand, OtherCall
<1>4. QED
  BY <1>2, <1>3

LEMMA EveryStepIsABusStep == WorkersInv /\ [Next]_vars => [BusNext]_busVars
<1>1. ASSUME UNCHANGED vars
      PROVE  UNCHANGED busVars
  BY <1>1 DEF vars, busVars
<1>2. QED
  BY <1>1, WorkerSteps, OtherSteps DEF Next

-----------------------------------------------------------------------------
(* The workers' own state                                                  *)

LEMMA InitWorkers == Init => WorkersInv
  BY InitTypes DEF Init, BusInit, WorkersInv, WorkersTypeOK, NoVerdict, Verdict, Steps

\* A step of worker w that changes its own local state only, and leaves it either
\* idle without a delivery or at a step with one, keeps the shape of all of them.
LEMMA LocalStepKeepsShape ==
    ASSUME WorkersInv, BusTypeOK', NEW w \in Workers,
           NEW step \in Steps, pc' = [pc EXCEPT ![w] = step],
           child' \in [Workers -> Nat \ {0}], verdict' \in [Workers -> Verdict],
           rows' \subseteq Tickets \ Requests, runs' \subseteq Run, orphans' \subseteq Tickets,
           \A v \in Workers \ {w} : held'[v] = held[v] /\ child'[v] = child[v],
           step = "idle" <=> held'[w] = NoLease,
           step \in {"create", "row", "send"} => TicketHeld(w)' \in Requests,
           step \in {"row", "send"} => child'[w] <= Len(Planned(w)')
    PROVE  WorkersInv'
<1>1. \A v \in Workers : pc'[v] = IF v = w THEN step ELSE pc[v]
  BY DEF WorkersInv, WorkersTypeOK
<1>2. WorkersTypeOK'
  BY <1>1 DEF WorkersInv, WorkersTypeOK
<1>3. ASSUME NEW v \in Workers
      PROVE  /\ pc'[v] \in {"create", "row", "send"} => TicketHeld(v)' \in Requests
             /\ pc'[v] \in {"row", "send"} => child'[v] <= Len(Planned(v)')
  <2>1. CASE v = w
    BY <1>1, <2>1
  <2>2. CASE v # w
    BY <1>1, <2>2 DEF WorkersInv, TicketHeld, Planned
  <2>3. QED
    BY <2>1, <2>2
<1>4. QED
  BY <1>2, <1>3 DEF WorkersInv

LEMMA StepWorkers == WorkersInv /\ [Next]_vars => WorkersInv'
<1> SUFFICES ASSUME WorkersInv, [Next]_vars
             PROVE  WorkersInv'
  OBVIOUS
<1>1. BusTypeOK'
  BY EveryStepIsABusStep, StepTypes DEF WorkersInv, WorkersTypeOK
<1>2. WorkersTypeOK /\ BusTypeOK
  BY DEF WorkersInv, WorkersTypeOK
<1>3. ASSUME UNCHANGED <<pc, child, verdict, rows, runs, held>>, orphans' \subseteq Tickets
      PROVE  WorkersInv'
  BY <1>1, <1>3 DEF WorkersInv, WorkersTypeOK, TicketHeld, Planned
<1>4. ASSUME UNCHANGED vars
      PROVE  WorkersInv'
  BY <1>2, <1>3, <1>4 DEF vars, WorkersTypeOK
<1>5. ASSUME Recovery \/ Environment
      PROVE  WorkersInv'
  <2>1. UNCHANGED <<pc, child, verdict, rows, runs, held>>
    BY <1>5 DEF Recovery, Environment, ScanOrphans, RepublishOrphan, PublishAllReady, Requeue,
                RetireCompleted, Compile, SendScheduled, PublishByHand, Lapse, Expire, DeadLetter, OperatorRetry,
                CancelDemand, workerVars, busVars, Publish, PublishReadyResults,
                RequeueExpiredLeases, AckCompleted, CreateTicket, LeaseLapses, ExpireMessages,
                MoveToDeadLetter, RetryMessage, CancelOpenWork
  <2>2. orphans' \subseteq Tickets
    BY <1>2, <1>5
    DEF Recovery, Environment, ScanOrphans, RepublishOrphan, PublishAllReady, Requeue,
        RetireCompleted, Compile, SendScheduled, PublishByHand, Lapse, Expire, DeadLetter, OperatorRetry,
        CancelDemand, workerVars, Orphaned, WorkersTypeOK
  <2>3. QED
    BY <1>3, <2>1, <2>2
<1>6. ASSUME NEW w \in Workers, NEW step \in Steps \ {"idle", "create", "row", "send"},
             pc[w] # "idle", GoTo(w, step), held' = held, child' = child,
             verdict' \in [Workers -> Verdict], UNCHANGED <<rows, orphans>>, runs' \subseteq Run
      PROVE  WorkersInv'
  BY <1>1, <1>2, <1>6, LocalStepKeepsShape DEF GoTo, WorkersTypeOK
<1>7. ASSUME NEW w \in Workers, Forget(w), BecomeIdle(w), UNCHANGED <<rows, runs, orphans>>
      PROVE  WorkersInv'
  <2>1. NoVerdict \in Verdict
    BY DEF NoVerdict, Verdict
  <2>2. /\ \A v \in Workers \ {w} : held'[v] = held[v] /\ child'[v] = child[v]
        /\ held'[w] = NoLease
    BY <1>2, <1>7 DEF Forget, BecomeIdle, BusTypeOK, WorkersTypeOK
  <2>3. /\ pc' = [pc EXCEPT ![w] = "idle"] /\ "idle" \in Steps
        /\ child' \in [Workers -> Nat \ {0}] /\ verdict' \in [Workers -> Verdict]
        /\ rows' \subseteq Tickets \ Requests /\ runs' \subseteq Run /\ orphans' \subseteq Tickets
    BY <1>2, <1>7, <2>1 DEF BecomeIdle, GoTo, WorkersTypeOK, Steps
  <2>4. QED
    BY <1>1, <2>2, <2>3, LocalStepKeepsShape
<1>8. ASSUME NEW w \in Workers, Worker(w)
      PROVE  WorkersInv'
  <2>1. CASE \E m \in Messages : Take(w, m)
    <3>1. PICK m \in Messages : Take(w, m)
      BY <2>1
    <3>2. /\ held'[w] # NoLease
          /\ \A v \in Workers \ {w} : held'[v] = held[v]
      <4>1. msgs[m].attempts \in Nat /\ msgs[m].generation \in Nat /\ IdOf[w] \in WorkerIds
        BY <1>2, BusAssumption DEF BusTypeOK, Message
      <4>2. /\ held \in [Workers -> Lease \cup {NoLease}]
            /\ held' = [held EXCEPT ![w] =
                  [message |-> m, worker |-> IdOf[w], attempt |-> msgs[m].attempts + 1,
                   generation |-> msgs[m].generation + 1]]
        BY <1>2, <3>1 DEF Take, LeaseMessage, BusTypeOK
      <4>3. [message |-> m, worker |-> IdOf[w], attempt |-> msgs[m].attempts + 1,
             generation |-> msgs[m].generation + 1] \in Lease
        BY <4>1 DEF Lease
      <4>4. QED
        BY <4>2, <4>3, BusAssumption
    <3>3. /\ pc' = [pc EXCEPT ![w] = "read"] /\ "read" \in Steps
          /\ UNCHANGED <<child, verdict, rows, runs, orphans>>
      BY <3>1 DEF Take, GoTo, Steps
    <3>4. QED
      BY <1>1, <1>2, <3>2, <3>3, LocalStepKeepsShape DEF WorkersTypeOK
  <2>2. CASE Claim(w)
    <3>1. /\ UNCHANGED <<held, child, verdict, rows, runs, orphans>>
          /\ TicketHeld(w)' = TicketHeld(w)
      BY <2>2 DEF Claim, UpdateStatus, TicketHeld
    <3>2. CASE TicketHeld(w) \in Requests
      <4>1. pc' = [pc EXCEPT ![w] = "create"] /\ "create" \in Steps /\ held'[w] # NoLease
        BY <2>2, <3>1, <3>2 DEF Claim, GoTo, Steps, UpdateStatus, RequireWork, Owns
      <4>2. QED
        BY <1>1, <1>2, <3>1, <3>2, <4>1, LocalStepKeepsShape DEF WorkersTypeOK
    <3>3. CASE TicketHeld(w) \notin Requests
      <4>1. GoTo(w, "check") /\ pc[w] # "idle"
        BY <2>2, <3>3 DEF Claim
      <4>2. QED
        BY <1>2, <1>6, <3>1, <4>1 DEF WorkersTypeOK, Steps
    <3>4. QED
      BY <3>2, <3>3
  <2>3. CASE CreateChild(w)
    <3>1. /\ UNCHANGED <<held, child, verdict, rows, runs, orphans>>
          /\ pc' = [pc EXCEPT ![w] = "row"] /\ "row" \in Steps
          /\ child[w] <= Len(Planned(w)) /\ pc[w] = "create"
      BY <2>3 DEF CreateChild, CreateTaskTicket, GoTo, Steps
    <3>2. held'[w] # NoLease /\ TicketHeld(w)' \in Requests /\ child'[w] <= Len(Planned(w)')
      BY <1>2, <3>1, WorkerHolds DEF TicketHeld, Planned, WorkersInv
    <3>3. QED
      BY <1>1, <1>2, <3>1, <3>2, LocalStepKeepsShape DEF WorkersTypeOK
  <2>4. CASE SaveChildRow(w)
    <3>1. /\ UNCHANGED <<held, child, verdict, runs, orphans>>
          /\ pc' = [pc EXCEPT ![w] = "send"] /\ "send" \in Steps
          /\ pc[w] = "row" /\ rows' = rows \cup {Planned(w)[child[w]]}
      BY <2>4 DEF SaveChildRow, GoTo, Steps, busVars
    <3>2. /\ held'[w] # NoLease /\ TicketHeld(w)' \in Requests
          /\ child[w] <= Len(Planned(w)) /\ child'[w] <= Len(Planned(w)')
      BY <1>2, <3>1, WorkerHolds DEF TicketHeld, Planned, WorkersInv
    <3>3. rows' \subseteq Tickets \ Requests
      BY <1>2, <3>1, <3>2, PlannedTask DEF WorkersTypeOK
    <3>4. QED
      BY <1>1, <1>2, <3>1, <3>2, <3>3, LocalStepKeepsShape DEF WorkersTypeOK
  <2>5. CASE SendChild(w)
    <3>1. /\ UNCHANGED <<held, verdict, rows, runs, orphans>>
          /\ pc' = [pc EXCEPT ![w] = "create"] /\ "create" \in Steps
          /\ pc[w] = "send" /\ child' = [child EXCEPT ![w] = @ + 1]
      BY <2>5 DEF SendChild, PublishTask, Publish, GoTo, Steps
    <3>2. held'[w] # NoLease /\ TicketHeld(w)' \in Requests
      BY <1>2, <3>1, WorkerHolds DEF TicketHeld, WorkersInv
    <3>3. /\ child' \in [Workers -> Nat \ {0}]
          /\ \A v \in Workers \ {w} : held'[v] = held[v] /\ child'[v] = child[v]
      BY <1>2, <3>1 DEF WorkersTypeOK
    <3>4. QED
      BY <1>1, <1>2, <3>1, <3>2, <3>3, LocalStepKeepsShape DEF WorkersTypeOK
  <2>6. CASE AckDelivery(w) \/ NackDelivery(w) \/ Crash(w) \/ Revoked(w)
    BY <1>7, <2>6 DEF AckDelivery, NackDelivery, Crash, Revoked, Lost, Abandon, Ack, Nack
  <2>7. CASE StepFails(w)
    <3>1. CASE Lost(w)
      BY <1>7, <3>1 DEF Lost, Abandon
    <3>2. CASE ~Lost(w)
      <4>1. /\ pc[w] # "idle" /\ (GoTo(w, "ack") \/ GoTo(w, "nack"))
            /\ UNCHANGED <<held, child, verdict, rows, runs, orphans>>
        BY <2>7, <3>2 DEF StepFails, busVars
      <4>2. QED
        BY <1>2, <1>6, <4>1 DEF WorkersTypeOK, Steps
    <3>3. QED
      BY <3>1, <3>2
  <2>8. CASE KeepAlive(w)
    BY <1>2, <1>3, <2>8 DEF KeepAlive, ExtendLease, workerVars, WorkersTypeOK
  <2>9. CASE ReadTicket(w) \/ LookUpRun(w) \/ CallTool(w)
    <3>1. /\ pc[w] # "idle"
          /\ \E step \in {"republish", "claim", "reuse", "start", "tool"} : GoTo(w, step)
          /\ UNCHANGED <<held, child, verdict, rows, runs, orphans>>
      BY <2>9 DEF ReadTicket, LookUpRun, CallTool, busVars
    <3>2. QED
      BY <1>2, <1>6, <3>1 DEF WorkersTypeOK, Steps
  <2>10. CASE ReuseRun(w) \/ ToolReturns(w)
    <3>1. verdict' \in [Workers -> Verdict]
      <4>1. PICK v \in Verdict : verdict' = [verdict EXCEPT ![w] = v]
        BY <2>10, WorkersAssumption DEF ReuseRun, ToolReturns, ToolOutcomes, Verdict
      <4>2. QED
        BY <1>2, <4>1 DEF WorkersTypeOK
    <3>2. /\ pc[w] # "idle" /\ (GoTo(w, "settle") \/ GoTo(w, "persist"))
          /\ UNCHANGED <<held, child, rows, runs, orphans>>
      BY <2>10 DEF ReuseRun, ToolReturns, busVars
    <3>3. QED
      BY <1>2, <1>6, <3>1, <3>2 DEF WorkersTypeOK, Steps
  <2>11. CASE PersistRun(w)
    <3>1. runs' \subseteq Run
      <4>1. TicketHeld(w) \in Tickets /\ held[w].generation \in Nat
        BY <1>2, <2>11, WorkerHolds, LeaseHeld DEF PersistRun
      <4>2. verdict[w].run \in {"success", "failed"}
        BY <1>2 DEF WorkersTypeOK, Verdict
      <4>3. QED
        BY <1>2, <2>11, <4>1, <4>2 DEF PersistRun, WorkersTypeOK, Run
    <3>2. /\ pc[w] # "idle" /\ GoTo(w, "settle")
          /\ UNCHANGED <<held, child, verdict, rows, orphans>>
      BY <2>11 DEF PersistRun, busVars
    <3>3. QED
      BY <1>2, <1>6, <3>1, <3>2 DEF WorkersTypeOK, Steps
  <2>12. CASE RepublishFinished(w) \/ DeliverResult(w)
    BY <1>2, <1>6, <2>12
    DEF RepublishFinished, DeliverResult, PublishReadyResults, WorkersTypeOK, Steps
  <2>13. CASE FinishRequest(w) \/ FinishWithoutResult(w) \/ CircuitOpen(w)
    BY <1>2, <1>6, <2>13
    DEF FinishRequest, FinishWithoutResult, CircuitOpen, UpdateStatus, WorkersTypeOK, Steps
  <2>14. CASE ScheduleRetry(w) \/ CompleteTask(w)
    <3>1. verdict' \in [Workers -> Verdict]
      <4>1. NoVerdict \in Verdict /\ verdict' = [verdict EXCEPT ![w] = NoVerdict]
        BY <2>14 DEF ScheduleRetry, CompleteTask, NoVerdict, Verdict
      <4>2. QED
        BY <1>2, <4>1 DEF WorkersTypeOK
    <3>2. /\ pc[w] # "idle" /\ (GoTo(w, "nack") \/ GoTo(w, "deliver"))
          /\ UNCHANGED <<held, child, rows, runs, orphans>>
      BY <2>14 DEF ScheduleRetry, CompleteTask, UpdateStatus
    <3>3. QED
      BY <1>2, <1>6, <3>1, <3>2 DEF WorkersTypeOK, Steps
  <2>15. QED
    BY <1>8, <2>1, <2>2, <2>3, <2>4, <2>5, <2>6, <2>7, <2>8, <2>9, <2>10, <2>11, <2>12, <2>13,
       <2>14 DEF Worker, Work
<1>9. QED
  BY <1>4, <1>5, <1>8 DEF Next

-----------------------------------------------------------------------------
(* Theorems                                                                *)

\* Every process holds a delivery exactly while it works on one, and its local
\* state and the data store hold values of their types.
THEOREM WorkersTypes == Spec => []WorkersTypeOK
<1>1. WorkersInv => WorkersTypeOK
  BY DEF WorkersInv
<1>2. QED
  BY <1>1, InitWorkers, StepWorkers, PTL DEF Spec

\* The workers, recovery, the runtime and the operator implement the bus protocol.
THEOREM WorkersImplementBus == Spec => BusSpec
<1>1. Init => BusInit
  BY DEF Init
<1>2. QED
  BY <1>1, InitWorkers, StepWorkers, EveryStepIsABusStep, PTL DEF Spec, BusSpec

\* Whatever crashes and redeliveries intervene, the workers complete a ticket at
\* most once per life.
THEOREM WorkersCompleteOncePerLife == Spec => []FinalizedOnce
  BY WorkersImplementBus, CompletedOncePerLife, PTL

=============================================================================
