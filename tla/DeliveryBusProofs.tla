------------------------- MODULE DeliveryBusProofs -------------------------
(***************************************************************************)
(* What TLAPS proves of DeliveryBus for any number of messages, tickets,   *)
(* processes and worker ids, and any callers.                              *)
(***************************************************************************)
EXTENDS DeliveryBus, TLAPS

USE DEF MessageStatus, TicketStatus, TERMINAL_TICKET_STATES

-----------------------------------------------------------------------------
(* Types                                                                   *)

\* A row whose lease columns agree with its status.
RowOK(r) ==
    /\ r \in Message
    /\ r.status = "in_progress" <=> r.owner # NoOwner
    /\ r.live => r.status = "in_progress"

\* The messages part of BusTypeOK is RowOK of every row.
LEMMA RowsOK ==
    (/\ msgs \in [Messages -> Message]
     /\ \A m \in Messages :
            /\ msgs[m].status = "in_progress" <=> msgs[m].owner # NoOwner
            /\ msgs[m].live => msgs[m].status = "in_progress")
    <=> (msgs = [m \in Messages |-> msgs[m]] /\ \A m \in Messages : RowOK(msgs[m]))
  BY DEF RowOK

\* Ending a delivery leaves a row in order, whatever its new status.
LEMMA ReleasedRow ==
    ASSUME NEW r, RowOK(r), NEW s \in MessageStatus \ {"in_progress"}
    PROVE  /\ RowOK(Released(r, s))
           /\ Released(r, s).status = s
           /\ Released(r, s).attempts = r.attempts
           /\ Released(r, s).generation = r.generation
  BY DEF RowOK, Released, Message

\* Superseding a receipt changes nothing but `standing'.
LEMMA SupersededReceipt ==
    ASSUME NEW r \in Receipt
    PROVE  /\ Superseded(r) \in Receipt
           /\ ~Superseded(r).standing
  BY DEF Superseded, Receipt

\* _sync_delivery_ticket keeps the types of the tickets and of their receipts.
LEMMA SyncKeepsTypes ==
    ASSUME BusTypeOK, NEW T, NEW s \in TicketStatus, SyncDeliveryTicket(T, s)
    PROVE  tickets' \in [Tickets -> TicketStatus] /\ receipts' \in [Tickets -> Receipt]
  BY SupersededReceipt DEF BusTypeOK, SyncDeliveryTicket

LEMMA LeaseHeld ==
    ASSUME BusTypeOK, NEW w \in Workers, held[w] # NoLease
    PROVE  /\ held[w] \in Lease
           /\ held[w].message \in Messages
           /\ held[w].worker \in WorkerIds
           /\ held[w].generation \in Nat
           /\ TicketOf[held[w].message] \in Tickets
  BY BusAssumption DEF BusTypeOK, Lease

\* The initial tables are typed.
LEMMA InitTypes == BusInit => BusTypeOK
  BY BusAssumption DEF BusInit, BusTypeOK, Unsent, NoReceipt, Message, Receipt

\* Every transaction keeps the tables typed.
LEMMA StepTypes == BusTypeOK /\ [BusNext]_busVars => BusTypeOK'
<1> SUFFICES ASSUME BusTypeOK, [BusNext]_busVars
             PROVE  BusTypeOK'
  OBVIOUS
<1> USE BusAssumption DEF BusTypeOK
<1>1. CASE UNCHANGED busVars
  BY <1>1 DEF busVars
<1>2. ASSUME NEW t \in Tickets, CreateTicket(t)
      PROVE  BusTypeOK'
  BY <1>2 DEF CreateTicket
<1>3. ASSUME NEW w \in Workers, NEW t \in Tickets, CreateTaskTicket(w, t)
      PROVE  BusTypeOK'
  BY <1>3 DEF CreateTaskTicket
<1>4. ASSUME NEW m \in Messages, Publish(m)
      PROVE  BusTypeOK'
  BY <1>4 DEF Publish, Message
<1>5. ASSUME NEW w \in Workers, NEW s \in TicketStatus, NEW b \in BOOLEAN, UpdateStatus(w, s, b)
      PROVE  BusTypeOK'
  <2>1. TicketOf[held[w].message] \in Tickets
    BY <1>5, LeaseHeld DEF UpdateStatus, RequireWork, Owns
  <2>2. receipts' \in [Tickets -> Receipt]
    BY <1>5, <2>1, SupersededReceipt DEF UpdateStatus, Receipt
  <2>3. QED
    BY <1>5, <2>1, <2>2 DEF UpdateStatus
<1>6. ASSUME NEW T \in SUBSET Tickets, PublishReadyResults(T)
      PROVE  BusTypeOK'
  BY <1>6 DEF PublishReadyResults, Ready, ResultOf, Result, Receipt
<1>7. ASSUME NEW w \in Workers, NEW m \in Messages, LeaseMessage(w, m)
      PROVE  BusTypeOK'
  <2>1. msgs[m] \in Message /\ IdOf[w] \in WorkerIds
    OBVIOUS
  <2>2. held' \in [Workers -> Lease \cup {NoLease}]
    BY <1>7, <2>1 DEF LeaseMessage, Lease, Message
  <2>3. QED
    BY <1>7, <2>1, <2>2 DEF LeaseMessage, Message
<1>8. ASSUME NEW w \in Workers, Forget(w)
      PROVE  held' \in [Workers -> Lease \cup {NoLease}]
  BY <1>8 DEF Forget
<1>9. ASSUME NEW m \in Messages, NEW s \in MessageStatus \ {"in_progress"},
             msgs' = [msgs EXCEPT ![m] = Released(@, s)]
      PROVE  /\ msgs' \in [Messages -> Message]
             /\ \A n \in Messages :
                    /\ msgs'[n].status = "in_progress" <=> msgs'[n].owner # NoOwner
                    /\ msgs'[n].live => msgs'[n].status = "in_progress"
  BY <1>9, ReleasedRow DEF RowOK
<1>10. ASSUME NEW w \in Workers, Ack(w)
       PROVE  BusTypeOK'
  <2>1. held[w].message \in Messages
    BY <1>10, LeaseHeld DEF Ack
  <2>2. CASE Owns(w)
    <3>1. msgs' = [msgs EXCEPT ![held[w].message] = Released(@, "done")]
      BY <1>10, <2>2 DEF Ack
    <3>2. /\ msgs' \in [Messages -> Message]
          /\ \A n \in Messages :
                 /\ msgs'[n].status = "in_progress" <=> msgs'[n].owner # NoOwner
                 /\ msgs'[n].live => msgs'[n].status = "in_progress"
      BY <1>9, <2>1, <3>1
    <3>3. QED
      BY <1>8, <1>10, <3>2 DEF Ack
  <2>3. CASE ~Owns(w)
    BY <1>8, <1>10, <2>3 DEF Ack
  <2>4. QED
    BY <2>2, <2>3
<1>11. ASSUME NEW w \in Workers, NEW b \in BOOLEAN, Nack(w, b)
       PROVE  BusTypeOK'
  <2> DEFINE m == held[w].message
             s == IF b /\ msgs[m].attempts < MaxAttempts THEN "open" ELSE "dead"
             u == IF s = "dead" THEN "failed" ELSE "open"
  <2>1. m \in Messages
    BY <1>11, LeaseHeld DEF Nack
  <2>2. s \in MessageStatus \ {"in_progress"} /\ u \in TicketStatus
    OBVIOUS
  <2>3. CASE Owns(w)
    <3>1. msgs' = [msgs EXCEPT ![m] = Released(@, s)] /\ SyncDeliveryTicket({TicketOf[m]}, u)
      BY <1>11, <2>3 DEF Nack
    <3> HIDE DEF m, s, u
    <3>2. tickets' \in [Tickets -> TicketStatus] /\ receipts' \in [Tickets -> Receipt]
      BY <2>2, <3>1, SyncKeepsTypes
    <3>3. QED
      BY <1>8, <1>9, <1>11, <2>1, <2>2, <3>1, <3>2 DEF Nack
  <2>4. CASE ~Owns(w)
    BY <1>8, <1>11, <2>4 DEF Nack
  <2>5. QED
    BY <2>3, <2>4
<1>12. ASSUME NEW w \in Workers, ExtendLease(w)
       PROVE  BusTypeOK'
  <2>1. held[w].message \in Messages /\ msgs[held[w].message].status = "in_progress"
    BY <1>12, LeaseHeld DEF ExtendLease, Owns, OwnsLease
  <2> DEFINE m == held[w].message
  <2>2. msgs' = [msgs EXCEPT ![m] = [@ EXCEPT !.live = TRUE]]
    BY <1>12 DEF ExtendLease
  <2>3. RowOK([msgs[m] EXCEPT !.live = TRUE])
    BY <2>1 DEF RowOK, Message
  <2> HIDE DEF m
  <2>4. /\ msgs' \in [Messages -> Message]
        /\ \A n \in Messages :
               /\ msgs'[n].status = "in_progress" <=> msgs'[n].owner # NoOwner
               /\ msgs'[n].live => msgs'[n].status = "in_progress"
    BY <2>2, <2>3 DEF RowOK
  <2>5. QED
    BY <1>12, <2>4 DEF ExtendLease
<1>13. ASSUME NEW m \in Messages, LeaseLapses(m)
       PROVE  BusTypeOK'
  <2>1. msgs' = [msgs EXCEPT ![m] = [@ EXCEPT !.live = FALSE]]
    BY <1>13 DEF LeaseLapses
  <2>2. RowOK([msgs[m] EXCEPT !.live = FALSE])
    BY DEF RowOK, Message
  <2>3. QED
    BY <1>13, <2>1, <2>2 DEF LeaseLapses, RowOK
<1>14. ASSUME RequeueExpiredLeases
       PROVE  BusTypeOK'
  <2>1. receipts' \in [Tickets -> Receipt]
    BY <1>14, SupersededReceipt DEF RequeueExpiredLeases
  <2>2. tickets' \in [Tickets -> TicketStatus]
    BY <1>14 DEF RequeueExpiredLeases
  <2>3. QED
    BY <1>14, <2>1, <2>2, ReleasedRow DEF RequeueExpiredLeases, RowOK
<1>15. ASSUME NEW M \in SUBSET Messages, ExpireMessages(M)
       PROVE  BusTypeOK'
  <2>1. tickets' \in [Tickets -> TicketStatus] /\ receipts' \in [Tickets -> Receipt]
    BY <1>15, SyncKeepsTypes DEF ExpireMessages
  <2>2. QED
    BY <1>15, <2>1 DEF ExpireMessages, Message
<1>16. ASSUME NEW m \in Messages, MoveToDeadLetter(m)
       PROVE  BusTypeOK'
  <2>1. tickets' \in [Tickets -> TicketStatus] /\ receipts' \in [Tickets -> Receipt]
    BY <1>16, SyncKeepsTypes DEF MoveToDeadLetter
  <2>2. QED
    BY <1>9, <1>16, <2>1 DEF MoveToDeadLetter
<1>17. ASSUME NEW m \in Messages, RetryMessage(m)
       PROVE  BusTypeOK'
  <2>1. receipts' \in [Tickets -> Receipt]
    BY <1>17, SupersededReceipt DEF RetryMessage
  <2>2. RowOK([Released(msgs[m], "open") EXCEPT !.attempts = 0])
    BY ReleasedRow DEF RowOK, Message
  <2>3. QED
    BY <1>17, <2>1, <2>2 DEF RetryMessage, RowOK
<1>18. ASSUME CancelOpenWork
       PROVE  BusTypeOK'
  <2>1. receipts' \in [Tickets -> Receipt]
    BY <1>18, SupersededReceipt DEF CancelOpenWork
  <2>2. QED
    BY <1>18, <2>1, ReleasedRow DEF CancelOpenWork, RowOK
<1>19. ASSUME AckCompleted
       PROVE  BusTypeOK'
  BY <1>19, ReleasedRow DEF AckCompleted, RowOK
<1>20. ASSUME NEW w \in Workers, Abandon(w)
       PROVE  BusTypeOK'
  BY <1>8, <1>20 DEF Abandon
<1>21. ASSUME NEW w \in Workers, WorkerCall(w)
       PROVE  BusTypeOK'
  BY <1>3, <1>4, <1>5, <1>7, <1>10, <1>11, <1>12, <1>20, <1>21 DEF WorkerCall, PublishTask
<1>22. ASSUME OtherCall
       PROVE  BusTypeOK'
  BY <1>2, <1>4, <1>6, <1>13, <1>14, <1>15, <1>16, <1>17, <1>18, <1>19, <1>22 DEF OtherCall
<1>23. QED
  BY <1>1, <1>21, <1>22 DEF BusNext

\* The tables of the bus store always hold values of their types, and the lease
\* columns of a message are set exactly while it is in progress.
THEOREM BusTypes == BusSpec => []BusTypeOK
  BY InitTypes, StepTypes, PTL DEF BusSpec

-----------------------------------------------------------------------------
(* Leases                                                                  *)

\* lease_generation only grows, and grows on every lease.  Two claims to one
\* message therefore differ in their generation, and at most the newest is valid.
Claims(v, w) ==
    v # w /\ held[v] # NoLease /\ held[w] # NoLease /\ held[v].message = held[w].message

LeaseInv ==
    /\ BusTypeOK
    /\ \A w \in Workers :
           held[w] # NoLease => held[w].generation <= msgs[held[w].message].generation
    /\ \A v, w \in Workers : Claims(v, w) => held[v].generation # held[w].generation

LEMMA LeaseInvGivesOneOwner == LeaseInv => OneOwner
  BY DEF LeaseInv, OneOwner, Owns, OwnsLease, Claims

\* What a step that takes no lease does to the generations and the claims.
Keeps ==
    /\ \A m \in Messages : msgs'[m].generation = msgs[m].generation
    /\ \A w \in Workers : held'[w] \in {held[w], NoLease}

LEMMA KeepsLeaseInv ==
    ASSUME LeaseInv, BusTypeOK', Keeps
    PROVE  LeaseInv'
  BY LeaseHeld DEF LeaseInv, Keeps, Claims

\* Every call but lease() keeps them.
LEMMA OtherCallsKeep ==
    ASSUME BusTypeOK, BusNext,
           \A w \in Workers, m \in Messages : ~LeaseMessage(w, m)
    PROVE  Keeps
<1> USE BusAssumption DEF BusTypeOK
<1>1. ASSUME NEW w \in Workers, Forget(w)
      PROVE  \A v \in Workers : held'[v] \in {held[v], NoLease}
  BY <1>1 DEF Forget
<1>2. ASSUME NEW m \in Messages, NEW s, msgs' = [msgs EXCEPT ![m] = Released(@, s)]
      PROVE  \A n \in Messages : msgs'[n].generation = msgs[n].generation
  BY <1>2 DEF Released, Message
<1>3. ASSUME NEW m \in Messages, Publish(m)
      PROVE  Keeps
  BY <1>3 DEF Publish, Keeps, Message
<1>4. ASSUME NEW w \in Workers, WorkerCall(w)
      PROVE  Keeps
  <2>1. ASSUME NEW t \in Tickets, CreateTaskTicket(w, t)
        PROVE  Keeps
    BY <2>1 DEF CreateTaskTicket, Keeps
  <2>2. ASSUME NEW s, NEW b, UpdateStatus(w, s, b)
        PROVE  Keeps
    BY <2>2 DEF UpdateStatus, Keeps
  <2>3. ASSUME ExtendLease(w)
        PROVE  Keeps
    BY <2>3 DEF ExtendLease, Keeps, Message
  <2>4. ASSUME Ack(w)
        PROVE  Keeps
    <3>1. held[w].message \in Messages
      BY <2>4, LeaseHeld DEF Ack
    <3>2. \A n \in Messages : msgs'[n].generation = msgs[n].generation
      BY <1>2, <2>4, <3>1 DEF Ack
    <3>3. QED
      BY <1>1, <2>4, <3>2 DEF Ack, Keeps
  <2>5. ASSUME NEW b \in BOOLEAN, Nack(w, b)
        PROVE  Keeps
    <3>1. held[w].message \in Messages
      BY <2>5, LeaseHeld DEF Nack
    <3>2. \A n \in Messages : msgs'[n].generation = msgs[n].generation
      BY <1>2, <2>5, <3>1 DEF Nack
    <3>3. QED
      BY <1>1, <2>5, <3>2 DEF Nack, Keeps
  <2>6. ASSUME Abandon(w)
        PROVE  Keeps
    BY <1>1, <2>6 DEF Abandon, Keeps
  <2>7. QED
    BY <1>3, <1>4, <2>1, <2>2, <2>3, <2>4, <2>5, <2>6 DEF WorkerCall, PublishTask
<1>5. ASSUME OtherCall
      PROVE  Keeps
  <2>1. \A w \in Workers : held'[w] = held[w]
    BY <1>5 DEF OtherCall, CreateTicket, Publish, PublishReadyResults, LeaseLapses,
                RequeueExpiredLeases, ExpireMessages, MoveToDeadLetter, RetryMessage,
                CancelOpenWork, AckCompleted
  <2>2. ASSUME NEW t \in Tickets, CreateTicket(t)
        PROVE  msgs' = msgs
    BY <2>2 DEF CreateTicket
  <2>3. ASSUME NEW T, PublishReadyResults(T)
        PROVE  msgs' = msgs
    BY <2>3 DEF PublishReadyResults
  <2>4. ASSUME NEW m \in Messages, LeaseLapses(m)
        PROVE  Keeps
    BY <2>1, <2>4 DEF LeaseLapses, Keeps, Message
  <2>5. ASSUME RequeueExpiredLeases
        PROVE  Keeps
    BY <2>1, <2>5 DEF RequeueExpiredLeases, Keeps, Released, Message
  <2>6. ASSUME NEW M \in SUBSET Messages, ExpireMessages(M)
        PROVE  Keeps
    BY <2>1, <2>6 DEF ExpireMessages, Keeps, Message
  <2>7. ASSUME NEW m \in Messages, MoveToDeadLetter(m)
        PROVE  Keeps
    BY <1>2, <2>1, <2>7 DEF MoveToDeadLetter, Keeps
  <2>8. ASSUME NEW m \in Messages, RetryMessage(m)
        PROVE  Keeps
    BY <2>1, <2>8 DEF RetryMessage, Keeps, Released, Message
  <2>9. ASSUME CancelOpenWork
        PROVE  Keeps
    BY <2>1, <2>9 DEF CancelOpenWork, Keeps, Released, Message
  <2>10. ASSUME AckCompleted
         PROVE  Keeps
    BY <2>1, <2>10 DEF AckCompleted, Keeps, Released, Message
  <2>11. QED
    BY <1>3, <1>5, <2>1, <2>2, <2>3, <2>4, <2>5, <2>6, <2>7, <2>8, <2>9, <2>10
    DEF OtherCall, Keeps
<1>6. QED
  BY <1>4, <1>5 DEF BusNext

\* A new lease has a generation no older claim has.
LEMMA LeaseKeepsLeaseInv ==
    ASSUME LeaseInv, BusTypeOK', NEW w \in Workers, NEW m \in Messages, LeaseMessage(w, m)
    PROVE  LeaseInv'
<1> USE BusAssumption DEF BusTypeOK
<1>1. /\ held'[w].message = m
      /\ held'[w].generation = msgs[m].generation + 1
      /\ msgs'[m].generation = msgs[m].generation + 1
      /\ msgs[m].generation \in Nat
  BY DEF LeaseMessage, LeaseInv, Message
<1>2. /\ \A n \in Messages \ {m} : msgs'[n] = msgs[n]
      /\ \A v \in Workers \ {w} : held'[v] = held[v]
  BY DEF LeaseMessage, LeaseInv
<1>3. ASSUME NEW v \in Workers, held'[v] # NoLease
      PROVE  held'[v].generation <= msgs'[held'[v].message].generation
  <2>1. CASE v = w
    BY <1>1, <2>1
  <2>2. CASE v # w
    <3>1. /\ held[v].message \in Messages /\ held[v].generation \in Nat
          /\ held[v].generation <= msgs[held[v].message].generation
      BY <1>2, <1>3, <2>2, LeaseHeld DEF LeaseInv
    <3>2. QED
      BY <1>1, <1>2, <2>2, <3>1
  <2>3. QED
    BY <2>1, <2>2
<1>4. ASSUME NEW v \in Workers, v # w, held'[v] # NoLease, held'[v].message = m
      PROVE  held'[v].generation # held'[w].generation
  <2>1. held[v].generation \in Nat /\ held[v].generation <= msgs[m].generation
    BY <1>2, <1>4, LeaseHeld DEF LeaseInv
  <2>2. QED
    BY <1>1, <1>2, <1>4, <2>1
<1>5. \A u, v \in Workers : Claims(u, v)' => held'[u].generation # held'[v].generation
  BY <1>1, <1>2, <1>4 DEF Claims, LeaseInv
<1>6. QED
  BY <1>3, <1>5 DEF LeaseInv

LEMMA StepLeaseInv == LeaseInv /\ [BusNext]_busVars => LeaseInv'
<1> SUFFICES ASSUME LeaseInv, [BusNext]_busVars
             PROVE  LeaseInv'
  OBVIOUS
<1>1. BusTypeOK /\ BusTypeOK'
  BY StepTypes DEF LeaseInv
<1>2. CASE UNCHANGED busVars
  BY <1>1, <1>2 DEF busVars, LeaseInv, Claims
<1>3. CASE \E w \in Workers, m \in Messages : LeaseMessage(w, m)
  BY <1>1, <1>3, LeaseKeepsLeaseInv
<1>4. CASE BusNext /\ ~\E w \in Workers, m \in Messages : LeaseMessage(w, m)
  BY <1>1, <1>4, OtherCallsKeep, KeepsLeaseInv
<1>5. QED
  BY <1>2, <1>3, <1>4

LEMMA InitLeaseInv == BusInit => LeaseInv
  BY InitTypes DEF BusInit, LeaseInv, Claims

\* Two processes never both own a message: the fence lets one of them write.
THEOREM MessageHasOneOwner == BusSpec => []OneOwner
<1>1. BusSpec => []LeaseInv
  BY InitLeaseInv, StepLeaseInv, PTL DEF BusSpec
<1>2. QED
  BY <1>1, LeaseInvGivesOneOwner, PTL

\* A process that lost the delivery it holds never owns it again.
THEOREM LossIsFinal == BusSpec => LostLeaseStaysLost
<1> DEFINE StaysLost ==
        \A w \in Workers :
            held[w] # NoLease /\ ~Owns(w) /\ held'[w] = held[w] => ~Owns(w)'
<1>1. ASSUME LeaseInv, BusTypeOK', [BusNext]_busVars
      PROVE  [StaysLost]_busVars
  <2> SUFFICES ASSUME BusNext, NEW w \in Workers,
                      held[w] # NoLease, ~Owns(w), held'[w] = held[w], Owns(w)'
               PROVE  FALSE
    BY <1>1
  <2> DEFINE k == held[w].message
  <2>1. /\ BusTypeOK /\ k \in Messages /\ msgs[k] \in Message
        /\ held[w].generation \in Nat /\ held[w].generation <= msgs[k].generation
    BY <1>1, LeaseHeld DEF LeaseInv, BusTypeOK
  <2>2. /\ msgs'[k].status = "in_progress" /\ msgs'[k].live
        /\ msgs'[k].owner = held[w].worker
        /\ msgs'[k].attempts = held[w].attempt
        /\ msgs'[k].generation = held[w].generation
    BY DEF Owns, OwnsLease
  <2>3. msgs'[k] # msgs[k]
    BY <2>2 DEF Owns, OwnsLease
  <2>4. ASSUME NEW v \in Workers, NEW m \in Messages, LeaseMessage(v, m)
        PROVE  FALSE
    <3>1. msgs'[m].generation = msgs[m].generation + 1
      BY <2>1, <2>4 DEF LeaseMessage, BusTypeOK
    <3>2. k = m
      BY <2>3, <2>4, <2>1 DEF LeaseMessage, BusTypeOK
    <3>3. QED
      BY <2>1, <2>2, <3>1, <3>2 DEF Message
  <2>5. ASSUME NEW m \in Messages, Publish(m)
        PROVE  FALSE
    <3>1. k = m /\ msgs'[k].status \in {msgs[k].status, "open"}
      BY <2>1, <2>3, <2>5 DEF Publish, BusTypeOK, Message
    <3>2. msgs[k].status # "absent"
      BY <2>1, <2>2, <2>5, <3>1 DEF Publish, BusTypeOK, Message
    <3>3. QED
      BY <2>1, <2>3, <2>5, <3>2 DEF Publish, BusTypeOK
  <2>6. ASSUME NEW v \in Workers, ExtendLease(v)
        PROVE  FALSE
    <3>1. held[v].message \in Messages /\ msgs[held[v].message].live
      BY <1>1, <2>1, <2>6, LeaseHeld DEF ExtendLease, Owns, OwnsLease
    <3>2. msgs' = [msgs EXCEPT ![held[v].message] = [@ EXCEPT !.live = TRUE]]
      BY <2>6 DEF ExtendLease
    <3>3. [msgs[held[v].message] EXCEPT !.live = TRUE] = msgs[held[v].message]
      BY <2>1, <3>1 DEF BusTypeOK, Message
    <3>4. QED
      BY <2>1, <2>3, <3>1, <3>2, <3>3 DEF BusTypeOK
  <2>7. ASSUME NEW m \in Messages, NEW s \in MessageStatus \ {"in_progress"},
               msgs' = [msgs EXCEPT ![m] = Released(@, s)]
        PROVE  FALSE
    BY <2>1, <2>2, <2>3, <2>7 DEF BusTypeOK, Released, Message
  <2>8. ASSUME NEW v \in Workers, WorkerCall(v)
        PROVE  FALSE
    <3>1. ASSUME Ack(v)
          PROVE  FALSE
      BY <2>1, <2>3, <2>7, <3>1, LeaseHeld DEF Ack
    <3>2. ASSUME NEW b \in BOOLEAN, Nack(v, b)
          PROVE  FALSE
      BY <2>1, <2>3, <2>7, <3>2, LeaseHeld DEF Nack
    <3>3. ASSUME msgs' = msgs
          PROVE  FALSE
      BY <2>3, <3>3
    <3>4. QED
      BY <2>4, <2>5, <2>6, <2>8, <3>1, <3>2, <3>3
      DEF WorkerCall, PublishTask, CreateTaskTicket, UpdateStatus, Abandon
  <2>9. ASSUME OtherCall
        PROVE  FALSE
    <3>1. ASSUME msgs' = msgs
          PROVE  FALSE
      BY <2>3, <3>1
    <3>2. ASSUME NEW m \in Messages, LeaseLapses(m)
          PROVE  FALSE
      BY <2>1, <2>2, <2>3, <3>2 DEF LeaseLapses, BusTypeOK, Message
    <3>3. ASSUME NEW m \in Messages, RetryMessage(m)
          PROVE  FALSE
      BY <2>1, <2>2, <2>3, <3>3 DEF RetryMessage, BusTypeOK, Released, Message
    <3>4. ASSUME NEW m \in Messages, MoveToDeadLetter(m)
          PROVE  FALSE
      BY <2>7, <3>4 DEF MoveToDeadLetter
    <3>5. ASSUME RequeueExpiredLeases
          PROVE  FALSE
      BY <2>1, <2>2, <2>3, <3>5 DEF RequeueExpiredLeases, BusTypeOK, Released, Message
    <3>6. ASSUME NEW M \in SUBSET Messages, ExpireMessages(M)
          PROVE  FALSE
      BY <2>1, <2>2, <2>3, <3>6 DEF ExpireMessages, BusTypeOK, Message
    <3>7. ASSUME CancelOpenWork
          PROVE  FALSE
      BY <2>1, <2>2, <2>3, <3>7 DEF CancelOpenWork, BusTypeOK, Released, Message
    <3>8. ASSUME AckCompleted
          PROVE  FALSE
      BY <2>1, <2>2, <2>3, <3>8 DEF AckCompleted, BusTypeOK, Released, Message
    <3>9. QED
      BY <2>5, <2>9, <3>1, <3>2, <3>3, <3>4, <3>5, <3>6, <3>7, <3>8
      DEF OtherCall, CreateTicket, PublishReadyResults
  <2>10. QED
    BY <2>8, <2>9 DEF BusNext
<1>2. BusSpec => []LeaseInv
  BY InitLeaseInv, StepLeaseInv, PTL DEF BusSpec
<1>3. QED
  BY <1>1, <1>2, BusTypes, PTL DEF BusSpec, LostLeaseStaysLost

-----------------------------------------------------------------------------
(* Attempts                                                                *)

\* A message that was never sent has no attempts, so publishing it keeps the bound.
AttemptsInv ==
    /\ AttemptsBounded
    /\ \A m \in Messages : msgs[m].status = "absent" => msgs[m].attempts < MaxAttempts

\* What ending a delivery means for the bound.
LEMMA ReleaseKeepsBound ==
    ASSUME BusTypeOK, AttemptsInv, NEW m \in Messages,
           NEW s \in MessageStatus \ {"absent", "in_progress"},
           s = "open" => msgs[m].attempts < MaxAttempts,
           msgs' = [msgs EXCEPT ![m] = Released(@, s)]
    PROVE  AttemptsInv'
  BY DEF BusTypeOK, AttemptsInv, AttemptsBounded, Released, Message

LEMMA InitAttempts == BusInit => AttemptsInv
  BY BusAssumption DEF BusInit, Unsent, AttemptsInv, AttemptsBounded

LEMMA StepAttempts == BusTypeOK /\ AttemptsInv /\ [BusNext]_busVars => AttemptsInv'
<1> SUFFICES ASSUME BusTypeOK, AttemptsInv, [BusNext]_busVars
             PROVE  AttemptsInv'
  OBVIOUS
<1> USE BusAssumption DEF AttemptsInv, AttemptsBounded
<1>1. ASSUME msgs' = msgs
      PROVE  AttemptsInv'
  BY <1>1
<1>2. ASSUME NEW w \in Workers, NEW m \in Messages, LeaseMessage(w, m)
      PROVE  AttemptsInv'
  BY <1>2 DEF LeaseMessage, BusTypeOK, Message
<1>3. ASSUME NEW m \in Messages, Publish(m)
      PROVE  AttemptsInv'
  BY <1>3 DEF Publish, BusTypeOK, Message
<1>4. ASSUME NEW w \in Workers, ExtendLease(w)
      PROVE  AttemptsInv'
  BY <1>4 DEF ExtendLease, BusTypeOK, Message
<1>5. ASSUME NEW w \in Workers, Ack(w)
      PROVE  AttemptsInv'
  <2>1. held[w].message \in Messages
    BY <1>5, LeaseHeld DEF Ack
  <2>2. QED
    BY <1>1, <1>5, <2>1, ReleaseKeepsBound DEF Ack
<1>6. ASSUME NEW w \in Workers, NEW b \in BOOLEAN, Nack(w, b)
      PROVE  AttemptsInv'
  <2>1. held[w].message \in Messages
    BY <1>6, LeaseHeld DEF Nack
  <2>2. QED
    BY <1>1, <1>6, <2>1, ReleaseKeepsBound DEF Nack
<1>7. ASSUME NEW m \in Messages, LeaseLapses(m)
      PROVE  AttemptsInv'
  BY <1>7 DEF LeaseLapses, BusTypeOK, Message
<1>8. ASSUME RequeueExpiredLeases
      PROVE  AttemptsInv'
  <2>1. ASSUME NEW m \in Messages
        PROVE  \/ msgs'[m] = msgs[m]
               \/ msgs'[m].status = "dead"
               \/ /\ msgs'[m].status = "open"
                  /\ msgs'[m].attempts = msgs[m].attempts
                  /\ msgs[m].attempts < MaxAttempts
    BY <1>8, ReleasedRow DEF RequeueExpiredLeases, BusTypeOK, RowOK, Message
  <2>2. QED
    BY <2>1
<1>9. ASSUME NEW M \in SUBSET Messages, ExpireMessages(M)
      PROVE  AttemptsInv'
  BY <1>9 DEF ExpireMessages, BusTypeOK, Message
<1>10. ASSUME NEW m \in Messages, MoveToDeadLetter(m)
       PROVE  AttemptsInv'
  BY <1>10, ReleaseKeepsBound DEF MoveToDeadLetter
<1>11. ASSUME NEW m \in Messages, RetryMessage(m)
       PROVE  AttemptsInv'
  <2>1. msgs'[m].status = "open" /\ msgs'[m].attempts = 0
    BY <1>11 DEF RetryMessage, BusTypeOK, Released, Message
  <2>2. \A n \in Messages \ {m} : msgs'[n] = msgs[n]
    BY <1>11 DEF RetryMessage, BusTypeOK
  <2>3. QED
    BY <2>1, <2>2
<1>12. ASSUME CancelOpenWork
       PROVE  AttemptsInv'
  BY <1>12 DEF CancelOpenWork, BusTypeOK, Released, Message
<1>13. ASSUME AckCompleted
       PROVE  AttemptsInv'
  BY <1>13 DEF AckCompleted, BusTypeOK, Released, Message
<1>14. ASSUME NEW w \in Workers, WorkerCall(w)
       PROVE  AttemptsInv'
  <2> HIDE DEF AttemptsInv, AttemptsBounded
  <2>1. QED
    BY <1>1, <1>2, <1>3, <1>4, <1>5, <1>6, <1>14
    DEF WorkerCall, PublishTask, CreateTaskTicket, UpdateStatus, Abandon
<1>15. ASSUME OtherCall
       PROVE  AttemptsInv'
  <2> HIDE DEF AttemptsInv, AttemptsBounded
  <2>1. QED
    BY <1>1, <1>3, <1>7, <1>8, <1>9, <1>10, <1>11, <1>12, <1>13, <1>15
    DEF OtherCall, CreateTicket, PublishReadyResults
<1>16. QED
  BY <1>1, <1>14, <1>15 DEF BusNext, busVars

\* No path back to open grants a delivery beyond max_attempts.
THEOREM DeliveriesAreBounded == BusSpec => []AttemptsBounded
<1>1. AttemptsInv => AttemptsBounded
  BY DEF AttemptsInv
<1>2. QED
  BY <1>1, InitAttempts, StepAttempts, BusTypes, PTL DEF BusSpec

-----------------------------------------------------------------------------
(* Outcomes                                                                *)

\* Every transaction that changes a ticket asks first whether it still may.
LEMMA StepKeepsFinal ==
    ASSUME BusTypeOK, [BusNext]_busVars, NEW t \in Tickets,
           tickets[t] \in {"done", "cancelled", "expired"}
    PROVE  tickets'[t] = tickets[t]
<1> USE DEF Live
<1>1. ASSUME tickets' = tickets
      PROVE  tickets'[t] = tickets[t]
  BY <1>1
<1>2. ASSUME NEW T, NEW s, SyncDeliveryTicket(T, s)
      PROVE  tickets'[t] = tickets[t]
  BY <1>2 DEF SyncDeliveryTicket
<1>3. ASSUME NEW w \in Workers, WorkerCall(w)
      PROVE  tickets'[t] = tickets[t]
  <2>1. ASSUME NEW u \in Tickets, CreateTaskTicket(w, u)
        PROVE  tickets'[t] = tickets[t]
    BY <2>1 DEF CreateTaskTicket, BusTypeOK
  <2>2. ASSUME NEW s, NEW b, UpdateStatus(w, s, b)
        PROVE  tickets'[t] = tickets[t]
    BY <2>2 DEF UpdateStatus, RequireWork, BusTypeOK
  <2>3. ASSUME NEW b, Nack(w, b)
        PROVE  tickets'[t] = tickets[t]
    BY <1>1, <1>2, <2>3 DEF Nack
  <2>4. QED
    BY <1>1, <1>3, <2>1, <2>2, <2>3
    DEF WorkerCall, LeaseMessage, PublishTask, Publish, ExtendLease, Ack, Abandon
<1>4. ASSUME OtherCall
      PROVE  tickets'[t] = tickets[t]
  <2>1. ASSUME NEW u \in Tickets, CreateTicket(u)
        PROVE  tickets'[t] = tickets[t]
    BY <2>1 DEF CreateTicket, BusTypeOK
  <2>2. ASSUME RequeueExpiredLeases
        PROVE  tickets'[t] = tickets[t]
    BY <2>2 DEF RequeueExpiredLeases
  <2>3. ASSUME NEW M, ExpireMessages(M)
        PROVE  tickets'[t] = tickets[t]
    BY <1>2, <2>3 DEF ExpireMessages
  <2>4. ASSUME NEW m \in Messages, MoveToDeadLetter(m)
        PROVE  tickets'[t] = tickets[t]
    BY <1>2, <2>4 DEF MoveToDeadLetter
  <2>5. ASSUME NEW m \in Messages, RetryMessage(m)
        PROVE  tickets'[t] = tickets[t]
    BY <2>5 DEF RetryMessage, BusTypeOK
  <2>6. ASSUME CancelOpenWork
        PROVE  tickets'[t] = tickets[t]
    BY <2>6 DEF CancelOpenWork
  <2>7. QED
    BY <1>1, <1>4, <2>1, <2>2, <2>3, <2>4, <2>5, <2>6
    DEF OtherCall, Publish, PublishReadyResults, LeaseLapses, AckCompleted
<1>5. QED
  BY <1>1, <1>3, <1>4 DEF BusNext, busVars

\* A done, cancelled or expired ticket never changes again.
THEOREM FinalTicketsAreFinal == BusSpec => FinalStatusIsStable
<1>1. ASSUME BusTypeOK, [BusNext]_busVars
      PROVE  [\A t \in Tickets :
                 tickets[t] \in {"done", "cancelled", "expired"} => tickets'[t] = tickets[t]]_busVars
  BY <1>1, StepKeepsFinal
<1>2. QED
  BY <1>1, BusTypes, PTL DEF BusSpec, FinalStatusIsStable

-----------------------------------------------------------------------------
(* Notifications                                                           *)

\* A receipt stands only while its ticket keeps the outcome it records, and an
\* operator's retry always takes the ticket out of its outcome.
ReceiptInv ==
    /\ \A t \in Tickets :
           receipts[t].standing => Terminal(t) /\ receipts[t].epoch = retries[t]
    /\ NoSupersededResult

\* A step that moves live tickets only, superseding their receipts, and neither
\* retries nor notifies, keeps the invariant.
LEMMA MovesKeepReceiptInv ==
    ASSUME BusTypeOK, ReceiptInv, UNCHANGED <<results, retries>>,
           \A t \in Tickets :
               \/ receipts'[t] = receipts[t] /\ tickets'[t] = tickets[t]
               \/ receipts'[t] = receipts[t] /\ ~Terminal(t)
               \/ receipts'[t] = Superseded(receipts[t])
    PROVE  ReceiptInv'
  BY SupersededReceipt DEF BusTypeOK, ReceiptInv, NoSupersededResult, Terminal

LEMMA InitReceiptInv == BusInit => ReceiptInv
  BY DEF BusInit, NoReceipt, ReceiptInv, NoSupersededResult

LEMMA StepReceiptInv == BusTypeOK /\ ReceiptInv /\ [BusNext]_busVars => ReceiptInv'
<1> SUFFICES ASSUME BusTypeOK, ReceiptInv, [BusNext]_busVars
             PROVE  ReceiptInv'
  OBVIOUS
<1>1. ASSUME UNCHANGED <<tickets, receipts, results, retries>>
      PROVE  ReceiptInv'
  BY <1>1 DEF ReceiptInv, NoSupersededResult, Terminal
<1>2. ASSUME NEW T, NEW s, SyncDeliveryTicket(T, s), UNCHANGED <<results, retries>>
      PROVE  ReceiptInv'
  BY <1>2, MovesKeepReceiptInv DEF SyncDeliveryTicket
<1>3. ASSUME NEW t \in Tickets, tickets[t] = "absent", tickets' = [tickets EXCEPT ![t] = "open"],
             UNCHANGED <<receipts, results, retries>>
      PROVE  ReceiptInv'
  <2>1. \A u \in Tickets : tickets'[u] = tickets[u] \/ ~Terminal(u)
    BY <1>3 DEF BusTypeOK, Terminal
  <2>2. QED
    BY <1>3, <2>1, MovesKeepReceiptInv
<1>4. ASSUME NEW w \in Workers, NEW s \in TicketStatus, NEW b \in BOOLEAN,
             UpdateStatus(w, s, b), b => s \in {"done", "failed"}
      PROVE  ReceiptInv'
  <2> DEFINE t == TicketOf[held[w].message]
  <2>1. t \in Tickets /\ UNCHANGED <<results, retries>>
    BY <1>4, LeaseHeld DEF UpdateStatus, RequireWork, Owns
  <2>2. \A u \in Tickets \ {t} : tickets'[u] = tickets[u] /\ receipts'[u] = receipts[u]
    BY <1>4 DEF UpdateStatus, BusTypeOK
  <2>3. CASE b
    <3>1. /\ tickets'[t] \in {"done", "failed"}
          /\ receipts'[t].epoch = retries[t]
      BY <1>4, <2>1, <2>3 DEF UpdateStatus, BusTypeOK
    <3>2. QED
      BY <2>1, <2>2, <3>1 DEF ReceiptInv, NoSupersededResult, Terminal
  <2>4. CASE ~b
    <3>1. receipts'[t] = Superseded(receipts[t])
      BY <1>4, <2>1, <2>4 DEF UpdateStatus, BusTypeOK
    <3>2. QED
      BY <2>1, <2>2, <3>1, MovesKeepReceiptInv
  <2>5. QED
    BY <2>3, <2>4
<1>5. ASSUME NEW T \in SUBSET Tickets, PublishReadyResults(T)
      PROVE  ReceiptInv'
  <2>1. \A r \in results' : r \in results \/ \E t \in Ready(T) : r = ResultOf(t)
    BY <1>5 DEF PublishReadyResults
  <2>2. \A t \in Ready(T) : ResultOf(t).madeIn = ResultOf(t).sentIn
    BY DEF Ready, ResultOf, ReceiptInv
  <2>3. QED
    BY <1>5, <2>1, <2>2 DEF PublishReadyResults, ReceiptInv, NoSupersededResult, Terminal
<1>6. ASSUME RequeueExpiredLeases
      PROVE  ReceiptInv'
  <2>1. /\ UNCHANGED <<results, retries>>
        /\ \A t \in Tickets :
               \/ receipts'[t] = receipts[t] /\ tickets'[t] = tickets[t]
               \/ receipts'[t] = Superseded(receipts[t])
    BY <1>6 DEF RequeueExpiredLeases
  <2>2. QED
    BY <2>1, MovesKeepReceiptInv
<1>7. ASSUME NEW m \in Messages, RetryMessage(m)
      PROVE  ReceiptInv'
  <2> DEFINE t == TicketOf[m]
  <2>1. /\ t \in Tickets /\ results' = results /\ tickets'[t] = "open"
        /\ \A u \in Tickets \ {t} : /\ tickets'[u] = tickets[u]
                                    /\ receipts'[u] = receipts[u]
                                    /\ retries'[u] = retries[u]
    BY <1>7, BusAssumption DEF RetryMessage, BusTypeOK
  <2>2. ~receipts'[t].standing
    <3>1. CASE tickets[t] = "open"
      BY <1>7, <2>1, <3>1 DEF RetryMessage, BusTypeOK, ReceiptInv, Terminal
    <3>2. CASE tickets[t] # "open"
      BY <1>7, <2>1, <3>2, SupersededReceipt DEF RetryMessage, BusTypeOK
    <3>3. QED
      BY <3>1, <3>2
  <2>3. QED
    BY <2>1, <2>2 DEF ReceiptInv, NoSupersededResult, Terminal
<1>8. ASSUME CancelOpenWork
      PROVE  ReceiptInv'
  <2>1. /\ UNCHANGED <<results, retries>>
        /\ \A t \in Tickets :
               \/ receipts'[t] = receipts[t] /\ tickets'[t] = tickets[t]
               \/ receipts'[t] = Superseded(receipts[t])
    BY <1>8 DEF CancelOpenWork
  <2>2. QED
    BY <2>1, MovesKeepReceiptInv
<1>9. ASSUME NEW w \in Workers, NEW t \in Tickets, CreateTaskTicket(w, t)
      PROVE  ReceiptInv'
  <2>1. CASE tickets[t] = "absent"
    BY <1>3, <1>9, <2>1 DEF CreateTaskTicket
  <2>2. CASE tickets[t] # "absent"
    BY <1>1, <1>9, <2>2 DEF CreateTaskTicket, BusTypeOK
  <2>3. QED
    BY <2>1, <2>2
<1>10. ASSUME NEW w \in Workers, NEW b \in BOOLEAN, Nack(w, b)
       PROVE  ReceiptInv'
  BY <1>1, <1>2, <1>10 DEF Nack
<1>11. ASSUME NEW w \in Workers, WorkerCall(w)
       PROVE  ReceiptInv'
  BY <1>1, <1>4, <1>9, <1>10, <1>11
  DEF WorkerCall, LeaseMessage, PublishTask, Publish, ExtendLease, Ack, Abandon
<1>12. ASSUME OtherCall
       PROVE  ReceiptInv'
  BY <1>1, <1>2, <1>3, <1>5, <1>6, <1>7, <1>8, <1>12
  DEF OtherCall, CreateTicket, Publish, LeaseLapses, ExpireMessages, MoveToDeadLetter, AckCompleted
<1>13. QED
  BY <1>1, <1>11, <1>12 DEF BusNext, busVars

\* No notification is published for a receipt that a retry has overtaken.
THEOREM ResultsAreCurrent == BusSpec => []NoSupersededResult
<1>1. ReceiptInv => NoSupersededResult
  BY DEF ReceiptInv
<1>2. QED
  BY <1>1, InitReceiptInv, StepReceiptInv, BusTypes, PTL DEF BusSpec

-----------------------------------------------------------------------------
(* Completion                                                              *)

\* A ticket that can still be completed has not used up its lives: completing it
\* ends one, and only an operator's retry begins another.
LivesInv ==
    \A t \in Tickets :
        /\ receipts[t].count <= 1 + retries[t]
        /\ ~Terminal(t) => receipts[t].count <= retries[t]

\* A step that completes and reopens nothing keeps the invariant.
LEMMA QuietStepKeepsLives ==
    ASSUME LivesInv, retries' = retries,
           \A t \in Tickets : /\ receipts'[t].count = receipts[t].count
                              /\ Terminal(t) => tickets'[t] = tickets[t]
    PROVE  LivesInv'
<1>1. ASSUME NEW t \in Tickets
      PROVE  /\ receipts'[t].count <= 1 + retries'[t]
             /\ ~(tickets'[t] \in TERMINAL_TICKET_STATES) => receipts'[t].count <= retries'[t]
  BY DEF LivesInv, Terminal
<1>2. QED
  BY <1>1 DEF LivesInv, Terminal

LEMMA SupersededCount == \A r \in Receipt : Superseded(r).count = r.count
  BY DEF Superseded, Receipt

LEMMA InitLives == BusInit => LivesInv
  BY DEF BusInit, NoReceipt, LivesInv

LEMMA StepLives == BusTypeOK /\ LivesInv /\ [BusNext]_busVars => LivesInv'
<1> SUFFICES ASSUME BusTypeOK, LivesInv, [BusNext]_busVars
             PROVE  LivesInv'
  OBVIOUS
<1>1. ASSUME UNCHANGED <<tickets, receipts, retries>>
      PROVE  LivesInv'
  BY <1>1, QuietStepKeepsLives
<1>2. ASSUME retries' = retries,
             \A t \in Tickets :
                 \/ receipts'[t] = receipts[t] /\ tickets'[t] = tickets[t]
                 \/ receipts'[t] \in {receipts[t], Superseded(receipts[t])} /\ ~Terminal(t)
      PROVE  LivesInv'
  <2>1. \A t \in Tickets : /\ receipts'[t].count = receipts[t].count
                           /\ Terminal(t) => tickets'[t] = tickets[t]
    BY <1>2, SupersededCount DEF BusTypeOK
  <2>2. QED
    BY <1>2, <2>1, QuietStepKeepsLives
<1>3. ASSUME NEW T, NEW s, SyncDeliveryTicket(T, s), retries' = retries
      PROVE  LivesInv'
  BY <1>2, <1>3 DEF SyncDeliveryTicket, Live, Terminal
<1>4. ASSUME NEW t \in Tickets, tickets[t] = "absent", tickets' = [tickets EXCEPT ![t] = "open"],
             UNCHANGED <<receipts, retries>>
      PROVE  LivesInv'
  <2>1. ~Terminal(t) /\ \A u \in Tickets \ {t} : tickets'[u] = tickets[u]
    BY <1>4 DEF BusTypeOK, Terminal
  <2>2. QED
    BY <1>2, <1>4, <2>1
<1>5. ASSUME NEW w \in Workers, NEW s \in TicketStatus, NEW b \in BOOLEAN,
             UpdateStatus(w, s, b), b => s \in {"done", "failed"}
      PROVE  LivesInv'
  <2> DEFINE t == TicketOf[held[w].message]
  <2>1. t \in Tickets /\ retries' = retries /\ ~Terminal(t)
    BY <1>5, LeaseHeld DEF UpdateStatus, RequireWork, Owns, Live, Terminal
  <2>2. \A u \in Tickets \ {t} : tickets'[u] = tickets[u] /\ receipts'[u] = receipts[u]
    BY <1>5 DEF UpdateStatus, BusTypeOK
  <2>3. CASE b
    <3>1. tickets'[t] \in {"done", "failed"} /\ receipts'[t].count = receipts[t].count + 1
      BY <1>5, <2>1, <2>3 DEF UpdateStatus, BusTypeOK
    <3>2. receipts[t].count \in Nat /\ retries[t] \in Nat
      BY <2>1 DEF BusTypeOK, Receipt
    <3>3. QED
      BY <2>1, <2>2, <3>1, <3>2 DEF LivesInv, Terminal
  <2>4. CASE ~b
    <3>1. receipts'[t] = Superseded(receipts[t])
      BY <1>5, <2>1, <2>4 DEF UpdateStatus, BusTypeOK
    <3>2. QED
      BY <1>2, <2>1, <2>2, <3>1
  <2>5. QED
    BY <2>3, <2>4
<1>6. ASSUME RequeueExpiredLeases
      PROVE  LivesInv'
  BY <1>2, <1>6 DEF RequeueExpiredLeases, Live, Terminal
<1>7. ASSUME NEW m \in Messages, RetryMessage(m)
      PROVE  LivesInv'
  <2> DEFINE t == TicketOf[m]
  <2>1. /\ t \in Tickets /\ tickets'[t] = "open" /\ retries'[t] = retries[t] + 1
        /\ \A u \in Tickets \ {t} : /\ tickets'[u] = tickets[u]
                                    /\ receipts'[u] = receipts[u]
                                    /\ retries'[u] = retries[u]
    BY <1>7, BusAssumption DEF RetryMessage, BusTypeOK
  <2>2. receipts'[t].count = receipts[t].count
    BY <1>7, <2>1, SupersededCount DEF RetryMessage, BusTypeOK
  <2>3. receipts[t].count \in Nat /\ retries[t] \in Nat
    BY <2>1 DEF BusTypeOK, Receipt
  <2>4. QED
    BY <2>1, <2>2, <2>3 DEF LivesInv, Terminal
<1>8. ASSUME CancelOpenWork
      PROVE  LivesInv'
  BY <1>2, <1>8 DEF CancelOpenWork, Live, Terminal
<1>9. ASSUME NEW w \in Workers, NEW t \in Tickets, CreateTaskTicket(w, t)
      PROVE  LivesInv'
  <2>1. CASE tickets[t] = "absent"
    BY <1>4, <1>9, <2>1 DEF CreateTaskTicket
  <2>2. CASE tickets[t] # "absent"
    BY <1>1, <1>9, <2>2 DEF CreateTaskTicket, BusTypeOK
  <2>3. QED
    BY <2>1, <2>2
<1>10. ASSUME NEW w \in Workers, NEW b \in BOOLEAN, Nack(w, b)
       PROVE  LivesInv'
  BY <1>1, <1>3, <1>10 DEF Nack
<1>11. ASSUME NEW w \in Workers, WorkerCall(w)
       PROVE  LivesInv'
  BY <1>1, <1>5, <1>9, <1>10, <1>11
  DEF WorkerCall, LeaseMessage, PublishTask, Publish, ExtendLease, Ack, Abandon
<1>12. ASSUME OtherCall
       PROVE  LivesInv'
  BY <1>1, <1>3, <1>4, <1>6, <1>7, <1>8, <1>12
  DEF OtherCall, CreateTicket, Publish, PublishReadyResults, LeaseLapses, ExpireMessages,
      MoveToDeadLetter, AckCompleted
<1>13. QED
  BY <1>1, <1>11, <1>12 DEF BusNext, busVars

\* A ticket is completed with a receipt at most once per life.
THEOREM CompletedOncePerLife == BusSpec => []FinalizedOnce
<1>1. LivesInv => FinalizedOnce
  BY DEF LivesInv, FinalizedOnce
<1>2. QED
  BY <1>1, InitLives, StepLives, BusTypes, PTL DEF BusSpec


-----------------------------------------------------------------------------
(* What a transaction may do to tickets, receipts and notifications        *)

\* Live tickets change their status, and end perhaps; their receipts become history.
Moves ==
    /\ UNCHANGED <<results, retries>>
    /\ \A t \in Tickets :
           \/ tickets'[t] = tickets[t] /\ receipts'[t] = receipts[t]
           \/ /\ Live(t) /\ tickets'[t] # "absent"
              /\ receipts'[t] \in {receipts[t], Superseded(receipts[t])}

Files(t) ==
    /\ tickets[t] = "absent"
    /\ tickets' = [tickets EXCEPT ![t] = "open"]
    /\ UNCHANGED <<receipts, results, retries>>

AnswersTicket(t, s) ==
    /\ Live(t)
    /\ tickets' = [tickets EXCEPT ![t] = s]
    /\ receipts' = [receipts EXCEPT ![t] =
           [count |-> @.count + 1, status |-> s, standing |-> TRUE, epoch |-> retries[t]]]
    /\ UNCHANGED <<results, retries>>

\* Many transactions leave all of it alone.
LEMMA NothingMoves ==
    ASSUME UNCHANGED <<tickets, receipts, results, retries>>
    PROVE  Moves
  BY DEF Moves

LEMMA SyncMoves ==
    ASSUME BusTypeOK, NEW T, NEW s \in TicketStatus \ {"absent"}, SyncDeliveryTicket(T, s),
           UNCHANGED <<results, retries>>
    PROVE  Moves
  BY DEF Moves, SyncDeliveryTicket, BusTypeOK

\* Every transaction files a ticket, moves tickets, answers one, publishes or is a retry.
LEMMA BusStepKinds ==
    ASSUME BusTypeOK, [BusNext]_busVars
    PROVE  \/ Moves
           \/ \E t \in Tickets : Files(t) \/ \E s \in {"done", "failed"} : AnswersTicket(t, s)
           \/ \E T \in SUBSET Tickets : PublishReadyResults(T)
           \/ \E m \in Messages : RetryMessage(m)
<1> DEFINE Kind == \/ Moves
                   \/ \E t \in Tickets : Files(t) \/ \E s \in {"done", "failed"} : AnswersTicket(t, s)
                   \/ \E T \in SUBSET Tickets : PublishReadyResults(T)
                   \/ \E m \in Messages : RetryMessage(m)
<1>1. ASSUME UNCHANGED <<tickets, receipts, results, retries>>
      PROVE  Kind
  BY <1>1, NothingMoves
<1>2. ASSUME NEW w \in Workers, NEW t \in Tickets, CreateTaskTicket(w, t)
      PROVE  Kind
  <2>1. CASE tickets[t] = "absent"
    BY <1>2, <2>1 DEF CreateTaskTicket, Files, BusTypeOK
  <2>2. CASE tickets[t] # "absent"
    BY <1>1, <1>2, <2>2 DEF CreateTaskTicket, BusTypeOK
  <2> QED
    BY <2>1, <2>2
<1>3. ASSUME NEW w \in Workers, NEW s \in TicketStatus \ {"absent"}, NEW b \in BOOLEAN,
             UpdateStatus(w, s, b), b => s \in {"done", "failed"}
      PROVE  Kind
  <2> DEFINE t == TicketOf[held[w].message]
  <2>1. t \in Tickets /\ Live(t) /\ UNCHANGED <<results, retries>>
    BY <1>3, LeaseHeld DEF UpdateStatus, RequireWork, Owns
  <2>2. CASE b
    BY <1>3, <2>1, <2>2 DEF UpdateStatus, AnswersTicket
  <2>3. CASE ~b
    BY <1>3, <2>1, <2>3 DEF UpdateStatus, Moves, BusTypeOK
  <2> QED
    BY <2>2, <2>3
<1>4. ASSUME NEW w \in Workers, NEW b \in BOOLEAN, Nack(w, b)
      PROVE  Kind
  BY <1>1, <1>4, SyncMoves DEF Nack
<1>5. ASSUME RequeueExpiredLeases
      PROVE  Kind
  BY <1>5 DEF RequeueExpiredLeases, Moves
<1>6. ASSUME CancelOpenWork
      PROVE  Kind
  BY <1>6 DEF CancelOpenWork, Moves
<1>7. ASSUME NEW M, ExpireMessages(M)
      PROVE  Kind
  BY <1>7, SyncMoves DEF ExpireMessages
<1>8. ASSUME NEW m \in Messages, MoveToDeadLetter(m)
      PROVE  Kind
  BY <1>8, SyncMoves DEF MoveToDeadLetter
<1>9. ASSUME NEW t \in Tickets, CreateTicket(t)
      PROVE  Kind
  BY <1>9 DEF CreateTicket, Files
<1>10. ASSUME NEW w \in Workers, WorkerCall(w)
       PROVE  Kind
  BY <1>1, <1>2, <1>3, <1>4, <1>10
  DEF WorkerCall, LeaseMessage, PublishTask, Publish, ExtendLease, Ack, Abandon
<1>11. ASSUME OtherCall
       PROVE  Kind
  BY <1>1, <1>5, <1>6, <1>7, <1>8, <1>9, <1>11
  DEF OtherCall, Publish, LeaseLapses, AckCompleted
<1> QED
  BY <1>1, <1>10, <1>11 DEF BusNext, busVars


-----------------------------------------------------------------------------
(* What consumers hear                                                     *)

\* What has been told of a ticket's present life is its standing receipt.  HeardOncePerLife
\* alone is not inductive: without this, a second receipt of a life could still come.
HeardInv ==
    /\ HeardOncePerLife
    /\ \A r \in results :
           /\ r.madeIn <= retries[r.ticket]
           /\ r.madeIn = retries[r.ticket] =>
                  /\ receipts[r.ticket].standing
                  /\ receipts[r.ticket].count = r.receipt
                  /\ receipts[r.ticket].status = r.status

LEMMA InitHeard == BusInit => HeardInv
  BY DEF BusInit, HeardInv, HeardOncePerLife

\* A live ticket has no standing receipt, so its receipts may do what they like.
LEMMA LiveStepKeepsHeard ==
    ASSUME BusTypeOK, ReceiptInv, HeardInv, UNCHANGED <<results, retries>>,
           \A t \in Tickets : ~Terminal(t) \/ receipts'[t] = receipts[t]
    PROVE  HeardInv'
<1>1. ASSUME NEW r \in results, r.madeIn = retries[r.ticket]
      PROVE  receipts'[r.ticket] = receipts[r.ticket]
  BY <1>1 DEF BusTypeOK, Result, ReceiptInv, HeardInv
<1> QED
  BY <1>1 DEF HeardInv, HeardOncePerLife

LEMMA PublicationKeepsHeard ==
    ASSUME BusTypeOK, ReceiptInv, HeardInv, NEW T \in SUBSET Tickets, PublishReadyResults(T)
    PROVE  HeardInv'
<1>1. UNCHANGED <<receipts, retries>>
  BY DEF PublishReadyResults
<1>2. ASSUME NEW t \in Ready(T)
      PROVE  /\ t \in Tickets /\ receipts[t].standing /\ retries[t] \in Nat
             /\ ResultOf(t) = [ticket |-> t, receipt |-> receipts[t].count,
                               status |-> receipts[t].status, madeIn |-> retries[t],
                               sentIn |-> retries[t]]
  BY <1>2 DEF Ready, ResultOf, ReceiptInv, BusTypeOK
<1>3. ASSUME NEW r \in results', r \notin results
      PROVE  \E t \in Ready(T) : r = ResultOf(t)
  BY <1>3 DEF PublishReadyResults
<1>4. ASSUME NEW r \in results, NEW t \in Ready(T), r.ticket = t, r.madeIn = retries[t]
      PROVE  r = ResultOf(t)
  <2>1. /\ r \in Result /\ r.madeIn = r.sentIn
        /\ receipts[t].count = r.receipt /\ receipts[t].status = r.status
    BY <1>4 DEF BusTypeOK, ReceiptInv, NoSupersededResult, HeardInv
  <2> QED
    BY <1>2, <1>4, <2>1 DEF Result
<1>5. HeardOncePerLife'
  BY <1>2, <1>3, <1>4 DEF HeardInv, HeardOncePerLife
<1>6. ASSUME NEW r \in results'
      PROVE  /\ r.madeIn <= retries[r.ticket]
             /\ r.madeIn = retries[r.ticket] =>
                    /\ receipts[r.ticket].standing
                    /\ receipts[r.ticket].count = r.receipt
                    /\ receipts[r.ticket].status = r.status
  BY <1>2, <1>3, <1>6 DEF HeardInv
<1> QED
  BY <1>1, <1>5, <1>6 DEF HeardInv

\* A retry begins a life of which nothing has been told.
LEMMA RetryKeepsHeard ==
    ASSUME BusTypeOK, HeardInv, NEW m \in Messages, RetryMessage(m)
    PROVE  HeardInv'
<1> DEFINE t == TicketOf[m]
<1>1. /\ t \in Tickets /\ results' = results
      /\ retries[t] \in Nat /\ retries'[t] = retries[t] + 1
      /\ \A u \in Tickets \ {t} : receipts'[u] = receipts[u] /\ retries'[u] = retries[u]
  BY BusAssumption DEF RetryMessage, BusTypeOK
<1>2. \A r \in results : r.ticket \in Tickets /\ r.madeIn \in Nat
  BY DEF BusTypeOK, Result
<1> QED
  BY <1>1, <1>2 DEF HeardInv, HeardOncePerLife

LEMMA StepHeard == BusTypeOK /\ ReceiptInv /\ HeardInv /\ [BusNext]_busVars => HeardInv'
<1> SUFFICES ASSUME BusTypeOK, ReceiptInv, HeardInv, [BusNext]_busVars
             PROVE  HeardInv'
  OBVIOUS
<1>1. CASE Moves
  BY <1>1, LiveStepKeepsHeard DEF Moves, Live, Terminal
<1>2. ASSUME NEW t \in Tickets, Files(t)
      PROVE  HeardInv'
  BY <1>2, LiveStepKeepsHeard DEF Files
<1>3. ASSUME NEW t \in Tickets, NEW s \in {"done", "failed"}, AnswersTicket(t, s)
      PROVE  HeardInv'
  <2>1. ~Terminal(t) /\ \A u \in Tickets \ {t} : receipts'[u] = receipts[u]
    BY <1>3 DEF AnswersTicket, Live, Terminal, BusTypeOK
  <2> QED
    BY <1>3, <2>1, LiveStepKeepsHeard DEF AnswersTicket
<1> QED
  BY <1>1, <1>2, <1>3, BusStepKinds, PublicationKeepsHeard, RetryKeepsHeard

\* Whoever publishes and how often, and whatever retries come between, the consumers
\* of a ticket hear of one receipt for each of its lives.
THEOREM ConsumersHearOncePerLife == BusSpec => []HeardOncePerLife
<1>1. HeardInv => HeardOncePerLife
  BY DEF HeardInv
<1> QED
  BY <1>1, InitReceiptInv, StepReceiptInv, InitHeard, StepHeard, BusTypes, PTL DEF BusSpec

-----------------------------------------------------------------------------
(* The promise                                                             *)

\* A delivery is of a ticket that was filed: what a retry reopens exists.
EnvelopesHaveTickets ==
    \A m \in Messages : msgs[m].status # "absent" => tickets[TicketOf[m]] # "absent"

\* A ticket that was filed stays filed.
LEMMA TicketsStay ==
    ASSUME BusTypeOK, [BusNext]_busVars, NEW t \in Tickets, tickets[t] # "absent"
    PROVE  tickets'[t] # "absent"
<1>1. CASE Moves
  BY <1>1 DEF Moves
<1>2. ASSUME NEW u \in Tickets, Files(u)
      PROVE  tickets'[t] # "absent"
  BY <1>2 DEF Files, BusTypeOK
<1>3. ASSUME NEW u \in Tickets, NEW s \in {"done", "failed"}, AnswersTicket(u, s)
      PROVE  tickets'[t] # "absent"
  BY <1>3 DEF AnswersTicket, BusTypeOK
<1>4. ASSUME NEW T \in SUBSET Tickets, PublishReadyResults(T)
      PROVE  tickets'[t] # "absent"
  BY <1>4 DEF PublishReadyResults
<1>5. ASSUME NEW m \in Messages, RetryMessage(m)
      PROVE  tickets'[t] # "absent"
  BY <1>5 DEF RetryMessage, BusTypeOK
<1> QED
  BY <1>1, <1>2, <1>3, <1>4, <1>5, BusStepKinds

\* Only publish inserts a message, and it asks for the ticket.
LEMMA MessagesComeFromPublish ==
    ASSUME BusTypeOK, [BusNext]_busVars, NEW m \in Messages, msgs[m].status = "absent",
           msgs'[m].status # "absent"
    PROVE  tickets[TicketOf[m]] # "absent"
<1> DEFINE Asked == tickets[TicketOf[m]] # "absent"
<1> USE DEF BusTypeOK, Released
<1>1. ASSUME msgs' = msgs
      PROVE  Asked
  BY <1>1
<1>2. ASSUME NEW n \in Messages, Publish(n)
      PROVE  Asked
  BY <1>2 DEF Publish
<1>3. ASSUME NEW n \in Messages, msgs[n].status # "absent",
             \A k \in Messages \ {n} : msgs'[k] = msgs[k]
      PROVE  Asked
  BY <1>3
<1>4. ASSUME \A k \in Messages : msgs'[k] = msgs[k] \/ msgs[k].status # "absent"
      PROVE  Asked
  BY <1>4
<1>5. ASSUME NEW w \in Workers, WorkerCall(w)
      PROVE  Asked
  <2>1. ASSUME NEW n \in Messages, LeaseMessage(w, n)
        PROVE  Asked
    BY <1>3, <2>1 DEF LeaseMessage
  <2>2. ASSUME Owns(w)
        PROVE  held[w].message \in Messages /\ msgs[held[w].message].status # "absent"
    BY <2>2, LeaseHeld DEF Owns, OwnsLease
  <2>3. ASSUME NEW b, Nack(w, b)
        PROVE  Asked
    BY <1>1, <1>3, <2>2, <2>3 DEF Nack
  <2>4. CASE Ack(w)
    BY <1>1, <1>3, <2>2, <2>4 DEF Ack
  <2>5. CASE ExtendLease(w)
    BY <1>3, <2>2, <2>5 DEF ExtendLease
  <2> QED
    BY <1>1, <1>2, <1>5, <2>1, <2>3, <2>4, <2>5
    DEF WorkerCall, CreateTaskTicket, PublishTask, UpdateStatus, Abandon
<1>6. ASSUME OtherCall
      PROVE  Asked
  <2>1. ASSUME NEW n \in Messages, LeaseLapses(n) \/ MoveToDeadLetter(n) \/ RetryMessage(n)
        PROVE  Asked
    BY <1>3, <2>1 DEF LeaseLapses, MoveToDeadLetter, RetryMessage
  <2>2. CASE RequeueExpiredLeases
    BY <1>4, <2>2 DEF RequeueExpiredLeases
  <2>3. ASSUME NEW M, ExpireMessages(M)
        PROVE  Asked
    BY <1>4, <2>3 DEF ExpireMessages
  <2>4. CASE CancelOpenWork \/ AckCompleted
    BY <1>4, <2>4 DEF CancelOpenWork, AckCompleted
  <2> QED
    BY <1>1, <1>2, <1>6, <2>1, <2>2, <2>3, <2>4 DEF OtherCall, CreateTicket, PublishReadyResults
<1> QED
  BY <1>1, <1>5, <1>6 DEF BusNext, busVars

LEMMA InitEnvelopes == BusInit => EnvelopesHaveTickets
  BY DEF BusInit, Unsent, EnvelopesHaveTickets

LEMMA StepEnvelopes ==
    BusTypeOK /\ EnvelopesHaveTickets /\ [BusNext]_busVars => EnvelopesHaveTickets'
  BY BusAssumption, TicketsStay, MessagesComeFromPublish DEF EnvelopesHaveTickets

\* The initial tables are the promise's initial state.
LEMMA PromiseInit == BusInit => Promise!Init
  BY DEF BusInit, NoReceipt, Promise!Init

\* Moves end the live tickets they leave in a final status; no answer is touched, since
\* a live ticket has none.
LEMMA MovesAreEndings ==
    ASSUME BusTypeOK, BusTypeOK', ReceiptInv, Moves
    PROVE  Promise!Next
<1>0. PICK E \in SUBSET Tickets :
          E = {t \in Tickets : Live(t) /\ ~(tickets'[t] \in {"open", "in_progress"})}
  OBVIOUS
<1> DEFINE outcome == [t \in Tickets |-> IF tickets[t] = "absent" THEN "none"
                                         ELSE IF Live(t) THEN "pending" ELSE tickets[t]]
           how == [t \in E |-> tickets'[t]]
<1>1. \A t \in E : outcome[t] = "pending"
  BY <1>0 DEF Live
<1>2. \A t \in E : tickets'[t] \in Promise!Final
  BY <1>0 DEF Moves, BusTypeOK, Live, Promise!Final
<1>3. how \in [E -> Promise!Final]
  BY <1>2
<1>4. [t \in Tickets |-> IF tickets'[t] = "absent" THEN "none"
                         ELSE IF tickets'[t] \in {"open", "in_progress"} THEN "pending"
                         ELSE tickets'[t]]
      = [t \in Tickets |-> IF t \in E THEN how[t] ELSE outcome[t]]
  <2>1. ASSUME NEW t \in Tickets
        PROVE  (IF tickets'[t] = "absent" THEN "none"
                ELSE IF tickets'[t] \in {"open", "in_progress"} THEN "pending" ELSE tickets'[t])
               = (IF t \in E THEN how[t] ELSE outcome[t])
    BY <1>0 DEF Moves, Live
  <2> HIDE DEF outcome, how
  <2> QED
    BY <2>1
<1>5. [t \in Tickets |-> IF receipts'[t].standing THEN receipts'[t].status ELSE "none"]
      = [t \in Tickets |-> IF receipts[t].standing THEN receipts[t].status ELSE "none"]
  <2>1. ASSUME NEW t \in Tickets, receipts'[t] # receipts[t]
        PROVE  ~receipts[t].standing /\ ~receipts'[t].standing
    <3>1. Live(t) /\ receipts'[t] = Superseded(receipts[t]) /\ receipts[t] \in Receipt
      BY <2>1 DEF Moves, BusTypeOK
    <3> QED
      BY <3>1, SupersededReceipt DEF ReceiptInv, Live, Terminal
  <2> QED
    BY <2>1
<1>6. UNCHANGED <<results, retries>>
  BY DEF Moves
<1> HIDE DEF how
<1>7. Promise!End(E)
  BY <1>1, <1>3, <1>4, <1>5, <1>6 DEF Promise!End, Live
<1> QED
  BY <1>7 DEF Promise!Next

LEMMA FilingIsSubmitting ==
    ASSUME BusTypeOK, NEW t \in Tickets, Files(t)
    PROVE  Promise!Next
<1>1. Promise!Submit(t)
  BY DEF Promise!Submit, Files, BusTypeOK, Live
<1> QED
  BY <1>1 DEF Promise!Next

LEMMA AnswersAreAnswers ==
    ASSUME BusTypeOK, NEW t \in Tickets, NEW s \in {"done", "failed"}, AnswersTicket(t, s)
    PROVE  Promise!Next
<1>1. Promise!Answer(t, s)
  BY DEF Promise!Answer, AnswersTicket, BusTypeOK, Live
<1> QED
  BY <1>1 DEF Promise!Next

\* What publish_ready_results selects are standing receipts, made in the present life.
LEMMA PublicationIsNotice ==
    ASSUME BusTypeOK, ReceiptInv, NEW T \in SUBSET Tickets, PublishReadyResults(T)
    PROVE  Promise!Next
<1>1. \A t \in Ready(T) : /\ t \in Tickets /\ receipts[t].standing
                          /\ receipts[t].status # "none" /\ receipts[t].epoch = retries[t]
  BY DEF Ready, ReceiptInv, BusTypeOK, Terminal
<1>2. {[ticket |-> r.ticket, life |-> r.madeIn, says |-> r.status] : r \in results'}
      = {[ticket |-> r.ticket, life |-> r.madeIn, says |-> r.status] : r \in results}
        \cup {[ticket |-> t, life |-> retries[t], says |-> receipts[t].status] : t \in Ready(T)}
  <2>1. results' = results \cup {ResultOf(t) : t \in Ready(T)}
    BY DEF PublishReadyResults
  <2>2. \A t \in Ready(T) : /\ ResultOf(t).ticket = t /\ ResultOf(t).madeIn = retries[t]
                            /\ ResultOf(t).status = receipts[t].status
    BY <1>1 DEF ResultOf
  <2> QED
    BY <2>1, <2>2
<1>3. PICK R \in SUBSET Tickets : R = Ready(T)
  BY <1>1
<1>4. Promise!Notify(R)
  BY <1>1, <1>2, <1>3 DEF Promise!Notify, PublishReadyResults, Live
<1> QED
  BY <1>4 DEF Promise!Next

\* The operator's retry finds its ticket filed and not done, cancelled or expired.
LEMMA RetryIsReopening ==
    ASSUME BusTypeOK, ReceiptInv, EnvelopesHaveTickets, NEW m \in Messages, RetryMessage(m)
    PROVE  Promise!Next
<1> DEFINE t == TicketOf[m]
<1>1. /\ t \in Tickets /\ tickets[t] # "absent" /\ results' = results
      /\ tickets[t] \in TicketStatus /\ tickets[t] \notin {"done", "cancelled", "expired"}
  BY BusAssumption DEF RetryMessage, BusTypeOK, EnvelopesHaveTickets
<1>2. /\ tickets' = [tickets EXCEPT ![t] = "open"]
      /\ retries' = [retries EXCEPT ![t] = @ + 1]
      /\ \A u \in Tickets \ {t} : receipts'[u] = receipts[u]
  BY DEF RetryMessage, BusTypeOK
<1>3. ~receipts'[t].standing
  BY <1>1, SupersededReceipt DEF RetryMessage, BusTypeOK, ReceiptInv, Terminal
<1> HIDE DEF t
<1>4. Promise!Reopen(t)
  BY <1>1, <1>2, <1>3 DEF Promise!Reopen, BusTypeOK, Live
<1> QED
  BY <1>1, <1>4 DEF Promise!Next

LEMMA StepKeepsPromise ==
    BusTypeOK /\ BusTypeOK' /\ ReceiptInv /\ EnvelopesHaveTickets /\ [BusNext]_busVars
        => [Promise!Next]_(Promise!vars)
  BY BusStepKinds, MovesAreEndings, FilingIsSubmitting, AnswersAreAnswers, PublicationIsNotice,
     RetryIsReopening

\* The transactions implement the promise, whoever calls them and in what order.
THEOREM BusKeepsPromise == BusSpec => TicketPromiseKept
<1>1. BusSpec => [](BusTypeOK /\ ReceiptInv /\ EnvelopesHaveTickets)
  BY InitTypes, StepTypes, InitReceiptInv, StepReceiptInv, InitEnvelopes, StepEnvelopes,
     PTL DEF BusSpec
<1> QED
  BY <1>1, PromiseInit, StepKeepsPromise, PTL DEF BusSpec, TicketPromiseKept, Promise!Spec

=============================================================================
