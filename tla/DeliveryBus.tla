---------------------------- MODULE DeliveryBus ----------------------------
(***************************************************************************)
(* The bus store of the intelligence collector: the messages table with    *)
(* its leases, the tickets table, the completion receipts kept in          *)
(* ticket_events and the collection.result notifications published from    *)
(* them.  Every action below is one SQLite transaction of the code, so it  *)
(* is one atomic step; what happens between two transactions is left to    *)
(* the processes that call them (module CollectionWorkers).                *)
(*                                                                         *)
(* Time is abstracted: `live' says lease_until > now, and LeaseLapses is   *)
(* the passage of time that ends it.  The retry delay of a nacked message  *)
(* is not kept here, a message returned to open may be leased at any later *)
(* moment (module BreakerRetry keeps the delay).                           *)
(***************************************************************************)
EXTENDS Naturals, FiniteSets

CONSTANTS
    Messages,      \* message identities: one per idempotency key
    Tickets,       \* collection request and collection task tickets
    Workers,       \* agent processes
    WorkerIds,     \* values of lease_owner
    IdOf,          \* the worker id a process runs under; two may share one
    TicketOf,      \* the ticket_id in a message's payload
    Expirable,     \* messages published with an expires_at
    DemandTickets, \* tickets whose payload names the demand that may be cancelled
    MaxAttempts,   \* max_attempts of every message
    MaxRetries,    \* bound on operator retries of a ticket's messages
    NoLease,       \* the agent's active_lease is None
    NoOwner        \* lease_owner IS NULL

\* What active_lease holds: the delivery, and the attempt and generation it was leased with.
Lease == [message: Messages, worker: WorkerIds, attempt: Nat, generation: Nat]

ASSUME BusAssumption ==
    /\ IdOf \in [Workers -> WorkerIds]
    /\ TicketOf \in [Messages -> Tickets]
    /\ Expirable \subseteq Messages
    /\ DemandTickets \subseteq Tickets
    /\ MaxAttempts \in Nat \ {0}
    /\ MaxRetries \in Nat
    /\ NoOwner \notin WorkerIds
    /\ NoLease \notin Lease

VARIABLES
    msgs,      \* the messages table
    tickets,   \* tickets.status
    receipts,  \* the latest collection_result_ready event of each ticket
    results,   \* collection.result notifications published so far
    held,      \* active_lease of each process: its claim to a delivery
    retries    \* history: operator retries a ticket has been given

busVars == <<msgs, tickets, receipts, results, held, retries>>

MessageStatus == {"absent", "open", "in_progress", "done", "dead", "expired"}
TicketStatus ==
    {"absent", "open", "in_progress", "done", "failed", "cancelled", "expired", "dead"}
TERMINAL_TICKET_STATES == {"done", "failed", "cancelled", "expired", "dead"}

Message == [status: MessageStatus, owner: WorkerIds \cup {NoOwner}, live: BOOLEAN,
            attempts: Nat, generation: Nat]
Receipt == [count: Nat, status: TicketStatus, standing: BOOLEAN, epoch: Nat]
Result == [ticket: Tickets, receipt: Nat, status: TicketStatus, madeIn: Nat, sentIn: Nat]

Unsent == [status |-> "absent", owner |-> NoOwner, live |-> FALSE,
           attempts |-> 0, generation |-> 0]
NoReceipt == [count |-> 0, status |-> "absent", standing |-> FALSE, epoch |-> 0]

\* Every column has its domain, and the lease columns of a message are set
\* exactly while it is in progress (every UPDATE that ends a delivery clears them).
BusTypeOK ==
    /\ msgs \in [Messages -> Message]
    /\ \A m \in Messages :
           /\ msgs[m].status = "in_progress" <=> msgs[m].owner # NoOwner
           /\ msgs[m].live => msgs[m].status = "in_progress"
    /\ tickets \in [Tickets -> TicketStatus]
    /\ receipts \in [Tickets -> Receipt]
    /\ results \in SUBSET Result
    /\ held \in [Workers -> Lease \cup {NoLease}]
    /\ retries \in [Tickets -> Nat]

Live(t) == tickets[t] \in {"open", "in_progress"}
Terminal(t) == tickets[t] \in TERMINAL_TICKET_STATES

-----------------------------------------------------------------------------
(* work_guard.py: the fence every write of a worker passes.                *)

\* Regression: the fence without lease_generation.
OwnsLeaseByAttempt(l) ==
    /\ msgs[l.message].status = "in_progress"
    /\ msgs[l.message].owner = l.worker
    /\ msgs[l.message].live
    /\ msgs[l.message].attempts = l.attempt

OwnsLease(l) ==
    /\ msgs[l.message].status = "in_progress"
    /\ msgs[l.message].owner = l.worker
    /\ msgs[l.message].live
    /\ msgs[l.message].attempts = l.attempt
    /\ msgs[l.message].generation = l.generation

Owns(w) == held[w] # NoLease /\ OwnsLease(held[w])

\* require_work: the lease is owned and its ticket still has work to do.
RequireWork(w) == Owns(w) /\ Live(TicketOf[held[w].message])

-----------------------------------------------------------------------------
(* What a transaction does to a row.                                       *)

Released(m, s) == [m EXCEPT !.status = s, !.owner = NoOwner, !.live = FALSE]

\* A status_changed event after a receipt makes the receipt history.
Superseded(r) == [r EXCEPT !.standing = FALSE]

\* _sync_delivery_ticket for the tickets T: each takes status s unless terminal.
SyncDeliveryTicket(T, s) ==
    LET moved == {t \in T : Live(t) /\ tickets[t] # s}
    IN /\ tickets' = [t \in Tickets |-> IF t \in moved THEN s ELSE tickets[t]]
       /\ receipts' = [t \in Tickets |->
                          IF t \in moved THEN Superseded(receipts[t]) ELSE receipts[t]]

-----------------------------------------------------------------------------
(* tickets.py and queue.publish                                            *)

\* create_ticket outside a delivery (runtime compile, capability check).
CreateTicket(t) ==
    /\ tickets[t] = "absent"
    /\ tickets' = [tickets EXCEPT ![t] = "open"]
    /\ UNCHANGED <<msgs, receipts, results, held, retries>>

\* Regression: a task ticket created without asking whether the request still runs.
CreateTaskTicketUnfenced(w, t) ==
    /\ held[w] # NoLease
    /\ tickets' = [tickets EXCEPT ![t] = IF @ = "absent" THEN "open" ELSE @]
    /\ UNCHANGED <<msgs, receipts, results, held, retries>>

\* create_ticket of a collection task by a worker: fenced, deduplicated by key.
CreateTaskTicket(w, t) ==
    /\ RequireWork(w)
    /\ tickets' = [tickets EXCEPT ![t] = IF @ = "absent" THEN "open" ELSE @]
    /\ UNCHANGED <<msgs, receipts, results, held, retries>>

\* publish: the idempotency key decides whether a row is inserted.
Publish(m) ==
    /\ tickets[TicketOf[m]] # "absent"
    /\ msgs' = [msgs EXCEPT ![m] = IF @.status = "absent" THEN [@ EXCEPT !.status = "open"] ELSE @]
    /\ UNCHANGED <<tickets, receipts, results, held, retries>>

PublishTask(w, m) == RequireWork(w) /\ Publish(m)

\* Regression: update_status without require_work.
UpdateStatusUnfenced(w, s, withReceipt) ==
    LET t == TicketOf[held[w].message]
    IN /\ held[w] # NoLease
       /\ tickets' = [tickets EXCEPT ![t] = s]
       /\ receipts' = [receipts EXCEPT ![t] =
              IF withReceipt
              THEN [count |-> @.count + 1, status |-> s, standing |-> TRUE, epoch |-> retries[t]]
              ELSE Superseded(@)]
       /\ UNCHANGED <<msgs, results, held, retries>>

\* update_status by a worker; with a receipt when the outcome is a result.
UpdateStatus(w, s, withReceipt) ==
    LET t == TicketOf[held[w].message]
    IN /\ RequireWork(w)
       /\ tickets' = [tickets EXCEPT ![t] = s]
       /\ receipts' = [receipts EXCEPT ![t] =
              IF withReceipt
              THEN [count |-> @.count + 1, status |-> s, standing |-> TRUE, epoch |-> retries[t]]
              ELSE Superseded(@)]
       /\ UNCHANGED <<msgs, results, held, retries>>

\* Regression: a receipt is ready although a later transition overtook it.
ReadyByStatus(T) ==
    {t \in T : Terminal(t) /\ receipts[t].count > 0 /\ receipts[t].status = tickets[t]}

\* Regression: only successful outcomes are notified.
ReadyDone(T) == {t \in T : tickets[t] = "done" /\ receipts[t].standing}

\* The receipts publish_ready_results selects among the tickets T.
Ready(T) == {t \in T : Terminal(t) /\ receipts[t].standing /\ receipts[t].status = tickets[t]}

ResultOf(t) == [ticket |-> t, receipt |-> receipts[t].count, status |-> receipts[t].status,
                madeIn |-> receipts[t].epoch, sentIn |-> retries[t]]

PublishReadyResults(T) ==
    /\ results' = results \cup {ResultOf(t) : t \in Ready(T)}
    /\ UNCHANGED <<msgs, tickets, receipts, held, retries>>

-----------------------------------------------------------------------------
(* queue.py: the life of a delivery                                        *)

\* lease(): a process that has no delivery takes an open one.
LeaseMessage(w, m) ==
    /\ held[w] = NoLease
    /\ msgs[m].status = "open"
    /\ msgs' = [msgs EXCEPT ![m] =
           [status |-> "in_progress", owner |-> IdOf[w], live |-> TRUE,
            attempts |-> @.attempts + 1, generation |-> @.generation + 1]]
    /\ held' = [held EXCEPT ![w] =
           [message |-> m, worker |-> IdOf[w], attempt |-> msgs[m].attempts + 1,
            generation |-> msgs[m].generation + 1]]
    /\ UNCHANGED <<tickets, receipts, results, retries>>

\* run_once resets active_lease in its finally clause.
Forget(w) == held' = [held EXCEPT ![w] = NoLease]

\* ack(): without the lease it does nothing and the process gives up.
Ack(w) ==
    /\ held[w] # NoLease
    /\ msgs' = IF Owns(w) THEN [msgs EXCEPT ![held[w].message] = Released(@, "done")] ELSE msgs
    /\ Forget(w)
    /\ UNCHANGED <<tickets, receipts, results, retries>>

\* Regression: nack() without _sync_delivery_ticket.
NackMessageOnly(w, retryable) ==
    LET m == held[w].message
        s == IF retryable /\ msgs[m].attempts < MaxAttempts THEN "open" ELSE "dead"
    IN /\ held[w] # NoLease
       /\ msgs' = IF Owns(w) THEN [msgs EXCEPT ![m] = Released(@, s)] ELSE msgs
       /\ Forget(w)
       /\ UNCHANGED <<tickets, receipts, results, retries>>

\* nack(): back to open, or dead when not retryable or the attempts are used up.
Nack(w, retryable) ==
    LET m == held[w].message
        s == IF retryable /\ msgs[m].attempts < MaxAttempts THEN "open" ELSE "dead"
    IN /\ held[w] # NoLease
       /\ IF Owns(w)
          THEN /\ msgs' = [msgs EXCEPT ![m] = Released(@, s)]
               /\ SyncDeliveryTicket({TicketOf[m]}, IF s = "dead" THEN "failed" ELSE "open")
          ELSE UNCHANGED <<msgs, tickets, receipts>>
       /\ Forget(w)
       /\ UNCHANGED <<results, retries>>

\* Regression: extend_lease() without its expiry condition revives a lapsed lease.
ReviveLease(w) ==
    /\ held[w] # NoLease
    /\ LET row == msgs[held[w].message]
       IN row.status = "in_progress" /\ row.generation = held[w].generation
    /\ msgs' = [msgs EXCEPT ![held[w].message].live = TRUE]
    /\ UNCHANGED <<tickets, receipts, results, held, retries>>

\* extend_lease(): only a lease that is still owned and unexpired is extended.
ExtendLease(w) ==
    /\ Owns(w)
    /\ msgs' = [msgs EXCEPT ![held[w].message].live = TRUE]
    /\ UNCHANGED <<tickets, receipts, results, held, retries>>

\* The clock reaches lease_until.
LeaseLapses(m) ==
    /\ msgs[m].status = "in_progress"
    /\ msgs[m].live
    /\ msgs' = [msgs EXCEPT ![m].live = FALSE]
    /\ UNCHANGED <<tickets, receipts, results, held, retries>>

\* Regression: requeue without the max_attempts branch.
RequeueAlways ==
    LET lapsed == {m \in Messages : msgs[m].status = "in_progress" /\ ~msgs[m].live}
    IN /\ lapsed # {}
       /\ msgs' = [m \in Messages |->
              IF m \in lapsed THEN Released(msgs[m], "open") ELSE msgs[m]]
       /\ SyncDeliveryTicket({TicketOf[m] : m \in lapsed}, "open")
       /\ UNCHANGED <<results, held, retries>>

\* requeue_expired_leases(): all lapsed leases in one transaction.
RequeueExpiredLeases ==
    LET lapsed == {m \in Messages : msgs[m].status = "in_progress" /\ ~msgs[m].live}
        spent == {m \in lapsed : msgs[m].attempts >= MaxAttempts}
        next(t) == IF \E m \in spent : TicketOf[m] = t THEN "failed" ELSE "open"
        moved == {t \in Tickets : /\ \E m \in lapsed : TicketOf[m] = t
                                  /\ Live(t)
                                  /\ tickets[t] # next(t)}
    IN /\ lapsed # {}
       /\ msgs' = [m \in Messages |->
              IF m \in spent THEN Released(msgs[m], "dead")
              ELSE IF m \in lapsed THEN Released(msgs[m], "open")
              ELSE msgs[m]]
       /\ tickets' = [t \in Tickets |-> IF t \in moved THEN next(t) ELSE tickets[t]]
       /\ receipts' = [t \in Tickets |->
              IF t \in moved THEN Superseded(receipts[t]) ELSE receipts[t]]
       /\ UNCHANGED <<results, held, retries>>

\* expire_messages(): the open messages among M, whose expires_at has passed.
ExpireMessages(M) ==
    LET stale == {m \in M \cap Expirable : msgs[m].status = "open"}
    IN /\ stale # {}
       /\ msgs' = [m \in Messages |->
              IF m \in stale THEN [msgs[m] EXCEPT !.status = "expired"] ELSE msgs[m]]
       /\ SyncDeliveryTicket({TicketOf[m] : m \in stale}, "expired")
       /\ UNCHANGED <<results, held, retries>>

\* move_to_dead_letter(): not fenced, whoever holds the delivery loses it.
MoveToDeadLetter(m) ==
    /\ msgs[m].status # "absent"
    /\ msgs' = [msgs EXCEPT ![m] = Released(@, "dead")]
    /\ SyncDeliveryTicket({TicketOf[m]}, "failed")
    /\ UNCHANGED <<results, held, retries>>

\* Regression: an operator retry that reopens any ticket.
RetryAnyMessage(m) ==
    LET t == TicketOf[m]
    IN /\ retries[t] < MaxRetries
       /\ msgs[m].status # "absent"
       /\ msgs' = [msgs EXCEPT ![m] = [Released(@, "open") EXCEPT !.attempts = 0]]
       /\ tickets' = [tickets EXCEPT ![t] = "open"]
       /\ receipts' = [receipts EXCEPT ![t] = Superseded(@)]
       /\ retries' = [retries EXCEPT ![t] = @ + 1]
       /\ UNCHANGED <<results, held>>

\* retry_message(): the operator resets the attempts, never the generation, and
\* reopens a failed ticket; done, cancelled and expired tickets refuse.
RetryMessage(m) ==
    LET t == TicketOf[m]
    IN /\ retries[t] < MaxRetries
       /\ tickets[t] \notin TERMINAL_TICKET_STATES \ {"failed", "dead"}
       /\ msgs[m].status \in {"dead", "open", "in_progress"}
       /\ msgs' = [msgs EXCEPT ![m] = [Released(@, "open") EXCEPT !.attempts = 0]]
       /\ tickets' = [tickets EXCEPT ![t] = "open"]
       /\ receipts' = [receipts EXCEPT ![t] = IF tickets[t] = "open" THEN @ ELSE Superseded(@)]
       /\ retries' = [retries EXCEPT ![t] = @ + 1]
       /\ UNCHANGED <<results, held>>

-----------------------------------------------------------------------------
(* runtime.py and recovery.py                                              *)

\* _cancel_open_work(): the demand's live tickets and their deliveries, at once.
CancelOpenWork ==
    LET gone == {t \in DemandTickets : Live(t)}
    IN /\ gone # {}
       /\ tickets' = [t \in Tickets |-> IF t \in gone THEN "cancelled" ELSE tickets[t]]
       /\ receipts' = [t \in Tickets |->
              IF t \in gone THEN Superseded(receipts[t]) ELSE receipts[t]]
       /\ msgs' = [m \in Messages |->
              IF TicketOf[m] \in gone /\ msgs[m].status \in {"open", "in_progress"}
              THEN Released(msgs[m], "done") ELSE msgs[m]]
       /\ UNCHANGED <<results, held, retries>>

\* _ack_completed(): deliveries whose ticket is terminal are retired.
AckCompleted ==
    LET over == {m \in Messages : msgs[m].status \in {"open", "in_progress"}
                                  /\ Terminal(TicketOf[m])}
    IN /\ over # {}
       /\ msgs' = [m \in Messages |-> IF m \in over THEN Released(msgs[m], "done") ELSE msgs[m]]
       /\ UNCHANGED <<tickets, receipts, results, held, retries>>

\* A process stops working on its delivery: it crashed, or it saw the lease lost.
Abandon(w) ==
    /\ held[w] # NoLease
    /\ Forget(w)
    /\ UNCHANGED <<msgs, tickets, receipts, results, retries>>

-----------------------------------------------------------------------------
BusInit ==
    /\ msgs = [m \in Messages |-> Unsent]
    /\ tickets = [t \in Tickets |-> "absent"]
    /\ receipts = [t \in Tickets |-> NoReceipt]
    /\ results = {}
    /\ held = [w \in Workers |-> NoLease]
    /\ retries = [t \in Tickets |-> 0]

\* The calls a process makes under its lease.
WorkerCall(w) ==
    \/ \E m \in Messages : LeaseMessage(w, m)
    \/ \E t \in Tickets : CreateTaskTicket(w, t)
    \/ \E m \in Messages : PublishTask(w, m)
    \/ \E s \in {"in_progress", "open", "done", "failed"} : UpdateStatus(w, s, FALSE)
    \/ \E s \in {"done", "failed"} : UpdateStatus(w, s, TRUE)
    \/ ExtendLease(w)
    \/ Ack(w)
    \/ \E retryable \in BOOLEAN : Nack(w, retryable)
    \/ Abandon(w)

\* The calls of the runtime controller, of recovery, of an operator, and time.
OtherCall ==
    \/ \E t \in Tickets : CreateTicket(t)
    \/ \E m \in Messages : Publish(m)
    \/ \E T \in SUBSET Tickets : PublishReadyResults(T)
    \/ \E m \in Messages : LeaseLapses(m)
    \/ RequeueExpiredLeases
    \/ \E M \in SUBSET Messages : ExpireMessages(M)
    \/ \E m \in Messages : MoveToDeadLetter(m)
    \/ \E m \in Messages : RetryMessage(m)
    \/ CancelOpenWork
    \/ AckCompleted

BusNext == (\E w \in Workers : WorkerCall(w)) \/ OtherCall

\* Any callers whatever: what the transactions alone guarantee.
BusSpec == BusInit /\ [][BusNext]_busVars

-----------------------------------------------------------------------------
(* What the transactions guarantee, whoever calls them and in what order.  *)

\* Two processes never both pass the fence for one message, even when they run
\* under the same worker id and an operator retry reset the attempt number.
OneOwner ==
    \A v, w \in Workers :
        v # w /\ Owns(v) /\ Owns(w) => held[v].message # held[w].message

\* Once a process has lost the delivery it holds, nothing gives it back: the agent
\* may remember the loss in _lease_lost and never look again.
LostLeaseStaysLost ==
    [][\A w \in Workers :
         held[w] # NoLease /\ ~Owns(w) /\ held'[w] = held[w] => ~Owns(w)']_busVars

\* max_attempts bounds the deliveries between two operator retries, on every path
\* back to open: nack, requeue of a lapsed lease, and retry.
AttemptsBounded ==
    \A m \in Messages :
        /\ msgs[m].status = "in_progress" => msgs[m].attempts <= MaxAttempts
        /\ msgs[m].status = "open" => msgs[m].attempts < MaxAttempts

\* A done, cancelled or expired ticket is final: no late worker, requeue, dead
\* letter or operator retry changes it.
FinalStatusIsStable ==
    [][\A t \in Tickets :
         tickets[t] \in {"done", "cancelled", "expired"} => tickets'[t] = tickets[t]]_busVars

\* A ticket is completed, with a receipt for its consumers, at most once per life:
\* once, and once more for every retry an operator grants.
FinalizedOnce == \A t \in Tickets : receipts[t].count <= 1 + retries[t]

\* A notification is published only for the outcome of the ticket's latest life,
\* never for a receipt that an operator's retry has reopened since.
NoSupersededResult == \A r \in results : r.madeIn = r.sentIn

\* For one life of a ticket its consumers hear of one receipt only: publication, which
\* runs after every task and again in recovery, never tells two outcomes of one life
\* (publish_ready_results).
HeardOncePerLife ==
    \A r, s \in results : r.ticket = s.ticket /\ r.madeIn = s.madeIn => r = s

\* The bus as its callers see it: a ticket is pending while it is open or in progress,
\* and its answer is the receipt no later transition has overtaken.
Promise == INSTANCE TicketPromise WITH
    outcome <- [t \in Tickets |-> IF tickets[t] = "absent" THEN "none"
                                  ELSE IF Live(t) THEN "pending" ELSE tickets[t]],
    life <- retries,
    answer <- [t \in Tickets |-> IF receipts[t].standing THEN receipts[t].status ELSE "none"],
    notices <- {[ticket |-> r.ticket, life |-> r.madeIn, says |-> r.status] : r \in results}

\* Whatever its callers do with leases and deliveries, a ticket ends once per life, is
\* answered at most once, is told nothing but the answer of the life it is in, and is
\* reopened by an operator's retry alone (queue.py, tickets.py, collection_results.py).
TicketPromiseKept == Promise!Spec

=============================================================================
