SPECIFICATION Spec
CONSTANTS
    w1 = w1
    w2 = w2
    agent = agent
    scheduled = scheduled
    republished = republished
    check = check
    Messages <- MCMessages
    Tickets <- MCTickets
    Workers <- MCWorkers
    WorkerIds <- MCWorkerIds
    IdOf <- MCIdOf
    TicketOf <- MCTicketOf
    Expirable <- MCExpirable
    DemandTickets <- MCDemandTickets
    Requests <- MCRequests
    ChildrenOf <- MCChildrenOf
    Scheduled <- MCScheduled
    MicTasks <- MCMicTasks
    EnvelopeOf <- MCEnvelopeOf
    RecoveryEnvelopeOf <- MCRecoveryEnvelopeOf
    ByHand <- MCByHand
    Outcomes <- MCOutcomes
    MaxAttempts = 2
    MaxRetries = 0
    NoLease = NoLease
    NoOwner = NoOwner
INVARIANTS
    OneDeliveryPerTicket
