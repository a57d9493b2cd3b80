SPECIFICATION Spec
CONSTANTS
    w1 = w1
    w2 = w2
    agent = agent
    mc = mc
    mh = mh
    task = task
    Messages <- MCMessages
    Tickets <- MCTickets
    Workers <- MCWorkers
    WorkerIds <- MCWorkerIds
    IdOf <- MCIdOf
    TicketOf <- MCTicketOf
    Expirable <- MCExpirable
    DemandTickets <- MCDemandTickets
    Requests <- MCRequests
    ChildrenOf <- MCChildrenOf
    Scheduled <- MCScheduled
    MicTasks <- MCMicTasks
    EnvelopeOf <- MCEnvelopeOf
    RecoveryEnvelopeOf <- MCEnvelopeOf
    ByHand <- MCByHand
    Outcomes <- MCOutcomes
    MaxAttempts = 1
    MaxRetries = 1
    NoLease = NoLease
    NoOwner = NoOwner
SYMMETRY Symmetry
INVARIANTS
    OneOwner
    NoSupersededResult
    FinalizedOnce
    SuccessRecordedOnce
    HeardOncePerLife
PROPERTIES
    FinalStatusIsStable
    NoRunAfterFinal
    TicketPromiseKept
CHECK_DEADLOCK FALSE
