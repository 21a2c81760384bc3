\* Safety and liveness of the export path: a queue of two events and four bytes, batches of
\* two events and three bytes, and an event size above each ceiling.
CONSTANTS
    MaxQueueEvents = 2
    MaxQueueBytes = 4
    MaxBatchEvents = 2
    MaxBatchBytes = 3
    Sizes = {1, 3, 4}
    MaxAttempts = 2
    MaxOffers = 4
SPECIFICATION FairSpec
INVARIANTS
    TypeOK
    NothingUncounted
    QueueWithinLimits
    BatchWithinLimits
    BytesExact
    PipelineInOrder
PROPERTIES
    ImplementsDelivery
    AcceptedIsSettled
    TaskEnds
