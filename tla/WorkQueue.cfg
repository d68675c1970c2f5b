SPECIFICATION FairSpec
CONSTANTS
    w1 = w1
    w2 = w2
    Worker = {w1, w2}
    Message = {1, 2}
    Queue <- MCQueue
    QueueOf <- MCQueueOf
    MaxDeliveryAttempts = 2
    MaxCrashes = 1
    None = None
INVARIANTS
    NoLoss
    DuplicateOnlyIfOverdue
    DeliveriesBounded
PROPERTIES
    EveryMessageSettles
    ImplementsDelivery
