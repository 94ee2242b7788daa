CONSTANTS
    BufferSize = 2
    FastRetryCount = 1
    FastRetryDelay = 2
    MaxRetryDelay = 7
    MaxBlock = 4
    MaxSends = 4
SPECIFICATION FairSpec
INVARIANT NewestIsLast
INVARIANT GapAfterAcknowledged
INVARIANT FastRetriesFirst
PROPERTY NewestDelivered
PROPERTY WorkerStops
