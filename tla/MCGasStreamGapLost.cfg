CONSTANTS
    BufferSize = 2
    FastRetryCount = 1
    FastRetryDelay = 2
    MaxRetryDelay = 7
    MaxBlock = 4
    MaxSends = 4
SPECIFICATION Spec
INVARIANT LostGapIsRegenerated
