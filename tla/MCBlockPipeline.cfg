CONSTANTS
    HeadBufferSize = 1
    FailedBlockBufferSize = 1
    RetryCount = 2
    MaxBlockLag = 3
    InitHead = 1
    MaxBlock = 5
    MaxVersion = 1
    ReorgBlocks = {1, 2, 4}
    EmptyBlocks <- MCEmptyBlocks
SPECIFICATION Spec
INVARIANT ExactlyOnceInOrder
INVARIANT NoLostWakeup
PROPERTY ReorgsMoveForward
