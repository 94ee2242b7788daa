CONSTANTS
    HeadBufferSize = 1
    FailedBlockBufferSize = 1
    RetryCount = 2
    MaxBlockLag = 2
    InitHead = 1
    MaxBlock = 4
    MaxVersion = 1
    ReorgBlocks = {3}
    EmptyBlocks <- MCEmptyBlocks
SPECIFICATION FairSpec
PROPERTY NewHeaderAdvances
PROPERTY StopsOnCancel
