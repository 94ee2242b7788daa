CONSTANTS
    a1 = a1
    a2 = a2
    Hash <- MCHash
    Addr = {a1, a2}
    Nonces = {0, 1, 2, 3}
    From <- MCFrom
    Nonce <- MCNonce
    TipCap <- MCTipCap
    FeeCap <- MCFeeCap
    Malformed = {"bad"}
    TTLBlock = 1
    FeeBucketSize = 2
    MaxWaitBlock = 1
    WaitSlots = 3
    U32 = 2
    U64 = 1000
    Batches <- MCBatches
    Receipts <- MCReceipts
    Blocks <- MCBlocks
SPECIFICATION Spec
INVARIANT TypeOK
INVARIANT IndexesAgree
INVARIANT NoLeak
INVARIANT StatsBalance
INVARIANT SnapshotFlagsGaps
PROPERTY ReplacedOnlyByHigherBid
PROPERTY ExpiryIsComplete
PROPERTY ImplementsPoolSpec
