CONSTANTS
    t1 = t1
    t2 = t2
    t3 = t3
    w1 = w1
    alice = alice
    Hash <- MCHash
    Addr = {alice}
    Nonces = {0, 1, 2}
    From <- MCFrom
    Nonce <- MCNonce
    TipCap <- MCCap
    FeeCap <- MCCap
    Malformed = {}
    TTLBlock = 1
    Blocks = {}
    Workers = {w1}
    StartBlock = 2
    MaxBlock = 4
    MaxResync = 1
    MaxBlockCount = 2
    Unannounced <- MCUnannounced
    NoTx = NoTx
SPECIFICATION MCFairSpec
INVARIANT BlocksNewestFirst
INVARIANT PredictionOfOneLifecycle
INVARIANT PredictionAtMostOneBehind
PROPERTY AnalysisResumes
