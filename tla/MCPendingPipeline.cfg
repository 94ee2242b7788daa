CONSTANTS
    h1 = h1
    h2 = h2
    h3 = h3
    NoHash = NoHash
    s1 = s1
    s2 = s2
    w1 = w1
    w2 = w2
    Hash = {h1, h2, h3}
    Sessions = {s1, s2}
    Announced <- MCAnnounced
    CacheSize = 2
    Workers = {w1, w2}
    BufferSize = 1
    MaxBatch = 3
    ChunkSize = 2
SPECIFICATION FairSpec
INVARIANT FetchedOnce
INVARIANT NoRepeats
PROPERTY EveryHashFetched
PROPERTY WorkersStop
