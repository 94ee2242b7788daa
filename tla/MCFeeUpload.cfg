CONSTANTS
    Caller = {"unary", "stream"}
    Life = 3
    tokenRefreshMargin = 1
    MaxTime = 5
    BufferSize = 1
    MaxAttempts = 2
    MaxRequests = 3
SPECIFICATION FairSpec
PROPERTY ServerNeverGoesBack
PROPERTY NewestUploaded
PROPERTY TokensOnlyNewer
