CONSTANTS
    N = 2
    SwitchBuffer = 1
    RetryCount = 2
    HeaderTimeout = 1
    MaxStray = 1
SPECIFICATION FairSpec
INVARIANT NoStraySession
PROPERTY HeadersComeBack
PROPERTY PendingComesBack
PROPERTY ShutsDown
