CONSTANTS
    c1 = c1
    c2 = c2
    Caller = {c1, c2}
    N = 2
    RotateInterval = 2
    LimitType <- MCLimitType
    Burst <- MCBurst
    Costs <- MCCosts
    MaxTime = 4
SPECIFICATION FairSpec
INVARIANT EveryProviderOnce
PROPERTY RotationClockAdvances
PROPERTY CallsEndOnCancel
