SPECIFICATION FairSpec
CONSTANTS
    Caller = {1, 2, 3}
    MaxConcurrency = 2
    MaxRetries = 1
    Rounds = 2
    LongBlock = 3
    RateLimit = 1
    Window = 2
INVARIANT SlotsAndRate
PROPERTY BlocksHeeded
PROPERTY CallersServed
CHECK_DEADLOCK FALSE
