SPECIFICATION FairSpec
CONSTANTS
    Key = {a, b}
    NoKey = NoKey
    MaxRequests = 3
    MaxRetries = 2
    MaxPause = 2
    RateLimit = 1
    Awaited = {b}
    Window = 2
CHECK_DEADLOCK FALSE
INVARIANT TypeOK
INVARIANT CallersTracked
INVARIANT RateRespected
PROPERTY LatestWins
PROPERTY CallersAnswered
