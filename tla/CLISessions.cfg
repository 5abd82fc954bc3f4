SPECIFICATION FairSpec
CONSTANTS
    t1 = t1
    t2 = t2
    t3 = t3
    Turn = {t1, t2, t3}
    Parent <- MCParent
    SessionId = {i1, i2, i3}
    NoTurn = NoTurn
    NoId = NoId
    StopAll = StopAll
    MaxStopAll = 1
CHECK_DEADLOCK FALSE
INVARIANT TypeOK
INVARIANT OneProcessPerSession
INVARIANT MapsSound
INVARIANT StopReachesAll
PROPERTY StopsTakeEffect
INVARIANT OwnConversation
