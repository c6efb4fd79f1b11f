SPECIFICATION PageSpec
CONSTANTS
    Keys = {1, 2}
    KeyRefresh = 2
    KeyRetry = 2
    KeyMaxAge = 3
    Ops = {o1, o2}
    Images = {i1}
    TokenLife = 2
    Margin = 1
    Null = Null
INVARIANTS
    ShownIsAuthorized
    OneOperation
    BlobsAreOnScreen
    StopsForCause
PROPERTIES
    KeepsTrying
    KeysConverge
CHECK_DEADLOCK FALSE
