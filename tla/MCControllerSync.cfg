SPECIFICATION FairSpec
CONSTANTS
    Lists = {empty, l1, l2}
    EmptyList = empty
    Blank = Blank
    NoEtag = NoEtag
    NotModified = NotModified
    NoAnswer = NoAnswer
    MAX_EVENTS = 2
    MaxPushed = 4
    MaxFlashFaults = 1
    MaxPowerLosses = 2
INVARIANTS EtagMeansPersisted NoSilentLoss
PROPERTY Converges
