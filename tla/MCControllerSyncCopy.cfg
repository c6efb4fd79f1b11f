SPECIFICATION DeployedSpec
CONSTANTS
    Lists = {empty, l1}
    EmptyList = empty
    Blank = Blank
    NoEtag = NoEtag
    NotModified = NotModified
    NoAnswer = NoAnswer
    MAX_EVENTS = 2
    MaxPushed = 4
    MaxFlashFaults = 0
    MaxPowerLosses = 2
PROPERTY PowerLossLeavesACopy
