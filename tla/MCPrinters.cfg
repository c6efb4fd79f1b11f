SPECIFICATION FairSpec
CONSTANTS
    s1 = s1
    s2 = s2
    c1 = c1
    c2 = c2
    None = None
    Closer = Closer
    Serials <- MCSerials
    Settings <- MCSettings
    Forms <- MCForms
    Reachable <- MCReachable
    Saves = {w1, w2}
    Slots = {1, 2}
INVARIANTS OnePairPerPrinter RunningIsSaved ServesRunningCamera
PROPERTIES StaleIsHidden SaveEnds TriesAgain
