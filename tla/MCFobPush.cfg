SPECIFICATION FairSpec
CONSTANTS
    Lists = {l1, l2, big}
    Oversized = {big}
    NoRow = NoRow
    NoUpload = NoUpload
    MaxRev = 2
    MaxKey = 1
    MaxPushes = 2
INVARIANT ListMatchesRevision
PROPERTY NeverRegresses Converges
