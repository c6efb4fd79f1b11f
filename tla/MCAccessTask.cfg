SPECIFICATION FairSpec
CONSTANTS
    card = card
    stranger = stranger
    fob = fob
    uid = uid
    other = other
    Reads = {card, stranger}
    IdsOf <- MCIdsOf
    EdgeLists = {{}, {uid}}
    None = None
    ChannelCap = 2
    Window = 2
    Interval = 2
    SyncMod = 4
INVARIANTS PendingHasResolver BackoffIsQuiet
PROPERTY FirstSwipeWorks PendingSettled
