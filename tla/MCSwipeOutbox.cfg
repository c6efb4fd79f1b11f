SPECIFICATION FairOutboxSpec
CONSTANTS
    BatchMax = 2
    ChunkMax = 1
    PostMax = 2
    MaxIds = 4
    Workers = {1, 2}
INVARIANTS NothingLost StoredOnce
PROPERTY EventuallyUploaded
