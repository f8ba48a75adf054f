SPECIFICATION FairSpec
CONSTANTS
    l1 = l1
    l2 = l2
    l3 = l3
    l4 = l4
    old = old
    bad = bad
    Logs = {l1, l2, old}
    Found <- FoundOld
    Unencodable = {}
    logBufferSize = 1
    logSyncBatchSize = 2
    StorageFails = FALSE
    None = None
INVARIANTS
    NoLostWakeup
PROPERTIES
    EventuallySynced
