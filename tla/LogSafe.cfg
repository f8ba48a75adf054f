SPECIFICATION Spec
CONSTANTS
    l1 = l1
    l2 = l2
    l3 = l3
    l4 = l4
    old = old
    bad = bad
    Logs = {l1, l2, l3, old, bad}
    Found <- FoundBadAndOld
    Unencodable = {bad}
    logBufferSize = 1
    logSyncBatchSize = 2
    StorageFails = TRUE
    None = None
SYMMETRY Symmetry
INVARIANTS
    IInv
    MarkedWasWritten
    ResendIsExcused
    InOrder
    KeptOnce
