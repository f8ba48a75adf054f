SPECIFICATION FairSpec
CONSTANTS
    b1 = b1
    p1 = p1
    p2 = p2
    h1 = h1
    h2 = h2
    Bots = {b1}
    Procs = {p1, p2}
    Pumps = {h1, h2}
    Commands = {"create", "stop", "restart"}
    Invocations <- AllInvocations
    None = None
CHECK_DEADLOCK FALSE
INVARIANTS
    IInv
    OneLateStartEach
    OnlyLateOnesSurvive
    StoreOutlivesPumps
PROPERTIES
    ShutdownEnds
