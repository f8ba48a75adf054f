SPECIFICATION FairSpec
CONSTANTS
    b1 = b1
    b2 = b2
    c1 = c1
    p1 = p1
    p2 = p2
    h1 = h1
    main = main
    Bots = {b1, b2}
    Configs = {c1}
    ValidConfigs = {c1}
    Procs = {p1, p2}
    Handlers = {h1}
    Mains = {main}
    Commands = {"create"}
    RunnerEvents = {}
    None = None
ACTION_CONSTRAINT Bound
CHECK_DEADLOCK FALSE
INVARIANT
    StopAllStopsAll
PROPERTIES
    StopReturns
    ExitIsNoticed
