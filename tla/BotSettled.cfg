SPECIFICATION FairSpec
CONSTANTS
    b1 = b1
    c1 = c1
    p1 = p1
    h1 = h1
    Bots = {b1}
    Configs = {c1}
    ValidConfigs = {c1}
    Procs = {p1}
    Handlers = {h1}
    Mains = {}
    Commands = {"create", "stop", "restart"}
    RunnerEvents = {"load", "report"}
    None = None
INVARIANT SettledStatus
