SPECIFICATION Spec
CONSTANTS
    b1 = b1
    c1 = c1
    p1 = p1
    p2 = p2
    h1 = h1
    Bots = {b1}
    Configs = {c1}
    ValidConfigs = {c1}
    Procs = {p1, p2}
    Handlers = {h1}
    Mains = {}
    Commands = {"create", "stop", "restart"}
    RunnerEvents = {"load", "report"}
    None = None
PROPERTY RestartFindsTheBot
