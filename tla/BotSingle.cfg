SPECIFICATION Spec
CONSTANTS
    b1 = b1
    c1 = c1
    c2 = c2
    bad = bad
    p1 = p1
    p2 = p2
    p3 = p3
    h1 = h1
    Bots = {b1}
    Configs = {c1, c2, bad}
    ValidConfigs = {c1, c2}
    Procs = {p1, p2, p3}
    Handlers = {h1}
    Mains = {}
    Commands = {"create", "stop", "restart"}
    RunnerEvents = {"load"}
    None = None
    Words <- MCWords
    Nothing <- MCNothing
    sdkDir = "sdk"
    botDir = "bots"
    Inherited <- MCInherited
    CreateBots <- MCCreateBots
    Messages = {"m1", "m2"}
    BlankText = ""
    maxExact = 8
SYMMETRY Symmetry
INVARIANTS
    OneLiveProcess
    RunsOwnStrategy
    SavedConfigIsRunning
    BotsHaveOneSource
    BotsSeeTheirCommand
    BotsAreHeard
PROPERTY StopMeansStopped
