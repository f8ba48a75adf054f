SPECIFICATION FairSpec
CONSTANTS
    c1 = c1
    c2 = c2
    b1 = b1
    h1 = h1
    t1 = t1
    Conns = {c1, c2}
    Bots = {b1}
    Procs = {}
    Handlers = {h1}
    Beats = {t1}
    Commands = {"stop"}
    sendBufferSize = 2
    None = None
CHECK_DEADLOCK FALSE
INVARIANTS
    IInv
PROPERTIES
    ImplementsChannel
    QueueMoves
