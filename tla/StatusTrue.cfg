SPECIFICATION Spec
CONSTANTS
    c1 = c1
    b1 = b1
    p1 = p1
    p2 = p2
    h1 = h1
    Conns = {c1}
    Bots = {b1}
    Procs = {p1, p2}
    Handlers = {h1}
    Beats = {}
    Commands = {"create", "stop", "restart"}
    sendBufferSize = 1
    None = None
SYMMETRY Symmetry
CHECK_DEADLOCK FALSE
INVARIANTS
    StatusIsTrue
