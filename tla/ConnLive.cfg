SPECIFICATION FairSpec
CONSTANTS
    c1 = c1
    c2 = c2
    Conns = {c1, c2}
    Loops = {"read", "write"}
    Prompt = TRUE
    defaultBackoff = 3
    maxBackoff = 3
    None = None
PROPERTIES
    Reconnects
    DeathIsNoticed
    TearsDownItsOwn
    NoLeakedPump
    CloseEnds
