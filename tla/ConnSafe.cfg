SPECIFICATION Spec
CONSTANTS
    c1 = c1
    c2 = c2
    Conns = {c1, c2}
    Loops = {"read", "write", "beat"}
    Prompt = FALSE
    defaultBackoff = 3
    maxBackoff = 5
    None = None
SYMMETRY Symmetry
INVARIANTS
    IInv
    OneSocket
    LossIsSignalled
PROPERTIES
    ImplementsLink
