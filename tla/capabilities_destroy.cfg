CONSTANTS
    Clients = {c1, c2}
    Caps = {cap1}
    Sets = {s1}
    NoClient = NoClient
SPECIFICATION Spec
SYMMETRY Interchangeable
INVARIANT SetDestroyedOnce
CHECK_DEADLOCK FALSE
