CONSTANTS
    Clients = {c1}
    Surfaces = {s1, s2}
    Ctxs = {k1, k2}
    Heads = {h1}
    Layers = {"top"}
    Desktop = Desktop
    None = None
SPECIFICATION Spec
INVARIANT SafeDestroyAfterClosed
CHECK_DEADLOCK FALSE
