CONSTANTS
    Clients = {c1}
    Surfaces = {s1, s2}
    Ctxs = {k1, k2}
    Heads = {h1}
    Layers = {"top", "overlay"}
    Desktop = Desktop
    None = None
SPECIFICATION Spec
PROPERTY TopmostKeepsFocus
CHECK_DEADLOCK FALSE
