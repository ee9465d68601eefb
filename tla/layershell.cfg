CONSTANTS
    Clients = {c1, c2}
    Surfaces = {s1, s2}
    Ctxs = {k1, k2}
    Heads = {h1}
    Layers = {"top", "overlay", "bottom", "beyond"}
    Desktop = Desktop
    None = None
SPECIFICATION Spec
SYMMETRY Interchangeable
INVARIANT TypeOK TablesAgree HearsCommits OutputLossAnnounced
PROPERTY FocusOnlyIfAsked ClickYieldsToTopmost
CHECK_DEADLOCK FALSE
