\* Three addresses make a root, a child and a grandchild, with the reuse of
\* each; no symmetry, as liveness is checked.
CONSTANTS
    Clients = {c1, c2, c3}
    Caps = {cap1}
    Sets = {s1}
    NoClient = NoClient
SPECIFICATION Spec
INVARIANT TypeOK CapsConserved SetsWithinOwner CleanupComplete VipGuards
PROPERTY ImplementsCustody
\* The compositor stops when its event loop ends.
CHECK_DEADLOCK FALSE
