CONSTANTS
    Clients = {c1, c2}
    Controls = {k1, k2, k3, k4}
    Heads = {h1, h2}
    Capable = {h1}
    None = None
SPECIFICATION Spec
SYMMETRY Interchangeable
INVARIANT TypeOK PointersAgree
PROPERTY FailedIsInert
\* A crash ends the run.
CHECK_DEADLOCK FALSE
