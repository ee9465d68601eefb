CONSTANTS
    Ctxs = {k1, k2, k3}
    Anchors <- Panels
    Margins <- NoMargin
    Requests <- Nothing
    Zones <- PanelZones
    Outputs <- OnlyOutput
    MaxSize = 1
    MaxChanges = 6
    Modulus = 16
SPECIFICATION Spec
SYMMETRY Interchangeable
INVARIANT WorkAreaExact
\* A surface that nobody changes and that owes no answer is at rest.
CHECK_DEADLOCK FALSE
