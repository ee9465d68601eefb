CONSTANTS
    Ctxs = {k1}
    Anchors <- ExchangeAnchors
    Margins <- NothingLeft
    Requests <- Nothing
    Zones = {}
    Outputs <- OnlyOutput
    MaxSize = 5
    MaxChanges = 3
    Modulus = 16
SPECIFICATION Spec
PROPERTY ExchangeEnds
\* A surface that nobody changes and that owes no answer is at rest.
CHECK_DEADLOCK FALSE
