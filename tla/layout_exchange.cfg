CONSTANTS
    Ctxs = {k1}
    Anchors <- ExchangeAnchors
    Margins <- ExchangeMargins
    Requests <- ExchangeRequests
    Zones = {}
    Outputs <- ExchangeOutputs
    MaxSize = 5
    MaxChanges = 4
    Modulus = 16
SPECIFICATION Spec
INVARIANT TypeOK StretchedWithinOutput
PROPERTY ExchangeEnds RestsAsAsked AnswersSettle
\* A surface that nobody changes and that owes no answer is at rest.
CHECK_DEADLOCK FALSE
