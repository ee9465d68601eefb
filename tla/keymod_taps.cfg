CONSTANTS
    Keys = {"caps", "shift", "esc", "paren", "a"}
    Bound = {"caps", "shift"}
    Modifiers = {"shift"}
    EmitKey <- Substitutes
    MSEC_PER_SEC = 3
    NSEC_PER_MSEC = 2
    HoldLimit = 2
    MaxTime = 13
SPECIFICATION Spec
INVARIANT TypeOK GrabOwned InputMethodKept
PROPERTY EmitsExactlyTaps OthersDelivered
