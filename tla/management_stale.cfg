CONSTANTS
    Managers = {tool, m1}
    Tool = tool
    Surfaces = {s1, s2}
    DesktopSurfaces = {s1}
    Uid <- SameUid
    Layers = {l1, l2}
    Outputs = {o1}
    Places = {"left", "right"}
    Scales = {255, 256, 512}
    Devices = {d1, d2}
    Features = {"natural-scroll"}
    Supports <- SupportsSome
    Subscriptions <- SomeSubscriptions
    SeatLists <- SomeSeats
    Commands <- SomeCommands
    Indices = {0, 1}
    MaxChanges = 2
    None = None
    s1 = s1
    s2 = s2
    d1 = d1
    d2 = d2
    o1 = o1
SPECIFICATION ToolSpec
INVARIANT SurfacesCurrent
CHECK_DEADLOCK FALSE
