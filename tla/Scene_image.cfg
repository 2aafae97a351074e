CONSTANTS
    o1 = o1
    o2 = o2
    p1 = p1
    p2 = p2
    p3 = p3
    plain = plain
    blurred = blurred
    None = None
    EmergencyLook = EmergencyLook
    Outputs = {o1, o2}
    Paths = {p1, p2}
    Looks = {plain, blurred}
    Modes <- SomeModes
    Unreadable = {}
    Configs <- SomeConfigs
    Launches <- SomeLaunches
    Elsewhere <- SomeElsewhere
    MayFail = TRUE
SPECIFICATION Spec
INVARIANTS
    EveryOutputShowsItsImage
CHECK_DEADLOCK FALSE
