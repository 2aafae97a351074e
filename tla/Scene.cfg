CONSTANTS
    o1 = o1
    o2 = o2
    p1 = p1
    p2 = p2
    p3 = p3
    plain = plain
    blurred = blurred
    None = None
    EmergencyLook = EmergencyLook
    Outputs = {o1, o2}
    Paths = {p1, p2, p3}
    Looks = {plain, blurred}
    Modes <- SomeModes
    Unreadable = {p3}
    Configs <- SomeConfigs
    Launches <- SomeLaunches
    Elsewhere <- SomeElsewhere
    MayFail = TRUE
SPECIFICATION Spec
INVARIANTS
    BuffersAreThere
    RedrawIsRight
CHECK_DEADLOCK FALSE
