CONSTANTS
    o1 = o1
    o2 = o2
    o3 = o3
    Outputs = {o1, o2, o3}
    NoOutput = NoOutput
    Configs <- AllConfigs
    MayLoseControl = TRUE
SPECIFICATION Spec
INVARIANTS
    NeverStuckDark
    LitAfterUnlock
\* the curtain shuts down
CHECK_DEADLOCK FALSE
