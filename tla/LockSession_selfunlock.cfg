CONSTANTS
    MaxGen = 2
    MaxAttempts = 0
    Fingerprint = TRUE
    LatencyReport = FALSE
    Faults = {"render"}
SPECIFICATION Spec
PROPERTIES
    CurtainDoesNotSelfUnlock
