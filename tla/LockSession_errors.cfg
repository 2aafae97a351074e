CONSTANTS
    MaxGen = 2
    MaxAttempts = 1
    Fingerprint = FALSE
    LatencyReport = TRUE
    Faults = {"render", "spawn", "wait", "accept", "deny", "hint", "slow", "crash"}
SPECIFICATION DaemonFairSpec
INVARIANTS
    AuthUnlocksOwnLock
    LockedMeansSecured
PROPERTIES
    HandlersReturn
