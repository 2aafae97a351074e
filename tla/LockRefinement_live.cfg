\* Crashing, unspawnable and slow curtains, failing sockets, and two passwords at each of three locks.
CONSTANTS
    MaxGen = 3
    MaxAttempts = 2
    Fingerprint = TRUE
    LatencyReport = FALSE
    Faults = {"crash", "slow", "spawn", "accept"}
SPECIFICATION FairSpec
INVARIANTS
    SettledBetweenHandlers
    NoOrphanCurtain
    InFlightAccountedFor
PROPERTIES
    ReleaseIsAuthorised
    KeepsLockPromise
    AuthorisedLockEnds
    PasswordsAnswered
