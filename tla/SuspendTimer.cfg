CONSTANTS
    Policies <- SomePolicies
    MaxDelay = 4
SPECIFICATION FairTimerSpec
INVARIANTS
    CountdownEnds
PROPERTIES
    AskedOnce
    IdleMachineSuspends
