CONSTANTS
    Configs <- SmallConfigs
    MaxFailed = 4
    MaxShift = 2
    Elapses = {1}
    Horizon = 6
SPECIFICATION FairSpec
PROPERTIES
    NoEarlyAttempt
    DelaysNeverShrink
    TriesAgain
