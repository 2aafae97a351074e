CONSTANTS
    MaxSleeps = 2
    MaxDark = 1
    MaxQueue = 2
SPECIFICATION FairSpec
INVARIANTS
    OneSecondPerSleep
    RepeatWhileHeld
PROPERTIES
    FirstPressIsSwallowed
    KeyboardComesBack
