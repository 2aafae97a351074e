CONSTANTS
    Buttons = {"reboot", "poweroff"}
    None = None
    MaxSecret = 2
    Themes <- SomeThemes
    Launches <- SomeLaunches
    MayFail = TRUE
    Visuals <- SomeVisuals
    Data <- SomeData
    Blocks <- SomeBlocks
    Frames <- SomeFrames
    Scales = {1, 2}
    Roomy = 720
SPECIFICATION FairSpec
INVARIANTS
    PendingIffInFlight
    PromptCoherent
    PictureCurrent
    PicturePartsFit
    WidgetsKeepApart
PROPERTIES
    SubmittedTextIsFrozen
    ReleaseNeedsItsPress
    RejectionEnds
    RestCatchesUp
