CONSTANTS
    l = l
    pre = pre
    h = h
    Loaders <- MCLoaders
    Preloaders <- MCPreloaders
    Helpers <- MCHelpers
    Mixes <- MCMixes
    MaxVersion = 2
    File <- MCFile
    ExpandHome <- MCExpandHome
    NoPath = NoPath
    Backgrounds <- MCBackgrounds
    Visuals <- MCVisuals
    Themes <- MCThemes
    OutputSets <- MCOutputSets
    Draws <- MCDraws
    MaxChanges = 2
    ByteLens = {1, 2}
SPECIFICATION MCSpec
INVARIANTS
    DamagedOnlyWhileShared
    HitIsCurrent
    PrewarmCovers
    PictureIsWhole
CHECK_DEADLOCK FALSE
