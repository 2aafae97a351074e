CONSTANTS
    Kinds <- SomeKinds
    MaxEdits = 2
    Texts <- SomeTexts
    DefaultTheme <- TheDefault
    BundledTheme <- TheBundled
SPECIFICATION FairSpec
INVARIANTS
    QuietMeansCurrent
    LastFileDecides
PROPERTIES
    EditsArrive
