CONSTANTS
    Keys = {"a"}
    Scalars <- TwoScalars
    MaxTorrents = 3
    MaxGrowth = 2
SPECIFICATION Spec
INVARIANT
    PatchReproduces
