CONSTANTS
    Keys = {"a"}
    Scalars <- TwoScalars
    MaxTorrents = 3
    MaxGrowth = 1
SPECIFICATION Spec
INVARIANT
    PatchReproduces
