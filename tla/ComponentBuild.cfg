SPECIFICATION FairSpec
CONSTANTS
    File <- Files
    Aux <- Archives
    Parallel = TRUE
    Faults <- Kinds
    MaxEdits = 2
    MaxFaults = 2
INVARIANTS
    BuildsPatched
    BuildsWhole
    PatchesAreBuilt
PROPERTIES
    ImplementsRecipes
    Termination
