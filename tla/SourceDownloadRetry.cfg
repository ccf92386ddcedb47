SPECIFICATION Spec
CONSTANTS
    Tarball <- Versions
    Parallel = FALSE
    MaxMakes = 2
    MaxKills = 0
INVARIANTS
    AcceptedIsGood
