SPECIFICATION FairSpec
CONSTANTS
    Tarball <- Versions
    Parallel = TRUE
    MaxMakes = 2
    MaxKills = 1
INVARIANTS
    AcceptedIsThere
    QuietWhileChecking
    FreshIsGood
PROPERTIES
    KeepsWhatIsThere
    GoesForward
    Termination
