SPECIFICATION FairSpec
CONSTANTS
    Component <- Components
    Root = "product"
    Source <- Sources
    Edited = {"product", "gcc"}
    Faults = {"fetch", "missing", "clean", "kill"}
    MaxEdits = 2
    MaxFaults = 2
INVARIANTS
    SourcesReadyUnlessMissed
    NoBuildAfterFailure
PROPERTIES
    Termination
