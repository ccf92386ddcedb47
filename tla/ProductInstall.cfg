SPECIFICATION Spec
CONSTANTS
    Target <- Tarballs
    Faults = {"refused", "cut", "merge", "kill"}
    MaxBuilds = 4
    MaxFaults = 2
INVARIANTS
    InstalledIsCurrent
    TreeCleanIsComplete
PROPERTIES
    RecordKept
