SPECIFICATION Spec
CONSTANTS
    Component <- MCComponent
    Root = "product"
    BuildSystem = "build-system"
    Dir <- MCDir
    NoDir = {"gone"}
    NoMakefile = {"docs"}
    Makefiles <- MCMakefiles
    Rank <- MCRank
    MaxEdits = 3
    MaxCrashes = 1
INVARIANTS
    CompleteIsAccurate
    UpToDateIsAccurate
    FaultIsNoticed
    WalkedOnce
CHECK_DEADLOCK FALSE
