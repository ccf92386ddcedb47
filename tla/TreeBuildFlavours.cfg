SPECIFICATION Spec
CONSTANTS
    Component <- FlavourComponents
    Dir <- FlavourDir
    Requires <- FlavourRequires
    Tree <- FlavourTree
    Targets <- FlavourTargets
    Goals = {"all"}
    Parallel = TRUE
    NoParallel = {}
    MaxInvocations = 1
    MaxFailures = 0
INVARIANTS
    MainBeforeFlavours
