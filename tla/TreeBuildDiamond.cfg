SPECIFICATION FairSpec
CONSTANTS
    Component <- DiamondComponents
    Dir <- DiamondDir
    Requires <- DiamondRequires
    Tree <- DiamondTree
    Targets <- ProductTargets
    Goals = {"all", "local_all"}
    Parallel = TRUE
    NoParallel = {"gdb"}
    MaxInvocations = 2
    MaxFailures = 1
INVARIANTS
    Exclusive
    TreeBuiltFirst
    DeepMakesIdle
    SuccessIsComplete
    SomethingToStart
PROPERTIES
    RecursionIsFinite
    ImplementsOrder
    ImplementsRecipes
    Termination
    EverythingBuilt
