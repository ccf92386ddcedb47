SPECIFICATION FairSpec
CONSTANTS
    Component <- Components
    Dir <- ComponentDir
    Version = {"1.0.0", "1.1.0", "1.1.1"}
    NoVersion = "none"
    Requires <- RequiresOf
    Tree <- TreeOf
    Product <- Products
    Makes <- UserMakes
    MaxMakes = 3
    MaxFaults = 1
INVARIANTS
    TarballComplete
    CleanSwitchIsRight
    ToolsInPlace
PROPERTIES
    Termination
