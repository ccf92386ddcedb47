SPECIFICATION StampSpec
CONSTANTS
    COMPONENT_TOOLCHAINS <- Toolchains
    Makes <- AllMakes
    Final <- ProductMakes
    Faults = {"clean", "abort", "interrupt", "kill"}
    MaxEdits = 2
    MaxFaults = 2
INVARIANTS
    CleanedUnlessPartial
    RecursionEnds
