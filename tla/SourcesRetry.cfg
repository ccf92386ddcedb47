SPECIFICATION Spec
CONSTANTS
    Component <- Components
    Root = "product"
    Source <- Sources
    Edited = {}
    Faults = {"fetch"}
    MaxEdits = 0
    MaxFaults = 1
INVARIANTS
    SourcesBeforeBuild
