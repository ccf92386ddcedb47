SPECIFICATION Spec
CONSTANTS
    Dir <- Directories
    Toolchain <- Toolchains
    Flavour <- Flavours
    NoArch <- None
    Token <- Tokens
    Undefined <- Undef
    COMPONENT_TARGETS <- ComponentTargets
    FLAVOURS <- ComponentFlavours
    Products = {"A1X-boot"}
    Searched = {"products", "A1X-boot", "gcc"}
    Enters <- EnteredBelow
INVARIANTS
    OldIsNotTaken
    SelectionIsMeant
    CleansWholeTree
