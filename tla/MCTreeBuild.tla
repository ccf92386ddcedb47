----------------------------- MODULE MCTreeBuild -----------------------------
(***************************************************************************)
(* Instances of TreeBuild.  The graphs are those of the REQUIRES statements*)
(* in products/ and core/ for toolchain version 1.1.1.                     *)
(***************************************************************************)
EXTENDS TreeBuildRefinement, TLC

\* A product with two tools that need the same compiler, of which an earlier stage is
\* a flavour of the same directory.
DiamondRequires ==
    "product" :> {"chrpath", "gdb"} @@
    "chrpath" :> {"gcc^full"}       @@
    "gdb"     :> {"gcc^full"}       @@
    "gcc^full" :> {"gcc^static"}    @@
    "gcc^static" :> {}

DiamondDir ==
    [c \in DOMAIN DiamondRequires |-> IF c \in {"gcc^full", "gcc^static"} THEN "gcc" ELSE c]

\* Three targets of one directory, tools/dm644x/flash-tools/NOR-flasher, that
\* need the same component.
FlavourRequires ==
    "NOR-flasher"           :> {"modSign"} @@
    "NOR-flasher^nonsecure" :> {"modSign"} @@
    "NOR-flasher^secure"    :> {"modSign"} @@
    "modSign"               :> {}

FlavourDir ==
    "NOR-flasher"           :> "NOR-flasher" @@
    "NOR-flasher^nonsecure" :> "NOR-flasher" @@
    "NOR-flasher^secure"    :> "NOR-flasher" @@
    "modSign"               :> "modSign"

FlavourTargets == <<"NOR-flasher", "NOR-flasher^nonsecure", "NOR-flasher^secure">>

ProductTargets == <<"product">>

ReachableFrom(graph, c) ==
    LET R[n \in Nat] ==
            IF n = 0 THEN graph[c]
            ELSE R[n - 1] \cup UNION {graph[d] : d \in R[n - 1]}
    IN  R[Cardinality(DOMAIN graph)]

TreeLists(graph) == [c \in DOMAIN graph |-> ReachableFrom(graph, c)]

DiamondComponents == DOMAIN DiamondRequires
DiamondTree == TreeLists(DiamondRequires)
FlavourComponents == DOMAIN FlavourRequires
FlavourTree == TreeLists(FlavourRequires)

=============================================================================
