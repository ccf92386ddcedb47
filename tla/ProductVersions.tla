--------------------------- MODULE ProductVersions ---------------------------
(***************************************************************************)
(* Products of several TOOLCHAIN_VERSIONs that share components.           *)
(*                                                                         *)
(* A product's Makefile exports its TOOLCHAIN_VERSION, and what its make   *)
(* builds is installed in TOOLCHAIN_PATH, the directory of that version    *)
(* (core.mk:156).  The REQUIRES of core/gcc or tools/chrpath depend on the *)
(* version too.  But the stamps of a component and its .requires are in    *)
(* .<toolchain>, which all versions share: the make of one version finds   *)
(* there what the make of another has left.                                *)
(*                                                                         *)
(* One toolchain, without -j.  A make that is entered in a component runs  *)
(* its list and then builds it; `stack' has the makes that wait for each   *)
(* other, the user's first.                                                *)
(***************************************************************************)
EXTENDS Naturals, Sequences, RequiresGraph

CONSTANTS
    Component,  \* dir^flavour
    Dir,        \* the directory of each component
    Version,    \* values of TOOLCHAIN_VERSION, the default among them
    NoVersion,
    Requires,   \* the REQUIRES of each component under each version
    Tree,       \* the TREEDIRS that build_requires computes from them
    Product,    \* the components that pack the toolchain of their version
    Makes,      \* what the user makes: [component, version]
    MaxMakes,   \* bound: how often
    MaxFaults   \* bound: how many makes fail or are killed

ASSUME VersionAssumption ==
    /\ NoVersion \notin Version
    /\ Requires \in [Version -> [Component -> SUBSET Component]]
    /\ Tree \in [Version -> [Component -> SUBSET Component]]
    /\ Product \subseteq Component
    /\ Makes \subseteq [component : Component, version : Version]
    /\ MaxMakes \in Nat
    /\ MaxFaults \in Nat

ASSUME ListAssumption ==
    \A v \in Version, c \in Component : IsTree(Requires[v], c, Tree[v][c])

\* A product fixes its version and is required by no component.
ASSUME ProductAssumption ==
    /\ \A m, n \in Makes :
          m.component = n.component /\ m.component \in Product => m.version = n.version
    /\ \A v \in Version, c \in Component : Tree[v][c] \cap Product = {}

VARIABLES
    stack,      \* the makes under way: [component, version, done]
    listed,     \* the version each component's .requires was written under
    builtFor,   \* the version each component's stamps were made under
    installed,  \* what is in the TOOLCHAIN_PATH of each version
    packed,     \* what is in the tarball of each product
    borrowed,   \* history: what another version had built when it was packed
    mixed,      \* history: a make has found what another version left in its tree
    makes,      \* makes so far
    faults      \* faults so far

vars == <<stack, listed, builtFor, installed, packed, borrowed, mixed,
          makes, faults>>

Idle == stack = <<>>

Top == stack[Len(stack)]

\* A make starts in a component; TOOLCHAIN_VERSION is exported to it.
Enter(c, v) == [component |-> c, version |-> v, done |-> {}]

\* The list of the make on top, and the edges in it, are those of the version
\* its .requires was written under.
List(c) == Tree[listed[c]][c]

Family(m) == {m.component} \cup Tree[m.version][m.component]

\* `$(BUILD_TARGETS): | $(_tree)': the make on top has made its list.
ReadyEarly(c) == listed[c] # NoVersion  \* mutation: BUILD_TARGETS do not wait

Ready(c) == listed[c] # NoVersion /\ Top.done = List(c)

Init ==
    /\ stack = <<>>
    /\ listed = [c \in Component |-> NoVersion]
    /\ builtFor = [c \in Component |-> NoVersion]
    /\ installed = [v \in Version |-> {}]
    /\ packed = [r \in Product |-> {}]
    /\ borrowed = [r \in Product |-> {}]
    /\ mixed = FALSE
    /\ makes = 0
    /\ faults = 0

-----------------------------------------------------------------------------

\* The user runs `make all' in a product, or in a component.
Make(m) ==
    /\ Idle
    /\ makes < MaxMakes
    /\ stack' = <<Enter(m.component, m.version)>>
    /\ mixed' = \/ mixed
                \/ \E c \in Family(m) :
                      {listed[c], builtFor[c]} \ {NoVersion, m.version} # {}
    /\ makes' = makes + 1
    /\ UNCHANGED <<listed, builtFor, installed, packed, borrowed, faults>>

\* Mutation: TOOLCHAIN_VERSION is not exported to build_requires.
WriteListOfAnyVersion ==
    /\ ~Idle
    /\ listed[Top.component] = NoVersion
    /\ \E v \in Version : listed' = [listed EXCEPT ![Top.component] = v]
    /\ UNCHANGED <<stack, builtFor, installed, packed, borrowed, mixed, makes, faults>>

\* There is no .requires: build_requires writes it for the version of this make.
WriteList ==
    /\ ~Idle
    /\ listed[Top.component] = NoVersion
    /\ listed' = [listed EXCEPT ![Top.component] = Top.version]
    /\ UNCHANGED <<stack, builtFor, installed, packed, borrowed, mixed, makes, faults>>

\* `make -f .requires' starts the make of a component of the list.
Descend(d) ==
    /\ ~Idle
    /\ listed[Top.component] # NoVersion
    /\ d \in List(Top.component) \ Top.done
    /\ Requires[listed[Top.component]][d] \subseteq Top.done
    /\ stack' = Append(stack, Enter(d, Top.version))
    /\ UNCHANGED <<listed, builtFor, installed, packed, borrowed, mixed, makes, faults>>

\* There are no stamps: the component is built and installed for this version; a
\* product packs what is installed.
Build ==
    /\ ~Idle
    /\ Ready(Top.component)
    /\ builtFor[Top.component] = NoVersion
    /\ builtFor' = [builtFor EXCEPT ![Top.component] = Top.version]
    /\ installed' = [installed EXCEPT ![Top.version] = @ \cup {Top.component}]
    /\ packed' = [r \in Product |->
                    IF r = Top.component THEN installed[Top.version] ELSE packed[r]]
    /\ borrowed' = [r \in Product |->
                    IF r = Top.component
                      THEN {c \in Component : builtFor[c] \notin {NoVersion, Top.version}}
                      ELSE borrowed[r]]
    /\ UNCHANGED <<stack, listed, mixed, makes, faults>>

\* What the component requires is not in the TOOLCHAIN_PATH of this version: a
\* build that needs it fails, and all makes with it.
BuildLacksTools ==
    /\ ~Idle
    /\ Ready(Top.component)
    /\ builtFor[Top.component] = NoVersion
    /\ ~(Requires[Top.version][Top.component] \subseteq installed[Top.version])
    /\ stack' = <<>>
    /\ UNCHANGED <<listed, builtFor, installed, packed, borrowed, mixed, makes, faults>>

\* Mutation: what has been made is not remembered.
ReturnForgotten ==
    /\ ~Idle
    /\ Ready(Top.component)
    /\ builtFor[Top.component] # NoVersion
    /\ stack' = SubSeq(stack, 1, Len(stack) - 1)
    /\ UNCHANGED <<listed, builtFor, installed, packed, borrowed, mixed, makes, faults>>

\* All stamps exist, whatever version they were made under: the make returns.
Return ==
    /\ ~Idle
    /\ Ready(Top.component)
    /\ builtFor[Top.component] # NoVersion
    /\ stack' = [i \in 1 .. Len(stack) - 1 |->
                    IF i = Len(stack) - 1
                      THEN [stack[i] EXCEPT !.done = @ \cup {Top.component}]
                      ELSE stack[i]]
    /\ UNCHANGED <<listed, builtFor, installed, packed, borrowed, mixed, makes, faults>>

\* A recipe fails or the makes are killed.
Fail ==
    /\ ~Idle
    /\ faults < MaxFaults
    /\ stack' = <<>>
    /\ faults' = faults + 1
    /\ UNCHANGED <<listed, builtFor, installed, packed, borrowed, mixed, makes>>

\* .<toolchain> is removed in one directory, or in all by tree_clean; nothing
\* ever removes what is in a TOOLCHAIN_PATH.
CleanDirs(D) ==
    /\ Idle
    /\ listed' = [c \in Component |-> IF Dir[c] \in D THEN NoVersion ELSE listed[c]]
    /\ builtFor' = [c \in Component |-> IF Dir[c] \in D THEN NoVersion ELSE builtFor[c]]
    /\ packed' = [r \in Product |-> IF Dir[r] \in D THEN {} ELSE packed[r]]
    /\ borrowed' = [r \in Product |-> IF Dir[r] \in D THEN {} ELSE borrowed[r]]
    /\ UNCHANGED <<stack, installed, mixed, makes, faults>>

Directories == {Dir[c] : c \in Component}

LocalClean == \E d \in Directories : CleanDirs({d})

TreeClean == CleanDirs(Directories)

-----------------------------------------------------------------------------

Progress ==
    \/ WriteList
    \/ \E d \in Component : Descend(d)
    \/ Build
    \/ BuildLacksTools
    \/ Return

Next ==
    \/ \E m \in Makes : Make(m)
    \/ Progress
    \/ Fail
    \/ LocalClean
    \/ TreeClean

Spec == Init /\ [][Next]_vars

\* make goes on while it can.
FairSpec == Spec /\ WF_vars(Progress)

-----------------------------------------------------------------------------

TypeOK ==
    /\ stack \in Seq([component : Component, version : Version, done : SUBSET Component])
    /\ listed \in [Component -> Version \cup {NoVersion}]
    /\ builtFor \in [Component -> Version \cup {NoVersion}]
    /\ installed \in [Version -> SUBSET Component]
    /\ packed \in [Product -> SUBSET Component]
    /\ borrowed \in [Product -> SUBSET Component]
    /\ mixed \in BOOLEAN
    /\ makes \in 0 .. MaxMakes
    /\ faults \in 0 .. MaxFaults

\* The tarball of a product has all that the product requires, however its make
\* was interrupted and resumed, but for what the make of another version had
\* built: of that the make has found the stamps, and packed the TOOLCHAIN_PATH
\* of its own version without it (core.mk:157, products/*/Makefile).
TarballComplete ==
    \A r \in Product :
        builtFor[r] # NoVersion =>
            Tree[builtFor[r]][r] \subseteq packed[r] \cup borrowed[r]

\* As long as no make finds in its own tree what another version has left there,
\* be it for want of shared components or for a tree_clean in between, every
\* tarball is complete, and a TOOLCHAIN_PATH has only what is required for its
\* version.
CleanSwitchIsRight ==
    ~mixed =>
        /\ \A r \in Product :
              builtFor[r] # NoVersion => Tree[builtFor[r]][r] \subseteq packed[r]
        /\ \A v \in Version :
              installed[v] \subseteq UNION {Family(m) : m \in {n \in Makes : n.version = v}}

\* Then, too, no component is built before what it requires is installed in the
\* TOOLCHAIN_PATH it looks for it in.
ToolsInPlace ==
    ~mixed /\ ~Idle /\ Ready(Top.component) /\ builtFor[Top.component] = NoVersion
        => Requires[Top.version][Top.component] \subseteq installed[Top.version]

\* Every make ends, with lists of different versions too (FairSpec).
Termination == ~Idle ~> Idle

=============================================================================
