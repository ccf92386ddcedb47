------------------------------ MODULE TreeClean ------------------------------
(***************************************************************************)
(* make tree_clean (core.mk:402, the script tree_clean): it searches the   *)
(* tree for directories where something was made, and runs `make           *)
(* local_clean' in each of them.  That make, as any other, stands for the  *)
(* toolchains that targets-config.mk enables: it leaves the .<toolchain>   *)
(* of the others, and fails where there is no other.                       *)
(*                                                                         *)
(* Makes of the user, with all the makes they start, are one step here;    *)
(* the steps of tree_clean are its own makes.  build-system/3pp, where all *)
(* is done for the host, is left out.                                      *)
(***************************************************************************)
EXTENDS TargetSelection

CONSTANTS
    Dir,                \* directories with a Makefile that includes core.mk
    Toolchain,          \* names of toolchains
    Flavour,
    NoArch,             \* the TOOLCHAIN of what is made once for all
    COMPONENT_TARGETS,  \* the toolchains each directory is made for,
    FLAVOURS,           \* and the flavours
    Products,           \* directories where PRODUCT_TARGETS are installed
    Searched,           \* directories the search looks at: not those in sources
    Enters              \* what the make of a directory for a toolchain enters below,
                        \* and with which TOOLCHAIN

Args == [toolchain : Toolchain \cup {<<>>}, flavour : Flavour \cup {<<>>, Undefined}]

NoArgs == [toolchain |-> <<>>, flavour |-> Undefined]

ASSUME NamesAssumption ==
    /\ \A t \in Toolchain : IsToolchain(t)
    /\ \A f \in Flavour : IsFlavour(f)
    /\ Undefined \notin Flavour \cup {<<>>}

ASSUME DirectoryAssumption ==
    /\ NoArch \in Toolchain
    /\ COMPONENT_TARGETS \in [Dir -> (SUBSET Toolchain) \ {{}}]
    /\ FLAVOURS \in [Dir -> SUBSET Flavour]
    /\ Products \subseteq Searched /\ Searched \subseteq Dir
    /\ \A d \in Dir \ Searched : COMPONENT_TARGETS[d] = {NoArch}

\* The Makefiles name in COMPONENT_TARGETS what those that require them are made for.
ASSUME EntersAssumption ==
    /\ Enters \in [Dir -> [Toolchain -> SUBSET (Dir \X Toolchain)]]
    /\ \A d \in Dir, t \in Toolchain : \A e \in Enters[d][t] :
          e[2] \in {t, NoArch} \cap COMPONENT_TARGETS[e[1]]

VARIABLES
    enabled,       \* the toolchains that targets-config.mk enables
    work,          \* the .<toolchain> directories in each directory
    stamped,       \* directories with a .makefile
    installed,     \* directories with a .dist
    pc,            \* of tree_clean: idle, dist or clean
    distDirs,      \* what tree_clean has found and not yet cleaned
    cleanDirs,
    ended,         \* how the last tree_clean ended, if nothing has happened since
    reconfigured,  \* history: targets-config.mk was edited since the tree was clean
    old,           \* history: the .<toolchain> that a tree_clean has left
    passed,        \* history: where a make that was not for all of them has come first
    taken          \* history: where an old .<toolchain> was taken for built

vars == <<enabled, work, stamped, installed, pc, distDirs, cleanDirs, ended,
          reconfigured, old, passed, taken>>

Enabled(d) == COMPONENT_TARGETS[d] \cap enabled

\* The toolchains and flavours of the targets that a make in d stands for, by what is
\* enabled and by its arguments.
TargetTable ==
    [d \in Dir |-> [names \in SUBSET COMPONENT_TARGETS[d] |-> [args \in Args |->
        {<<ToolchainOf(x), FlavourOf(x)>> : x \in Targets(names, FLAVOURS[d], args)}]]]

MeantTable ==
    [d \in Dir |-> [names \in SUBSET COMPONENT_TARGETS[d] |-> [args \in Args |->
        Meant(names, FLAVOURS[d], args)]]]

SelectedTargets(d) == TargetTable[d][Enabled(d)]

Selected(d, args) == {x[1] : x \in SelectedTargets(d)[args]}

\* What a make in d can be for.  One that selects nothing is an error.
Selections(d) == {Selected(d, args) : args \in Args} \ {{}}

TreeIsClean == stamped = {} /\ installed = {} /\ \A d \in Dir : work[d] = {}

Init ==
    /\ enabled = Toolchain
    /\ work = [d \in Dir |-> {}]
    /\ stamped = {}
    /\ installed = {}
    /\ pc = "idle"
    /\ distDirs = {}
    /\ cleanDirs = {}
    /\ ended = "none"
    /\ reconfigured = FALSE
    /\ old = [d \in Dir |-> {}]
    /\ passed = {}
    /\ taken = {}

-----------------------------------------------------------------------------

\* The user edits targets-config.mk; noarch is always enabled.
Configure(names) ==
    /\ pc = "idle"
    /\ names # enabled
    /\ enabled' = names
    /\ ended' = "none"
    /\ reconfigured' = ~TreeIsClean
    /\ UNCHANGED <<work, stamped, installed, pc, distDirs, cleanDirs, old, passed, taken>>

\* What a make in d for some toolchains enters, each directory by a make for one toolchain.
Below(d, toolchains) == UNION {Enters[d][t] : t \in toolchains}

\* The toolchains that the makes of the user's make in d are for, in each directory.
For(d, toolchains, makes) ==
    [c \in Dir |-> IF c = d THEN toolchains ELSE {t \in Toolchain : <<c, t>> \in makes}]

\* The user makes `all' or `local_all' in d, and by the time this ends or is interrupted its
\* `makes' have been in the directories below.  Where there is no .makefile, the make that
\* comes first touches it and removes the .<toolchain> of its own (MakefileCheck): in d the
\* user's make, of all toolchains it is for; below, one of `first', of a single one.
Make(d, toolchains, makes, first) ==
    LET for     == For(d, toolchains, makes)
        cleaned == For(d, toolchains, first)
        visited == {d} \cup {m[1] : m \in makes}
        kept    == [c \in visited |-> IF c \in stamped THEN old[c] ELSE old[c] \ cleaned[c]]
    IN  /\ pc = "idle"
        /\ \A c \in visited \ {d} : \E t \in for[c] : cleaned[c] = {t}
        /\ work' = [c \in Dir |-> IF c \in visited THEN work[c] \cup (for[c] \ {NoArch})
                                                  ELSE work[c]]
        /\ stamped' = stamped \cup visited
        /\ \E done \in SUBSET (visited \cap Products) : installed' = installed \cup done
        /\ ended' = "none"
        /\ old' = [c \in Dir |-> IF c \in visited THEN kept[c] ELSE old[c]]
        /\ passed' = passed \cup {c \in visited : ~(old[c] \subseteq cleaned[c])}
        /\ taken' = taken \cup {c \in visited : kept[c] \cap for[c] # {}}
        /\ UNCHANGED <<enabled, pc, distDirs, cleanDirs, reconfigured>>

\* `make local_clean' in one directory: of each toolchain selected, whatever the flavour,
\* the whole .<toolchain> is removed.
LocalClean(d, toolchains) ==
    /\ pc = "idle"
    /\ work' = [work EXCEPT ![d] = @ \ toolchains]
    /\ old' = [old EXCEPT ![d] = @ \ toolchains]
    /\ ended' = "none"
    /\ UNCHANGED <<enabled, stamped, installed, pc, distDirs, cleanDirs,
                   reconfigured, passed, taken>>

FoundByName ==  \* mutation: .makefile is not searched for
    {d \in Searched : work[d] # {}}

\* A .makefile, wherever it is, or a .<toolchain> below what is searched.
Found == stamped \cup {d \in Searched : work[d] # {}}

BeginTreeClean ==
    /\ pc = "idle"
    /\ pc' = "dist"
    /\ distDirs' = Found \cap installed
    /\ cleanDirs' = Found
    /\ ended' = "none"
    /\ UNCHANGED <<enabled, work, stamped, installed, reconfigured, old, passed, taken>>

\* `make dist_clean'
DistClean(d) ==
    /\ pc = "dist"
    /\ d \in distDirs
    /\ Selected(d, NoArgs) # {}
    /\ installed' = installed \ {d}
    /\ distDirs' = distDirs \ {d}
    /\ UNCHANGED <<enabled, work, stamped, pc, cleanDirs, ended, reconfigured, old, passed, taken>>

EndDistClean ==
    /\ pc = "dist"
    /\ distDirs = {}
    /\ pc' = "clean"
    /\ UNCHANGED <<enabled, work, stamped, installed, distDirs, cleanDirs, ended,
                   reconfigured, old, passed, taken>>

CleanKeepsMakefile(d) ==  \* mutation: no unlink
    /\ pc = "clean"
    /\ d \in cleanDirs
    /\ Selected(d, NoArgs) # {}
    /\ work' = [work EXCEPT ![d] = @ \ Selected(d, NoArgs)]
    /\ old' = [old EXCEPT ![d] = @ \ Selected(d, NoArgs)]
    /\ cleanDirs' = cleanDirs \ {d}
    /\ UNCHANGED <<enabled, stamped, installed, pc, distDirs, ended, reconfigured, passed, taken>>

\* `make local_clean', without arguments; then .makefile is removed.
Clean(d) ==
    /\ pc = "clean"
    /\ d \in cleanDirs
    /\ Selected(d, NoArgs) # {}
    /\ work' = [work EXCEPT ![d] = @ \ Selected(d, NoArgs)]
    /\ old' = [old EXCEPT ![d] = @ \ Selected(d, NoArgs)]
    /\ stamped' = stamped \ {d}
    /\ cleanDirs' = cleanDirs \ {d}
    /\ UNCHANGED <<enabled, installed, pc, distDirs, ended, reconfigured, passed, taken>>

Stop(how) ==
    /\ pc' = "idle"
    /\ distDirs' = {}
    /\ cleanDirs' = {}
    /\ ended' = how
    /\ UNCHANGED <<enabled, work, stamped, installed>>

\* No target of d is enabled: its make ends with an error, and tree_clean with it.
Refuse(d) ==
    /\ \/ pc = "dist" /\ d \in distDirs
       \/ pc = "clean" /\ d \in cleanDirs
    /\ Selected(d, NoArgs) = {}
    /\ Stop("refused")
    /\ UNCHANGED <<reconfigured, old, passed, taken>>

Kill ==
    /\ pc # "idle"
    /\ Stop("killed")
    /\ UNCHANGED <<reconfigured, old, passed, taken>>

End ==
    /\ pc = "clean"
    /\ cleanDirs = {}
    /\ Stop("ok")
    /\ reconfigured' = (reconfigured /\ ~TreeIsClean)
    /\ old' = work
    /\ passed' = {}
    /\ taken' = {}

Next ==
    \/ \E names \in SUBSET Toolchain : NoArch \in names /\ Configure(names)
    \/ \E d \in Dir : \E toolchains \in Selections(d) :
          \/ \E makes \in SUBSET Below(d, toolchains) : \E first \in SUBSET makes :
                Make(d, toolchains, makes, first)
          \/ LocalClean(d, toolchains)
    \/ BeginTreeClean
    \/ EndDistClean
    \/ \E d \in Dir : DistClean(d) \/ Clean(d) \/ Refuse(d)
    \/ End
    \/ Kill

Spec == Init /\ [][Next]_vars

-----------------------------------------------------------------------------

TypeOK ==
    /\ enabled \subseteq Toolchain
    /\ work \in [Dir -> SUBSET Toolchain]
    /\ stamped \subseteq Dir
    /\ installed \subseteq Products
    /\ pc \in {"idle", "dist", "clean"}
    /\ distDirs \subseteq cleanDirs
    /\ cleanDirs \subseteq Dir
    /\ ended \in {"none", "ok", "refused", "killed"}
    /\ reconfigured \in BOOLEAN
    /\ old \in [Dir -> SUBSET Toolchain]
    /\ passed \subseteq Dir
    /\ taken \subseteq Dir

\* Whatever the user defines, and whatever is enabled: the names that core.mk makes,
\* filters and takes apart again are the toolchains and flavours the user means
\* (core.mk:512-556, 573-575).
SelectionIsMeant ==
    \A d \in Dir : SelectedTargets(d) = MeantTable[d][Enabled(d)]

\* `clean whole tree' (doc/README:10).  A tree_clean that ends well leaves of the whole
\* tree at most what was made for toolchains that are no longer enabled.  As long as
\* targets-config.mk is not edited, tree_clean is not refused, and the tree is clean.
CleansWholeTree ==
    /\ ended = "ok" =>
          /\ stamped = {} /\ installed = {}
          /\ \A d \in Dir : work[d] \cap enabled = {}
    /\ ended \in {"ok", "refused"} /\ ~reconfigured => TreeIsClean

\* What a tree_clean has left for want of its toolchain is not taken for built when that
\* toolchain is enabled again: the make that finds it makes .makefile, and removes it.
\* But there is one .makefile for all toolchains, so that holds only where no make came
\* first that was not for what was left.  Below the directory the user is in, a make of
\* several toolchains is itself such a make, of each in turn.
OldIsNotTaken == taken \subseteq passed

\* What is worked on is what the Makefiles name; noarch has no directory of its own.
WorkIsNamed == \A d \in Dir : work[d] \subseteq COMPONENT_TARGETS[d] \ {NoArch}

\* A tree_clean has found, or has cleaned, whatever is there.
AllFound ==
    /\ installed \subseteq stamped
    /\ pc = "idle" => cleanDirs = {}
    /\ pc = "dist" => installed \subseteq distDirs
    /\ pc = "clean" => installed = {} /\ distDirs = {}
    /\ pc # "idle" =>
          /\ ended = "none"
          /\ stamped \subseteq cleanDirs
          /\ \A d \in Dir \ cleanDirs : work[d] \cap enabled = {}

\* While targets-config.mk is as it was when the tree was clean, no make is refused.
NotRefused ==
    /\ NoArch \in enabled
    /\ ~reconfigured =>
          /\ ended # "refused"
          /\ \A d \in Dir :
                /\ work[d] \subseteq enabled
                /\ d \in stamped \cup cleanDirs => Enabled(d) # {}

\* There is a .makefile beside an old .<toolchain> only if a make that was not for it
\* made it.
OldIsPassed ==
    \A d \in Dir :
        /\ old[d] \subseteq work[d]
        /\ d \in stamped /\ old[d] # {} => d \in passed

\* The inductive invariant.
IInv ==
    /\ TypeOK
    /\ WorkIsNamed
    /\ AllFound
    /\ NotRefused
    /\ OldIsPassed
    /\ CleansWholeTree
    /\ OldIsNotTaken

=============================================================================
