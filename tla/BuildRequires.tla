---------------------------- MODULE BuildRequires ----------------------------
(***************************************************************************)
(* The script build-system/build_requires and the rules of core.mk that    *)
(* start it.  For one component, the root, it walks the REQUIRES statements*)
(* of the Makefiles and writes two makefiles: .requires, with a rule for   *)
(* each component and, last, the list TREEDIRS of all of them; and         *)
(* .requires_depend, which makes .requires depend on every Makefile that   *)
(* was read.  The Makefiles are edited between the runs; the script may    *)
(* give up on a Makefile that names a missing directory, or be killed.     *)
(***************************************************************************)
EXTENDS Naturals, Sequences, FiniteSets, RequiresGraph

CONSTANTS
    Component,    \* dir^flavour, for one toolchain
    Root,         \* the component build_requires is run for
    BuildSystem,  \* the component `build-system'
    Dir,          \* the directory, hence the Makefile, of each component
    NoDir,        \* components whose directory does not exist
    NoMakefile,   \* components whose directory has no Makefile
    Makefiles,    \* what the REQUIRES of all Makefiles may say
    Rank,         \* the place of each component in perl's sort
    MaxEdits,     \* bound: how often a Makefile is edited
    MaxCrashes    \* bound: how often build_requires is killed

Rules == Component \cup {"all"}

ASSUME ConstantAssumption ==
    /\ Root \in Component
    /\ "all" \notin Component
    /\ Makefiles \subseteq [Component -> SUBSET Component]
    /\ MaxEdits \in Nat
    /\ MaxCrashes \in Nat

VARIABLES
    requires,     \* the REQUIRES of each component's Makefile
    newer,        \* directories whose Makefile is newer than .requires
    file,         \* .requires: absent, incomplete or complete
    dependFile,   \* the directories whose Makefiles .requires_depend names
    phase,        \* where the script is
    stack,        \* the calls of make_sub_requires under way, by their rule
    rest,         \* what the foreach of each of these calls has still to do
    all,          \* %all_requires
    rules,        \* the rules printed to .requires
    depends,      \* %requires_depend
    edits,        \* edits so far
    crashes       \* kills so far

script == <<stack, rest, all, rules, depends>>
vars == <<requires, newer, file, dependFile, phase, script, edits, crashes>>

None == [x \in Rules |-> {}]

Absent == [state |-> "none", rules |-> None, tree |-> {}]

\* What read_requires returns for the Makefile of c.
Listed(c) == requires[c] \ NoMakefile

\* REQUIRES points to a missing directory: read_requires gives up.
Faulty(c) == requires[c] \cap NoDir # {}

RootListed == Listed(Root) \ {BuildSystem}

\* keys are handled in their sorted order.
Least(c, S) == c \in S /\ \A d \in S : Rank[c] <= Rank[d]

Top == stack[Len(stack)]

\* make starts build_requires: there is no .requires, the Makefile beside it is
\* new, or one of those that .requires_depend names is.
Stale ==
    \/ file.state = "none"
    \/ Dir[Root] \in newer
    \/ newer \cap dependFile # {}

Init ==
    /\ requires \in Makefiles
    /\ newer = {}
    /\ file = Absent
    /\ dependFile = {}
    /\ phase = "idle"
    /\ stack = << >>
    /\ rest = None
    /\ all = {}
    /\ rules = None
    /\ depends = {}
    /\ edits = 0
    /\ crashes = 0

-----------------------------------------------------------------------------

\* Somebody edits a Makefile while no build_requires runs.
Edit(c, names) ==
    /\ phase = "idle"
    /\ edits < MaxEdits
    /\ names # requires[c]
    /\ requires' = [requires EXCEPT ![c] = names]
    /\ newer' = newer \cup {Dir[c]}
    /\ edits' = edits + 1
    /\ UNCHANGED <<file, dependFile, phase, script, crashes>>

\* Both files are opened, which empties them, before anything is read.
Open ==
    /\ phase = "idle"
    /\ Stale
    /\ phase' = "root"
    /\ file' = [state |-> "partial", rules |-> None, tree |-> {}]
    /\ dependFile' = {}
    /\ newer' = {}
    /\ UNCHANGED <<requires, script, edits, crashes>>

\* The script's variables are gone with it.
Forget ==
    /\ stack' = << >>
    /\ rest' = None
    /\ all' = {}
    /\ rules' = None
    /\ depends' = {}

\* error(): perl writes out what was printed before it exits.
GiveUp(read) ==
    /\ phase' = "idle"
    /\ dependFile' = read
    /\ Forget
    /\ UNCHANGED <<requires, newer, file, edits, crashes>>

ReadMakefileOfRootOnly(c) ==  \* mutation: sub requires are not noted
    IF c = Root THEN {Dir[c]} ELSE depends

ReadMakefileLate(c) ==  \* mutation: requires_depend() after the check
    IF Faulty(c) THEN depends ELSE depends \cup {Dir[c]}

\* requires_depend(): the Makefile is noted before it is read.
ReadMakefile(c) == depends \cup {Dir[c]}

\* The root's Makefile becomes the rule `all'.
ReadRoot ==
    /\ phase = "root"
    /\ \/ Faulty(Root) /\ GiveUp(ReadMakefile(Root))
       \/ /\ ~Faulty(Root)
          /\ phase' = "walk"
          /\ stack' = <<"all">>
          /\ depends' = ReadMakefile(Root)
          /\ rules' = [rules EXCEPT !["all"] = RootListed]
          /\ rest' = [rest EXCEPT !["all"] = RootListed]
          /\ UNCHANGED <<requires, newer, file, dependFile, all, edits, crashes>>

KnownNever(c) == FALSE  \* mutation: no look at %all_requires

Known(c) == c \in all

\* make_sub_requires( c ) for a component that was seen before.
Skip(c) ==
    /\ Known(c)
    /\ rest' = [rest EXCEPT ![Top] = @ \ {c}]
    /\ UNCHANGED <<requires, newer, file, dependFile, phase, stack, all, rules,
                   depends, edits, crashes>>

DescendOneLevel(c) == {}  \* mutation: sub requires of sub requires are left out

\* What the call for c makes its own calls for.
Descend(c) == Listed(c)

\* make_sub_requires( c ) for a component that is new.
Visit(c) ==
    /\ ~Known(c)
    /\ \/ Faulty(c) /\ GiveUp(ReadMakefile(c))
       \/ /\ ~Faulty(c)
          /\ all' = all \cup {c}
          /\ depends' = ReadMakefile(c)
          /\ rules' = [rules EXCEPT ![c] = Listed(c)]
          /\ rest' = [rest EXCEPT ![Top] = @ \ {c}, ![c] = Descend(c)]
          /\ stack' = Append(stack, c)
          /\ UNCHANGED <<requires, newer, file, dependFile, phase, edits, crashes>>

Walk(c) ==
    /\ phase = "walk"
    /\ stack # << >>
    /\ Least(c, rest[Top])
    /\ Skip(c) \/ Visit(c)

\* A call of make_sub_requires, or the loop of the main program, ends.
Done ==
    /\ phase = "walk"
    /\ stack # << >>
    /\ rest[Top] = {}
    /\ stack' = SubSeq(stack, 1, Len(stack) - 1)
    /\ UNCHANGED <<requires, newer, file, dependFile, phase, rest, all, rules,
                   depends, edits, crashes>>

\* TREEDIRS and the include of tree.mk are printed and .requires is closed.
CloseRequires ==
    /\ phase = "walk"
    /\ stack = << >>
    /\ file' = [state |-> "complete", rules |-> rules, tree |-> all]
    /\ phase' = "closed"
    /\ UNCHANGED <<requires, newer, dependFile, script, edits, crashes>>

CloseDepend ==
    /\ phase = "closed"
    /\ dependFile' = depends
    /\ phase' = "idle"
    /\ Forget
    /\ UNCHANGED <<requires, newer, file, edits, crashes>>

\* The script is killed; of .requires_depend a part has been written.  When it is
\* make that is interrupted, it removes the .requires it was making.
Kill(written) ==
    /\ phase # "idle"
    /\ crashes < MaxCrashes
    /\ written \subseteq depends
    /\ dependFile' = written
    /\ phase' = "idle"
    /\ Forget
    /\ file' \in {file, Absent}
    /\ crashes' = crashes + 1
    /\ UNCHANGED <<requires, newer, edits>>

Next ==
    \/ \E c \in Component, m \in Makefiles : Edit(c, m[c])
    \/ Open
    \/ ReadRoot
    \/ \E c \in Component : Walk(c)
    \/ Done
    \/ CloseRequires
    \/ CloseDepend
    \/ \E written \in SUBSET depends : Kill(written)

Spec == Init /\ [][Next]_vars

-----------------------------------------------------------------------------

Graph == [c \in Component |-> Listed(c)]

TypeOK ==
    /\ requires \in [Component -> SUBSET Component]
    /\ newer \subseteq {Dir[c] : c \in Component}
    /\ file \in [state : {"none", "partial", "complete"},
                 rules : [Rules -> SUBSET Component], tree : SUBSET Component]
    /\ dependFile \subseteq {Dir[c] : c \in Component}
    /\ phase \in {"idle", "root", "walk", "closed"}
    /\ stack \in Seq(Rules)
    /\ rest \in [Rules -> SUBSET Component]
    /\ all \subseteq Component
    /\ rules \in [Rules -> SUBSET Component]
    /\ depends \subseteq {Dir[c] : c \in Component}
    /\ edits \in 0 .. MaxEdits
    /\ crashes \in 0 .. MaxCrashes

\* .requires says what the Makefiles say now: TREEDIRS is what can be reached from
\* the root, and the rules order it.
Accurate ==
    /\ Reachable(Graph, RootListed, file.tree)
    /\ file.rules["all"] = RootListed
    /\ \A c \in file.tree : file.rules[c] = Listed(c)

\* A .requires that make takes as complete was written from the Makefiles as they
\* were: whatever is killed or given up leaves a file without TREEDIRS.
CompleteIsAccurate ==
    phase = "idle" /\ file.state = "complete" /\ newer = {} => Accurate

\* .requires_depend names every Makefile that matters: when make finds .requires up
\* to date, it is (as long as no build_requires was killed).
UpToDateIsAccurate ==
    crashes = 0 /\ phase = "idle" /\ file.state = "complete" /\ ~Stale => Accurate

\* A Makefile with a bad REQUIRES is named too: once it is corrected, the .requires
\* that build_requires gave up on is made again.
FaultIsNoticed ==
    crashes = 0 /\ phase = "idle" /\ file.state = "partial" /\ ~Stale =>
        \E c \in Component : Dir[c] \in dependFile /\ Faulty(c)

\* No component is walked twice, however the Makefiles require each other: the
\* recursion is no deeper than there are components.
WalkedOnce ==
    \A i, j \in DOMAIN stack : stack[i] = stack[j] => i = j

=============================================================================
