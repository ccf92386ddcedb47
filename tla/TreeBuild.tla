------------------------------ MODULE TreeBuild ------------------------------
(***************************************************************************)
(* The recursive tree build of build-system/core.mk.                       *)
(*                                                                         *)
(* `make all' in a directory sets and exports BUILD_TREE, so every make    *)
(* that is started below it, in whatever directory, first runs             *)
(* `make -f .requires' (.tree_all) and only then builds its own targets.   *)
(* `.requires' in turn starts a make in every component of TREEDIRS, which *)
(* runs its own .tree_all, and so on: the same component is entered again  *)
(* and again, by makes that know nothing of each other and share only the  *)
(* stamp files in the tree.                                                *)
(*                                                                         *)
(* A make process is named by the path of components that leads to it; <<>>*)
(* is the make the user starts, <<t>> the make of the target t, <<t,c>> the*)
(* make that the .requires of t runs in c.  A make process whose recipe    *)
(* runs a sub-make waits for it.                                           *)
(***************************************************************************)
EXTENDS Naturals, Sequences, FiniteSets, RequiresGraph

CONSTANTS
    Component,       \* dir^flavour, for one toolchain
    Dir,             \* the directory of each component
    Requires,        \* the REQUIRES of each component
    Tree,            \* the TREEDIRS list of each component
    Targets,         \* the sorted `.target_<toolchain>_<flavour>' of the user's make
    Goals,           \* what the user may ask for: "all", "local_all"
    Parallel,        \* make -j
    NoParallel,      \* components whose Makefile sets NO_PARALLEL
    MaxInvocations,  \* bound: how often the user runs make
    MaxFailures      \* bound: how many recipes fail

TargetSet == {Targets[i] : i \in DOMAIN Targets}

ASSUME ConstantAssumption ==
    /\ Requires \in [Component -> SUBSET Component]
    /\ Tree \in [Component -> SUBSET Component]
    /\ Targets \in Seq(Component)
    /\ Goals \subseteq {"all", "local_all"}
    /\ Parallel \in BOOLEAN
    /\ NoParallel \subseteq Component
    /\ MaxInvocations \in Nat
    /\ MaxFailures \in Nat

ASSUME FiniteAssumption == IsFiniteSet(Component)

\* Every TREEDIRS list is what build_requires computes (module BuildRequires)
\* and no component requires itself, directly or not.
ASSUME TreeAssumption ==
    \A c \in Component : IsTree(Requires, c, Tree[c]) /\ c \notin Tree[c]

\* $(sort) removes duplicates.
ASSUME TargetsAssumption ==
    \A i, j \in DOMAIN Targets : Targets[i] = Targets[j] => i = j

VARIABLES
    goal,         \* what the current invocation was asked to make
    run,          \* the make processes: path |-> [phase, done, sources]
    requiresFile, \* the state of each component's .requires file
    prepared,     \* the components whose sources are unpacked and patched
    built,        \* the components whose BUILD_TARGETS stamps exist
    invocations,  \* invocations so far
    failures,     \* failed recipes so far
    before        \* history: failed recipes before the user's make was started

vars == <<goal, run, requiresFile, prepared, built, invocations, failures, before>>

Phase == {"enter", "generating", "tree", "local", "build", "failed"}

Process(phase) == [phase |-> phase, done |-> {}, sources |-> "idle"]

Idle == DOMAIN run = {}

\* Mutation: every make reads the .requires of the target's directory.
TreeOfTarget(p) == IF p = <<>> THEN TargetSet ELSE Tree[p[1]]

\* The components a process starts makes for, and those that a component has
\* to wait for among them: `$(__targets)' have no prerequisite on each other.
TreeOf(p) == IF p = <<>> THEN TargetSet ELSE Tree[p[Len(p)]]

PrerequisitesDropped(p, c) == {}  \* mutation: no edges in .requires

\* Mutation: the edges of .requires are between directories, whatever the flavours.
PrerequisitesOfDirs(p, c) ==
    IF p = <<>> THEN {} ELSE {d \in Component : \E r \in Requires[c] : Dir[d] = Dir[r]}

Prerequisites(p, c) == IF p = <<>> THEN {} ELSE Requires[c]

Childless(p) == \A c \in Component : Append(p, c) \notin DOMAIN run

\* Without -j, or below a Makefile with NO_PARALLEL, one recipe at a time.
Overlaps(p) == Parallel /\ \A i \in DOMAIN p : p[i] \notin NoParallel

\* make starts the prerequisites of a rule from left to right.
Started(p, c) == c \in run[p].done \/ Append(p, c) \in DOMAIN run

InOrder(p, c) ==
    p = <<>> => \E i \in DOMAIN Targets :
                    /\ Targets[i] = c
                    /\ \A j \in 1 .. i - 1 : Started(p, Targets[j])

SetPhase(p, phase) == run' = [run EXCEPT ![p].phase = phase]

\* The process p.c ends; its parent p is left as rec.
Reap(p, c, rec) ==
    run' = [q \in DOMAIN run \ {Append(p, c)} |-> IF q = p THEN rec ELSE run[q]]

Init ==
    /\ goal \in Goals
    /\ run = << >>
    /\ requiresFile = [c \in Component |-> "none"]
    /\ prepared = {}
    /\ built = {}
    /\ invocations = 0
    /\ failures = 0
    /\ before = 0

-----------------------------------------------------------------------------

\* The user runs `make all' (with BUILD_TREE) or `make local_all'.
Invoke(g) ==
    /\ Idle
    /\ invocations < MaxInvocations
    /\ goal' = g
    /\ run' = [q \in {<<>>} |-> Process("tree")]
    /\ invocations' = invocations + 1
    /\ before' = failures
    /\ UNCHANGED <<requiresFile, prepared, built, failures>>

\* make comes to one component of the list of p, and may start its recipe.
MayStart(p, c) ==
    /\ run[p].phase = "tree"
    /\ c \in TreeOf(p)
    /\ ~Started(p, c)
    /\ Prerequisites(p, c) \subseteq run[p].done
    /\ Childless(p) \/ Overlaps(p)
    /\ InOrder(p, c)

\* Process p starts the sub-make of one component of its list.
StartMake(p, c) ==
    /\ MayStart(p, c)
    /\ run' = [q \in DOMAIN run \cup {Append(p, c)} |->
                  IF q = Append(p, c) THEN Process("enter") ELSE run[q]]
    /\ UNCHANGED <<goal, requiresFile, prepared, built, invocations, failures, before>>

AfterRequiresTreeSkipped(state) == "local"  \* mutation: BUILD_TREE is not exported

\* What follows once .requires is up to date: .tree_all reads the file, which
\* fails if it was left incomplete; .requires_tree does not read it.
AfterRequires(state) ==
    CASE goal = "local_all" -> "local"
      [] goal = "all" /\ state = "partial" -> "failed"
      [] OTHER -> "tree"

\* Mutation: the tree is only made after .requires was made anew.
EnterTreeSkipped(p, c) ==
    /\ run[Append(p, c)].phase = "enter"
    /\ SetPhase(Append(p, c), IF requiresFile[c] = "none" THEN "generating" ELSE "local")
    /\ UNCHANGED <<goal, requiresFile, prepared, built, invocations, failures, before>>

\* The sub-make finds .requires, or starts build_requires to make it.
Enter(p, c) ==
    /\ run[Append(p, c)].phase = "enter"
    /\ SetPhase(Append(p, c),
          IF requiresFile[c] = "none" THEN "generating"
                                      ELSE AfterRequires(requiresFile[c]))
    /\ UNCHANGED <<goal, requiresFile, prepared, built, invocations, failures, before>>

\* build_requires ends.
Generate(p, c) ==
    /\ run[Append(p, c)].phase = "generating"
    /\ requiresFile' = [requiresFile EXCEPT ![c] = "complete"]
    /\ SetPhase(Append(p, c), AfterRequires("complete"))
    /\ UNCHANGED <<goal, prepared, built, invocations, failures, before>>

\* build_requires fails and leaves an incomplete file; the recipe,
\* `build_requires ... ; wait', succeeds all the same.
GenerateFails(p, c) ==
    /\ failures < MaxFailures
    /\ run[Append(p, c)].phase = "generating"
    /\ requiresFile' = [requiresFile EXCEPT ![c] = "partial"]
    /\ SetPhase(Append(p, c), AfterRequires("partial"))
    /\ failures' = failures + 1
    /\ UNCHANGED <<goal, prepared, built, invocations, before>>

\* `$(BUILD_TARGETS): | $(_tree)': the whole list is made.
EndTree(p, c) ==
    /\ run[Append(p, c)].phase = "tree"
    /\ run[Append(p, c)].done = Tree[c]
    /\ SetPhase(Append(p, c),
          IF run[Append(p, c)].sources = "failed" THEN "failed" ELSE "local")
    /\ UNCHANGED <<goal, requiresFile, prepared, built, invocations, failures, before>>

\* $(src_done) is no BUILD_TARGET and does not wait for $(_tree): when recipes
\* may overlap, the sources are unpacked and patched while the tree is built.
StartPrepare(p, c) ==
    /\ \/ run[Append(p, c)].phase = "local"
       \/ run[Append(p, c)].phase = "tree" /\ Overlaps(Append(p, c))
    /\ c \notin prepared
    /\ run[Append(p, c)].sources = "idle"
    /\ run' = [run EXCEPT ![Append(p, c)].sources = "running"]
    /\ UNCHANGED <<goal, requiresFile, prepared, built, invocations, failures, before>>

EndPrepare(p, c) ==
    /\ run[Append(p, c)].sources = "running"
    /\ prepared' = prepared \cup {c}
    /\ run' = [run EXCEPT ![Append(p, c)].sources = "idle"]
    /\ UNCHANGED <<goal, requiresFile, built, invocations, failures, before>>

\* The sub-make of .tree_all, if it still runs, goes on to its end.
FailPrepare(p, c) ==
    /\ failures < MaxFailures
    /\ run[Append(p, c)].sources = "running"
    /\ run' = [run EXCEPT ![Append(p, c)].sources = "failed",
                          ![Append(p, c)].phase = IF @ = "local" THEN "failed" ELSE @]
    /\ failures' = failures + 1
    /\ UNCHANGED <<goal, requiresFile, prepared, built, invocations, before>>

\* A stamp is missing: the recipes of the component run.
StartBuild(p, c) ==
    /\ run[Append(p, c)].phase = "local"
    /\ c \in prepared \ built
    /\ SetPhase(Append(p, c), "build")
    /\ UNCHANGED <<goal, requiresFile, prepared, built, invocations, failures, before>>

EndBuild(p, c) ==
    /\ run[Append(p, c)].phase = "build"
    /\ built' = built \cup {c}
    /\ SetPhase(Append(p, c), "local")
    /\ UNCHANGED <<goal, requiresFile, prepared, invocations, failures, before>>

FailBuild(p, c) ==
    /\ failures < MaxFailures
    /\ run[Append(p, c)].phase = "build"
    /\ SetPhase(Append(p, c), "failed")
    /\ failures' = failures + 1
    /\ UNCHANGED <<goal, requiresFile, prepared, built, invocations, before>>

\* All stamps exist: the sub-make returns success to the make that started it.
Return(p, c) ==
    /\ run[Append(p, c)].phase = "local"
    /\ c \in built
    /\ Reap(p, c, [run[p] EXCEPT !.done = @ \cup {c}])
    /\ UNCHANGED <<goal, requiresFile, prepared, built, invocations, failures, before>>

\* Mutation: the exit status of the sub-make is lost.
ReturnFailureIgnored(p, c) ==
    /\ run[Append(p, c)].phase = "failed"
    /\ Childless(Append(p, c))
    /\ run[Append(p, c)].sources # "running"
    /\ Reap(p, c, [run[p] EXCEPT !.done = @ \cup {c}])
    /\ UNCHANGED <<goal, requiresFile, prepared, built, invocations, failures, before>>

\* A make that has failed starts nothing more, waits for the sub-makes it has
\* started and fails the make that started it.
ReturnFailure(p, c) ==
    /\ run[Append(p, c)].phase = "failed"
    /\ Childless(Append(p, c))
    /\ run[Append(p, c)].sources # "running"
    /\ Reap(p, c, [run[p] EXCEPT !.phase = "failed"])
    /\ UNCHANGED <<goal, requiresFile, prepared, built, invocations, failures, before>>

\* Mutation: a make that failed waits for the rest of its list.
EndInvocationOnSuccess ==
    /\ <<>> \in DOMAIN run
    /\ run[<<>>].done = TargetSet
    /\ Childless(<<>>)
    /\ run' = << >>
    /\ UNCHANGED <<goal, requiresFile, prepared, built, invocations, failures, before>>

\* The user's make ends.
EndInvocation ==
    /\ <<>> \in DOMAIN run
    /\ \/ run[<<>>].done = TargetSet
       \/ run[<<>>].phase = "failed"
    /\ Childless(<<>>)
    /\ run' = << >>
    /\ UNCHANGED <<goal, requiresFile, prepared, built, invocations, failures, before>>

\* All processes are killed: no recipe under way has touched its stamp, and the
\* .requires files that were being written are left incomplete or, when it is the
\* user who interrupts make, removed by make.
Crash(left) ==
    /\ failures < MaxFailures
    /\ ~Idle
    /\ run' = << >>
    /\ requiresFile' = [c \in Component |->
          IF \E p \in DOMAIN run : /\ Append(p, c) \in DOMAIN run
                                   /\ run[Append(p, c)].phase = "generating"
             THEN left ELSE requiresFile[c]]
    /\ failures' = failures + 1
    /\ UNCHANGED <<goal, prepared, built, invocations, before>>

\* `make local_clean TOOLCHAIN=t' removes .<t> of one directory: the sources,
\* the stamps and the .requires file of every flavour.
LocalClean(d) ==
    /\ Idle
    /\ prepared' = {c \in prepared : Dir[c] # d}
    /\ built' = {c \in built : Dir[c] # d}
    /\ requiresFile' = [c \in Component |->
                            IF Dir[c] = d THEN "none" ELSE requiresFile[c]]
    /\ UNCHANGED <<goal, run, invocations, failures, before>>

-----------------------------------------------------------------------------

\* The steps of the sub-make that p runs in c.
SubMake(p, c) ==
    \/ Enter(p, c)
    \/ Generate(p, c)
    \/ EndTree(p, c)
    \/ StartPrepare(p, c)
    \/ EndPrepare(p, c)
    \/ StartBuild(p, c)
    \/ EndBuild(p, c)
    \/ Return(p, c)
    \/ ReturnFailure(p, c)

Fault(p, c) == GenerateFails(p, c) \/ FailPrepare(p, c) \/ FailBuild(p, c)

Progress ==
    \/ \E p \in DOMAIN run, c \in Component :
          \/ StartMake(p, c)
          \/ Append(p, c) \in DOMAIN run /\ SubMake(p, c)
    \/ EndInvocation

Next ==
    \/ \E g \in Goals : Invoke(g)
    \/ Progress
    \/ \E p \in DOMAIN run, c \in Component :
          Append(p, c) \in DOMAIN run /\ Fault(p, c)
    \/ \E left \in {"none", "partial"} : Crash(left)
    \/ \E c \in Component : LocalClean(Dir[c])

Spec == Init /\ [][Next]_vars

\* make is never idle while it can do something, and every recipe it starts ends.
FairSpec == Spec /\ WF_vars(Progress)

-----------------------------------------------------------------------------

TypeOK ==
    /\ goal \in Goals
    /\ DOMAIN run \subseteq Seq(Component)
    /\ run \in [DOMAIN run -> [phase : Phase, done : SUBSET Component,
                             sources : {"idle", "running", "failed"}]]
    /\ requiresFile \in [Component -> {"none", "partial", "complete"}]
    /\ prepared \subseteq Component
    /\ built \subseteq Component
    /\ invocations \in 0 .. MaxInvocations
    /\ failures \in 0 .. MaxFailures
    /\ before \in 0 .. MaxFailures

\* The sub-make that p runs in c is writing files of c: its .requires, its
\* sources or its build.
Working(p, c) ==
    /\ Append(p, c) \in DOMAIN run
    /\ \/ run[Append(p, c)].phase \in {"generating", "build"}
       \/ run[Append(p, c)].sources = "running"

\* Two makes never work in the same component at the same time, and no make is
\* even in a component another one works in: the stamp files are only ever
\* tested when they are not being made (core.mk, .tree_all and BUILD_TARGETS).
Exclusive ==
    \A p, q \in DOMAIN run, c \in Component :
        Working(p, c) /\ Append(q, c) \in DOMAIN run => p = q

\* The recipes of a component run when everything in its tree is built, whatever
\* failed, was cleaned or was built by other makes before (`Waiting for build
\* whole required tree', core.mk).
TreeBuiltFirst ==
    goal = "all" =>
        \A p \in DOMAIN run, c \in Component :
            Append(p, c) \in DOMAIN run /\ run[Append(p, c)].phase = "build"
                => Tree[c] \subseteq built

\* Only the makes of the user's targets and of the components on their TREEDIRS
\* lists do any work: the makes below them, of which there may be many times
\* more, find everything done.
DeepMakesIdle ==
    \A p \in DOMAIN run, c \in Component : Working(p, c) => Len(p) <= 1

\* A make that ends well has built its target and its whole tree, also when it
\* resumes what an earlier, failed or killed make left behind.
SuccessIsComplete ==
    (goal = "all" /\ <<>> \in DOMAIN run) =>
        \A t \in run[<<>>].done : {t} \cup Tree[t] \subseteq built

\* A make that has neither made its whole list nor a sub-make to wait for can start one,
\* whatever is built and whatever failed, was killed or cleaned before: the order of the
\* targets and the edges of .requires never make all that is left wait for each other.
SomethingToStart ==
    \A p \in DOMAIN run :
        run[p].phase = "tree" /\ Childless(p) /\ run[p].done # TreeOf(p) =>
            \E c \in Component : MayStart(p, c)

\* A make is only ever started for what all makes above it require.
Descends ==
    \A p \in DOMAIN run : \A i, j \in DOMAIN p : i < j => p[j] \in Tree[p[i]]

\* As long as a make lives and has not failed, it starts the make of a component of its
\* list once, and takes no component for undone again.
StartsOnce ==
    \A p \in DOMAIN run \cap DOMAIN run', c \in Component :
        Started(p, c) /\ invocations' = invocations =>
            Started(p, c)' \/ run'[p].phase = "failed"

\* The recursion of makes (core.mk:645) is finite: below a make there are makes of fewer and
\* fewer components, and each starts every component of its list once.
RecursionIsFinite == [][Descends' /\ StartsOnce]_vars

\* Every make the user starts ends (FairSpec).
Termination == ~Idle ~> Idle

\* The lists of what the user's make has to build, so far as they were left incomplete.
PartialLists ==
    {c \in UNION {{t} \cup Tree[t] : t \in TargetSet} : requiresFile[c] = "partial"}

\* Every make of `all' in which nothing fails builds everything, also when it resumes what
\* an earlier make, that failed or was killed, has left; unless that one has left the list
\* of a component incomplete, with which every later make fails (FairSpec).
EverythingBuilt ==
    ~Idle /\ goal = "all" ~>
        \/ failures > before
        \/ PartialLists # {}
        \/ \A t \in TargetSet : {t} \cup Tree[t] \subseteq built

\* `Now we have to sort targets for that the main targets should be built before
\* flavours' (core.mk:555): no target is built before those sorted before it.
\* That is so only without -j.
MainBeforeFlavours ==
    \A i, j \in DOMAIN Targets :
        i < j /\ Working(<<>>, Targets[j]) => Targets[i] \in run[<<>>].done

=============================================================================
