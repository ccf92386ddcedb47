# Verification of the toolchains build system

The repository builds cross toolchains: `src/build-system/core.mk` (a GNU make
library that every component's Makefile includes), a dozen small Perl scripts next
to it, and the Makefiles of products, core packages, tools and source directories
that use them. What can go wrong is not in any single rule. Makes start makes that
start makes, with `-j`, and they know of each other only through stamp files; makes
fail, are interrupted and are run again; Makefiles change in between. This directory
models that: TLA+ modules, TLC configurations, and proofs checked by TLAPS.

## The system

| Component | State | Operations | What makes it correct |
|---|---|---|---|
| recursive tree build (`core.mk`, `tree.mk`) | the running makes, `.requires`, stamps of `BUILD_TARGETS` | `all`, `local_all`, `.tree_all`, a target's recipes, failure, kill, `local_clean` | no two makes work in one component; a component is built after all it requires; a make that ends well is complete; it ends |
| dependency generator (`build_requires`) | `.requires`, `.requires_depend`, the walk | walk, write, give up, be killed; run again by make | the list is exactly what can be reached, in order, and is made again when it has to be |
| source set-up (`core.mk`, `build_src_requires`, `tree-src.mk`) | `.makefile`, `.src_requires`, the tarballs | set-up of a make, list, download, cleans | tarballs are there before the build starts |
| source directories (`sources/*/Makefile`) | tarballs, sha1sum files | download in the background, check, `download_clean` | no bad tarball is accepted; none is checked while it is written |
| Makefile stamp (`core.mk`, `.makefile`) | `.makefile`, `.<toolchain>` directories | touch, `dist_clean`, `local_clean` | nothing that an earlier Makefile built is taken for built; the recursion ends |
| component build rules (`core/gcc/5.3.0/Makefile`, `UNPACK_SRC_ARCHIVE`, `apply_patches`) | the source directory, objects, stamps, the toolchain | unpack, patch, link in other archives, build, install, clean | what is built is the whole source, patched exactly once, with the patches of now |
| product installation (`install_targets`, `dist_clean`, `tree_clean`) | `dist`, `.dist`, `.dist.XXXXXX`, `.dist.tmp` | build, install, the cleans | `dist` has current copies, and `.dist` names all of them |
| products (`products/*/Makefile`) | the `TOOLCHAIN_PATH` of each version, tarballs, stamps and `.requires` that all versions share | makes of several versions, cleans | the tarball has all that the product requires, of its own version |
| target selection (`core.mk:102-140`, `181-192`, `483-580`) | `targets-config.mk` | names made, filtered and taken apart again | the targets made are those the user means |
| directory search (`tree_clean`, `downloads_clean`) | what was found and not yet cleaned | search, `dist_clean`, `local_clean`, dying at an error | the whole tree is clean, or what is left is not taken for built |
| staged bootstrap (`core/gcc`, `core/glibc`) | the sysroot | static, second, full | not modelled |
| configuration, gnat tools, vendored sources | constants, data | | not modelled |

How they interact. A make of the user first does the set-up: the stamp `.makefile`
(which may clean the directory), `.src_requires` (which downloads) and the build
system's own tools. Then `.target_<toolchain>_<flavour>` starts one make per target;
with `BUILD_TREE`, that make runs `build_requires`, and `make -f .requires` starts a
make in every component of the tree, each of which does the same again. Below that
are the component's own rules, and in a product, the installation in `dist`.

The behaviours that are hard: the same component is entered by several makes at once
(`core.mk:645`); failures between the steps of a recipe (`:356`, `:450`, `:671`,
`:701`; `sources/GNU/gmp/Makefile:36-44`), most of them behind a `;` or a `wait`
that hides them; resuming from stamps after a kill; stamps that do not depend on what
they stand for. PROJECT.json lists these hazards line by line.

## Modules

Each component has a module with its state and one action per step that other
processes, failures or kills can come between; an `MC` module with the instances; and
a `Proofs` module. Where the inductive invariant is long it has a module of its own.

**RequiresGraph, TreeBuild, ComponentOrder, TreeBuildRefinement.** `run` maps each
make process, named by the path of components that leads to it, to what it is doing.
`Enter`, `Generate`, `EndTree`, `StartPrepare`... are the places of the rules
`_tree`, `.requires`, `.requires_tree` and `BUILD_TARGETS`; `Return` and
`ReturnFailure` are a sub-make's exit status. `Prerequisites` are the edges that
`.requires` has inside one make; there are none between makes. `ComponentOrder` is
the abstract specification: a component is begun when its tree is complete, by nobody
else. `TreeBuildRefinement` maps `TreeBuild` to it. All `BUILD_TARGETS` of a component
are one step here: ComponentBuild has their inside. `before` is a history variable: how
much had failed when the user's make was started, so that `EverythingBuilt` speaks of what
fails in this make.

**ComponentRecipes, ComponentBuildRefinement.** What TreeBuild and ComponentBuild have to
agree on, to be composed: a component is prepared once at a time, built when prepared and
not built, found built from then on, and neither once its sources are new. It is an
abstraction of both. TreeBuild is one because all the makes that enter a component do with it
no more than one make of its own Makefile; ComponentBuild is one because its stamps, read
together, never say that new sources are built. So a step `EndPrepare` or `EndBuild` of
TreeBuild may be taken for the recipes that ComponentBuild runs.

**BuildRequires.** The walk of `make_sub_requires` with an explicit stack, sorted as
perl sorts, the two files as they are written and closed, the early exits, a kill, and
`Stale`, make's decision to run the script. What make says of the head of a Makefile is
the value of the variable `requires`. `ALL_DIRS`, which no `REQUIRES` uses, is left out.

**SourcesReady.** Between `Make` and `Build` the actions follow the set-up rules. The
walk of `build_src_requires` is one step (it is that of `build_requires`). `missed` is
a history variable: something happened since the list was begun that the rule of
`.src_requires` does not depend on.

**SourceDownload.** The rule of the tarballs is one rule per tarball whose recipe
downloads all of them in the background; `pending` and `writing` say which recipe has
yet to get, or is writing, which tarball, and `newer` compares the dates of each
tarball with each sha1sum file. `fresh` is a history variable: no make has failed or was
killed since the directory was empty. `AcceptedIsThere` is what SourcesReady relies on
when a `Fetch` of its succeeds, and `KeepsWhatIsThere` is why it keeps the directory in `have`
until a `downloads_clean`.

**MakefileCheck.** One `.makefile` in a directory, and makes that are each there for a
set of toolchains. `Final` are those whose sub-makes include `.requires_depend` and so
come to `.makefile` again. `partial` is a history variable as above. Its specification is
`StampSpec`, and its variables have names of their own, so that CleanProofs can extend it and
TreeClean together: both are about what a make finds in one directory.

**ProductVersions.** Makes of several TOOLCHAIN_VERSIONs, without `-j`, over components
whose stamps and `.requires` are in `.<toolchain>` for all versions, while what is built
goes to the `TOOLCHAIN_PATH` of one. `stack` has the makes that wait for each other;
`listed` and `builtFor` say under which version a list and a stamp were made, `Build` and
`BuildLacksTools` are the recipe of a component, and a product's packs its
`TOOLCHAIN_PATH`. Whether a build fails for a tool that is not there depends on the
tool, so both are possible. `mixed` and `borrowed` are history variables: a make has
found what another version left in its tree, and which of it there was when a tarball
was packed. Edits, which are MakefileCheck's, are left out.

**TargetSelection, TreeClean.** TargetSelection has the names `.target_<toolchain>_<flavour>`
as sequences of tokens, with the sed that saves `x86_64` from being cut at its `_`, and
the six cases of arguments; `Meant` is what a user expects of them. `NamesAssumption` is the
rule that all names of config.mk and of the Makefiles' `FLAVOURS` follow: a toolchain has a `_`
in `x86_64` only, and never `x86-64`; a flavour has no `_`. TreeClean uses it for
the makes that `tree_clean` runs: these are without arguments, so they stand for the
toolchains that `targets-config.mk` enables. A make of the user, with the makes
it starts, is one step that reaches any part of what it may enter (an interrupt, a
failure). The directories below are entered by one make for each toolchain (`Below`), of which
the one that comes first (`first`) touches an absent `.makefile` and cleans its own toolchain
only, as in MakefileCheck; in the user's own directory the make of all its toolchains does.
The steps of `tree_clean` are its own makes. `old`, `passed` and `taken` are
history variables about what a `tree_clean` has left. build-system/3pp, where all is done for
the host, is left out.

**ComponentBuild.** The stamps of `core/gcc/5.3.0` (the flavour `full`) are none,
old or done; `dir` is the source directory, with how often each file was patched and
which archives are linked in; `object` and `installed` say what each object was made
of. `Recompiled` is how the package's own make decides, which is outside the
repository. The libgcc copies between stages are left out.

**ProductInstall.** `dist[t]` is the build that the copy of a target is of, and whether
it is whole; names of copies are in perl's buffer (`printed`), in `.dist.XXXXXX`
(`loose`), in `.dist.tmp` (`merged`) or in `.dist` (`record`). `cp` may fail before it has
opened the copy (`Refused`) or while it writes (`CutShort`). `lost` is a history variable: the
targets of which there is something in `dist` that no install has listed, because `cp` failed
over it or install_targets was killed. A target is lost until it is copied again or removed from `dist`.

GNU make, perl, wget, tar and the shell are not under `src/`: what they do is
modelled from how the rules use them. In particular, make removes the target of a
recipe that is interrupted but not of one that fails (there is no `.DELETE_ON_ERROR`), waits for running
recipes before it exits, and does not look again at a file it has made.

## Runs

| Run | Shows |
|---|---|
| `tree_diamond` | exclusion, order, completeness, the two refinements, that a make is never stuck, that the recursion is finite, that every make ends and that one in which nothing fails, resumed ones included, builds everything unless an incomplete `.requires` was left; with `-j`, a NO_PARALLEL tool, two flavours of one directory, two makes, a failure or kill, and cleanings |
| `tree_flavours` | *violated*: with `-j`, a flavour is built before its main target |
| `build_requires` | graphs with cycles, missing directories, missing Makefiles; edits between runs, one kill |
| `sources` | when the sources are ready, and that a failed make does not build |
| `sources_retry` | *violated*: the make after a failed download builds without its sources |
| `source_download` | two tarballs, `-j`, two makes, downloads that fail or race, a kill: what a make that ends well leaves, what stays there, that no step of a make undoes another, and that every make ends |
| `source_retry` | *violated*: the make after a failed check accepts the bad tarball |
| `makefile` | all kinds of makes and faults in one directory: what an earlier Makefile built is not built upon, and the recursion ends |
| `component_build` | that sources are whole and patched, that patches reach what is installed, and the refinement; two files, two archives, `-j`, two edits of PATCHES, two faults of any kind |
| `product_install` | two targets, four builds, two faults: copies refused or cut short, merges that fail, kills; that only targets an install has lost are not current, not recorded or not cleaned |
| `versions` | two products of different versions and a tool made for a third over one compiler: what a tarball may lack, and when it lacks nothing; every make ends |
| `tree_clean` | toolchains enabled and disabled between makes, `local_clean` and `tree_clean`: what is selected, what is left, and where that may be taken for built |

The three violated runs check what the source promises (the comments and messages are
quoted in PROJECT.json) and are kept as findings. Each has a companion that says how much of the
promise the code keeps: `SourcesReadyUnlessMissed` names what has to happen for it to
fail, `FreshIsGood` holds for all makes of a directory until one fails or is killed, and
`MainBeforeFlavours` is a theorem for makes without `-j`.

Bounds. All counters (`MaxInvocations`, `MaxFailures`, `MaxEdits`, `MaxMakes`,
`MaxBuilds`, `MaxKills`, `MaxCrashes`, `MaxFaults`) bound only how often the user or a
failure acts; the code has none of them. Two of each are enough for the patterns at
stake: a fault, the make that resumes from what it left, and a second fault in that
one. The diamond is the smallest tree in which one component is entered along two
paths by concurrent makes, and deep enough for a third level of makes. Two files, tarballs or
targets are the least with one done while the other is not; three flavours let one
be done, one in progress and one to come. Three makes in `versions` let the second
mix what the first left and the third find the mixture or a clean tree, and its three
versions are those of the REQUIRES in `core/gcc` (another binutils for each version, none
for the default). `tree_clean` has no counters: its states are finite. Its two toolchains
are the least of which one can be disabled, one is the one with a `_` in its name, and its
four directories are one of each kind: the products, which several makes enter, one product that
is installed and made for one toolchain, a component with both, a source directory. With a build, a failed copy and another
build, four builds let `install` see a copy older than, as old as and made again
from its target. Nothing in the models distinguishes more of the same. CHECK_DEADLOCK is off only where the model
really stops: when its bounds are used up in `build_requires`.

Fairness. `FairSpec` is weak fairness of the disjunction of a make's own steps: make
always starts what it can, and every recipe it started ends. In `versions` it is
fairness of the steps of the makes under way. Neither edits, faults,
kills nor the user's commands are fair. That recipes end is what the code relies on
(wget gives up after its retries; there is no lock, and no recipe waits for another
make than its own children).

## Proofs

| Module | Theorems |
|---|---|
| TreeBuildProofs | `Invariance`, `TypeCorrect`, `MutualExclusion`, `TreeFirst`, `DeepMakes`, `Complete`, `MainFirst`, `NothingWaitsForItself`, `FiniteRecursion`, `DepthIsBounded`; `Refinement`: it implements `ComponentOrder`; `RecipesOfATree`: it implements `ComponentRecipes` |
| BuildRequiresProofs | `Invariance`, `WrittenRight`, `KeptRight`, `FaultKept`, `RecursionBounded` |
| SourcesReadyProofs | `Invariance`, `SourcesFirst`, `FailureStops` |
| SourceDownloadProofs | `Invariance`, `ChecksAreQuiet`, `FreshMakeIsGood`, `AcceptedThere`, `WhatIsThereStays`, `MakesGoForward` |
| ComponentBuildProofs | `Invariance`, `PatchedOnce`, `WholeArchive`, `PatchesReach`; `Refinement`: it implements `ComponentRecipes` |
| ProductInstallProofs | `Invariance`, `InstallIsRight`, `TreeCleanCleans`, `RecordIsKept` |
| CleanProofs | of the Makefile stamp: `StampInvariance`, `NothingOldIsBuiltOn`, `RecursionIsBounded`; of `tree_clean`: `Invariance`, `SelectionRight`, `WholeTreeCleaned`, `OldNotTaken` |
| ProductVersionsProofs | `Invariance`, `PackedWhole`, `SwitchIsRight`, `ToolsFirst` |

They hold for every value of the constants that satisfies the modules' assumptions:
any graph, any number of makes, edits and faults. All assumptions on constants are
evaluated by TLC in the runs.

*Tree build.* Two assumptions: `TreeAssumption`, each TREEDIRS list is what the
requirements reach and no component reaches itself (this is what `WrittenRight` proves
of `build_requires`, the acyclicity aside); and `Independent`, the targets of the
user's make share no component, or there is no `-j`. Without the second,
exclusion does not hold: targets of one make have no order between them (compare
`tree_flavours`). The argument: inside one `make -f .requires`, a component is entered
when its whole tree is done (`Children`, `DoneIsBuilt`); so every make below the
second level enters only what the target's own make has already made (`DeepIsDone`)
and works nowhere. Exclusion follows since one make never starts a component twice.
None of the safety properties is inductive: each needs what the recursive makes
above a process have done, which is what the invariant adds. `MainFirst` needs neither
assumption but that there is no `-j` (then `Independent` holds of itself), and adds to
the invariant that make begins its targets in the order of the sorted list, one after
the other.

That the recursion stops needs `Independent` neither. `FromTheLists` says that a make
is under way for something that its parent's list has and its parent has not done, so a make
lives as long as those below it; it is inductive beside `TypeOK`. Of the components that are left
of a list, take one whose tree is the least: whatever it requires has a smaller one
(`TreeGoesDown`), so it is done, and the component may be started (`SomethingIsNext`,
`NothingWaitsForItself`). This is where `FiniteAssumption` is needed. And as each make in a path is
for a component of the tree of all those above (`Descends`), no component occurs twice in a
path.

*build_requires.* The invariant says that the rules written so far are those of what
was walked, that what they name is walked or is still on the list of some call under way
(`Walked`, `Stack`), and that nothing was walked without being reached
(`NoMoreThan`, by which reachability is stated without recursion). `OnDisk` and
`FaultOnDisk` carry it over edits: for each Makefile that has not changed since, the
file still says what the Makefile says.

*Sources.* A list newer than a fresh stamp was begun by a make that is at it, has
downloaded all of it, or has missed something (`ListIsDone`); in `SourceDownload`,
checks start only after every recipe that may write a tarball (`Later`, `Belongs`), so
what they find does not change until the make ends (`There`). `GoesForward` names what each
step adds to (rules begun and ended, downloads wanted and made, sums touched and checked):
several recipes write the same files, but each has its own downloads, and none is asked for
twice (`Belongs`).

*Component.* Each stamp stands for a fact about the source or build directory
(`Done`, `Objects`), and whatever breaks the fact makes the stamp old. For the refinement it
matters that an archive being expanded is not done yet (`Order`): the last one to be
done makes the build stamp old at the same moment as the sources become ready. The assumption
`Aux # {}` is gcc's: it has archives to link in, through which a new source makes the
build stamp old.

*Product.* A copy that a next install would take for current is on one of the lists
that this install merges (`CopyIsListed`), and after the install, on `.dist`, unless it is lost;
and unless the last install failed, `.dist` names every copy that is not (`CopyIsRecorded`). That a target leaves
`lost` only when it is copied whole or gone from `dist` makes both properties hold after any
faults.

*Makefile stamp.* A fresh stamp beside something old means that a make which is there
for all toolchains is about to clean (`StampIsTrue`), and a make that is about to build
has nothing old left unless its own cleaning failed (`BuildsOnClean`). Each time the recipe
enters itself a failure has removed the stamp before (`DepthCounted`).

*Versions.* The makes under way are a path through lists (`Descents`), what a make has
done of its list has stamps (`DoneIsBuilt`), and every stamp stands for something
installed in the path of the version it was made under (`BuiltIsInstalled`). As long as
nothing is mixed, the tree of the user's make has lists and stamps of its own version only
(`Unmixed`), so the list is complete and the stamps are of the right installation.
`ListAssumption` is again what `WrittenRight` proves of `build_requires`.

*Target selection.* `TakenApart` reads a name token by token: after sed there is no `_` in
the toolchain, so the first cut is after `.target`, the second where the toolchain ends
(`CutFound`), and sed finds the `_` of `x86_64` again because no toolchain has an `x86-64`
(`Separated`). Hence two targets never share a name (`NamesDiffer`), and filtering the names
is filtering what they stand for (`TargetsAreMeant`): `SelectionIsMeant` holds in every
state, reachable or not.

*tree_clean.* From the selection the proof takes two facts (`Selection`): a make without
arguments is for all that is enabled, and no make is for more. `CleansWholeTree` is not
inductive: it needs that the search has found whatever there is (`AllFound`), for which
`WorkIsNamed` rules out work where the search does not look; and that, as long as
`targets-config.mk` is not edited, no directory that was found is without an enabled target
(`NotRefused`). A make that reaches a directory is there for a toolchain that is enabled and that
the directory is made for (`EntersAssumption`), which keeps both. For `OldIsNotTaken` what
matters is that a stamp beside what was left has been made since, by a make that was not for
all of it (`OldIsPassed`), be it one of several that the user's make has started there.

Only model-checked: liveness (`Termination`, `EverythingBuilt`), which is out of the prover's
reach, and the violations, which are false in general. What is proved on the way to `Termination`:
for the tree, that something can always be started and that there are finitely many makes to
start; for a source directory, that each step uses up one of finitely many; what is left to TLC is
the rule that what can always be done is done. The inductive invariants themselves are no
properties of the runs: their parts that matter to a user are, and the theorem
`Invariance` of each module is about the whole.

## What the code does not do

The three findings are in PROJECT.json. Further disagreements are in the models as
the code has them, and the properties say so, but have no run of their own:

- `tar ... ; chmod` (`core.mk:446-450`): the recipe goes on when tar fails. What tar
  has left is patched, stamped and built (`TarFails`; `BuildsWhole` says only that
  nothing is built from what a *killed* tar has left).
- The build directory is kept when a source is made anew (`core/gcc/5.3.0/Makefile:1138`).
  A file a patch was taken from has the date it has in the archive, so its object, made from the
  patched file, is kept (`dropped` in `PatchesAreBuilt`).
- `tree_clean` does `dist_clean` only where there is a `.dist` (`tree_clean:66`), and
  names that were not merged yet are removed unread with `.dist.*` (`core.mk:265`): after
  an install that failed, copies stay in `dist` (`failed` in `TreeCleanIsComplete`).
- A `cp` that fails while it writes, as where the disk is full, leaves a copy that is cut short and
  younger than its source. `install_targets` ends with an error (`install_targets:71`, `:107`), but
  the next one finds the copy not older than its source (`:41`), neither copies nor names it, and
  ends well; `tree_clean` does not find it. A kill in the middle of `cp`, or before the names are
  written out, does the same (`lost` in `InstalledIsCurrent` and `TreeCleanIsComplete`).
- A `build_requires` that fails half way leaves its `.requires`, which make takes for made
  (`core.mk:671`): every later make of `all` fails over it, until the directory is cleaned or
  something the list depends on is edited (`PartialLists` in `EverythingBuilt`).
- When the Makefile of a component that two products share is edited, core.mk:327
  prints `New makefile ... clean!', but the make of the first product cleans its own
  toolchain only and refreshes the one `.makefile`; the make of the second product keeps
  what the old Makefile built (`core.mk:329`; `partial` in `CleanedUnlessPartial`).
- `TOOLCHAIN_VERSION` (`core.mk:147`) is in the path a toolchain is installed in but not
  in `.<toolchain>`: after a product of another version was made in the same tree, and
  without a `tree_clean` in between, a product packs a tarball without what that make had
  built, and orders its tree by the REQUIRES of the other version (`borrowed` in `TarballComplete`,
  `mixed` in `CleanSwitchIsRight`).
- `tree_clean` (`clean whole tree', doc/README:10) leaves the `.<toolchain>` of every
  toolchain that was disabled since it was made, and where no toolchain of a
  directory is enabled any more, its make of that directory fails and `tree_clean` stops
  there, with the rest of the tree not cleaned (`reconfigured` in `CleansWholeTree`).
- After that, a `.<toolchain>` that was left is taken for built when its toolchain is enabled
  again and a make that is not for it comes to the directory first (`passed` in `OldIsNotTaken`).
  A make for several toolchains is enough: make the products for two toolchains, disable one,
  `tree_clean`, enable it, `make all`. In the compiler they share, the first of the two makes
  (`core.mk:645`) touches `.makefile` and cleans its own toolchain only, and the second takes what was left
  for built.
- The copy of a source directory is `.bak.XXXXXX` (`core.mk:440`), CLEANUP_FILES has
  `.back.??????` (`core.mk:269`). It matters only for sources outside `.<toolchain>`.
- `--skip-dir` (`build_requires:41`) is stored (`:210`) and never read. It is not in the model.

## Not modelled

- *Vendored sources and patches.* Nearly all lines of C in the repository are whole files
  of binutils, gcc, gdb, elf2flt and uClibc, kept before and after a change in `create-*-patch`
  directories, from which the patches were made. Nothing here builds or runs
  them; they are inputs of the program, as are the few test programs beside the products.
  The program's own logic is in the `.mk` files, the Makefiles and the
  Perl scripts, and the map names lines of these only.
- *Staged bootstrap.* Which files the static, second and full stages of gcc and glibc put
  into the sysroot is decided by those packages' own `make install`, which are not in the
  repository. What is here, the order of the stages, is the tree build's.
- *Build system set-up.* `.build_system` builds the gnat tools in `build-system/3pp` by the
  same rules before everything else; it has no logic of its own.
- *Configuration.* Names, flags and the host triplet: constants of the models.
- *Other components and tools.* Their Makefiles follow the pattern of ComponentBuild with
  fewer steps and other options of configure.
- `downloads_clean`'s search, which takes every directory of sources with a Makefile but
  those where patches are made; what the script does there is in SourcesReady.

## Plan

What is left, in this order:

1. Composition: SourceDownload under SourcesReady (a `Fetch` is a make of a source
   directory), with an abstract specification between them like ComponentRecipes.
2. ProductInstall under TreeClean: the `.dist` of several products in one `dist`.
3. Proofs: SourceDownload's bad tarballs after a retry; for the other components what
   `GoesForward` says of SourceDownload.
4. *Bootstrap*, as far as the Makefiles of gcc and glibc say what is in the sysroot.
