---------------------------- MODULE ComponentBuild ----------------------------
(***************************************************************************)
(* The rules of a component's own Makefile, for one toolchain and flavour: *)
(* core/gcc/5.3.0, which has all of what the others have some of.  The     *)
(* archive is unpacked and patched (UNPACK_SRC_ARCHIVE and APPLY_PATCHES   *)
(* of core.mk, the script apply_patches), the archives of gmp, mpfr and mpc*)
(* are unpacked and linked into it, and it is built and installed; each    *)
(* step ends with a stamp.  PATCHES are edited between the makes, and a    *)
(* make may fail or be killed at any place.                                *)
(***************************************************************************)
EXTENDS Naturals

CONSTANTS
    File,       \* source files of the archive
    Aux,        \* the archives that are linked into it
    Parallel,   \* make -j
    Faults,     \* what may fail: "tar", "patch", "aux", "build", "install", "kill"
    MaxEdits,   \* bound: how often PATCHES are edited
    MaxFaults   \* bound: how often something fails

Kinds == {"tar", "patch", "aux", "build", "install", "kill"}

ASSUME ConstantAssumption ==
    /\ Aux # {}
    /\ Parallel \in BOOLEAN
    /\ Faults \subseteq Kinds
    /\ MaxEdits \in Nat
    /\ MaxFaults \in Nat

VARIABLES
    patches,    \* the files that PATCHES change
    dropped,    \* files that PATCHES changed since the last clean, and no longer do
    dir,        \* SRC_DIR: what is in it of the archive, how often each file was patched,
                \* and the links
    object,     \* the object of each file: none, or made of the file plain or patched
    installed,  \* the objects in the toolchain
    source,     \* .source-done: none, old or done
    aux,        \* .gmp-source-done, .mpfr-source-done, .mpc-source-done
    built,      \* .full-built
    ready,      \* .full-installed
    make,       \* idle, running or failing
    job,        \* the recipe that is run: none, unpack, patch, build or install
    todo,       \* what it has still to do
    expanding,  \* the recipes of aux that are run
    edits,      \* edits so far
    faults      \* faults so far

stamps == <<source, aux, built, ready>>
recipes == <<make, job, todo, expanding>>
vars == <<patches, dropped, dir, object, installed, stamps, recipes, edits, faults>>

\* SRC_DIR when tar begins: a part of the archive, and nothing else.
NewDir == [archive |-> "part", patched |-> [f \in File |-> 0], links |-> {}]

\* Something it depends on is newer now.
Older(stamp) == IF stamp = "done" THEN "old" ELSE stamp

Fault(kind) == kind \in Faults /\ faults < MaxFaults /\ faults' = faults + 1

Busy == job # "none" \/ expanding # {}

MayStart == make = "running" /\ (Parallel \/ ~Busy)

Init ==
    /\ patches \in SUBSET File
    /\ dropped = {}
    /\ dir = NewDir
    /\ object = [f \in File |-> "none"]
    /\ installed = [f \in File |-> "none"]
    /\ source = "none"
    /\ aux = [a \in Aux |-> "none"]
    /\ built = "none"
    /\ ready = "none"
    /\ make = "idle"
    /\ job = "none"
    /\ todo = {}
    /\ expanding = {}
    /\ edits = 0
    /\ faults = 0

-----------------------------------------------------------------------------

\* PATCHES, or the archive, are new: .source-done depends on all of them.
Edit(names) ==
    /\ make = "idle"
    /\ edits < MaxEdits
    /\ patches' = names
    /\ dropped' = dropped \cup (patches \ names)
    /\ source' = Older(source)
    /\ edits' = edits + 1
    /\ UNCHANGED <<dir, object, installed, aux, built, ready, recipes, faults>>

Make ==
    /\ make = "idle"
    /\ make' = "running"
    /\ UNCHANGED <<patches, dropped, dir, object, installed, stamps, job, todo,
                   expanding, edits, faults>>

UnpackTouchesFirst ==  \* mutation: .source-done is touched before tar starts
    /\ MayStart
    /\ source # "done"
    /\ job = "none"
    /\ job' = "unpack"
    /\ dir' = NewDir
    /\ source' = "done"
    /\ aux' = [a \in Aux |-> Older(aux[a])]
    /\ UNCHANGED <<patches, dropped, object, installed, built, ready, make, todo,
                   expanding, edits, faults>>

\* The directory that is there is moved away, and tar starts in a new one.
Unpack ==
    /\ MayStart
    /\ source # "done"
    /\ job = "none"
    /\ job' = "unpack"
    /\ dir' = NewDir
    /\ UNCHANGED <<patches, dropped, object, installed, stamps, make, todo, expanding,
                   edits, faults>>

Unpacked ==
    /\ job = "unpack"
    /\ job' = "patch"
    /\ todo' = patches
    /\ dir' = [dir EXCEPT !.archive = "whole"]
    /\ UNCHANGED <<patches, dropped, object, installed, stamps, make, expanding, edits,
                   faults>>

\* tar fails, but chmod, which comes after a `;', does not.
TarFails ==
    /\ Fault("tar")
    /\ job = "unpack"
    /\ job' = "patch"
    /\ todo' = patches
    /\ dir' = [dir EXCEPT !.archive = "torn"]
    /\ UNCHANGED <<patches, dropped, object, installed, stamps, make, expanding, edits>>

\* apply_patches, for each of PATCHES.
Patch(f) ==
    /\ job = "patch"
    /\ f \in todo
    /\ dir' = [dir EXCEPT !.patched[f] = @ + 1]
    /\ todo' = todo \ {f}
    /\ UNCHANGED <<patches, dropped, object, installed, stamps, make, job, expanding,
                   edits, faults>>

\* touch .source-done: the others are older now.
SourceDone ==
    /\ job = "patch"
    /\ todo = {}
    /\ job' = "none"
    /\ source' = "done"
    /\ aux' = [a \in Aux |-> Older(aux[a])]
    /\ UNCHANGED <<patches, dropped, dir, object, installed, built, ready, make, todo,
                   expanding,
                   edits, faults>>

OutOfDateIfMissing(a) == aux[a] = "none"  \* mutation: no dependence on .source-done

OutOfDate(a) == aux[a] # "done"

Expand(a) ==
    /\ MayStart
    /\ source = "done"
    /\ OutOfDate(a)
    /\ a \notin expanding
    /\ expanding' = expanding \cup {a}
    /\ UNCHANGED <<patches, dropped, dir, object, installed, stamps, make, job, todo,
                   edits, faults>>

ExpandedQuietly(a) ==  \* mutation: .full-built does not depend on it
    /\ a \in expanding
    /\ dir' = [dir EXCEPT !.links = @ \cup {a}]
    /\ aux' = [aux EXCEPT ![a] = "done"]
    /\ expanding' = expanding \ {a}
    /\ UNCHANGED <<patches, dropped, object, installed, source, built, ready, make, job,
                   todo, edits, faults>>

\* tar, ln -sf and touch, each of which may fail the recipe.
Expanded(a) ==
    /\ a \in expanding
    /\ dir' = [dir EXCEPT !.links = @ \cup {a}]
    /\ aux' = [aux EXCEPT ![a] = "done"]
    /\ built' = Older(built)
    /\ expanding' = expanding \ {a}
    /\ UNCHANGED <<patches, dropped, object, installed, source, ready, make, job, todo,
                   edits, faults>>

ExpandFails(a) ==
    /\ Fault("aux")
    /\ a \in expanding
    /\ expanding' = expanding \ {a}
    /\ make' = "failing"
    /\ UNCHANGED <<patches, dropped, dir, object, installed, stamps, job, todo, edits>>

\* The directory build is kept from one build to the next.
Configure ==
    /\ MayStart
    /\ source = "done" /\ \A a \in Aux : ~OutOfDate(a)
    /\ ~Busy
    /\ built # "done"
    /\ job' = "build"
    /\ todo' = File
    /\ UNCHANGED <<patches, dropped, dir, object, installed, stamps, make, expanding,
                   edits, faults>>

\* What the make of the component itself compares: a file that was patched has the
\* date of that, one that was not has the date it has in the archive.
Recompiled(f) == object[f] = "none" \/ dir.patched[f] > 0

Compile(f) ==
    /\ job = "build"
    /\ f \in todo
    /\ todo' = todo \ {f}
    /\ object' = IF Recompiled(f)
                    THEN [object EXCEPT ![f] = IF dir.patched[f] > 0 THEN "patched" ELSE "plain"]
                    ELSE object
    /\ UNCHANGED <<patches, dropped, dir, installed, stamps, make, job, expanding, edits,
                   faults>>

Built ==
    /\ job = "build"
    /\ todo = {}
    /\ job' = "none"
    /\ built' = "done"
    /\ ready' = Older(ready)
    /\ UNCHANGED <<patches, dropped, dir, object, installed, source, aux, make, todo,
                   expanding,
                   edits, faults>>

Install ==
    /\ MayStart
    /\ source = "done" /\ \A a \in Aux : ~OutOfDate(a)
    /\ built = "done"
    /\ ready # "done"
    /\ ~Busy
    /\ job' = "install"
    /\ todo' = File
    /\ UNCHANGED <<patches, dropped, dir, object, installed, stamps, make, expanding,
                   edits, faults>>

Copy(f) ==
    /\ job = "install"
    /\ f \in todo
    /\ todo' = todo \ {f}
    /\ installed' = [installed EXCEPT ![f] = object[f]]
    /\ UNCHANGED <<patches, dropped, dir, object, stamps, make, job, expanding, edits,
                   faults>>

Installed ==
    /\ job = "install"
    /\ todo = {}
    /\ job' = "none"
    /\ ready' = "done"
    /\ UNCHANGED <<patches, dropped, dir, object, installed, source, aux, built, make,
                   todo, expanding,
                   edits, faults>>

\* patch, the build or the install fails, with a part done.
JobFails ==
    /\ job \in {"patch", "build", "install"}
    /\ todo # {}
    /\ Fault(job)
    /\ job' = "none"
    /\ todo' = {}
    /\ make' = "failing"
    /\ UNCHANGED <<patches, dropped, dir, object, installed, stamps, expanding, edits>>

EndWhenReady ==  \* mutation: make goes on after a failure
    /\ ~Busy
    /\ make = "running" /\ source = "done" /\ (\A a \in Aux : ~OutOfDate(a))
    /\ built = "done" /\ ready = "done"
    /\ make' = "idle"
    /\ UNCHANGED <<patches, dropped, dir, object, installed, stamps, job, todo,
                   expanding, edits, faults>>

\* A make that fails waits for the recipes that are still run.
End ==
    /\ ~Busy
    /\ \/ make = "failing"
       \/ make = "running" /\ source = "done" /\ (\A a \in Aux : ~OutOfDate(a))
                           /\ built = "done" /\ ready = "done"
    /\ make' = "idle"
    /\ UNCHANGED <<patches, dropped, dir, object, installed, stamps, job, todo,
                   expanding, edits, faults>>

Kill ==
    /\ Fault("kill")
    /\ make # "idle"
    /\ make' = "idle"
    /\ job' = "none"
    /\ todo' = {}
    /\ expanding' = {}
    /\ UNCHANGED <<patches, dropped, dir, object, installed, stamps, edits>>

\* local_clean removes .<toolchain>; what is installed stays.
LocalClean ==
    /\ make = "idle"
    /\ dir' = NewDir
    /\ dropped' = {}
    /\ object' = [f \in File |-> "none"]
    /\ source' = "none"
    /\ aux' = [a \in Aux |-> "none"]
    /\ built' = "none"
    /\ ready' = "none"
    /\ UNCHANGED <<patches, installed, recipes, edits, faults>>

Step ==
    \/ Unpack
    \/ Unpacked
    \/ SourceDone
    \/ \E f \in File : Patch(f) \/ Compile(f) \/ Copy(f)
    \/ \E a \in Aux : Expand(a) \/ Expanded(a)
    \/ Configure
    \/ Built
    \/ Install
    \/ Installed
    \/ End

Next ==
    \/ \E names \in SUBSET File : Edit(names)
    \/ Make
    \/ Step
    \/ TarFails
    \/ \E a \in Aux : ExpandFails(a)
    \/ JobFails
    \/ Kill
    \/ LocalClean

Spec == Init /\ [][Next]_vars

\* Every recipe ends, and make goes on as long as it can.
FairSpec == Spec /\ WF_vars(Step)

-----------------------------------------------------------------------------

Stamp == {"none", "old", "done"}
Object == {"none", "plain", "patched"}

TypeOK ==
    /\ patches \subseteq File
    /\ dropped \subseteq File
    /\ dir \in [archive : {"part", "torn", "whole"}, patched : [File -> Nat], links : SUBSET Aux]
    /\ object \in [File -> Object]
    /\ installed \in [File -> Object]
    /\ source \in Stamp
    /\ aux \in [Aux -> Stamp]
    /\ built \in Stamp
    /\ ready \in Stamp
    /\ make \in {"idle", "running", "failing"}
    /\ job \in {"none", "unpack", "patch", "build", "install"}
    /\ todo \subseteq File
    /\ expanding \subseteq Aux
    /\ edits \in 0 .. MaxEdits
    /\ faults \in 0 .. MaxFaults

Patched == \A f \in File : dir.patched[f] = IF f \in patches THEN 1 ELSE 0

\* Whatever failed or was killed before: what is built is the source with each patch
\* applied once, and with gmp, mpfr and mpc in it.
BuildsPatched == job = "build" => Patched /\ dir.links = Aux

\* `Unpack SRC_ARCHIVE in SRC_DIR' (core.mk:437): nothing is built from what a tar that
\* was killed has left (only from what one that failed has left).
BuildsWhole == job = "build" => dir.archive # "part"

\* `Patch dependency' (core.mk:431): when all stamps are done, what is installed was made
\* with the PATCHES as they are now.  The exception are files that a patch was taken
\* from: their date is that in the archive again, and their old objects are kept.
PatchesAreBuilt ==
    source = "done" /\ (\A a \in Aux : ~OutOfDate(a)) /\ built = "done" /\ ready = "done" =>
        /\ \A f \in patches : installed[f] = "patched"
        /\ \A f \in File \ (patches \cup dropped) : installed[f] = "plain"

\* Every make of a component ends (FairSpec).
Termination == make # "idle" ~> make = "idle"

=============================================================================
