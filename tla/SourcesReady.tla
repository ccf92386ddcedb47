----------------------------- MODULE SourcesReady -----------------------------
(***************************************************************************)
(* The set-up of a make: before a component, the root, is built, the       *)
(* tarballs that it and all it requires name in SOURCE_REQUIRES are        *)
(* downloaded (core.mk, .sources and .src_requires; the scripts            *)
(* build_src_requires and downloads_clean; tree-src.mk).                   *)
(*                                                                         *)
(* build_src_requires writes the list .src_requires, a make that reads the *)
(* list enters each directory of it and downloads, and .src_requires is    *)
(* touched.  It depends on the stamp .makefile only: .src_requires_depend, *)
(* which names the other Makefiles, is included where its rule is empty.   *)
(***************************************************************************)
EXTENDS Naturals, FiniteSets

CONSTANTS
    Component,  \* the root and all it requires, for whatever toolchain
    Root,
    Source,     \* the directories of sources
    Edited,     \* components whose Makefiles are edited
    Faults,     \* what may go wrong: a download ("fetch"), a "missing" directory, a "kill" of
                \* make at any time; and downloads_clean ("clean")
    MaxEdits,   \* bound: how often a Makefile is edited
    MaxFaults   \* bound: how often something goes wrong

ASSUME ConstantAssumption ==
    /\ Root \in Component
    /\ Edited \subseteq Component
    /\ Faults \subseteq {"fetch", "missing", "kill", "clean"}
    /\ MaxEdits \in Nat
    /\ MaxFaults \in Nat

VARIABLES
    needs,     \* the SOURCE_REQUIRES of each Makefile
    makefile,  \* the root's .makefile: absent, old or fresh
    list,      \* the root's .src_requires: absent, older than .makefile, or newer
    have,      \* directories whose tarballs are downloaded
    pc,        \* idle, setup, clean, read, download or build
    fetching,  \* directories of the list that are not done
    failed,    \* a download of this make has failed
    missed,    \* history: since the list was begun, a download was left out, or a Makefile
               \* has changed that the list does not depend on
    edits,     \* edits so far
    faults     \* faults so far

vars == <<needs, makefile, list, have, pc, fetching, failed, missed, edits, faults>>

Needed == UNION {needs[c] : c \in Component}

Fault(kind) == kind \in Faults /\ faults < MaxFaults /\ faults' = faults + 1

Init ==
    /\ needs \in [Component -> SUBSET Source]
    /\ makefile = "absent"
    /\ list = "absent"
    /\ have = {}
    /\ pc = "idle"
    /\ fetching = {}
    /\ failed = FALSE
    /\ missed = FALSE
    /\ edits = 0
    /\ faults = 0

-----------------------------------------------------------------------------

Edit(c, names) ==
    /\ pc = "idle"
    /\ c \in Edited
    /\ edits < MaxEdits
    /\ needs' = [needs EXCEPT ![c] = names]
    /\ makefile' = IF c = Root /\ makefile = "fresh" THEN "old" ELSE makefile
    /\ missed' = (missed \/ c # Root)
    /\ edits' = edits + 1
    /\ UNCHANGED <<list, have, pc, fetching, failed, faults>>

Make ==
    /\ pc = "idle"
    /\ pc' = "setup"
    /\ failed' = FALSE
    /\ UNCHANGED <<needs, makefile, list, have, fetching, missed, edits, faults>>

\* A new Makefile: the stamp is touched, which makes the list older.
Touch ==
    /\ pc = "setup"
    /\ makefile # "fresh"
    /\ makefile' = "fresh"
    /\ list' = IF list = "newer" THEN "older" ELSE list
    /\ pc' = "clean"
    /\ UNCHANGED <<needs, have, fetching, failed, missed, edits, faults>>

CleanLeavesList ==  \* mutation: .*requires* is not in CLEANUP_FILES
    /\ pc = "clean"
    /\ pc' = "setup"
    /\ list' = IF list = "older" THEN "newer" ELSE list
    /\ UNCHANGED <<needs, makefile, have, fetching, failed, missed, edits, faults>>

\* Then local_clean removes the list, with all files .*requires*.
Clean ==
    /\ pc = "clean"
    /\ list' = "absent"
    /\ pc' = "setup"
    /\ UNCHANGED <<needs, makefile, have, fetching, failed, missed, edits, faults>>

OutOfDateIfAbsent == list = "absent"  \* mutation: no dependence on .makefile

OutOfDate == list # "newer"

\* build_src_requires opens .src_requires.
Read ==
    /\ pc = "setup"
    /\ makefile = "fresh"
    /\ OutOfDate
    /\ list' = "newer"
    /\ pc' = "read"
    /\ missed' = FALSE
    /\ UNCHANGED <<needs, makefile, have, fetching, failed, edits, faults>>

\* It meets a directory that is not there.
GiveUp ==
    /\ Fault("missing")
    /\ pc = "read"
    /\ pc' = "idle"
    /\ missed' = TRUE
    /\ UNCHANGED <<needs, makefile, list, have, fetching, failed, edits>>

\* The list is written, and a make reads it.
Written ==
    /\ pc = "read"
    /\ fetching' = Needed
    /\ pc' = "download"
    /\ UNCHANGED <<needs, makefile, list, have, failed, missed, edits, faults>>

Fetch(s) ==
    /\ pc = "download"
    /\ s \in fetching
    /\ have' = have \cup {s}
    /\ fetching' = fetching \ {s}
    /\ UNCHANGED <<needs, makefile, list, pc, failed, missed, edits, faults>>

\* The directory's make fails; with -j others may be under way.
FetchFails(s) ==
    /\ Fault("fetch")
    /\ pc = "download"
    /\ s \in fetching
    /\ failed' = TRUE
    /\ \E running \in SUBSET (fetching \ {s}) : fetching' = running
    /\ missed' = TRUE
    /\ UNCHANGED <<needs, makefile, list, have, pc, edits>>

DownloadedAnyway ==  \* mutation: `; wait' in place of a recipe line of its own
    /\ pc = "download"
    /\ fetching = {}
    /\ pc' = "build"
    /\ UNCHANGED <<needs, makefile, list, have, fetching, failed, missed, edits, faults>>

DownloadedIfNoneFailed ==  \* mutation: a failed download is waited for
    /\ pc = "download"
    /\ fetching = {}
    /\ ~failed
    /\ pc' = "build"
    /\ UNCHANGED <<needs, makefile, list, have, fetching, failed, missed, edits, faults>>

\* The list is touched when all is downloaded, or the make ends with the failure.
Downloaded ==
    /\ pc = "download"
    /\ fetching = {}
    /\ pc' = IF failed THEN "idle" ELSE "build"
    /\ UNCHANGED <<needs, makefile, list, have, fetching, failed, missed, edits, faults>>

\* The list is up to date: nothing is downloaded.
SourcesAreReady ==
    /\ pc = "setup"
    /\ makefile = "fresh"
    /\ ~OutOfDate
    /\ pc' = "build"
    /\ UNCHANGED <<needs, makefile, list, have, fetching, failed, missed, edits, faults>>

\* The build succeeds, or finds that there is no rule to make a tarball.
Build ==
    /\ pc = "build"
    /\ pc' = "idle"
    /\ UNCHANGED <<needs, makefile, list, have, fetching, failed, missed, edits, faults>>

Kill ==
    /\ Fault("kill")
    /\ pc # "idle"
    /\ pc' = "idle"
    /\ fetching' = {}
    /\ missed' = (missed \/ pc \in {"read", "download"})
    /\ UNCHANGED <<needs, makefile, list, have, failed, edits>>

\* The user's clean, or tree_clean, of the root.
LocalClean ==
    /\ pc = "idle"
    /\ list' = "absent"
    /\ UNCHANGED <<needs, makefile, have, pc, fetching, failed, missed, edits, faults>>

\* downloads_clean removes the lists of the directories of sources, not this one.
DownloadsClean ==
    /\ Fault("clean")
    /\ pc = "idle"
    /\ have' = {}
    /\ missed' = TRUE
    /\ UNCHANGED <<needs, makefile, list, pc, fetching, failed, edits>>

Step ==
    \/ Touch
    \/ Clean
    \/ Read
    \/ Written
    \/ \E s \in Source : Fetch(s)
    \/ Downloaded
    \/ SourcesAreReady
    \/ Build

Next ==
    \/ \E c \in Component, names \in SUBSET Source : Edit(c, names)
    \/ Make
    \/ Step
    \/ GiveUp
    \/ \E s \in Source : FetchFails(s)
    \/ Kill
    \/ LocalClean
    \/ DownloadsClean

Spec == Init /\ [][Next]_vars

\* A make goes on as long as it can, and every download ends.
FairSpec == Spec /\ WF_vars(Step)

-----------------------------------------------------------------------------

TypeOK ==
    /\ needs \in [Component -> SUBSET Source]
    /\ makefile \in {"absent", "old", "fresh"}
    /\ list \in {"absent", "older", "newer"}
    /\ have \subseteq Source
    /\ pc \in {"idle", "setup", "clean", "read", "download", "build"}
    /\ fetching \subseteq Source
    /\ failed \in BOOLEAN
    /\ missed \in BOOLEAN
    /\ edits \in Nat
    /\ faults \in Nat

\* `source tarballs have to be downloaded before starting the build' (core.mk:295).
SourcesBeforeBuild == pc = "build" => Needed \subseteq have

\* What make does keep of that: it holds in each build but one that follows a failed or
\* killed download, a downloads_clean or an edit of another Makefile than the root's;
\* also when the root's Makefile has changed and a make was killed while it cleaned, and
\* again as soon as a list is begun anew.
SourcesReadyUnlessMissed == pc = "build" /\ ~missed => Needed \subseteq have

\* The make in which a download fails does not go on to build, whatever the others
\* under way with -j do.
NoBuildAfterFailure == failed => pc # "build"

\* Where a make is, and what it has done.
Progress ==
    /\ pc # "download" => fetching = {}
    /\ pc = "download" /\ ~failed => Needed \subseteq have \cup fetching
    /\ failed => missed /\ pc \in {"idle", "download"}
    /\ pc = "clean" => makefile = "fresh" /\ list # "newer"
    /\ pc \in {"read", "download", "build"} => makefile = "fresh" /\ list = "newer"

\* What a list stands for that is newer than a fresh stamp.
ListIsDone ==
    /\ ~missed
    /\ pc \in {"idle", "setup"}
    /\ makefile = "fresh" /\ list = "newer"
    => Needed \subseteq have

\* The inductive invariant.
IInv ==
    /\ TypeOK
    /\ Progress
    /\ ListIsDone
    /\ SourcesReadyUnlessMissed

\* Every make ends (FairSpec).
Termination == pc # "idle" ~> pc = "idle"

=============================================================================
