---------------------------- MODULE ProductInstall ----------------------------
(***************************************************************************)
(* How a product's directory installs its PRODUCT_TARGETS in dist, and how *)
(* they are removed again: the rules install, local_clean and dist_clean   *)
(* of core.mk and the scripts install_targets, dist_clean and tree_clean.  *)
(*                                                                         *)
(* install_targets copies what is newer than its copy in dist, and prints  *)
(* the name of each copy to a file .dist.XXXXXX of its own; `install' then *)
(* merges these files into .dist, which dist_clean reads.                  *)
(***************************************************************************)
EXTENDS Naturals

CONSTANTS
    Target,     \* the files of PRODUCT_TARGETS
    Faults,     \* what may go wrong: "refused", "cut", "merge", "kill"
    MaxBuilds,  \* bound: how often a target is built
    MaxFaults   \* bound: how often something goes wrong

ASSUME ConstantAssumption ==
    /\ Faults \subseteq {"refused", "cut", "merge", "kill"}
    /\ MaxBuilds \in Nat
    /\ MaxFaults \in Nat

VARIABLES
    target,   \* which build each target is of; 0 when it is not there
    dist,     \* the copy of each target: as old as which build, and whole or not
    record,   \* the names in .dist
    loose,    \* the names in all .dist.XXXXXX
    merged,   \* the names in .dist.tmp
    pc,       \* where the install is
    todo,     \* targets that install_targets has still to look at
    copying,  \* the target whose cp is under way
    printed,  \* names printed, but still in perl's buffer
    last,     \* what was done last, when it ended well
    failed,   \* the last install that was begun did not end well, or runs
    lost,     \* history: the targets of which something is in dist that no install has
              \* listed: cp failed over it, or install_targets was killed over it
    builds,   \* builds so far
    faults    \* faults so far

lists == <<record, loose, merged>>
script == <<todo, copying, printed>>
outcome == <<failed, lost>>
vars == <<target, dist, lists, pc, script, last, outcome, builds, faults>>

NotThere == [build |-> 0, whole |-> TRUE]

Fault(kind) == kind \in Faults /\ faults < MaxFaults /\ faults' = faults + 1

NewerThanAtAll(t) == dist[t] = NotThere  \* mutation: a copy is never replaced

\* newer_than( target, copy ).  cp -a gives the copy the date of its source; a copy
\* that was cut short is younger than that.
NewerThan(t) == target[t] > dist[t].build

Forget ==
    /\ todo' = {}
    /\ copying' = {}
    /\ printed' = {}

Init ==
    /\ target = [t \in Target |-> 0]
    /\ dist = [t \in Target |-> NotThere]
    /\ record = {}
    /\ loose = {}
    /\ merged = {}
    /\ pc = "idle"
    /\ todo = {}
    /\ copying = {}
    /\ printed = {}
    /\ last = "none"
    /\ failed = FALSE
    /\ lost = {}
    /\ builds = 0
    /\ faults = 0

-----------------------------------------------------------------------------

\* A target has its stamp: it is built again only after local_clean.
Build(t) ==
    /\ pc = "idle"
    /\ target[t] = 0
    /\ builds < MaxBuilds
    /\ target' = [target EXCEPT ![t] = builds + 1]
    /\ builds' = builds + 1
    /\ last' = "none"
    /\ UNCHANGED <<dist, lists, pc, script, outcome, faults>>

Install ==
    /\ pc = "idle"
    /\ \A t \in Target : target[t] # 0
    /\ pc' = "copy"
    /\ failed' = TRUE
    /\ todo' = Target
    /\ last' = "none"
    /\ UNCHANGED <<target, dist, lists, copying, printed, lost, builds, faults>>

UpToDate(t) ==
    /\ pc = "copy"
    /\ copying = {}
    /\ t \in todo
    /\ ~NewerThan(t)
    /\ todo' = todo \ {t}
    /\ UNCHANGED <<target, dist, lists, pc, copying, printed, last, outcome, builds, faults>>

\* cp opens the copy, which empties it.
Copy(t) ==
    /\ pc = "copy"
    /\ copying = {}
    /\ t \in todo
    /\ NewerThan(t)
    /\ copying' = {t}
    /\ dist' = [dist EXCEPT ![t] = [build |-> target[t], whole |-> FALSE]]
    /\ UNCHANGED <<target, lists, pc, todo, printed, last, outcome, builds, faults>>

NamedNot(t) == printed  \* mutation: the name is not printed

Named(t) == printed \cup {t}

\* cp is done, and dist() prints the name.
Copied(t) ==
    /\ pc = "copy"
    /\ t \in copying
    /\ dist' = [dist EXCEPT ![t].whole = TRUE]
    /\ copying' = {}
    /\ todo' = todo \ {t}
    /\ printed' = Named(t)
    /\ lost' = lost \ {t}
    /\ UNCHANGED <<target, lists, pc, last, failed, builds, faults>>

\* install_targets exits, and perl writes out what was printed.
EndCopy ==
    /\ pc = "copy"
    /\ todo = {}
    /\ loose' = loose \cup printed
    /\ pc' = "merge"
    /\ Forget
    /\ UNCHANGED <<target, dist, record, merged, last, outcome, builds, faults>>

\* cp may not open the copy: install_targets exits with an error, and so does make.
Refused(t) ==
    /\ Fault("refused")
    /\ pc = "copy"
    /\ copying = {}
    /\ t \in todo
    /\ NewerThan(t)
    /\ loose' = loose \cup printed
    /\ pc' = "idle"
    /\ Forget
    /\ UNCHANGED <<target, dist, record, merged, last, outcome, builds>>

\* cp may fail when it has opened the copy, as where dist is full.  What it has written
\* stays, as young as that; install_targets exits with an error before dist() prints the
\* name.
CutShort(t) ==
    /\ Fault("cut")
    /\ pc = "copy"
    /\ t \in copying
    /\ loose' = loose \cup printed
    /\ lost' = lost \cup {t}
    /\ pc' = "idle"
    /\ Forget
    /\ UNCHANGED <<target, dist, record, merged, last, failed, builds>>

\* install_targets is killed: of its output some may have been written, and a cp
\* that was under way leaves what it had copied.
Kill(written) ==
    /\ Fault("kill")
    /\ pc = "copy"
    /\ written \subseteq printed
    /\ loose' = loose \cup written
    /\ pc' = "idle"
    /\ lost' = lost \cup copying \cup (printed \ written)
    /\ Forget
    /\ UNCHANGED <<target, dist, record, merged, last, failed, builds>>

MergeInPlace ==  \* mutation: sort -o .dist
    /\ pc = "merge"
    /\ record' = {}
    /\ merged' = record \cup loose \cup merged
    /\ pc' = "move"
    /\ UNCHANGED <<target, dist, loose, script, last, outcome, builds, faults>>

\* sort -o .dist.tmp -u .dist*: of all files of that name, .dist.tmp included.
Merge ==
    /\ pc = "merge"
    /\ merged' = record \cup loose \cup merged
    /\ pc' = "move"
    /\ UNCHANGED <<target, dist, record, loose, script, last, outcome, builds, faults>>

\* mv .dist.tmp .dist
Move ==
    /\ pc = "move"
    /\ record' = merged
    /\ merged' = {}
    /\ pc' = "remove"
    /\ UNCHANGED <<target, dist, loose, script, last, outcome, builds, faults>>

\* rm -f .dist.*
Remove ==
    /\ pc = "remove"
    /\ loose' = {}
    /\ merged' = {}
    /\ pc' = "idle"
    /\ last' = "install"
    /\ failed' = FALSE
    /\ UNCHANGED <<target, dist, record, script, lost, builds, faults>>

\* sort cannot write its output, or is killed with a part written; or mv or rm is.
MergeFails(part) ==
    /\ Fault("merge")
    /\ \/ pc = "merge" /\ part \subseteq record \cup loose \cup merged /\ merged' = part
       \/ pc \in {"move", "remove"} /\ part = merged /\ UNCHANGED merged
    /\ pc' = "idle"
    /\ UNCHANGED <<target, dist, record, loose, script, last, outcome, builds>>

-----------------------------------------------------------------------------

Uninstalled(names) == [t \in Target |-> IF t \in names THEN NotThere ELSE dist[t]]

\* dist_clean unlinks what .dist names, and .dist is removed.
DistClean ==
    /\ pc = "idle"
    /\ dist' = Uninstalled(record)
    /\ record' = {}
    /\ lost' = lost \ record
    /\ last' = "none"
    /\ UNCHANGED <<target, loose, merged, pc, script, failed, builds, faults>>

\* dist_clean is killed: .dist is still there.
DistCleanKilled(removed) ==
    /\ Fault("kill")
    /\ pc = "idle"
    /\ removed \subseteq record
    /\ dist' = Uninstalled(removed)
    /\ lost' = lost \ removed
    /\ last' = "none"
    /\ UNCHANGED <<target, lists, pc, script, failed, builds>>

\* local_clean removes what was built, and .dist.* too.
LocalClean ==
    /\ pc = "idle"
    /\ target' = [t \in Target |-> 0]
    /\ loose' = {}
    /\ merged' = {}
    /\ last' = "none"
    /\ UNCHANGED <<dist, record, pc, script, outcome, builds, faults>>

\* tree_clean, or a new Makefile: dist_clean, if there is a .dist, then local_clean.
TreeClean ==
    /\ pc = "idle"
    /\ dist' = Uninstalled(record)
    /\ record' = {}
    /\ target' = [t \in Target |-> 0]
    /\ loose' = {}
    /\ merged' = {}
    /\ lost' = lost \ record
    /\ last' = "tree_clean"
    /\ UNCHANGED <<pc, script, failed, builds, faults>>

Next ==
    \/ \E t \in Target :
          \/ Build(t)
          \/ UpToDate(t)
          \/ Copy(t)
          \/ Copied(t)
          \/ Refused(t)
          \/ CutShort(t)
    \/ Install
    \/ EndCopy
    \/ Merge
    \/ Move
    \/ Remove
    \/ \E written \in SUBSET printed : Kill(written)
    \/ \E part \in SUBSET (record \cup loose \cup merged) : MergeFails(part)
    \/ DistClean
    \/ \E removed \in SUBSET record : DistCleanKilled(removed)
    \/ LocalClean
    \/ TreeClean

Spec == Init /\ [][Next]_vars

-----------------------------------------------------------------------------

Copies == [build : Nat, whole : BOOLEAN]

TypeOK ==
    /\ target \in [Target -> Nat]
    /\ dist \in [Target -> Copies]
    /\ record \subseteq Target
    /\ loose \subseteq Target
    /\ merged \subseteq Target
    /\ pc \in {"idle", "copy", "merge", "move", "remove"}
    /\ todo \subseteq Target
    /\ copying \subseteq todo
    /\ printed \subseteq Target
    /\ last \in {"none", "install", "tree_clean"}
    /\ failed \in BOOLEAN
    /\ lost \subseteq Target
    /\ builds \in Nat
    /\ faults \in Nat

\* An install that ends well, after however many that failed or were killed and whatever
\* was cleaned between them, leaves a whole copy of every target as it is now, and .dist
\* names each of them; but not those targets that an earlier install lost and that were
\* neither built again nor removed from dist: their copies look new.
InstalledIsCurrent ==
    last = "install" => \A t \in Target \ lost :
        dist[t] = [build |-> target[t], whole |-> TRUE] /\ t \in record

\* What .dist names it goes on to name until it is gone from dist: no install that
\* fails or is killed loses the record of an earlier one.
RecordKept ==
    [][\A t \in record : t \in record' \/ dist'[t] = NotThere]_vars

\* `tree_clean - clean whole tree including dist' (doc/README:10): nothing is left there,
\* whatever was built, installed and cleaned before, but what installs have lost; unless
\* the last install failed, whose lists of names are removed unread.
TreeCleanIsComplete ==
    last = "tree_clean" /\ ~failed => \A t \in Target \ lost : dist[t] = NotThere

=============================================================================
