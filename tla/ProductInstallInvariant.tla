----------------------- MODULE ProductInstallInvariant -----------------------
(***************************************************************************)
(* The inductive invariant of ProductInstall.                              *)
(***************************************************************************)
EXTENDS ProductInstall

Listed == record \cup loose \cup merged

\* A copy is no newer than its target, and only one that is being made, or was lost, is
\* not whole.
CopyIsWhole ==
    \A t \in Target :
        /\ dist[t].whole \/ t \in copying \cup lost
        /\ target[t] # 0 => dist[t].build <= target[t]
        /\ dist[t].build <= builds

\* Every copy in dist that its target would not replace is on a list that sort does
\* not write to, or will be, or is lost.
CopyIsListed ==
    \A t \in Target \ lost :
        target[t] # 0 /\ dist[t].build = target[t] =>
            t \in record \cup loose \cup printed \cup copying

\* Where install stands, all of the copies are as new as their targets.
Progress ==
    /\ pc # "idle" => failed /\ \A t \in Target : target[t] # 0
    /\ pc # "copy" => todo = {} /\ printed = {}
    /\ pc = "copy" => \A t \in (Target \ todo) \cup copying : dist[t].build = target[t]
    /\ pc \in {"merge", "move", "remove"} => \A t \in Target : dist[t].build = target[t]
    /\ pc = "remove" => Target \ lost \subseteq record

\* What an install that ended well has left in dist is recorded.
CopyIsRecorded == ~failed => \A t \in Target \ lost : dist[t] = NotThere \/ t \in record

\* The inductive invariant: a target that is not newer than its copy is on one of the
\* lists that the next install merges, or was lost.
IInv ==
    /\ TypeOK
    /\ \A t \in Target : target[t] <= builds
    /\ \A s, t \in copying : s = t
    /\ last # "none" => pc = "idle"
    /\ pc = "move" => merged = Listed
    /\ CopyIsWhole
    /\ CopyIsListed
    /\ Progress
    /\ CopyIsRecorded
    /\ InstalledIsCurrent
    /\ TreeCleanIsComplete

=============================================================================
