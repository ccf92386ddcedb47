------------------------ MODULE BuildRequiresInvariant ------------------------
(***************************************************************************)
(* The inductive invariant behind the properties of BuildRequires: what    *)
(* the walk has done so far, and what of it the files keep when Makefiles  *)
(* are edited.  It is proved inductive in BuildRequiresProofs.             *)
(***************************************************************************)
EXTENDS BuildRequires

\* Every set that contains start and, with each member of T, its rule, contains T.
NoMoreThan(r, start, T) ==
    \A S \in SUBSET Component :
        start \subseteq S /\ (\A c \in S \cap T : r[c] \subseteq S) => T \subseteq S

NotWalking ==
    phase \in {"idle", "root"} =>
        stack = << >> /\ rest = None /\ all = {} /\ rules = None /\ depends = {}

WhileRunning ==
    /\ phase # "idle" => newer = {}
    /\ phase \in {"root", "walk"} => file.state = "partial"
    /\ phase = "closed" =>
          /\ stack = << >>
          /\ file = [state |-> "complete", rules |-> rules, tree |-> all]

\* Each rule printed is the Makefile's, and what it names is walked or still to do.
Walked ==
    phase \in {"walk", "closed"} =>
        /\ rules["all"] = RootListed
        /\ \A c \in all : rules[c] = Listed(c)
        /\ \A x \in all \cup {"all"} : rules[x] \subseteq all \cup rest[x]
        /\ \A x \in all \cup {"all"} : rest[x] \subseteq rules[x]
        /\ NoMoreThan(rules, RootListed, all)
        /\ depends = {Dir[Root]} \cup {Dir[c] : c \in all}

Stack ==
    /\ \A i \in DOMAIN stack : stack[i] \in all \cup {"all"}
    /\ \A x \in Rules : rest[x] # {} => \E i \in DOMAIN stack : stack[i] = x

\* The file on disk is right for every Makefile that has not been edited since.
OnDisk ==
    phase = "idle" /\ file.state = "complete" =>
        /\ file.rules["all"] \subseteq file.tree
        /\ \A c \in file.tree : file.rules[c] \subseteq file.tree
        /\ NoMoreThan(file.rules, file.rules["all"], file.tree)
        /\ Dir[Root] \notin newer => file.rules["all"] = RootListed
        /\ \A c \in file.tree : Dir[c] \notin newer => file.rules[c] = Listed(c)
        /\ crashes = 0 => dependFile = {Dir[Root]} \cup {Dir[c] : c \in file.tree}

FaultOnDisk ==
    crashes = 0 /\ phase = "idle" /\ file.state = "partial" =>
        \E c \in Component : Dir[c] \in dependFile /\ (Faulty(c) \/ Dir[c] \in newer)

IInv ==
    /\ TypeOK
    /\ NotWalking
    /\ WhileRunning
    /\ Walked
    /\ Stack
    /\ WalkedOnce
    /\ OnDisk
    /\ FaultOnDisk

=============================================================================
