-------------------------- MODULE TreeBuildInvariant --------------------------
(***************************************************************************)
(* The inductive invariant behind the safety properties of TreeBuild,      *)
(* proved inductive in TreeBuildProofs.                                    *)
(***************************************************************************)
EXTENDS TreeBuild

\* The targets of one make do not share components, or are made one by one.
\* That is so for the targets of different toolchains, and not for those of
\* different flavours.
Independent ==
    \/ ~Parallel
    \/ \A s, t \in TargetSet :
          s # t => ({s} \cup Tree[s]) \cap ({t} \cup Tree[t]) = {}

Prefix(p, n) == [i \in 1 .. n |-> p[i]]

\* A process lives as long as the sub-makes below it.
ParentsLive == \A p \in DOMAIN run : \A n \in 0 .. Len(p) : Prefix(p, n) \in DOMAIN run

\* The user's make is never in a component.
TopProcess ==
    <<>> \in DOMAIN run =>
        /\ run[<<>>].phase \in {"tree", "failed"}
        /\ \A t \in run[<<>>].done :
              /\ t \in TargetSet \cap built
              /\ goal = "all" => Tree[t] \subseteq built

\* A sub-make runs for a component that its parent has not made yet, and below
\* the targets only when the component's whole tree has been made.
Children ==
    \A p \in DOMAIN run, c \in Component :
        Append(p, c) \in DOMAIN run =>
            /\ run[p].phase \in {"tree", "failed"}
            /\ c \in TreeOf(p) \ run[p].done
            /\ p # <<>> => /\ goal = "all"
                           /\ Tree[c] \subseteq run[p].done

\* What a `make -f .requires' has made is complete, and stays so.
DoneIsBuilt ==
    \A p \in DOMAIN run : p # <<>> =>
        \A d \in run[p].done :
            /\ d \in TreeOf(p)
            /\ Tree[d] \subseteq run[p].done
            /\ d \in built
            /\ requiresFile[d] = "complete"

\* Whatever is entered from the third level on, the target's own make has made.
DeepIsDone ==
    \A p \in DOMAIN run, c \in Component :
        Append(p, c) \in DOMAIN run /\ Len(p) >= 2
            => c \in run[Prefix(p, 1)].done

\* Where a sub-make is, and what that says of the files of its component.
PhaseOK(p, c) ==
    LET m == run[Append(p, c)] IN
    /\ m.phase = "generating" => requiresFile[c] = "none"
    /\ m.phase = "tree" => goal = "all"
    /\ m.phase \in {"tree", "local", "build"} /\ goal = "all" =>
          requiresFile[c] = "complete"
    /\ m.phase = "build" => c \in prepared \ built
    /\ m.phase \in {"local", "build"} /\ goal = "all" => Tree[c] \subseteq built
    /\ m.sources = "running" => c \notin prepared

Phases ==
    \A p \in DOMAIN run, c \in Component :
        Append(p, c) \in DOMAIN run => PhaseOK(p, c)

OneTarget ==
    ~Parallel => \A s, t \in Component :
        <<s>> \in DOMAIN run /\ <<t>> \in DOMAIN run => s = t

IInv ==
    /\ TypeOK
    /\ built \subseteq prepared
    /\ ParentsLive
    /\ TopProcess
    /\ Children
    /\ DoneIsBuilt
    /\ DeepIsDone
    /\ Phases
    /\ OneTarget

=============================================================================
