---------------------- MODULE ProductVersionsInvariant ----------------------
(***************************************************************************)
(* The inductive invariant of ProductVersions.                             *)
(***************************************************************************)
EXTENDS ProductVersions

Written == {c \in Component : listed[c] # NoVersion}

Built == {c \in Component : builtFor[c] # NoVersion}

\* Each make but the last is at its list, in a component of which the next one
\* is; they all have the version of the user's make.
Descents ==
    /\ \A i \in DOMAIN stack : stack[i].version = stack[1].version
    /\ \A i \in DOMAIN stack : i < Len(stack) =>
          /\ stack[i].component \in Written
          /\ stack[i + 1].component \in List(stack[i].component)

\* What a make has done of its list is built.
DoneIsBuilt ==
    \A i \in DOMAIN stack : stack[i].done \subseteq Built

BuiltIsInstalled ==
    \A c \in Built : c \in installed[builtFor[c]]

\* The first make is one the user may start.
Asked ==
    ~Idle => [component |-> stack[1].component, version |-> stack[1].version] \in Makes

\* The list and the stamps of a product are those of its own version.
ProductsOwn ==
    \A m \in Makes : m.component \in Product =>
        {listed[m.component], builtFor[m.component]} \subseteq {NoVersion, m.version}

\* As long as nothing is mixed, the makes are in the tree of the first one, where
\* there is nothing another version has left.
Unmixed ==
    ~mixed /\ ~Idle =>
        /\ \A i \in DOMAIN stack :
              \/ stack[i].component = stack[1].component
              \/ stack[i].component \in Tree[stack[1].version][stack[1].component]
        /\ \A c \in {stack[1].component} \cup Tree[stack[1].version][stack[1].component] :
              {listed[c], builtFor[c]} \subseteq {NoVersion, stack[1].version}

IInv ==
    /\ TypeOK
    /\ Descents
    /\ DoneIsBuilt
    /\ BuiltIsInstalled
    /\ Asked
    /\ ProductsOwn
    /\ Unmixed
    /\ TarballComplete
    /\ CleanSwitchIsRight

=============================================================================
