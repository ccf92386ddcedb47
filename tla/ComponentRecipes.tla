--------------------------- MODULE ComponentRecipes ---------------------------
(***************************************************************************)
(* What the makes of a tree and the rules of a component's own Makefile    *)
(* have to agree on.  To the tree, a component is prepared, then built, and*)
(* found built from then on; its own rules do that in several recipes with *)
(* stamps of their own, stop anywhere and go on in another make.  TreeBuild*)
(* is shown to do no more than this with each component, and ComponentBuild*)
(* to do what the tree takes it to do.                                     *)
(***************************************************************************)
CONSTANT Component

VARIABLES
    prepared,   \* the components whose sources are unpacked and patched
    built,      \* the components whose BUILD_TARGETS are made, from these sources
    preparing,  \* the components whose sources somebody is preparing
    building    \* the components that somebody is building

recipeVars == <<prepared, built, preparing, building>>

RecipesInit == prepared = {} /\ built = {} /\ preparing = {} /\ building = {}

StartPrepare(c) ==
    /\ c \notin prepared \cup preparing \cup building
    /\ preparing' = preparing \cup {c}
    /\ UNCHANGED <<prepared, built, building>>

\* New sources are not built yet.
EndPrepare(c) ==
    /\ c \in preparing \ built
    /\ prepared' = prepared \cup {c}
    /\ preparing' = preparing \ {c}
    /\ UNCHANGED <<built, building>>

StartBuild(c) ==
    /\ c \in prepared \ (built \cup preparing \cup building)
    /\ building' = building \cup {c}
    /\ UNCHANGED <<prepared, built, preparing>>

EndBuild(c) ==
    /\ c \in building
    /\ built' = built \cup {c}
    /\ building' = building \ {c}
    /\ UNCHANGED <<prepared, preparing>>

\* Recipes end before all is done: the next one goes on, now or in another make, or
\* they failed or were killed.
Pause ==
    /\ preparing' \in SUBSET preparing
    /\ building' \in SUBSET building
    /\ UNCHANGED <<prepared, built>>

\* Directories are cleaned, or what the sources depend on is edited, while no make is
\* there: what was built is as little done as its sources.
Renew ==
    /\ preparing = {} /\ building = {}
    /\ prepared' \in SUBSET prepared
    /\ built' \in SUBSET (built \cap prepared')
    /\ UNCHANGED <<preparing, building>>

RecipesNext ==
    \/ \E c \in Component : StartPrepare(c) \/ EndPrepare(c) \/ StartBuild(c) \/ EndBuild(c)
    \/ Pause
    \/ Renew

RecipesSpec == RecipesInit /\ [][RecipesNext]_recipeVars

=============================================================================
