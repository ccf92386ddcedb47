----------------------- MODULE ComponentBuildRefinement -----------------------
(***************************************************************************)
(* The rules of one component implement ComponentRecipes: the source and   *)
(* the linked archives are the preparation, make and make install are the  *)
(* build, and what the tree sees is whether all of their stamps are done.  *)
(***************************************************************************)
EXTENDS ComponentBuildInvariant

SourceIsReady == source = "done" /\ \A a \in Aux : ~OutOfDate(a)

IsBuilt == SourceIsReady /\ built = "done" /\ ready = "done"

This == "gcc"

If(condition) == IF condition THEN {This} ELSE {}

Recipes == INSTANCE ComponentRecipes WITH
    Component <- {This},
    prepared  <- If(SourceIsReady),
    built     <- If(IsBuilt),
    preparing <- If(job \in {"unpack", "patch"} \/ expanding # {}),
    building  <- If(job \in {"build", "install"})

\* However the recipes fail, are killed and are resumed, and PATCHES change: to the tree
\* they prepare the component and then build it (core.mk:685, Makefile:1062-1189).  New
\* sources are never taken for built by what was made of the old ones, and no recipe of a
\* build is run while another one prepares.
ImplementsRecipes == Recipes!RecipesSpec

=============================================================================
