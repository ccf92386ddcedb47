-------------------------- MODULE TreeBuildRefinement --------------------------
(***************************************************************************)
(* The recursive make of TreeBuild implements ComponentOrder: the nested   *)
(* makes, the .requires files and the source stamps are stuttering, and    *)
(* the recipes of BUILD_TARGETS are the steps.  It also implements         *)
(* ComponentRecipes, as the rules of a single component do                 *)
(* (ComponentBuildRefinement): there the recipes of the sources are steps  *)
(* as well.                                                                *)
(***************************************************************************)
EXTENDS TreeBuildInvariant

Building(p, c) == Append(p, c) \in DOMAIN run /\ run[Append(p, c)].phase = "build"

Making == {c \in Component : \E p \in DOMAIN run : Building(p, c)}

Alone == IF "local_all" \in Goals THEN TargetSet ELSE {}

Order == INSTANCE ComponentOrder WITH made <- built, making <- Making

\* Every behaviour of the recursive make, seen through its stamps, makes each
\* component once at a time and on top of what it requires.
ImplementsOrder == Order!OrderSpec

Preparing ==
    {c \in Component : \E p \in DOMAIN run :
        Append(p, c) \in DOMAIN run /\ run[Append(p, c)].sources = "running"}

Recipes == INSTANCE ComponentRecipes WITH preparing <- Preparing, building <- Making

\* All the makes that enter a component, together, do with it no more than one make of
\* its own Makefile does: its sources are prepared by one of them and once, and built by
\* one of them when no other is at the sources (core.mk:432-478, 684-720).
ImplementsRecipes == Recipes!RecipesSpec

=============================================================================
