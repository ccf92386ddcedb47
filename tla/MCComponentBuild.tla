-------------------------- MODULE MCComponentBuild --------------------------
(***************************************************************************)
(* Instances of ComponentBuild: two source files, so that one can be       *)
(* patched and the other not, and two linked archives, so that one can     *)
(* fail while the other is unpacked.                                       *)
(***************************************************************************)
EXTENDS ComponentBuildRefinement

Files == {"gcc/cp/parser.c", "gcc/gcc.c"}

Archives == {"gmp", "mpfr"}

=============================================================================
