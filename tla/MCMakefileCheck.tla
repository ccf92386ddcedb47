--------------------------- MODULE MCMakefileCheck ---------------------------
(***************************************************************************)
(* Instances of MakefileCheck for a directory like core/gcc/5.3.0 that is  *)
(* made for two toolchains: by the user, for both at once, or by the makes *)
(* of two products.                                                        *)
(***************************************************************************)
EXTENDS MakefileCheck

Toolchains == {"A1X-glibc", "S805-glibc"}

UserMakes == {Toolchains}

ProductMakes == {{t} : t \in Toolchains}

AllMakes == UserMakes \cup ProductMakes

=============================================================================
