---------------------------- MODULE MCSourcesReady ----------------------------
(***************************************************************************)
(* Instances of SourcesReady: a product and its compiler, and two          *)
(* directories of sources, so that one can fail while the other is done.   *)
(***************************************************************************)
EXTENDS SourcesReady

Components == {"product", "gcc"}

Sources == {"sources/GNU/gcc", "sources/GNU/gmp"}

=============================================================================
