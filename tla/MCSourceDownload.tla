-------------------------- MODULE MCSourceDownload --------------------------
(***************************************************************************)
(* Instances of SourceDownload: a directory with two versions, the least   *)
(* that lets one recipe write what another one was started for.            *)
(***************************************************************************)
EXTENDS SourceDownload

Versions == {"gmp-6.0.0a", "gmp-6.1.0"}

=============================================================================
