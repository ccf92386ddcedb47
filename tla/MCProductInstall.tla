-------------------------- MODULE MCProductInstall --------------------------
(***************************************************************************)
(* Instances of ProductInstall: the tarball of a product and its sha1sum,  *)
(* the least that lets one be installed while the other fails.             *)
(***************************************************************************)
EXTENDS ProductInstallInvariant

Tarballs == {"A1X-glibc-1.1.1.tar.gz", "A1X-glibc-1.1.1.sha1sum"}

=============================================================================
