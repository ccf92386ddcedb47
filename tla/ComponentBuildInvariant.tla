----------------------- MODULE ComponentBuildInvariant -----------------------
(***************************************************************************)
(* The inductive invariant of ComponentBuild.                              *)
(***************************************************************************)
EXTENDS ComponentBuild

\* Recipes are run by a make, and each when what it depends on is done.
Order ==
    /\ make = "idle" => job = "none" /\ expanding = {}
    /\ job \in {"unpack", "patch"} => source # "done"
    /\ expanding # {} => source = "done"
    /\ \A a \in expanding : aux[a] # "done"
    /\ job \in {"build", "install"} =>
          source = "done" /\ expanding = {} /\ \A a \in Aux : aux[a] = "done"
    /\ job = "build" => built # "done"
    /\ job = "install" => built = "done" /\ ready # "done"

\* While the source is prepared, it has the patches that are not left to do.
Preparing ==
    /\ job = "unpack" => dir.patched = NewDir.patched
    /\ job = "patch" =>
          /\ todo \subseteq patches
          /\ \A f \in File : dir.patched[f] = IF f \in patches \ todo THEN 1 ELSE 0

\* What the stamps stand for.
Done ==
    /\ source = "done" => Patched
    /\ source = "done" => \A a \in Aux : aux[a] = "done" => a \in dir.links

Whole == job = "patch" \/ source = "done" => dir.archive # "part"

\* The object of f is made of the file as it is now.
Right(f) ==
    /\ f \in patches => object[f] = "patched"
    /\ f \notin patches \cup dropped => object[f] = "plain"

Objects ==
    /\ \A f \in File : object[f] = "patched" => f \in patches \cup dropped
    /\ job = "build" => \A f \in File \ todo : Right(f)
    /\ source = "done" /\ (\A a \in Aux : aux[a] = "done") /\ built = "done" =>
          \A f \in File : Right(f)
    /\ job = "install" => \A f \in File \ todo : installed[f] = object[f]
    /\ built = "done" /\ ready = "done" => installed = object

IInv ==
    /\ TypeOK
    /\ Order
    /\ Preparing
    /\ Done
    /\ Whole
    /\ Objects

=============================================================================
