--------------------------- MODULE MCBuildRequires ---------------------------
(***************************************************************************)
(* Instances of BuildRequires: a product, the flavours of its compiler and *)
(* what they need, with the Makefiles as they are and as they may be       *)
(* edited: naming a directory that is not there, one without a Makefile,   *)
(* build-system, or each other in a circle.                                *)
(***************************************************************************)
EXTENDS BuildRequiresInvariant, TLC

MCComponent ==
    {"product", "gcc^full", "gcc^static", "binutils", "docs", "gone", "build-system"}

MCDir == [c \in MCComponent |-> IF c \in {"gcc^full", "gcc^static"} THEN "gcc" ELSE c]

MCMakefiles ==
    {"product" :> p @@ "gcc^full" :> f @@ "gcc^static" :> g @@ "binutils" :> b @@
     [c \in {"docs", "gone", "build-system"} |-> {}] :
        p \in {{"gcc^full", "binutils"}, {"build-system", "gcc^full"}, {"gone", "binutils"}},
        f \in {{"gcc^static"}, {"binutils", "docs"}},
        g \in {{"binutils"}, {"gcc^full", "binutils"}, {"gone"}},
        b \in {{}, {"build-system"}}}

MCRank ==
    "binutils" :> 1 @@ "build-system" :> 2 @@ "docs" :> 3 @@ "gcc^full" :> 4 @@
    "gcc^static" :> 5 @@ "gone" :> 6 @@ "product" :> 7

=============================================================================
