------------------------------ MODULE MCTreeClean ------------------------------
(***************************************************************************)
(* The products of two toolchains, one of them x86_64-glibc, of which the  *)
(* other's is there; gcc, which both require; and sources, made for none.  *)
(***************************************************************************)
EXTENDS TreeClean, TLC

Tokens ==
    {"target", "underscore", "hyphen", "a1x", "newlib", "x86", "n64", "glibc", "noarch", "full", "flat"}

A1x == <<"a1x", "hyphen", "newlib">>

X86 == <<"x86", "underscore", "n64", "hyphen", "glibc">>

None == <<"noarch">>

Undef == <<"undefined">>

Toolchains == {A1x, X86, None}

Flavours == {<<"full">>, <<"flat">>}

Directories == {"products", "A1X-boot", "gcc", "gmp"}

ComponentTargets ==
    "products" :> {A1x, X86} @@
    "A1X-boot" :> {A1x}      @@
    "gcc"      :> {A1x, X86} @@
    "gmp"      :> {None}

ComponentFlavours == [d \in Directories |-> IF d = "gcc" THEN Flavours ELSE {}]

RequiredBy ==
    "products" :> {"A1X-boot", "gcc", "gmp"} @@
    "A1X-boot" :> {"gcc", "gmp"} @@
    "gcc"      :> {"gmp"}        @@
    "gmp"      :> {}

EnteredBelow ==
    [d \in Directories |-> [t \in Toolchains |->
        UNION {{c} \X ({t, None} \cap ComponentTargets[c]) : c \in RequiredBy[d]}]]

\* The type of the table.  (Once TLC has compared it it need not compute it again.)
ASSUME TableIsTyped ==
    \A d \in Dir : TargetTable[d] \in
        [SUBSET COMPONENT_TARGETS[d] -> [Args -> SUBSET (Seq(Tokens) \X Seq(Tokens))]]

=============================================================================
