--------------------------- MODULE TargetSelection ---------------------------
(***************************************************************************)
(* Which targets a make stands for (core.mk:107-140, 181-192, 483-580).    *)
(*                                                                         *)
(* The user may give a TOOLCHAIN, a FLAVOUR, both or neither.  core.mk     *)
(* makes of them the names .target_<toolchain>_<flavour>, keeps those that *)
(* are available, and takes the names apart again at each "_".  A name is  *)
(* a sequence of tokens, with "target" for `.target', "underscore" for "_",*)
(* "hyphen" for "-" and "n64" for `64': one toolchain has a "_" of its own,*)
(* in x86_64, that sed turns into a "-" and back.                          *)
(***************************************************************************)
EXTENDS Naturals, Sequences

CONSTANTS
    Token,     \* what names are made of
    Undefined  \* FLAVOUR is not defined, not even as empty

ASSUME TokenAssumption == {"target", "underscore", "hyphen", "x86", "n64"} \subseteq Token

\* The token at k is between those of x86_64 or x86-64.
InX86(name, k) == k > 1 /\ k < Len(name) /\ name[k - 1] = "x86" /\ name[k + 1] = "n64"

Sed(name, from, to) ==
    [k \in 1 .. Len(name) |-> IF name[k] = from /\ InX86(name, k) THEN to ELSE name[k]]

Hyphenate(name) == Sed(name, "underscore", "hyphen")

Restore(name) == Sed(name, "hyphen", "underscore")

Suffix(flavour) == IF flavour = <<>> THEN <<>> ELSE <<"underscore">> \o flavour

TargetNameAsIs(t, f) ==  \* mutation: no sed
    <<"target", "underscore">> \o t \o Suffix(f)

TargetName(t, f) == <<"target", "underscore">> \o Hyphenate(t) \o Suffix(f)

\* $(subst _, , name): where the word ends that begins after k.
IsCut(name, k) == k > Len(name) \/ name[k] = "underscore"

NextCut(name, k) ==
    CHOOSE j \in k + 1 .. Len(name) + 2 : IsCut(name, j) /\ \A i \in k + 1 .. j - 1 : ~IsCut(name, i)

WordAfter(name, k) == SubSeq(name, k + 1, NextCut(name, k) - 1)

\* $(word 2, ...) and $(word 3, ...)
ToolchainOf(target) == Restore(WordAfter(target, NextCut(target, 0)))

FlavourOf(target) == WordAfter(target, NextCut(target, NextCut(target, 0)))

AvailableTargets(toolchains, flavours) ==
    {TargetName(t, f) : t \in toolchains, f \in flavours \cup {<<>>}}

\* The six cases of what the user has defined.
TargetArgs(toolchains, flavours, args) ==
    {TargetName(t, f) :
        t \in IF args.toolchain = <<>> THEN toolchains ELSE {args.toolchain},
        f \in IF args.flavour = Undefined THEN flavours \cup {<<>>} ELSE {args.flavour}}

\* None is an error.
Targets(toolchains, flavours, args) ==
    TargetArgs(toolchains, flavours, args) \cap AvailableTargets(toolchains, flavours)

-----------------------------------------------------------------------------

\* The names in config.mk: a toolchain has a "_" in x86_64 only, a flavour has none.
IsName(name) == name \in Seq(Token) /\ name # <<>>

IsToolchain(name) ==
    /\ IsName(name)
    /\ \A k \in 1 .. Len(name) :
          /\ name[k] = "underscore" => InX86(name, k)
          /\ name[k] = "hyphen" => ~InX86(name, k)

IsFlavour(name) == IsName(name) /\ \A k \in 1 .. Len(name) : name[k] # "underscore"

\* What the user means: of each toolchain the main target and all flavours, but for
\* what the arguments exclude.
Meant(toolchains, flavours, args) ==
    {x \in toolchains \X (flavours \cup {<<>>}) :
        /\ args.toolchain # <<>> => x[1] = args.toolchain
        /\ args.flavour # Undefined => x[2] = args.flavour}

=============================================================================
