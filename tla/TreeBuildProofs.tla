--------------------------- MODULE TreeBuildProofs ---------------------------
(***************************************************************************)
(* The safety of the recursive tree build, for every graph of components,  *)
(* every list of targets and every interleaving: IInv is inductive, and    *)
(* the properties that the runs check and the refinement of ComponentOrder *)
(* follow from it.                                                         *)
(***************************************************************************)
EXTENDS TreeBuildRefinement, SequenceTheorems, FiniteSetTheorems, WellFoundedInduction, TLAPS

Paths == Seq(Component)

-----------------------------------------------------------------------------
(* Paths *)

LEMMA ExtendPath ==
    ASSUME NEW p \in Paths, NEW c \in Component
    PROVE  /\ Append(p, c) \in Paths
           /\ Append(p, c) # <<>>
           /\ Append(p, c) # p
           /\ Len(Append(p, c)) = Len(p) + 1
           /\ Append(p, c)[Len(p) + 1] = c
           /\ \A i \in 1 .. Len(p) : Append(p, c)[i] = p[i]
BY DEF Paths

LEMMA ExtendInjective ==
    ASSUME NEW p \in Paths, NEW q \in Paths, NEW c \in Component, NEW d \in Component,
           Append(p, c) = Append(q, d)
    PROVE  p = q /\ c = d
BY AppendInjective DEF Paths

LEMMA PrefixIsPath ==
    ASSUME NEW p \in Paths, NEW n \in 0 .. Len(p)
    PROVE  Prefix(p, n) \in Paths /\ Len(Prefix(p, n)) = n
BY DEF Paths, Prefix

LEMMA PrefixWhole ==
    ASSUME NEW p \in Paths
    PROVE  Prefix(p, Len(p)) = p /\ Prefix(p, 0) = <<>>
BY DEF Paths, Prefix

LEMMA PrefixStep ==
    ASSUME NEW p \in Paths, NEW n \in 0 .. Len(p) - 1
    PROVE  /\ p[n + 1] \in Component
           /\ Prefix(p, n + 1) = Append(Prefix(p, n), p[n + 1])
<1>0. n \in Nat /\ Len(p) \in Nat
  BY DEF Paths
<1>1. p[n + 1] \in Component
  BY DEF Paths
<1>2. Prefix(p, n) \in Paths /\ Len(Prefix(p, n)) = n
  BY PrefixIsPath
<1>3. Prefix(p, n + 1) \in Paths /\ Len(Prefix(p, n + 1)) = n + 1
  BY PrefixIsPath
<1>4. \A i \in 1 .. n + 1 : Prefix(p, n + 1)[i] = Append(Prefix(p, n), p[n + 1])[i]
  <2> SUFFICES ASSUME NEW i \in 1 .. n + 1
               PROVE  Prefix(p, n + 1)[i] = Append(Prefix(p, n), p[n + 1])[i]
    OBVIOUS
  <2>1. Prefix(p, n + 1)[i] = p[i]
    BY DEF Prefix
  <2>2. CASE i = n + 1
    BY <1>1, <1>2, <2>1, <2>2, ExtendPath
  <2>3. CASE i \in 1 .. n
    <3>1. Prefix(p, n)[i] = p[i]
      BY <2>3 DEF Prefix
    <3>2. QED
      BY <1>1, <1>2, <2>1, <2>3, <3>1, ExtendPath
  <2>4. i = n + 1 \/ i \in 1 .. n
    BY <1>0
  <2>5. QED
    BY <2>2, <2>3, <2>4, Zenon
<1>5. Append(Prefix(p, n), p[n + 1]) \in Paths
      /\ Len(Append(Prefix(p, n), p[n + 1])) = n + 1
  BY <1>1, <1>2, ExtendPath
<1>6. Len(Prefix(p, n + 1)) = Len(Append(Prefix(p, n), p[n + 1]))
  BY <1>3, <1>5
<1>7. \A i \in 1 .. Len(Prefix(p, n + 1)) :
         Prefix(p, n + 1)[i] = Append(Prefix(p, n), p[n + 1])[i]
  BY <1>3, <1>4
<1>8. Prefix(p, n + 1) = Append(Prefix(p, n), p[n + 1])
  <2> DEFINE s == Prefix(p, n + 1)
             t == Append(Prefix(p, n), p[n + 1])
  <2>1. /\ s \in Seq(Component) /\ t \in Seq(Component) /\ Len(s) = Len(t)
        /\ \A i \in 1 .. Len(s) : s[i] = t[i]
    BY <1>3, <1>5, <1>6, <1>7 DEF Paths
  <2> HIDE DEF s, t
  <2>2. s = t
    BY <2>1, SeqEqual
  <2>3. QED
    BY <2>2 DEF s, t
<1>9. QED
  BY <1>1, <1>8

LEMMA PrefixOfExtension ==
    ASSUME NEW p \in Paths, NEW c \in Component, NEW n \in 0 .. Len(p)
    PROVE  Prefix(Append(p, c), n) = Prefix(p, n)
<1>1. \A i \in 1 .. n : Append(p, c)[i] = p[i]
  BY ExtendPath DEF Paths
<1>2. QED
  BY <1>1 DEF Prefix

LEMMA OneOrMore == \A n \in Nat \ {0} : n = 1 \/ (n >= 2 /\ 1 \in 0 .. n)
OBVIOUS

-----------------------------------------------------------------------------
(* What the invariant says of one process *)

\* The target that a sub-make works for.
Top(p, c) == IF p = <<>> THEN c ELSE p[1]

LEMMA FirstStep ==
    ASSUME NEW p \in Paths, p # <<>>
    PROVE  /\ Len(p) \in Nat \ {0}
           /\ p[1] \in Component
           /\ Prefix(p, 1) = Append(<<>>, p[1])
           /\ Prefix(p, 1) \in Paths
           /\ Prefix(p, 1) # <<>>
           /\ Len(Prefix(p, 1)) = 1
           /\ Prefix(p, 1)[1] = p[1]
<1>1. Len(p) \in Nat \ {0}
  BY DEF Paths
<1>2. 0 \in 0 .. Len(p) - 1
  BY <1>1
<1>3. p[0 + 1] \in Component /\ Prefix(p, 0 + 1) = Append(Prefix(p, 0), p[0 + 1])
  BY <1>2, PrefixStep
<1>4. p[1] \in Component /\ Prefix(p, 1) = Append(<<>>, p[1])
  <2>1. 0 + 1 = 1
    OBVIOUS
  <2>2. Prefix(p, 0) = <<>>
    BY PrefixWhole
  <2>3. QED
    BY <1>3, <2>1, <2>2, Zenon
<1>5. <<>> \in Paths /\ Len(<<>>) = 0
  BY DEF Paths
<1>6. /\ Append(<<>>, p[1]) \in Paths /\ Append(<<>>, p[1]) # <<>>
      /\ Len(Append(<<>>, p[1])) = 1 /\ Append(<<>>, p[1])[1] = p[1]
  BY <1>4 DEF Paths
<1>7. QED
  BY <1>1, <1>4, <1>6

LEMMA ParentLives ==
    ASSUME TypeOK, ParentsLive, NEW q \in DOMAIN run, q # <<>>
    PROVE  \E p \in DOMAIN run, c \in Component : q = Append(p, c)
<1>1. q \in Paths /\ Len(q) \in Nat \ {0}
  BY DEF TypeOK, Paths
<1> DEFINE n == Len(q) - 1
<1>2. n \in 0 .. Len(q) - 1 /\ n \in 0 .. Len(q) /\ n + 1 = Len(q)
  BY <1>1
<1>3. Prefix(q, n) \in DOMAIN run
  BY <1>2 DEF ParentsLive
<1>4. q[n + 1] \in Component /\ Prefix(q, n + 1) = Append(Prefix(q, n), q[n + 1])
  BY <1>1, <1>2, PrefixStep
<1>5. Prefix(q, n + 1) = q
  BY <1>1, <1>2, PrefixWhole
<1>6. QED
  BY <1>3, <1>4, <1>5

LEMMA TopOfMake ==
    ASSUME IInv, NEW p \in DOMAIN run, NEW c \in Component, Append(p, c) \in DOMAIN run
    PROVE  /\ Top(p, c) \in TargetSet
           /\ Top(p, c) \in Component
           /\ <<Top(p, c)>> \in DOMAIN run
           /\ p # <<>> => c \in Tree[Top(p, c)]
<1>1. p \in Paths
  BY DEF IInv, TypeOK, Paths
<1>2. CASE p = <<>>
  <2>1. Append(p, c) = <<c>>
    BY <1>2
  <2>2. QED
    BY <1>2, <2>1 DEF IInv, Children, TreeOf, Top
<1>3. CASE p # <<>>
  <2>1. /\ Len(p) \in Nat \ {0} /\ p[1] \in Component /\ Top(p, c) = p[1]
        /\ Prefix(p, 1) = Append(<<>>, p[1]) /\ Prefix(p, 1) # <<>>
        /\ Len(Prefix(p, 1)) = 1 /\ Prefix(p, 1)[1] = p[1]
    BY <1>1, <1>3, FirstStep DEF Top
  <2>2. 1 \in 0 .. Len(p) /\ 0 \in 0 .. Len(p)
    BY <2>1
  <2>3. Prefix(p, 1) \in DOMAIN run /\ Prefix(p, 0) \in DOMAIN run
    BY <2>2 DEF IInv, ParentsLive
  <2>4. <<>> \in DOMAIN run
    BY <1>1, <2>3, PrefixWhole
  <2>5. p[1] \in TargetSet
    BY <2>1, <2>3, <2>4 DEF IInv, Children, TreeOf
  <2>6. Append(<<>>, p[1]) = <<p[1]>>
    OBVIOUS
  <2>7. TreeOf(Prefix(p, 1)) = Tree[p[1]]
    BY <2>1 DEF TreeOf
  <2>8. CASE Len(p) = 1
    <3>1. TreeOf(p) = Tree[p[1]]
      BY <1>3, <2>8 DEF TreeOf
    <3>2. c \in TreeOf(p)
      BY DEF IInv, Children
    <3>3. QED
      BY <2>1, <2>3, <2>5, <2>6, <3>1, <3>2
  <2>9. CASE Len(p) >= 2
    <3>1. c \in run[Prefix(p, 1)].done
      BY <2>9 DEF IInv, DeepIsDone
    <3>2. c \in TreeOf(Prefix(p, 1))
      BY <2>1, <2>3, <3>1 DEF IInv, DoneIsBuilt
    <3>3. QED
      BY <2>1, <2>3, <2>5, <2>6, <2>7, <3>2
  <2>10. QED
    BY <2>1, <2>8, <2>9, OneOrMore, Zenon
<1>4. QED
  BY <1>2, <1>3, Zenon

LEMMA WorkersAreShallow ==
    ASSUME IInv, NEW p \in DOMAIN run, NEW c \in Component, Working(p, c)
    PROVE  p = <<>> \/ Len(p) = 1
<1> SUFFICES ASSUME p # <<>>, Len(p) # 1 PROVE FALSE
  OBVIOUS
<1>1. p \in Paths /\ Append(p, c) \in DOMAIN run
  BY DEF IInv, TypeOK, Paths, Working
<1>2. Len(p) \in Nat \ {0} /\ Prefix(p, 1) # <<>>
  BY <1>1, FirstStep
<1>3. Len(p) >= 2 /\ 1 \in 0 .. Len(p)
  BY <1>2, OneOrMore, Zenon
<1>4. c \in run[Prefix(p, 1)].done
  BY <1>1, <1>3 DEF IInv, DeepIsDone
<1>5. Prefix(p, 1) \in DOMAIN run
  BY <1>3 DEF IInv, ParentsLive
<1>6. c \in built /\ c \in prepared /\ requiresFile[c] = "complete"
  BY <1>2, <1>4, <1>5 DEF IInv, DoneIsBuilt
<1>7. QED
  BY <1>1, <1>6 DEF IInv, Phases, PhaseOK, Working

\* Two makes in the same component work for the same target.
LEMMA SameTop ==
    ASSUME IInv, Independent, NEW c \in Component,
           NEW p \in DOMAIN run, Append(p, c) \in DOMAIN run,
           NEW q \in DOMAIN run, Append(q, c) \in DOMAIN run
    PROVE  Top(p, c) = Top(q, c)
<1>1. /\ Top(p, c) \in TargetSet /\ Top(p, c) \in Component
      /\ <<Top(p, c)>> \in DOMAIN run
      /\ p # <<>> => c \in Tree[Top(p, c)]
  BY TopOfMake
<1>2. /\ Top(q, c) \in TargetSet /\ Top(q, c) \in Component
      /\ <<Top(q, c)>> \in DOMAIN run
      /\ q # <<>> => c \in Tree[Top(q, c)]
  BY TopOfMake
<1>3. CASE ~Parallel
  BY <1>1, <1>2, <1>3 DEF IInv, OneTarget
<1>4. CASE Parallel
  <2>1. /\ c \in {Top(p, c)} \cup Tree[Top(p, c)]
        /\ c \in {Top(q, c)} \cup Tree[Top(q, c)]
    BY <1>1, <1>2 DEF Top
  <2>2. QED
    BY <1>1, <1>2, <1>4, <2>1 DEF Independent
<1>5. QED
  BY <1>3, <1>4

LEMMA InvExclusive ==
    ASSUME IInv, Independent
    PROVE  Exclusive
<1> SUFFICES ASSUME NEW p \in DOMAIN run, NEW q \in DOMAIN run, NEW c \in Component,
                    Working(p, c), Append(q, c) \in DOMAIN run
             PROVE  p = q
  BY DEF Exclusive
<1>1. p \in Paths /\ q \in Paths /\ Append(p, c) \in DOMAIN run
  BY DEF IInv, TypeOK, Paths, Working
<1>2. Top(p, c) = Top(q, c)
  BY <1>1, SameTop
<1>3. c \notin Tree[c]
  BY TreeAssumption
<1>4. (p # <<>> => c \in Tree[Top(p, c)]) /\ (q # <<>> => c \in Tree[Top(q, c)])
  BY <1>1, TopOfMake
<1>5. p = <<>> \/ Len(p) = 1
  BY WorkersAreShallow
<1>6. CASE p = <<>>
  BY <1>2, <1>3, <1>4, <1>6 DEF Top
<1>7. CASE p # <<>>
  <2>1. /\ Len(p) = 1 /\ Prefix(p, 1) = Append(<<>>, p[1]) /\ Prefix(p, 1) # <<>>
    BY <1>1, <1>5, <1>7, FirstStep
  <2>2. p = Prefix(p, 1)
    BY <1>1, <2>1, PrefixWhole
  <2>3. q # <<>>
    BY <1>2, <1>3, <1>4, <1>7 DEF Top
  <2>4. /\ Len(q) \in Nat \ {0} /\ q[1] = p[1]
        /\ Prefix(q, 1) = Append(<<>>, q[1])
    BY <1>1, <1>2, <1>7, <2>3, FirstStep DEF Top
  <2>5. Prefix(q, 1) = p
    BY <2>1, <2>2, <2>4
  <2>6. c \notin run[p].done
    BY <1>1 DEF IInv, Children
  <2>7. CASE Len(q) = 1
    BY <1>1, <2>5, <2>7, PrefixWhole
  <2>8. CASE Len(q) >= 2
    BY <2>5, <2>6, <2>8 DEF IInv, DeepIsDone
  <2>9. QED
    BY <2>4, <2>7, <2>8, OneOrMore, Zenon
<1>8. QED
  BY <1>6, <1>7

LEMMA InvProperties ==
    ASSUME IInv
    PROVE  TreeBuiltFirst /\ DeepMakesIdle /\ SuccessIsComplete
<1>1. TreeBuiltFirst
  BY DEF IInv, Phases, PhaseOK, TreeBuiltFirst
<1>2. DeepMakesIdle
  <2> SUFFICES ASSUME NEW p \in DOMAIN run, NEW c \in Component, Working(p, c)
               PROVE  Len(p) <= 1
    BY DEF DeepMakesIdle
  <2>1. p = <<>> \/ Len(p) = 1
    BY WorkersAreShallow
  <2>2. Len(<<>>) = 0
    OBVIOUS
  <2>3. Len(p) = 0 \/ Len(p) = 1
    BY <2>1, <2>2, Zenon
  <2>4. \A n : n = 0 \/ n = 1 => n <= 1
    OBVIOUS
  <2>5. QED
    BY <2>3, <2>4, Zenon
<1>3. SuccessIsComplete
  BY DEF IInv, TopProcess, SuccessIsComplete
<1>4. QED
  BY <1>1, <1>2, <1>3

-----------------------------------------------------------------------------
(* Steps of a sub-make that keep the processes and what they have made *)

\* p.c goes from run[p.c] to run'[p.c]; the files of no other component change,
\* and those of c only if p.c is the one that works on them.
SubMakeStep(p, c) ==
    LET x == Append(p, c) IN
    /\ DOMAIN run' = DOMAIN run
    /\ \A q \in DOMAIN run : q # x => run'[q] = run[q]
    /\ run'[x].done = run[x].done
    /\ Childless(x) \/ run'[x].phase \in {"tree", "failed"}
    /\ goal' = goal
    /\ \A d \in Component : d # c => /\ requiresFile'[d] = requiresFile[d]
                                     /\ d \in built' <=> d \in built
                                     /\ d \in prepared' <=> d \in prepared
    /\ \/ Working(p, c)
       \/ UNCHANGED <<requiresFile, built, prepared>>
    /\ built \subseteq built' /\ prepared \subseteq prepared'
    /\ built' \subseteq prepared'
    /\ requiresFile[c] = "complete" => requiresFile'[c] = "complete"

LEMMA SubMakeStepKeepsInv ==
    ASSUME IInv, Exclusive, TypeOK',
           NEW p \in DOMAIN run, NEW c \in Component, Append(p, c) \in DOMAIN run,
           SubMakeStep(p, c), PhaseOK(p, c)'
    PROVE  IInv'
<1> DEFINE x == Append(p, c)
<1>0. /\ DOMAIN run \subseteq Paths
      /\ x # <<>>
      /\ DOMAIN run' = DOMAIN run
      /\ \A q \in DOMAIN run : run'[q].done = run[q].done
  BY ExtendPath DEF IInv, TypeOK, Paths, SubMakeStep
<1>1. ParentsLive'
  BY <1>0 DEF IInv, ParentsLive, Prefix
<1>2. TopProcess'
  BY <1>0 DEF IInv, TopProcess, SubMakeStep
<1>3. Children'
  <2> SUFFICES ASSUME NEW q \in DOMAIN run, NEW d \in Component,
                      Append(q, d) \in DOMAIN run
               PROVE  /\ run'[q].phase \in {"tree", "failed"}
                      /\ d \in TreeOf(q) \ run'[q].done
                      /\ q # <<>> => goal' = "all" /\ Tree[d] \subseteq run'[q].done
    BY <1>0 DEF Children, TreeOf
  <2>1. /\ run[q].phase \in {"tree", "failed"}
        /\ d \in TreeOf(q) \ run[q].done
        /\ q # <<>> => goal = "all" /\ Tree[d] \subseteq run[q].done
    BY DEF IInv, Children
  <2>2. run'[q].phase \in {"tree", "failed"}
    BY <2>1 DEF SubMakeStep, Childless
  <2>3. QED
    BY <1>0, <2>1, <2>2 DEF SubMakeStep
<1>4. DoneIsBuilt'
  <2> SUFFICES ASSUME NEW q \in DOMAIN run, q # <<>>, NEW d \in run[q].done
               PROVE  /\ d \in TreeOf(q)
                      /\ Tree[d] \subseteq run[q].done
                      /\ d \in built'
                      /\ requiresFile'[d] = "complete"
    BY <1>0 DEF DoneIsBuilt, TreeOf
  <2>1. d \in Component
    BY DEF IInv, TypeOK
  <2>2. /\ d \in TreeOf(q) /\ Tree[d] \subseteq run[q].done
        /\ d \in built /\ requiresFile[d] = "complete"
    BY DEF IInv, DoneIsBuilt
  <2>3. QED
    BY <2>1, <2>2 DEF SubMakeStep
<1>5. DeepIsDone'
  <2> SUFFICES ASSUME NEW q \in DOMAIN run, NEW d \in Component,
                      Append(q, d) \in DOMAIN run, Len(q) >= 2
               PROVE  d \in run'[Prefix(q, 1)].done
    BY <1>0 DEF DeepIsDone, Prefix
  <2>1. d \in run[Prefix(q, 1)].done
    BY DEF IInv, DeepIsDone
  <2>2. Len(q) \in Nat
    BY <1>0 DEF Paths
  <2>3. Prefix(q, 1) \in DOMAIN run
    BY <2>2 DEF IInv, ParentsLive
  <2>4. QED
    BY <1>0, <2>1, <2>3
<1>6. Phases'
  <2> SUFFICES ASSUME NEW q \in DOMAIN run, NEW d \in Component,
                      Append(q, d) \in DOMAIN run
               PROVE  PhaseOK(q, d)'
    BY <1>0 DEF Phases
  <2>1. CASE q = p /\ d = c
    BY <2>1
  <2>2. CASE q # p \/ d # c
    <3>1. Append(q, d) # x
      BY <1>0, <2>2, ExtendInjective
    <3>2. run'[Append(q, d)] = run[Append(q, d)]
      BY <3>1 DEF SubMakeStep
    <3>3. /\ requiresFile'[d] = requiresFile[d]
          /\ d \in built' <=> d \in built
          /\ d \in prepared' <=> d \in prepared
      <4>1. CASE d # c
        BY <4>1 DEF SubMakeStep
      <4>2. CASE d = c
        <5>1. ~Working(p, c)
          BY <2>2, <4>2 DEF Exclusive
        <5>2. QED
          BY <5>1 DEF SubMakeStep
      <4>3. QED
        BY <4>1, <4>2
    <3>4. built \subseteq built' /\ goal' = goal
      BY DEF SubMakeStep
    <3>5. PhaseOK(q, d)
      BY DEF IInv, Phases
    <3>6. QED
      BY <3>2, <3>3, <3>4, <3>5 DEF PhaseOK
  <2>3. QED
    BY <2>1, <2>2
<1>7. OneTarget'
  BY <1>0 DEF IInv, OneTarget
<1>8. QED
  BY <1>1, <1>2, <1>3, <1>4, <1>5, <1>6, <1>7 DEF IInv, SubMakeStep

\* What PhaseOK and Childless say of a process, for the steps below.
LEMMA MakeFacts ==
    ASSUME IInv, NEW p \in DOMAIN run, NEW c \in Component, Append(p, c) \in DOMAIN run
    PROVE  /\ PhaseOK(p, c)
           /\ run[Append(p, c)] \in [phase : Phase, done : SUBSET Component,
                                     sources : {"idle", "running", "failed"}]
           /\ run[Append(p, c)].phase \in {"tree", "failed"} \/ Childless(Append(p, c))
           /\ TreeOf(Append(p, c)) = Tree[c]
           /\ run[Append(p, c)].done \subseteq built
<1>1. p \in Paths /\ Len(p) \in Nat
  BY DEF IInv, TypeOK, Paths
<1>2. /\ Append(p, c) # <<>> /\ Len(Append(p, c)) = Len(p) + 1
      /\ Append(p, c)[Len(p) + 1] = c
  BY <1>1, ExtendPath
<1>3. TreeOf(Append(p, c)) = Tree[c]
  BY <1>2 DEF TreeOf
<1>4. QED
  BY <1>2, <1>3 DEF IInv, TypeOK, Phases, Children, Childless, DoneIsBuilt

\* One lemma for the ten steps that SubMakeStep describes.
LEMMA SubMakeInv ==
    ASSUME IInv, Exclusive,
           NEW p \in DOMAIN run, NEW c \in Component, Append(p, c) \in DOMAIN run,
           \/ Enter(p, c) \/ Generate(p, c) \/ GenerateFails(p, c) \/ EndTree(p, c)
           \/ StartPrepare(p, c) \/ EndPrepare(p, c) \/ FailPrepare(p, c)
           \/ StartBuild(p, c) \/ EndBuild(p, c) \/ FailBuild(p, c)
    PROVE  IInv'
<1> DEFINE x == Append(p, c)
<1>1. /\ PhaseOK(p, c)
      /\ run[x] \in [phase : Phase, done : SUBSET Component,
                     sources : {"idle", "running", "failed"}]
      /\ run[x].phase \in {"tree", "failed"} \/ Childless(x)
      /\ TreeOf(x) = Tree[c]
      /\ run[x].done \subseteq built
  BY MakeFacts
<1>2. TypeOK /\ built \subseteq prepared /\ goal \in {"all", "local_all"}
  BY ConstantAssumption DEF IInv, TypeOK
<1>3. failures < MaxFailures => failures + 1 \in 0 .. MaxFailures
  BY ConstantAssumption, <1>2 DEF TypeOK
<1> USE DEF SetPhase, AfterRequires, Phase
<1>4. CASE Enter(p, c)
  <2>1. TypeOK'
    BY <1>1, <1>2, <1>4 DEF Enter, TypeOK
  <2>2. SubMakeStep(p, c)
    BY <1>1, <1>2, <1>4 DEF Enter, SubMakeStep, TypeOK
  <2>3. PhaseOK(p, c)'
    BY <1>1, <1>2, <1>4 DEF Enter, PhaseOK, TypeOK
  <2>4. QED
    BY <2>1, <2>2, <2>3, SubMakeStepKeepsInv
<1>5. CASE Generate(p, c)
  <2>1. TypeOK'
    BY <1>1, <1>2, <1>5 DEF Generate, TypeOK
  <2>2. SubMakeStep(p, c)
    BY <1>1, <1>2, <1>5 DEF Generate, SubMakeStep, TypeOK, Working, PhaseOK
  <2>3. PhaseOK(p, c)'
    BY <1>1, <1>2, <1>5 DEF Generate, PhaseOK, TypeOK
  <2>4. QED
    BY <2>1, <2>2, <2>3, SubMakeStepKeepsInv
<1>6. CASE GenerateFails(p, c)
  <2>1. TypeOK'
    BY <1>1, <1>2, <1>3, <1>6 DEF GenerateFails, TypeOK
  <2>2. SubMakeStep(p, c)
    BY <1>1, <1>2, <1>6 DEF GenerateFails, SubMakeStep, TypeOK, Working, PhaseOK
  <2>3. PhaseOK(p, c)'
    BY <1>1, <1>2, <1>6 DEF GenerateFails, PhaseOK, TypeOK
  <2>4. QED
    BY <2>1, <2>2, <2>3, SubMakeStepKeepsInv
<1>7. CASE EndTree(p, c)
  <2>0. Childless(x)
    BY <1>1, <1>7 DEF EndTree, IInv, Children, Childless
  <2>1. TypeOK'
    BY <1>1, <1>2, <1>7 DEF EndTree, TypeOK
  <2>2. SubMakeStep(p, c)
    BY <1>1, <1>2, <1>7, <2>0 DEF EndTree, SubMakeStep, TypeOK
  <2>3. PhaseOK(p, c)'
    BY <1>1, <1>2, <1>7 DEF EndTree, PhaseOK, TypeOK
  <2>4. QED
    BY <2>1, <2>2, <2>3, SubMakeStepKeepsInv
<1>8. CASE StartPrepare(p, c)
  <2>1. TypeOK'
    BY <1>1, <1>2, <1>8 DEF StartPrepare, TypeOK
  <2>2. SubMakeStep(p, c)
    BY <1>1, <1>2, <1>8 DEF StartPrepare, SubMakeStep, TypeOK
  <2>3. PhaseOK(p, c)'
    BY <1>1, <1>2, <1>8 DEF StartPrepare, PhaseOK, TypeOK
  <2>4. QED
    BY <2>1, <2>2, <2>3, SubMakeStepKeepsInv
<1>9. CASE EndPrepare(p, c)
  <2>1. TypeOK'
    BY <1>1, <1>2, <1>9 DEF EndPrepare, TypeOK
  <2>2. SubMakeStep(p, c)
    BY <1>1, <1>2, <1>9 DEF EndPrepare, SubMakeStep, TypeOK, Working
  <2>3. PhaseOK(p, c)'
    BY <1>1, <1>2, <1>9 DEF EndPrepare, PhaseOK, TypeOK
  <2>4. QED
    BY <2>1, <2>2, <2>3, SubMakeStepKeepsInv
<1>10. CASE FailPrepare(p, c)
  <2>1. TypeOK'
    BY <1>1, <1>2, <1>3, <1>10 DEF FailPrepare, TypeOK
  <2>2. SubMakeStep(p, c)
    BY <1>1, <1>2, <1>10 DEF FailPrepare, SubMakeStep, TypeOK
  <2>3. PhaseOK(p, c)'
    BY <1>1, <1>2, <1>10 DEF FailPrepare, PhaseOK, TypeOK
  <2>4. QED
    BY <2>1, <2>2, <2>3, SubMakeStepKeepsInv
<1>11. CASE StartBuild(p, c)
  <2>1. TypeOK'
    BY <1>1, <1>2, <1>11 DEF StartBuild, TypeOK
  <2>2. SubMakeStep(p, c)
    BY <1>1, <1>2, <1>11 DEF StartBuild, SubMakeStep, TypeOK
  <2>3. PhaseOK(p, c)'
    BY <1>1, <1>2, <1>11 DEF StartBuild, PhaseOK, TypeOK
  <2>4. QED
    BY <2>1, <2>2, <2>3, SubMakeStepKeepsInv
<1>12. CASE EndBuild(p, c)
  <2>1. TypeOK'
    BY <1>1, <1>2, <1>12 DEF EndBuild, TypeOK
  <2>2. SubMakeStep(p, c)
    BY <1>1, <1>2, <1>12 DEF EndBuild, SubMakeStep, TypeOK, Working, PhaseOK
  <2>3. PhaseOK(p, c)'
    BY <1>1, <1>2, <1>12 DEF EndBuild, PhaseOK, TypeOK
  <2>4. QED
    BY <2>1, <2>2, <2>3, SubMakeStepKeepsInv
<1>13. CASE FailBuild(p, c)
  <2>1. TypeOK'
    BY <1>1, <1>2, <1>3, <1>13 DEF FailBuild, TypeOK
  <2>2. SubMakeStep(p, c)
    BY <1>1, <1>2, <1>13 DEF FailBuild, SubMakeStep, TypeOK
  <2>3. PhaseOK(p, c)'
    BY <1>1, <1>2, <1>13 DEF FailBuild, PhaseOK, TypeOK
  <2>4. QED
    BY <2>1, <2>2, <2>3, SubMakeStepKeepsInv
<1>14. QED
  BY <1>4, <1>5, <1>6, <1>7, <1>8, <1>9, <1>10, <1>11, <1>12, <1>13

-----------------------------------------------------------------------------
(* The steps that start and end processes *)

LEMMA StartMakeInv ==
    ASSUME IInv, NEW p \in DOMAIN run, NEW c \in Component, StartMake(p, c)
    PROVE  IInv'
<1> DEFINE x == Append(p, c)
<1>1. /\ p \in Paths /\ Len(p) \in Nat /\ DOMAIN run \subseteq Paths
      /\ x \in Paths /\ x # <<>> /\ x # p /\ Len(x) = Len(p) + 1
      /\ x[Len(p) + 1] = c
  <2>1. p \in Paths /\ Len(p) \in Nat /\ DOMAIN run \subseteq Paths
    BY DEF IInv, TypeOK, Paths
  <2>2. QED
    BY <2>1, ExtendPath
<1>2. /\ DOMAIN run' = DOMAIN run \cup {x}
      /\ x \notin DOMAIN run
      /\ run'[x] = Process("enter")
      /\ \A q \in DOMAIN run : run'[q] = run[q]
      /\ UNCHANGED <<goal, requiresFile, prepared, built>>
  BY DEF StartMake, MayStart, Started
<1>3. \A d \in Component : Append(x, d) \notin DOMAIN run'
  <2> SUFFICES ASSUME NEW d \in Component, Append(x, d) \in DOMAIN run' PROVE FALSE
    OBVIOUS
  <2>1. Append(x, d) # x /\ Append(x, d) \in DOMAIN run
    BY <1>1, <1>2, ExtendPath
  <2>2. Len(x) \in 0 .. Len(Append(x, d)) /\ Len(x) \in 0 .. Len(x)
    BY <1>1, ExtendPath
  <2>3. Prefix(Append(x, d), Len(x)) = x
    BY <1>1, <2>2, PrefixOfExtension, PrefixWhole
  <2>4. QED
    BY <1>2, <2>1, <2>2, <2>3 DEF IInv, ParentsLive
<1>4. TypeOK'
  BY <1>1, <1>2 DEF IInv, TypeOK, StartMake, Process, Phase, Paths
<1>5. ParentsLive'
  <2> SUFFICES ASSUME NEW q \in DOMAIN run', NEW n \in 0 .. Len(q)
               PROVE  Prefix(q, n) \in DOMAIN run'
    BY DEF ParentsLive, Prefix
  <2>1. CASE q \in DOMAIN run
    BY <1>2, <2>1 DEF IInv, ParentsLive
  <2>2. CASE q = x /\ n \in 0 .. Len(p)
    <3>1. Prefix(q, n) = Prefix(p, n)
      BY <1>1, <2>2, PrefixOfExtension
    <3>2. QED
      BY <1>2, <2>2, <3>1 DEF IInv, ParentsLive
  <2>3. CASE q = x /\ n = Len(x)
    BY <1>1, <1>2, <2>3, PrefixWhole
  <2>4. n \in 0 .. Len(p) \/ n = Len(x) \/ q # x
    BY <1>1
  <2>5. QED
    BY <1>2, <2>1, <2>2, <2>3, <2>4
<1>6. TopProcess'
  BY <1>1, <1>2 DEF IInv, TopProcess
<1>7. p # <<>> => goal = "all" /\ Tree[c] \subseteq run[p].done
  <2> SUFFICES ASSUME p # <<>> PROVE goal = "all" /\ Tree[c] \subseteq run[p].done
    OBVIOUS
  <2>1. PICK q \in DOMAIN run, b \in Component : p = Append(q, b)
    BY ParentLives DEF IInv
  <2>2. goal = "all"
    <3>1. run[p].phase = "tree"
      BY DEF StartMake, MayStart
    <3>2. PhaseOK(q, b)
      BY <2>1 DEF IInv, Phases
    <3>3. QED
      BY <2>1, <3>1, <3>2 DEF PhaseOK, IInv, TypeOK
  <2>3. Requires[c] \subseteq run[p].done
    BY DEF StartMake, MayStart, Prerequisites
  <2>4. \A d \in run[p].done : Tree[d] \subseteq run[p].done
    BY DEF IInv, DoneIsBuilt
  <2>5. IsTree(Requires, c, Tree[c]) /\ \A d \in Component : Requires[d] \subseteq Tree[d]
    BY TreeAssumption DEF IsTree, Reachable
  <2>6. run[p].done \in SUBSET DOMAIN Requires /\ Closed(Requires, run[p].done)
    BY <2>4, <2>5, ConstantAssumption DEF Closed, IInv, TypeOK
  <2>7. QED
    BY <2>2, <2>3, <2>5, <2>6 DEF IsTree, Reachable
<1>8. Children'
  <2> SUFFICES ASSUME NEW q \in DOMAIN run', NEW d \in Component,
                      Append(q, d) \in DOMAIN run'
               PROVE  /\ run'[q].phase \in {"tree", "failed"}
                      /\ d \in TreeOf(q) \ run'[q].done
                      /\ q # <<>> => goal' = "all" /\ Tree[d] \subseteq run'[q].done
    BY DEF Children, TreeOf
  <2>1. q \in DOMAIN run /\ run'[q] = run[q] /\ q \in Paths
    BY <1>1, <1>2, <1>3
  <2>2. CASE Append(q, d) \in DOMAIN run
    BY <1>2, <2>1, <2>2 DEF IInv, Children
  <2>3. CASE Append(q, d) = x
    <3>1. q = p /\ d = c
      BY <1>1, <2>1, <2>3, ExtendInjective
    <3>2. run[p].phase = "tree" /\ c \in TreeOf(p) \ run[p].done
      BY DEF StartMake, MayStart, Started
    <3>3. QED
      BY <1>2, <1>7, <2>1, <3>1, <3>2
  <2>4. QED
    BY <1>2, <2>2, <2>3
<1>9. DoneIsBuilt'
  <2>1. run'[x].done = {}
    BY <1>2 DEF Process
  <2>2. QED
    BY <1>2, <2>1 DEF IInv, DoneIsBuilt, TreeOf
<1>10. Len(p) >= 2 => c \in run[Prefix(p, 1)].done
  <2> SUFFICES ASSUME Len(p) >= 2 PROVE c \in run[Prefix(p, 1)].done
    OBVIOUS
  <2>1. p # <<>>
    BY <1>1, PrefixWhole
  <2>2. PICK q \in DOMAIN run, b \in Component : p = Append(q, b)
    BY <2>1, ParentLives DEF IInv
  <2>3. q \in Paths /\ Len(q) \in Nat /\ Len(p) = Len(q) + 1
    BY <1>1, <2>2, ExtendPath DEF Paths
  <2>4. Len(q) \in Nat \ {0} /\ 1 \in 0 .. Len(q)
    BY <2>3
  <2>5. Prefix(p, 1) = Prefix(q, 1)
    BY <2>2, <2>3, <2>4, PrefixOfExtension
  <2>6. c \in Tree[b]
    BY <2>1, <2>2, MakeFacts DEF StartMake, MayStart
  <2>7. CASE Len(q) = 1
    <3>1. Prefix(q, 1) = q /\ q # <<>>
      BY <2>3, <2>7, PrefixWhole
    <3>2. Tree[b] \subseteq run[q].done
      BY <2>2, <3>1 DEF IInv, Children
    <3>3. QED
      BY <2>5, <2>6, <3>1, <3>2
  <2>8. CASE Len(q) >= 2
    <3>1. b \in run[Prefix(q, 1)].done
      BY <2>2, <2>8 DEF IInv, DeepIsDone
    <3>2. Prefix(q, 1) \in DOMAIN run
      BY <2>4 DEF IInv, ParentsLive
    <3>3. q # <<>>
      BY <2>4
    <3>4. Prefix(q, 1) # <<>>
      BY <2>3, <3>3, FirstStep
    <3>5. Tree[b] \subseteq run[Prefix(q, 1)].done
      BY <3>1, <3>2, <3>4 DEF IInv, DoneIsBuilt
    <3>6. QED
      BY <2>5, <2>6, <3>5
  <2>9. QED
    BY <2>4, <2>7, <2>8, OneOrMore, Zenon
<1>11. DeepIsDone'
  <2> SUFFICES ASSUME NEW q \in DOMAIN run', NEW d \in Component,
                      Append(q, d) \in DOMAIN run', Len(q) >= 2
               PROVE  d \in run'[Prefix(q, 1)].done
    BY DEF DeepIsDone, Prefix
  <2>0. q \in DOMAIN run /\ q \in Paths
    BY <1>1, <1>2, <1>3
  <2>1. q \in DOMAIN run /\ q \in Paths /\ Len(q) \in Nat
    BY <2>0 DEF Paths
  <2>2. Prefix(q, 1) \in DOMAIN run
    BY <2>1 DEF IInv, ParentsLive
  <2>3. CASE Append(q, d) \in DOMAIN run
    BY <1>2, <2>1, <2>2, <2>3 DEF IInv, DeepIsDone
  <2>4. CASE Append(q, d) = x
    <3>1. q = p /\ d = c
      BY <1>1, <2>1, <2>4, ExtendInjective
    <3>2. QED
      BY <1>2, <1>10, <2>2, <3>1
  <2>5. QED
    BY <1>2, <2>3, <2>4
<1>12. Phases'
  <2> SUFFICES ASSUME NEW q \in DOMAIN run', NEW d \in Component,
                      Append(q, d) \in DOMAIN run'
               PROVE  PhaseOK(q, d)'
    BY DEF Phases
  <2>1. q \in DOMAIN run
    BY <1>2, <1>3
  <2>2. CASE Append(q, d) \in DOMAIN run
    <3>1. PhaseOK(q, d)
      BY <2>1, <2>2 DEF IInv, Phases
    <3>2. QED
      BY <1>2, <2>2, <3>1 DEF PhaseOK
  <2>3. CASE Append(q, d) = x
    BY <1>2, <2>3 DEF PhaseOK, Process
  <2>4. QED
    BY <1>2, <2>2, <2>3
<1>13. OneTarget'
  <2> SUFFICES ASSUME ~Parallel, NEW s \in Component, NEW t \in Component,
                      <<s>> \in DOMAIN run', <<t>> \in DOMAIN run'
               PROVE  s = t
    BY DEF OneTarget
  <2>1. /\ <<s>> = Append(<<>>, s) /\ <<t>> = Append(<<>>, t) /\ <<>> \in Paths
    BY DEF Paths
  <2>2. CASE p = <<>>
    <3>1. Childless(<<>>)
      BY <2>2 DEF StartMake, MayStart, Overlaps
    <3>2. <<s>> = x /\ <<t>> = x
      BY <1>2, <2>1, <3>1 DEF Childless
    <3>3. QED
      BY <1>1, <2>1, <3>2, ExtendInjective
  <2>3. CASE p # <<>>
    <3>1. <<s>> # x /\ <<t>> # x
      BY <1>1, <2>1, <2>3, ExtendInjective
    <3>2. QED
      BY <1>2, <3>1 DEF IInv, OneTarget
  <2>4. QED
    BY <2>2, <2>3
<1>14. built' \subseteq prepared'
  BY <1>2 DEF IInv
<1>15. QED
  BY <1>4, <1>5, <1>6, <1>8, <1>9, <1>11, <1>12, <1>13, <1>14 DEF IInv

LEMMA ReapInv ==
    ASSUME IInv, NEW p \in DOMAIN run, NEW c \in Component, Append(p, c) \in DOMAIN run,
           Return(p, c) \/ ReturnFailure(p, c)
    PROVE  IInv'
<1> DEFINE x == Append(p, c)
<1>1. /\ p \in Paths /\ Len(p) \in Nat /\ DOMAIN run \subseteq Paths
      /\ x \in Paths /\ x # <<>> /\ x # p /\ Len(x) = Len(p) + 1
  <2>1. p \in Paths /\ Len(p) \in Nat /\ DOMAIN run \subseteq Paths
    BY DEF IInv, TypeOK, Paths
  <2>2. QED
    BY <2>1, ExtendPath
<1>2. Childless(x) /\ PhaseOK(p, c)
  BY MakeFacts DEF Return, ReturnFailure
<1>3. /\ run[p].phase \in {"tree", "failed"} /\ c \in TreeOf(p) \ run[p].done
      /\ p # <<>> => goal = "all" /\ Tree[c] \subseteq run[p].done
  BY DEF IInv, Children
<1>4. run[p] \in [phase : Phase, done : SUBSET Component,
                  sources : {"idle", "running", "failed"}]
  BY DEF IInv, TypeOK
<1>5. /\ DOMAIN run' = DOMAIN run \ {x}
      /\ p \in DOMAIN run'
      /\ \A q \in DOMAIN run' : q # p => run'[q] = run[q]
      /\ UNCHANGED <<goal, requiresFile, prepared, built>>
  BY <1>1 DEF Return, ReturnFailure, Reap
<1>6. /\ run'[p].phase \in {run[p].phase, "failed"}
      /\ run'[p].sources = run[p].sources
      /\ run'[p] \in [phase : Phase, done : SUBSET Component,
                      sources : {"idle", "running", "failed"}]
      /\ \/ run'[p].done = run[p].done
         \/ /\ run'[p].done = run[p].done \cup {c}
            /\ c \in built
            /\ goal = "all" => Tree[c] \subseteq built /\ requiresFile[c] = "complete"
  <2>1. CASE Return(p, c)
    BY <1>1, <1>2, <1>4, <2>1 DEF Return, Reap, PhaseOK
  <2>2. CASE ReturnFailure(p, c)
    BY <1>1, <1>4, <2>2 DEF ReturnFailure, Reap, Phase
  <2>3. QED
    BY <2>1, <2>2
<1>7. TypeOK'
  <2>1. run' = [q \in DOMAIN run' |-> run'[q]]
    BY DEF Return, ReturnFailure, Reap
  <2>2. ASSUME NEW q \in DOMAIN run'
        PROVE  run'[q] \in [phase : Phase, done : SUBSET Component,
                            sources : {"idle", "running", "failed"}]
    <3>1. CASE q = p
      BY <1>6, <3>1
    <3>2. CASE q # p
      <4>1. q \in DOMAIN run /\ run'[q] = run[q]
        BY <1>5, <3>2
      <4>2. QED
        BY <4>1 DEF IInv, TypeOK
    <3>3. QED
      BY <3>1, <3>2
  <2>3. QED
    BY <1>5, <2>1, <2>2 DEF IInv, TypeOK, Return, ReturnFailure
<1>8. ParentsLive'
  <2> SUFFICES ASSUME NEW q \in DOMAIN run', NEW n \in 0 .. Len(q)
               PROVE  Prefix(q, n) \in DOMAIN run'
    BY DEF ParentsLive, Prefix
  <2>1. q \in Paths /\ Prefix(q, n) \in DOMAIN run
    BY <1>1, <1>5 DEF IInv, ParentsLive
  <2>2. Len(q) \in Nat
    BY <2>1 DEF Paths
  <2>3. ASSUME Prefix(q, n) = x PROVE FALSE
    <3>1. n # Len(q)
      BY <1>5, <2>1, <2>3, PrefixWhole
    <3>2. n \in 0 .. Len(q) - 1 /\ n + 1 \in 0 .. Len(q)
      BY <2>2, <3>1
    <3>3. q[n + 1] \in Component /\ Prefix(q, n + 1) = Append(x, q[n + 1])
      BY <2>1, <2>3, <3>2, PrefixStep
    <3>4. Prefix(q, n + 1) \in DOMAIN run
      BY <1>5, <3>2 DEF IInv, ParentsLive
    <3>5. QED
      BY <1>2, <3>3, <3>4 DEF Childless
  <2>4. QED
    BY <1>5, <2>1, <2>3
<1>9. TopProcess'
  BY <1>3, <1>5, <1>6 DEF IInv, TopProcess, TreeOf
<1>10. Children'
  <2> SUFFICES ASSUME NEW q \in DOMAIN run', NEW d \in Component,
                      Append(q, d) \in DOMAIN run'
               PROVE  /\ run'[q].phase \in {"tree", "failed"}
                      /\ d \in TreeOf(q) \ run'[q].done
                      /\ q # <<>> => goal' = "all" /\ Tree[d] \subseteq run'[q].done
    BY DEF Children, TreeOf
  <2>1. /\ run[q].phase \in {"tree", "failed"}
        /\ d \in TreeOf(q) \ run[q].done
        /\ q # <<>> => goal = "all" /\ Tree[d] \subseteq run[q].done
    BY <1>5 DEF IInv, Children
  <2>2. CASE q = p
    BY <1>5, <1>6, <2>1, <2>2
  <2>3. CASE q # p
    BY <1>5, <2>1, <2>3
  <2>4. QED
    BY <2>2, <2>3
<1>11. DoneIsBuilt'
  <2> SUFFICES ASSUME NEW q \in DOMAIN run', q # <<>>, NEW d \in run'[q].done
               PROVE  /\ d \in TreeOf(q)
                      /\ Tree[d] \subseteq run'[q].done
                      /\ d \in built
                      /\ requiresFile[d] = "complete"
    BY <1>5 DEF DoneIsBuilt, TreeOf
  <2>1. run[q].done \subseteq run'[q].done
    BY <1>5, <1>6
  <2>2. CASE d \in run[q].done
    BY <1>5, <2>1, <2>2 DEF IInv, DoneIsBuilt
  <2>3. CASE d \notin run[q].done
    <3>1. q = p /\ d = c
      BY <1>5, <1>6, <2>3
    <3>2. QED
      BY <1>3, <1>6, <2>1, <2>3, <3>1
  <2>4. QED
    BY <2>2, <2>3
<1>12. DeepIsDone'
  <2> SUFFICES ASSUME NEW q \in DOMAIN run', NEW d \in Component,
                      Append(q, d) \in DOMAIN run', Len(q) >= 2
               PROVE  d \in run'[Prefix(q, 1)].done
    BY DEF DeepIsDone, Prefix
  <2>1. d \in run[Prefix(q, 1)].done
    BY <1>5 DEF IInv, DeepIsDone
  <2>2. Len(q) \in Nat
    BY <1>1, <1>5 DEF Paths
  <2>3. \A n \in 0 .. Len(q) : Prefix(q, n) \in DOMAIN run'
    BY <1>8 DEF ParentsLive, Prefix
  <2>4. Prefix(q, 1) \in DOMAIN run'
    BY <2>2, <2>3
  <2>5. QED
    BY <1>5, <1>6, <2>1, <2>4
<1>13. Phases'
  <2> SUFFICES ASSUME NEW q \in DOMAIN run', NEW d \in Component,
                      Append(q, d) \in DOMAIN run'
               PROVE  PhaseOK(q, d)'
    BY DEF Phases
  <2>1. PhaseOK(q, d)
    BY <1>5 DEF IInv, Phases
  <2>2. /\ run'[Append(q, d)].phase \in {run[Append(q, d)].phase, "failed"}
        /\ run'[Append(q, d)].sources = run[Append(q, d)].sources
    BY <1>5, <1>6
  <2>3. QED
    BY <1>5, <2>1, <2>2 DEF PhaseOK
<1>14. OneTarget'
  BY <1>5 DEF IInv, OneTarget
<1>15. built' \subseteq prepared'
  BY <1>5 DEF IInv
<1>16. QED
  BY <1>7, <1>8, <1>9, <1>10, <1>11, <1>12, <1>13, <1>14, <1>15 DEF IInv

-----------------------------------------------------------------------------
(* The user's steps *)

LEMMA NoProcessInv ==
    ASSUME TypeOK', DOMAIN run' = {}, built' \subseteq prepared'
    PROVE  IInv'
BY DEF IInv, ParentsLive, TopProcess, Children, DoneIsBuilt, DeepIsDone, Phases,
       OneTarget

LEMMA InitInv == Init => IInv
<1> SUFFICES ASSUME Init PROVE IInv
  OBVIOUS
<1>1. TypeOK
  BY ConstantAssumption DEF Init, TypeOK
<1>2. DOMAIN run = {} /\ built \subseteq prepared
  BY DEF Init
<1>3. QED
  BY <1>1, <1>2 DEF IInv, ParentsLive, TopProcess, Children, DoneIsBuilt, DeepIsDone,
                    Phases, OneTarget

LEMMA InvokeInv ==
    ASSUME IInv, NEW g \in Goals, Invoke(g)
    PROVE  IInv'
<1>1. /\ DOMAIN run' = {<<>>}
      /\ run'[<<>>] = Process("tree")
      /\ UNCHANGED <<requiresFile, prepared, built>>
  BY DEF Invoke
<1>2. \A c \in Component : Append(<<>>, c) \notin DOMAIN run' /\ <<c>> \notin DOMAIN run'
  BY <1>1, ExtendPath DEF Paths
<1>3. TypeOK'
  BY <1>1, ConstantAssumption DEF IInv, TypeOK, Invoke, Process, Phase
<1>4. ParentsLive'
  <2>1. Len(<<>>) = 0 /\ <<>> \in Paths
    BY DEF Paths
  <2>2. \A n \in 0 .. 0 : n = 0
    OBVIOUS
  <2>3. Prefix(<<>>, 0) = <<>>
    BY <2>1, PrefixWhole
  <2>4. QED
    BY <1>1, <2>1, <2>2, <2>3 DEF ParentsLive, Prefix
<1>5. TopProcess'
  BY <1>1 DEF TopProcess, Process
<1>6. Children' /\ DeepIsDone' /\ Phases'
  BY <1>1, <1>2 DEF Children, DeepIsDone, Phases
<1>7. DoneIsBuilt'
  BY <1>1 DEF DoneIsBuilt
<1>8. OneTarget'
  BY <1>1, <1>2 DEF OneTarget
<1>9. QED
  BY <1>1, <1>3, <1>4, <1>5, <1>6, <1>7, <1>8 DEF IInv

LEMMA UserStepInv ==
    ASSUME IInv,
           \/ EndInvocation
           \/ \E left \in {"none", "partial"} : Crash(left)
           \/ \E c \in Component : LocalClean(Dir[c])
    PROVE  IInv'
<1>1. TypeOK /\ built \subseteq prepared
  BY DEF IInv
<1>2. CASE EndInvocation
  BY <1>1, <1>2, NoProcessInv DEF EndInvocation, TypeOK
<1>3. ASSUME NEW left \in {"none", "partial"}, Crash(left) PROVE IInv'
  <2>1. failures + 1 \in 0 .. MaxFailures
    BY <1>1, <1>3, ConstantAssumption DEF Crash, TypeOK
  <2>2. TypeOK' /\ DOMAIN run' = {} /\ built' \subseteq prepared'
    BY <1>1, <1>3, <2>1 DEF Crash, TypeOK
  <2>3. QED
    BY <2>2, NoProcessInv
<1>4. ASSUME NEW c \in Component, LocalClean(Dir[c]) PROVE IInv'
  <2>1. TypeOK' /\ DOMAIN run' = {} /\ built' \subseteq prepared'
    BY <1>1, <1>4 DEF LocalClean, Idle, TypeOK
  <2>2. QED
    BY <2>1, NoProcessInv
<1>5. QED
  BY <1>2, <1>3, <1>4

LEMMA NextInv ==
    ASSUME IInv, Independent, [Next]_vars
    PROVE  IInv'
<1>1. Exclusive
  BY InvExclusive
<1>2. ASSUME NEW g \in Goals, Invoke(g) PROVE IInv'
  BY <1>2, InvokeInv
<1>3. ASSUME NEW p \in DOMAIN run, NEW c \in Component, StartMake(p, c) PROVE IInv'
  BY <1>3, StartMakeInv
<1>4. ASSUME NEW p \in DOMAIN run, NEW c \in Component, Append(p, c) \in DOMAIN run,
             SubMake(p, c) \/ Fault(p, c)
      PROVE  IInv'
  <2>1. CASE Return(p, c) \/ ReturnFailure(p, c)
    BY <1>4, <2>1, ReapInv
  <2>2. CASE ~(Return(p, c) \/ ReturnFailure(p, c))
    BY <1>1, <1>4, <2>2, SubMakeInv DEF SubMake, Fault
  <2>3. QED
    BY <2>1, <2>2
<1>5. CASE UNCHANGED vars
  BY <1>5 DEF vars, IInv, TypeOK, ParentsLive, TopProcess, Children, TreeOf, DoneIsBuilt,
              DeepIsDone, Phases, PhaseOK, OneTarget, Prefix
<1>6. QED
  BY <1>2, <1>3, <1>4, <1>5, UserStepInv DEF Next, Progress

-----------------------------------------------------------------------------
(* Theorems *)

\* The invariant of the recursive tree build: what a make has marked as done in its
\* own list is built together with its whole tree, and every make below the
\* second level is in a component of which that is true.
THEOREM Invariance == Independent => (Spec => []IInv)
<1> SUFFICES ASSUME Independent PROVE Spec => []IInv
  OBVIOUS
<1>1. Init => IInv
  BY InitInv
<1>2. IInv /\ [Next]_vars => IInv'
  BY NextInv
<1>3. QED
  BY <1>1, <1>2, PTL DEF Spec

\* No two makes ever meet in a component one of them is working in, although
\* nothing but the order of the TREEDIRS lists keeps them apart.
THEOREM MutualExclusion == Independent => (Spec => []Exclusive)
<1> SUFFICES ASSUME Independent PROVE Spec => []Exclusive
  OBVIOUS
<1>1. Spec => []IInv
  BY Invariance
<1>2. IInv => Exclusive
  BY InvExclusive
<1>3. QED
  BY <1>1, <1>2, PTL

\* A component is built after everything it requires, directly or not.
THEOREM TreeFirst == Independent => (Spec => []TreeBuiltFirst)
<1> SUFFICES ASSUME Independent PROVE Spec => []TreeBuiltFirst
  OBVIOUS
<1>1. Spec => []IInv
  BY Invariance
<1>2. IInv => TreeBuiltFirst
  BY InvProperties
<1>3. QED
  BY <1>1, <1>2, PTL

\* Only the makes of the first two levels work: those that the recursion starts below
\* find all they need done.
THEOREM DeepMakes == Independent => (Spec => []DeepMakesIdle)
<1> SUFFICES ASSUME Independent PROVE Spec => []DeepMakesIdle
  OBVIOUS
<1>1. Spec => []IInv
  BY Invariance
<1>2. IInv => DeepMakesIdle
  BY InvProperties
<1>3. QED
  BY <1>1, <1>2, PTL

\* What a target that is finished needs is built, whatever failed before.
THEOREM Complete == Independent => (Spec => []SuccessIsComplete)
<1> SUFFICES ASSUME Independent PROVE Spec => []SuccessIsComplete
  OBVIOUS
<1>1. Spec => []IInv
  BY Invariance
<1>2. IInv => SuccessIsComplete
  BY InvProperties
<1>3. QED
  BY <1>1, <1>2, PTL

-----------------------------------------------------------------------------
(* A make always has something to start or to wait for, also when -j makes *)
(* targets that share components.                                          *)

\* Among sets of components or of indices one is minimal.
LEMMA MinimalSet ==
    ASSUME NEW S, IsFiniteSet(S), NEW U \in SUBSET (SUBSET S), U # {}
    PROVE  \E T \in U : \A W \in U : W \subseteq T => W = T
<1>1. FiniteSubsetsOf(S) = SUBSET S
  BY FS_FiniteSubsetsOfFinite
<1>2. IsWellFoundedOn(StrictSubsetOrdering(S), SUBSET S)
  BY <1>1, FS_StrictSubsetOrderingWellFounded
<1>3. PICK T \in U : \A W \in U : ~ (<<W, T>> \in StrictSubsetOrdering(S))
  BY <1>2, WFMin
<1>4. ASSUME NEW W \in U, W \subseteq T, W # T PROVE FALSE
  <2>1. <<W, T>> \in (SUBSET S) \X (SUBSET S)
    OBVIOUS
  <2>2. <<W, T>> \in StrictSubsetOrdering(S)
    BY <1>4, <2>1 DEF StrictSubsetOrdering
  <2>3. QED
    BY <1>3, <2>2
<1>5. \A W \in U : W \subseteq T => W = T
  BY <1>4
<1>6. QED
  BY <1>5

\* What a component of a tree requires is in that tree.
LEMMA TreeGoesDown ==
    ASSUME NEW c \in Component, NEW d \in Tree[c]
    PROVE  d \in Component /\ Tree[d] \subseteq Tree[c]
<1>1. DOMAIN Requires = Component /\ Tree[c] \in SUBSET DOMAIN Requires
  BY ConstantAssumption
<1>2. d \in Component
  BY <1>1
<1>3. Closed(Requires, Tree[c])
  BY TreeAssumption DEF IsTree, Reachable
<1>4. Requires[d] \subseteq Tree[c]
  BY <1>3 DEF Closed
<1>5. QED
  BY <1>1, <1>2, <1>3, <1>4, TreeAssumption DEF IsTree, Reachable

\* Of the components that are left, one requires none that is left: the tree of one
\* that it requires is part of its own, and smaller.
LEMMA SomethingIsNext ==
    ASSUME NEW S \in SUBSET Component, S # {}
    PROVE  \E c \in S : Requires[c] \cap S = {}
<1>1. PICK c \in S : \A d \in S : Tree[d] \subseteq Tree[c] => Tree[d] = Tree[c]
  <2> DEFINE U == {Tree[d] : d \in S}
  <2>1. U \in SUBSET (SUBSET Component) /\ U # {}
    BY ConstantAssumption
  <2>2. \E T \in U : \A W \in U : W \subseteq T => W = T
    <3> HIDE DEF U
    <3> QED
      BY <2>1, MinimalSet, FiniteAssumption
  <2>3. PICK T \in U : \A W \in U : W \subseteq T => W = T
    BY <2>2
  <2>4. QED
    BY <2>3
<1>2. ASSUME NEW d \in Requires[c] \cap S PROVE FALSE
  <2>1. d \in Tree[c] /\ d \notin Tree[d]
    BY TreeAssumption DEF IsTree, Reachable
  <2>2. Tree[d] \subseteq Tree[c]
    BY <2>1, TreeGoesDown
  <2>3. QED
    BY <1>1, <2>1, <2>2
<1>3. QED
  BY <1>2

\* The first of the targets that is not made.
LEMMA FirstTargetLeft ==
    ASSUME NEW S, ~(TargetSet \subseteq S)
    PROVE  \E i \in DOMAIN Targets :
              Targets[i] \notin S /\ \A j \in 1 .. i - 1 : Targets[j] \in S
<1>1. DOMAIN Targets = 1 .. Len(Targets) /\ Len(Targets) \in Nat
  BY ConstantAssumption
<1> DEFINE D == 1 .. Len(Targets)
           Left == {i \in D : Targets[i] \notin S}
           U == {1 .. i : i \in Left}
<1> HIDE DEF D
<1>2. IsFiniteSet(D)
  BY <1>1, FS_Interval DEF D
<1>3. U \in SUBSET (SUBSET D) /\ U # {}
  <2>1. Left # {}
    BY <1>1 DEF TargetSet, D
  <2>2. \A i \in Left : 1 .. i \subseteq D
    BY <1>1 DEF D
  <2>3. QED
    BY <2>1, <2>2
<1>4. PICK T \in U : \A W \in U : W \subseteq T => W = T
  <2> HIDE DEF U
  <2> QED
    BY <1>2, <1>3, MinimalSet
<1>5. PICK i \in Left : T = 1 .. i
  BY <1>4
<1>6. ASSUME NEW j \in 1 .. i - 1, Targets[j] \notin S PROVE FALSE
  <2>1. i \in Nat /\ j \in Nat /\ j < i /\ j \in D /\ i \in 1 .. i
    BY <1>1, <1>5 DEF D
  <2>2. 1 .. j \in U
    BY <1>6, <2>1
  <2>3. 1 .. j \subseteq T /\ i \in T /\ i \notin 1 .. j
    BY <1>5, <2>1
  <2>4. QED
    BY <1>4, <2>2, <2>3
<1>7. QED
  BY <1>1, <1>5, <1>6 DEF D

\* A make lives as long as those it has started: one for each component of its list that
\* it starts and has not made.
FromTheLists ==
    /\ \A p \in DOMAIN run : run[p].done \subseteq TreeOf(p)
    /\ \A p \in Paths, c \in Component : Append(p, c) \in DOMAIN run =>
          /\ p \in DOMAIN run
          /\ c \in TreeOf(p) \ run[p].done
          /\ run[p].phase \in {"tree", "failed"}

Processes == [phase : Phase, done : SUBSET Component, sources : {"idle", "running", "failed"}]

LEMMA StartMakeListed ==
    ASSUME TypeOK, FromTheLists, NEW p \in DOMAIN run, NEW c \in Component, StartMake(p, c)
    PROVE  TypeOK' /\ FromTheLists'
<1> DEFINE x == Append(p, c)
<1>1. /\ DOMAIN run \subseteq Paths /\ x \in Paths
      /\ \A q \in Paths, d \in Component : Append(q, d) = x => q = p /\ d = c
  BY ExtendPath, ExtendInjective DEF TypeOK, Paths
<1>2. /\ DOMAIN run' = DOMAIN run \cup {x}
      /\ x \notin DOMAIN run
      /\ run'[x] = Process("enter")
      /\ \A q \in DOMAIN run : run'[q] = run[q]
      /\ UNCHANGED <<goal, requiresFile, prepared, built, invocations, failures, before>>
      /\ c \in TreeOf(p) \ run[p].done
      /\ run[p].phase = "tree"
  BY DEF StartMake, MayStart, Started
<1>3. TypeOK'
  BY <1>1, <1>2 DEF TypeOK, StartMake, Process, Phase, Paths
<1>4. ASSUME NEW q \in Paths, NEW d \in Component, Append(q, d) \in DOMAIN run'
      PROVE  /\ q \in DOMAIN run'
             /\ d \in TreeOf(q) \ run'[q].done
             /\ run'[q].phase \in {"tree", "failed"}
  <2>1. CASE Append(q, d) = x
    BY <1>1, <1>2, <2>1
  <2>2. CASE Append(q, d) # x
    <3>1. /\ q \in DOMAIN run
          /\ d \in TreeOf(q) \ run[q].done
          /\ run[q].phase \in {"tree", "failed"}
      BY <1>2, <1>4, <2>2 DEF FromTheLists
    <3>2. QED
      BY <1>2, <3>1
  <2>3. QED
    BY <2>1, <2>2
<1>5. ASSUME NEW q \in DOMAIN run' PROVE run'[q].done \subseteq TreeOf(q)
  <2>1. CASE q = x
    BY <1>2, <2>1 DEF Process
  <2>2. CASE q # x
    BY <1>2, <1>5, <2>2 DEF FromTheLists
  <2>3. QED
    BY <2>1, <2>2
<1>6. QED
  BY <1>3, <1>4, <1>5 DEF FromTheLists, TreeOf

\* One lemma for the steps that start and end no make.
LEMMA SameMakesListed ==
    ASSUME FromTheLists,
           NEW x \in DOMAIN run,
           DOMAIN run' = DOMAIN run,
           \A q \in DOMAIN run : q # x => run'[q] = run[q],
           run'[x].done = run[x].done,
           run[x].phase \in {"tree", "failed"} =>
              run'[x].phase \in {"tree", "failed"} \/ TreeOf(x) \subseteq run[x].done
    PROVE  FromTheLists'
<1>1. \A q \in DOMAIN run : run'[q].done = run[q].done
  OBVIOUS
<1>2. ASSUME NEW q \in Paths, NEW d \in Component, Append(q, d) \in DOMAIN run
      PROVE  run'[q].phase \in {"tree", "failed"}
  <2>1. q \in DOMAIN run /\ d \in TreeOf(q) \ run[q].done /\ run[q].phase \in {"tree", "failed"}
    BY <1>2 DEF FromTheLists
  <2>2. QED
    BY <2>1
<1>3. QED
  BY <1>1, <1>2 DEF FromTheLists, TreeOf

\* What such a step does to its process.
LEMMA SubMakeChanges ==
    ASSUME TypeOK, NEW p \in DOMAIN run, NEW c \in Component, Append(p, c) \in DOMAIN run,
           \/ Enter(p, c) \/ Generate(p, c) \/ GenerateFails(p, c) \/ EndTree(p, c)
           \/ StartPrepare(p, c) \/ EndPrepare(p, c) \/ FailPrepare(p, c)
           \/ StartBuild(p, c) \/ EndBuild(p, c) \/ FailBuild(p, c)
    PROVE  LET x == Append(p, c) IN
           /\ DOMAIN run' = DOMAIN run
           /\ run' = [run EXCEPT ![x] = run'[x]]
           /\ run'[x] \in Processes
           /\ run'[x].done = run[x].done
           /\ run[x].phase \in {"tree", "failed"} =>
                 run'[x].phase \in {"tree", "failed"} \/ run[x].done = Tree[c]
<1> DEFINE x == Append(p, c)
<1>1. run[x] \in Processes /\ DOMAIN run' = DOMAIN run
  BY DEF TypeOK, Processes, SetPhase, Enter, Generate, GenerateFails, EndTree, StartPrepare,
         EndPrepare, FailPrepare, StartBuild, EndBuild, FailBuild
<1> USE <1>1 DEF Processes, Phase, SetPhase, AfterRequires
<1>2. CASE Enter(p, c) \/ Generate(p, c) \/ GenerateFails(p, c)
  BY <1>2 DEF Enter, Generate, GenerateFails
<1>3. CASE EndTree(p, c)
  BY <1>3 DEF EndTree
<1>4. CASE StartPrepare(p, c) \/ EndPrepare(p, c)
  BY <1>4 DEF StartPrepare, EndPrepare
<1>5. CASE FailPrepare(p, c)
  BY <1>5 DEF FailPrepare
<1>6. CASE StartBuild(p, c) \/ EndBuild(p, c) \/ FailBuild(p, c)
  BY <1>6 DEF StartBuild, EndBuild, FailBuild
<1>7. QED
  BY <1>2, <1>3, <1>4, <1>5, <1>6

LEMMA SubMakeListed ==
    ASSUME TypeOK, FromTheLists, NEW p \in DOMAIN run, NEW c \in Component,
           Append(p, c) \in DOMAIN run,
           \/ Enter(p, c) \/ Generate(p, c) \/ GenerateFails(p, c) \/ EndTree(p, c)
           \/ StartPrepare(p, c) \/ EndPrepare(p, c) \/ FailPrepare(p, c)
           \/ StartBuild(p, c) \/ EndBuild(p, c) \/ FailBuild(p, c)
    PROVE  TypeOK' /\ FromTheLists'
<1> DEFINE x == Append(p, c)
<1>1. /\ p \in Paths /\ Len(p) \in Nat
      /\ x # <<>> /\ Len(x) = Len(p) + 1 /\ x[Len(p) + 1] = c
  BY ExtendPath DEF TypeOK, Paths
<1>2. TreeOf(x) = Tree[c]
  BY <1>1 DEF TreeOf
<1>3. DOMAIN run' = DOMAIN run
  BY SubMakeChanges
<1>4. /\ run' = [run EXCEPT ![x] = run'[x]]
      /\ run'[x] \in Processes
      /\ run'[x].done = run[x].done
      /\ run[x].phase \in {"tree", "failed"} =>
            run'[x].phase \in {"tree", "failed"} \/ run[x].done = Tree[c]
  BY SubMakeChanges
<1>5. FromTheLists'
  <2>1. \A q \in DOMAIN run : q # x => run'[q] = run[q]
    BY <1>4
  <2>2. run[x].phase \in {"tree", "failed"} =>
            run'[x].phase \in {"tree", "failed"} \/ TreeOf(x) \subseteq run[x].done
    BY <1>2, <1>4
  <2> HIDE DEF x
  <2>3. x \in DOMAIN run
    BY DEF x
  <2>4. QED
    BY <1>3, <1>4, <2>1, <2>2, <2>3, SameMakesListed
<1>6. /\ goal' = goal
      /\ requiresFile' \in [Component -> {"none", "partial", "complete"}]
      /\ prepared' \subseteq Component /\ built' \subseteq Component
      /\ invocations' = invocations
      /\ failures' \in 0 .. MaxFailures
      /\ before' = before
  <2> USE ConstantAssumption DEF TypeOK
  <2>1. failures < MaxFailures => failures + 1 \in 0 .. MaxFailures
    OBVIOUS
  <2>2. CASE Enter(p, c) \/ Generate(p, c)
    BY <2>2 DEF Enter, Generate
  <2>3. CASE GenerateFails(p, c)
    BY <2>1, <2>3 DEF GenerateFails
  <2>4. CASE EndTree(p, c) \/ StartPrepare(p, c) \/ EndPrepare(p, c)
    BY <2>4 DEF EndTree, StartPrepare, EndPrepare
  <2>5. CASE FailPrepare(p, c) \/ FailBuild(p, c)
    BY <2>1, <2>5 DEF FailPrepare, FailBuild
  <2>6. CASE StartBuild(p, c) \/ EndBuild(p, c)
    BY <2>6 DEF StartBuild, EndBuild
  <2>7. QED
    BY <2>2, <2>3, <2>4, <2>5, <2>6
<1>7. QED
  BY <1>3, <1>4, <1>5, <1>6 DEF TypeOK, Processes

LEMMA ReapListed ==
    ASSUME TypeOK, FromTheLists, NEW p \in DOMAIN run, NEW c \in Component,
           Append(p, c) \in DOMAIN run, Return(p, c) \/ ReturnFailure(p, c)
    PROVE  TypeOK' /\ FromTheLists'
<1> DEFINE x == Append(p, c)
<1>1. /\ DOMAIN run \subseteq Paths /\ x \in Paths /\ x # p
      /\ \A q \in Paths, d \in Component : Append(q, d) = x => q = p /\ d = c
  BY ExtendPath, ExtendInjective DEF TypeOK, Paths
<1>2. Childless(x) /\ c \in TreeOf(p) /\ run[p] \in Processes
      /\ run[p].phase \in {"tree", "failed"}
  BY <1>1 DEF FromTheLists, Childless, Return, ReturnFailure, TypeOK, Processes
<1>3. /\ DOMAIN run' = DOMAIN run \ {x}
      /\ \A q \in DOMAIN run' : q # p => run'[q] = run[q]
      /\ UNCHANGED <<goal, requiresFile, prepared, built, invocations, failures, before>>
  BY DEF Return, ReturnFailure, Reap
<1>4. /\ run'[p] \in Processes
      /\ run'[p].phase \in {"tree", "failed"}
      /\ run'[p].done \subseteq run[p].done \cup {c}
  <2> USE <1>1, <1>2 DEF Processes, Phase, Reap
  <2>1. CASE Return(p, c)
    BY <2>1 DEF Return
  <2>2. CASE ReturnFailure(p, c)
    BY <2>2 DEF ReturnFailure
  <2>3. QED
    BY <2>1, <2>2
<1>5. run' = [q \in DOMAIN run' |-> run'[q]]
  BY DEF Return, ReturnFailure, Reap
<1>6. TypeOK'
  <2>1. \A q \in DOMAIN run' : run'[q] \in Processes
    BY <1>3, <1>4 DEF TypeOK, Processes
  <2>2. run' \in [DOMAIN run' -> Processes]
    BY <1>5, <2>1
  <2>3. QED
    BY <1>3, <2>2 DEF TypeOK, Processes
<1>7. ASSUME NEW q \in Paths, NEW d \in Component, Append(q, d) \in DOMAIN run'
      PROVE  /\ q \in DOMAIN run'
             /\ d \in TreeOf(q) \ run'[q].done
             /\ run'[q].phase \in {"tree", "failed"}
  <2>1. /\ q \in DOMAIN run
        /\ d \in TreeOf(q) \ run[q].done
        /\ run[q].phase \in {"tree", "failed"}
    BY <1>3, <1>7 DEF FromTheLists
  <2>2. q # x
    BY <1>2, <1>3, <1>7 DEF Childless
  <2>3. q = p => d # c
    BY <1>3, <1>7
  <2>4. QED
    BY <1>3, <1>4, <2>1, <2>2, <2>3
<1>8. \A q \in DOMAIN run' : run'[q].done \subseteq TreeOf(q)
  BY <1>2, <1>3, <1>4 DEF FromTheLists
<1>9. QED
  BY <1>6, <1>7, <1>8 DEF FromTheLists, TreeOf

LEMMA NoProcessListed ==
    ASSUME DOMAIN run' = {}
    PROVE  FromTheLists'
BY DEF FromTheLists

LEMMA UserStepListed ==
    ASSUME TypeOK, FromTheLists,
           \/ \E g \in Goals : Invoke(g)
           \/ EndInvocation
           \/ \E left \in {"none", "partial"} : Crash(left)
           \/ \E c \in Component : LocalClean(Dir[c])
    PROVE  TypeOK' /\ FromTheLists'
<1>1. ASSUME NEW g \in Goals, Invoke(g) PROVE TypeOK' /\ FromTheLists'
  <2>1. /\ DOMAIN run' = {<<>>}
        /\ run'[<<>>] = Process("tree")
        /\ UNCHANGED <<requiresFile, prepared, built, failures>>
    BY <1>1 DEF Invoke
  <2>2. \A q \in Paths, c \in Component : Append(q, c) \notin DOMAIN run'
    BY <2>1, ExtendPath
  <2>3. TypeOK'
    BY <1>1, <2>1, ConstantAssumption DEF TypeOK, Invoke, Process, Phase
  <2>4. QED
    BY <2>1, <2>2, <2>3 DEF FromTheLists, Process
<1>2. CASE EndInvocation
  BY <1>2, NoProcessListed DEF EndInvocation, TypeOK
<1>3. ASSUME NEW left \in {"none", "partial"}, Crash(left) PROVE TypeOK' /\ FromTheLists'
  <2>1. failures + 1 \in 0 .. MaxFailures
    BY <1>3, ConstantAssumption DEF Crash, TypeOK
  <2>2. QED
    BY <1>3, <2>1, NoProcessListed DEF Crash, TypeOK
<1>4. ASSUME NEW c \in Component, LocalClean(Dir[c]) PROVE TypeOK' /\ FromTheLists'
  BY <1>4, NoProcessListed DEF LocalClean, Idle, TypeOK
<1>5. QED
  BY <1>1, <1>2, <1>3, <1>4

LEMMA Listed == Spec => [](TypeOK /\ FromTheLists)
<1>1. Init => TypeOK /\ FromTheLists
  BY ConstantAssumption, NoProcessListed DEF Init, TypeOK, FromTheLists
<1>2. TypeOK /\ FromTheLists /\ [Next]_vars => TypeOK' /\ FromTheLists'
  <2> SUFFICES ASSUME TypeOK, FromTheLists, [Next]_vars PROVE TypeOK' /\ FromTheLists'
    OBVIOUS
  <2>1. ASSUME NEW p \in DOMAIN run, NEW c \in Component, StartMake(p, c)
        PROVE  TypeOK' /\ FromTheLists'
    BY <2>1, StartMakeListed
  <2>2. ASSUME NEW p \in DOMAIN run, NEW c \in Component, Append(p, c) \in DOMAIN run,
               SubMake(p, c) \/ Fault(p, c)
        PROVE  TypeOK' /\ FromTheLists'
    BY <2>2, SubMakeListed, ReapListed DEF SubMake, Fault
  <2>3. CASE UNCHANGED vars
    BY <2>3 DEF vars, TypeOK, FromTheLists, TreeOf
  <2>4. QED
    BY <2>1, <2>2, <2>3, UserStepListed DEF Next, Progress
<1>3. QED
  BY <1>1, <1>2, PTL DEF Spec

\* The variables keep their types: every process is at a known point of core.mk's
\* rules, for a path of components.
THEOREM TypeCorrect == Spec => []TypeOK
BY Listed, PTL

\* In no state of the build, with -j or without it, for any graph without a cycle, any
\* targets and any faults, does all that a make has left wait for itself.
THEOREM NothingWaitsForItself == Spec => []SomethingToStart
<1>1. TypeOK /\ FromTheLists => SomethingToStart
  <2> SUFFICES ASSUME TypeOK, FromTheLists, NEW p \in DOMAIN run,
                      run[p].phase = "tree", Childless(p), run[p].done # TreeOf(p)
               PROVE  \E c \in Component : MayStart(p, c)
    BY DEF SomethingToStart
  <2>1. p \in Paths
    BY DEF TypeOK, Paths
  <2>2. ~(TreeOf(p) \subseteq run[p].done)
    BY DEF FromTheLists
  <2>3. CASE p = <<>>
    <3>1. PICK i \in DOMAIN Targets :
              /\ Targets[i] \notin run[p].done
              /\ \A j \in 1 .. i - 1 : Targets[j] \in run[p].done
      BY <2>2, <2>3, FirstTargetLeft DEF TreeOf
    <3>2. Targets[i] \in Component /\ Targets[i] \in TreeOf(p)
      BY <2>3, ConstantAssumption DEF TreeOf, TargetSet
    <3>3. MayStart(p, Targets[i])
      BY <2>3, <3>1, <3>2 DEF MayStart, Started, Childless, Prerequisites, InOrder
    <3>4. QED
      BY <3>2, <3>3
  <2>4. CASE p # <<>>
    <3>1. PICK t \in Component : TreeOf(p) = Tree[t]
      BY <2>1, <2>4 DEF TreeOf, Paths
    <3>2. Tree[t] \subseteq Component /\ Closed(Requires, Tree[t])
      BY ConstantAssumption, TreeAssumption DEF IsTree, Reachable
    <3>3. PICK c \in Tree[t] \ run[p].done : Requires[c] \cap (Tree[t] \ run[p].done) = {}
      BY <2>2, <3>1, <3>2, SomethingIsNext
    <3>4. Requires[c] \subseteq run[p].done
      BY <3>2, <3>3 DEF Closed
    <3>5. MayStart(p, c)
      BY <2>4, <3>1, <3>2, <3>3, <3>4 DEF MayStart, Started, Childless, Prerequisites, InOrder
    <3>6. QED
      BY <3>2, <3>5
  <2>5. QED
    BY <2>3, <2>4
<1>2. QED
  BY <1>1, Listed, PTL

-----------------------------------------------------------------------------
(* The recursion is finite. *)

LEMMA StartMakeDescends ==
    ASSUME TypeOK, Descends, NEW p \in DOMAIN run, NEW c \in Component, StartMake(p, c)
    PROVE  Descends'
<1> DEFINE x == Append(p, c)
<1>1. /\ p \in Paths /\ Len(p) \in Nat /\ DOMAIN p = 1 .. Len(p)
      /\ x \in Paths /\ DOMAIN x = 1 .. Len(p) + 1 /\ x[Len(p) + 1] = c
      /\ \A i \in 1 .. Len(p) : x[i] = p[i] /\ p[i] \in Component
  BY ExtendPath DEF TypeOK, Paths
<1>2. DOMAIN run' = DOMAIN run \cup {x} /\ c \in TreeOf(p)
  BY DEF StartMake, MayStart
<1> HIDE DEF x
<1>3. ASSUME NEW i \in DOMAIN x, NEW j \in DOMAIN x, i < j
      PROVE  x[j] \in Tree[x[i]]
  <2>1. i \in 1 .. Len(p) /\ i \in DOMAIN p /\ x[i] = p[i] /\ p[i] \in Component
    BY <1>1, <1>3
  <2>2. CASE j # Len(p) + 1
    <3>1. j \in DOMAIN p /\ x[j] = p[j]
      BY <1>1, <2>2
    <3>2. QED
      BY <1>3, <2>1, <3>1 DEF Descends
  <2>3. CASE j = Len(p) + 1
    <3>1. x[j] = c
      BY <1>1, <2>3
    <3>2. p # <<>>
      BY <2>1
    <3>3. c \in Tree[p[Len(p)]]
      BY <1>2, <3>2 DEF TreeOf
    <3>4. CASE i = Len(p)
      BY <2>1, <3>1, <3>3, <3>4
    <3>5. CASE i # Len(p)
      <4>1. Len(p) \in DOMAIN p /\ i < Len(p)
        BY <1>1, <2>1, <3>5
      <4>2. p[Len(p)] \in Tree[p[i]]
        BY <2>1, <4>1 DEF Descends
      <4>3. c \in Tree[p[i]]
        BY <2>1, <3>3, <4>2, TreeGoesDown
      <4>4. QED
        BY <2>1, <3>1, <4>3
    <3>6. QED
      BY <3>4, <3>5
  <2>4. QED
    BY <2>2, <2>3
<1>4. QED
  BY <1>2, <1>3 DEF Descends

LEMMA StepDescends ==
    ASSUME TypeOK, Descends, [Next]_vars
    PROVE  Descends'
<1>1. ASSUME DOMAIN run' \subseteq DOMAIN run PROVE Descends'
  BY <1>1 DEF Descends
<1>2. ASSUME NEW g \in Goals, Invoke(g) PROVE Descends'
  <2>1. DOMAIN run' = {<<>>}
    BY <1>2 DEF Invoke
  <2>2. DOMAIN <<>> = {}
    OBVIOUS
  <2>3. QED
    BY <2>1, <2>2 DEF Descends
<1>3. ASSUME NEW p \in DOMAIN run, NEW c \in Component, SubMake(p, c) \/ Fault(p, c)
      PROVE  DOMAIN run' \subseteq DOMAIN run
  BY <1>3 DEF SubMake, Fault, SetPhase, Reap, Enter, Generate, GenerateFails, EndTree,
              StartPrepare, EndPrepare, FailPrepare, StartBuild, EndBuild, FailBuild, Return,
              ReturnFailure
<1>4. EndInvocation \/ (\E left \in {"none", "partial"} : Crash(left)) => DOMAIN run' = {}
  BY DEF EndInvocation, Crash
<1>5. UNCHANGED run => Descends'
  BY DEF Descends
<1>6. QED
  BY <1>1, <1>2, <1>3, <1>4, <1>5, StartMakeDescends DEF Next, Progress, LocalClean, vars

\* What a make has begun, it has begun.
LEMMA StepStartsOnce ==
    ASSUME TypeOK, FromTheLists, [Next]_vars
    PROVE  StartsOnce
<1> SUFFICES ASSUME NEW q \in DOMAIN run, q \in DOMAIN run', NEW d \in Component,
                    Started(q, d), invocations' = invocations
             PROVE  Started(q, d)' \/ run'[q].phase = "failed"
  BY DEF StartsOnce
<1>1. ASSUME NEW g \in Goals, Invoke(g) PROVE FALSE
  BY <1>1 DEF Invoke, TypeOK
<1>2. ASSUME NEW p \in DOMAIN run, NEW c \in Component, StartMake(p, c)
      PROVE  Started(q, d)'
  <2>1. run'[q] = run[q] /\ DOMAIN run \subseteq DOMAIN run'
    BY <1>2 DEF StartMake, MayStart, Started
  <2>2. QED
    BY <2>1 DEF Started
<1>3. ASSUME NEW p \in DOMAIN run, NEW c \in Component, Append(p, c) \in DOMAIN run,
             SubMake(p, c) \/ Fault(p, c), ~(Return(p, c) \/ ReturnFailure(p, c))
      PROVE  Started(q, d)'
  <2> DEFINE x == Append(p, c)
  <2>1. /\ DOMAIN run' = DOMAIN run
        /\ run' = [run EXCEPT ![x] = run'[x]]
        /\ run'[x].done = run[x].done
    BY <1>3, SubMakeChanges DEF SubMake, Fault
  <2>2. run'[q].done = run[q].done
    <3> HIDE DEF x
    <3> QED
      BY <2>1
  <2>3. QED
    BY <2>1, <2>2 DEF Started
<1>4. ASSUME NEW p \in DOMAIN run, NEW c \in Component, Append(p, c) \in DOMAIN run,
             Return(p, c) \/ ReturnFailure(p, c)
      PROVE  Started(q, d)' \/ run'[q].phase = "failed"
  <2>1. p \in Paths /\ q \in Paths /\ run[p] \in Processes
    BY DEF TypeOK, Paths, Processes
  <2>2. DOMAIN run' = DOMAIN run \ {Append(p, c)}
    BY <1>4 DEF Return, ReturnFailure, Reap
  <2>3. CASE q # p
    <3>1. run'[q] = run[q]
      BY <1>4, <2>3 DEF Return, ReturnFailure, Reap
    <3>2. Append(q, d) # Append(p, c)
      BY <2>1, <2>3, ExtendInjective
    <3>3. QED
      BY <2>2, <3>1, <3>2 DEF Started
  <2>4. CASE q = p /\ Return(p, c)
    <3>1. run'[p].done = run[p].done \cup {c}
      BY <2>1, <2>4 DEF Return, Reap, Processes
    <3>2. QED
      BY <2>2, <2>4, <3>1 DEF Started
  <2>5. CASE q = p /\ ReturnFailure(p, c)
    BY <2>1, <2>5 DEF ReturnFailure, Reap, Processes
  <2>6. QED
    BY <1>4, <2>3, <2>4, <2>5
<1>5. EndInvocation \/ (\E left \in {"none", "partial"} : Crash(left)) => FALSE
  BY DEF EndInvocation, Crash
<1>6. UNCHANGED run => Started(q, d)'
  BY DEF Started
<1>7. QED
  BY <1>1, <1>2, <1>3, <1>4, <1>5, <1>6 DEF Next, Progress, LocalClean, vars

LEMMA Descending == Spec => []Descends
<1>1. Init => Descends
  BY DEF Init, Descends
<1>2. TypeOK /\ Descends /\ [Next]_vars => Descends'
  BY StepDescends
<1>3. QED
  BY <1>1, <1>2, TypeCorrect, PTL DEF Spec

\* Makes start makes for ever fewer components, and each of them once: the recursion ends
\* for every graph that has no cycle.
THEOREM FiniteRecursion == Spec => RecursionIsFinite
<1>1. TypeOK /\ FromTheLists /\ Descends /\ [Next]_vars
         => [Descends' /\ StartsOnce]_vars
  BY StepDescends, StepStartsOnce
<1>2. QED
  BY <1>1, Listed, Descending, PTL DEF Spec, RecursionIsFinite

\* No make is more makes below the user's than there are components.
THEOREM DepthIsBounded == Spec => [](\A p \in DOMAIN run : Len(p) <= Cardinality(Component))
<1>1. TypeOK /\ Descends => \A p \in DOMAIN run : Len(p) <= Cardinality(Component)
  <2> SUFFICES ASSUME TypeOK, Descends, NEW p \in DOMAIN run
               PROVE  Len(p) <= Cardinality(Component)
    OBVIOUS
  <2>1. p \in Paths /\ Len(p) \in Nat /\ DOMAIN p = 1 .. Len(p)
    BY DEF TypeOK, Paths
  <2>2. p \in [1 .. Len(p) -> Component]
    BY <2>1 DEF Paths
  <2>3. ASSUME NEW i \in 1 .. Len(p), NEW j \in 1 .. Len(p), p[i] = p[j], i < j PROVE FALSE
    <3>1. p[j] \in Tree[p[i]] /\ p[i] \in Component
      BY <2>1, <2>2, <2>3 DEF Descends
    <3>2. QED
      BY <2>3, <3>1, TreeAssumption
  <2>4. \A i, j \in 1 .. Len(p) : p[i] = p[j] => i = j
    BY <2>1, <2>3
  <2>5. p \in Injection(1 .. Len(p), Component)
    BY <2>2, <2>4 DEF Injection, IsInjective
  <2>6. Cardinality(1 .. Len(p)) <= Cardinality(Component)
    BY <2>5, FS_Injection, FiniteAssumption
  <2>7. QED
    BY <2>1, <2>6, FS_Interval
<1>2. QED
  BY <1>1, TypeCorrect, Descending, PTL

-----------------------------------------------------------------------------
(* Without -j the targets are made in their order. *)

TargetsInOrder ==
    <<>> \in DOMAIN run =>
        \A i, j \in DOMAIN Targets :
            i < j /\ Started(<<>>, Targets[j]) => Targets[i] \in run[<<>>].done

\* Nothing new is started for the user's make, and what it has made stays.
LEMMA NoNewTarget ==
    ASSUME TargetsInOrder, <<>> \in DOMAIN run,
           run[<<>>].done \subseteq run'[<<>>].done,
           \A c \in TargetSet : Started(<<>>, c)' => Started(<<>>, c)
    PROVE  TargetsInOrder'
<1>1. \A i \in DOMAIN Targets : Targets[i] \in TargetSet
  BY DEF TargetSet
<1>2. QED
  BY <1>1 DEF TargetsInOrder

LEMMA StartInOrder ==
    ASSUME IInv, TargetsInOrder, ~Parallel, NEW p \in DOMAIN run, NEW c \in Component,
           StartMake(p, c)
    PROVE  TargetsInOrder'
<1>1. p \in Paths /\ <<>> \in Paths
  BY DEF IInv, TypeOK, Paths
<1>2. Append(p, c) # <<>>
  BY <1>1, ExtendPath
<1>3. /\ DOMAIN run' = DOMAIN run \cup {Append(p, c)}
      /\ \A q \in DOMAIN run : q # Append(p, c) => run'[q] = run[q]
  BY DEF StartMake, MayStart
<1>4. \A d \in Component : Append(<<>>, d) = Append(p, c) => p = <<>> /\ d = c
  BY <1>1, ExtendInjective
<1>5. \A i \in DOMAIN Targets : Targets[i] \in Component
  BY ConstantAssumption
<1>6. CASE p # <<>>
  <2>1. ASSUME <<>> \in DOMAIN run' PROVE TargetsInOrder'
    <3>1. <<>> \in DOMAIN run /\ run'[<<>>] = run[<<>>]
      BY <1>2, <1>3, <2>1
    <3>2. \A d \in TargetSet : Started(<<>>, d)' => Started(<<>>, d)
      BY <1>3, <1>4, <1>5, <1>6, <3>1 DEF Started, TargetSet
    <3>3. QED
      BY <3>1, <3>2, NoNewTarget
  <2>2. QED
    BY <2>1 DEF TargetsInOrder
<1>7. CASE p = <<>>
  <2>1. Childless(<<>>)
    BY <1>7 DEF StartMake, MayStart, Overlaps
  <2>2. run'[<<>>] = run[<<>>]
    BY <1>2, <1>3, <1>7
  <2>3. PICK k \in DOMAIN Targets :
            Targets[k] = c /\ \A j \in 1 .. k - 1 : Started(<<>>, Targets[j])
    BY <1>7 DEF StartMake, MayStart, InOrder
  <2>4. ASSUME NEW i \in DOMAIN Targets, NEW j \in DOMAIN Targets,
               i < j, Started(<<>>, Targets[j])'
        PROVE  Targets[i] \in run[<<>>].done
    <3>1. CASE j = k
      <4>1. i \in 1 .. k - 1
        BY <2>4, <3>1, ConstantAssumption
      <4>2. QED
        BY <1>5, <2>1, <2>3, <4>1 DEF Started, Childless
    <3>2. CASE j # k
      <4>1. Targets[j] # c
        BY <2>3, <3>2, TargetsAssumption
      <4>2. Started(<<>>, Targets[j])
        BY <1>3, <1>4, <1>5, <2>2, <2>4, <4>1 DEF Started
      <4>3. QED
        BY <1>7, <2>4, <4>2 DEF TargetsInOrder
    <3>3. QED
      BY <3>1, <3>2
  <2>5. QED
    BY <2>2, <2>4 DEF TargetsInOrder
<1>8. QED
  BY <1>6, <1>7

LEMMA SubMakeInOrder ==
    ASSUME IInv, TargetsInOrder, NEW p \in DOMAIN run, NEW c \in Component,
           Append(p, c) \in DOMAIN run, SubMake(p, c) \/ Fault(p, c)
    PROVE  TargetsInOrder'
<1> DEFINE x == Append(p, c)
<1>1. p \in Paths /\ <<>> \in Paths
  BY DEF IInv, TypeOK, Paths
<1>2. x # <<>> /\ x # p
  BY <1>1, ExtendPath
<1>3. <<>> \in DOMAIN run /\ run[p].done \subseteq Component /\ run[p].phase \in Phase
  <2>1. Len(p) \in Nat /\ Prefix(p, 0) = <<>>
    BY <1>1, PrefixWhole DEF Paths
  <2>2. Prefix(p, 0) \in DOMAIN run
    BY <2>1 DEF IInv, ParentsLive
  <2>3. QED
    BY <2>1, <2>2 DEF IInv, TypeOK
<1>4. CASE ~(Return(p, c) \/ ReturnFailure(p, c))
  <2>1. DOMAIN run' = DOMAIN run /\ run'[<<>>] = run[<<>>]
    BY <1>2, <1>3, <1>4 DEF SubMake, Fault, SetPhase, Enter, Generate, GenerateFails, EndTree,
         StartPrepare, EndPrepare, FailPrepare, StartBuild, EndBuild, FailBuild
  <2>2. QED
    BY <1>3, <2>1, NoNewTarget DEF Started
<1>5. CASE Return(p, c) \/ ReturnFailure(p, c)
  <2>1. PICK rec \in {[run[p] EXCEPT !.done = @ \cup {c}],
                      [run[p] EXCEPT !.phase = "failed"]} : Reap(p, c, rec)
    BY <1>5 DEF Return, ReturnFailure
  <2>2. run[p] \in [phase : Phase, done : SUBSET Component,
                    sources : {"idle", "running", "failed"}]
    BY DEF IInv, TypeOK
  <2>3. run[p].done \subseteq rec.done /\ rec.done \subseteq run[p].done \cup {c}
    BY <2>1, <2>2
  <2>4. DOMAIN run' = DOMAIN run \ {x} /\ run'[p] = rec
    BY <1>2, <2>1 DEF Reap
  <2>5. CASE p = <<>>
    <3>1. \A d \in TargetSet : Started(<<>>, d)' => Started(<<>>, d)
      BY <2>3, <2>4, <2>5 DEF Started
    <3>2. QED
      BY <1>3, <2>3, <2>4, <2>5, <3>1, NoNewTarget
  <2>6. CASE p # <<>>
    <3>1. run'[<<>>] = run[<<>>]
      BY <1>2, <1>3, <2>1, <2>6 DEF Reap
    <3>2. QED
      BY <1>3, <2>4, <3>1, NoNewTarget DEF Started
  <2>7. QED
    BY <2>5, <2>6
<1>6. QED
  BY <1>4, <1>5

LEMMA NextInOrder ==
    ASSUME IInv, TargetsInOrder, ~Parallel, [Next]_vars
    PROVE  TargetsInOrder'
<1>1. ASSUME NEW g \in Goals, Invoke(g) PROVE TargetsInOrder'
  <2>1. DOMAIN run' = {<<>>} /\ run'[<<>>].done = {}
    BY <1>1 DEF Invoke, Process
  <2>2. \A d \in Component : Append(<<>>, d) \notin DOMAIN run'
    BY <2>1, ExtendPath DEF Paths
  <2>3. \A j \in DOMAIN Targets : ~Started(<<>>, Targets[j])'
    BY <2>1, <2>2, ConstantAssumption DEF Started
  <2>4. QED
    BY <2>3 DEF TargetsInOrder
<1>2. ASSUME DOMAIN run' = {} PROVE TargetsInOrder'
  BY <1>2 DEF TargetsInOrder
<1>3. CASE EndInvocation \/ \E left \in {"none", "partial"} : Crash(left)
  BY <1>2, <1>3 DEF EndInvocation, Crash
<1>4. CASE UNCHANGED run
  BY <1>4 DEF TargetsInOrder, Started
<1>5. QED
  BY <1>1, <1>3, <1>4, StartInOrder, SubMakeInOrder DEF Next, Progress, LocalClean, vars

\* The comment on the sorted targets (core.mk:555) is right as long as make runs
\* without -j: main targets are built before flavours.
THEOREM MainFirst == ~Parallel => (Spec => []MainBeforeFlavours)
<1> SUFFICES ASSUME ~Parallel PROVE Spec => []MainBeforeFlavours
  OBVIOUS
<1>1. Independent
  BY DEF Independent
<1>2. Spec => []IInv
  BY <1>1, Invariance
<1>3. Init => TargetsInOrder
  BY DEF Init, TargetsInOrder
<1>4. IInv /\ TargetsInOrder /\ [Next]_vars => TargetsInOrder'
  BY NextInOrder
<1>5. IInv /\ TargetsInOrder => MainBeforeFlavours
  <2> SUFFICES ASSUME IInv, TargetsInOrder, NEW i \in DOMAIN Targets,
                      NEW j \in DOMAIN Targets, i < j, Working(<<>>, Targets[j])
               PROVE  Targets[i] \in run[<<>>].done
    BY DEF MainBeforeFlavours
  <2>1. Append(<<>>, Targets[j]) \in DOMAIN run /\ Targets[j] \in Component
    BY ConstantAssumption DEF Working
  <2>2. Append(<<>>, Targets[j]) \in Paths /\ Len(Append(<<>>, Targets[j])) \in Nat
    BY <2>1 DEF Paths
  <2>3. <<>> \in DOMAIN run
    BY <2>1, <2>2, PrefixWhole DEF IInv, ParentsLive
  <2>4. QED
    BY <2>1, <2>3 DEF TargetsInOrder, Started
<1>6. QED
  BY <1>2, <1>3, <1>4, <1>5, PTL DEF Spec

-----------------------------------------------------------------------------
(* TreeBuild implements ComponentOrder. *)

\* A step that neither starts nor ends a build is a stutter of the order, or
\* gives builds up.
LEMMA OtherSteps ==
    ASSUME Making' \subseteq Making, UNCHANGED built
    PROVE  [Order!OrderNext]_Order!orderVars
<1>1. Making' \in SUBSET Making
  OBVIOUS
<1>2. QED
  BY <1>1 DEF Order!OrderNext, Order!Abandon

LEMMA StartBuildOrder ==
    ASSUME IInv, Exclusive, NEW p \in DOMAIN run, NEW c \in Component,
           Append(p, c) \in DOMAIN run, StartBuild(p, c)
    PROVE  Order!Begin(c)
<1> DEFINE x == Append(p, c)
<1>1. run[x].phase = "local" /\ c \notin built /\ c \in Component
  BY DEF StartBuild
<1>2. Requires[c] \subseteq built \/ c \in Alone
  <2>1. CASE goal = "all"
    <3>1. Tree[c] \subseteq built
      BY <1>1, <2>1 DEF IInv, Phases, PhaseOK
    <3>2. Requires[c] \subseteq Tree[c]
      BY TreeAssumption DEF IsTree, Reachable
    <3>3. QED
      BY <3>1, <3>2
  <2>2. CASE goal # "all"
    <3>1. "local_all" \in Goals
      BY <2>2, ConstantAssumption DEF IInv, TypeOK
    <3>2. p = <<>> /\ c \in TreeOf(p)
      BY <2>2 DEF IInv, Children
    <3>3. QED
      BY <3>1, <3>2 DEF Alone, TreeOf
  <2>3. QED
    BY <2>1, <2>2
<1>4. \A q \in DOMAIN run : Append(q, c) \in DOMAIN run => run[Append(q, c)].phase # "build"
  BY <1>1 DEF IInv, Exclusive, Working
<1>5. c \notin Making
  BY <1>4 DEF Making, Building
<1>6. Making' = Making \cup {c}
  <2>1. DOMAIN run' = DOMAIN run /\ run'[x].phase = "build"
    BY DEF StartBuild, SetPhase, IInv, TypeOK
  <2>2. \A q \in DOMAIN run : q # x => run'[q] = run[q]
    BY DEF StartBuild, SetPhase
  <2>3. ASSUME NEW q \in DOMAIN run, NEW d \in Component, d # c
        PROVE  Append(q, d) # x
    BY <2>3, ExtendInjective DEF IInv, TypeOK, Paths
  <2>4. \A d \in Component : d # c => (d \in Making' <=> d \in Making)
    BY <2>1, <2>2, <2>3 DEF Making, Building
  <2>5. c \in Making'
    BY <2>1 DEF Making, Building
  <2>6. QED
    BY <2>4, <2>5 DEF Making
<1>7. QED
  BY <1>1, <1>2, <1>5, <1>6 DEF Order!Begin, StartBuild

LEMMA EndBuildOrder ==
    ASSUME IInv, Exclusive, NEW p \in DOMAIN run, NEW c \in Component,
           Append(p, c) \in DOMAIN run, EndBuild(p, c)
    PROVE  Order!Complete(c)
<1> DEFINE x == Append(p, c)
<1>1. run[x].phase = "build" /\ Working(p, c)
  BY DEF EndBuild, Working
<1>2. c \in Making
  BY <1>1 DEF Making, Building
<1>3. DOMAIN run' = DOMAIN run /\ run'[x].phase = "local"
  BY DEF EndBuild, SetPhase, IInv, TypeOK
<1>4. \A q \in DOMAIN run : q # x => run'[q] = run[q]
  BY DEF EndBuild, SetPhase
<1>5. c \notin Making'
  BY <1>1, <1>3 DEF Making, Building, Exclusive
<1>6. ASSUME NEW q \in DOMAIN run, NEW d \in Component, d # c
      PROVE  Append(q, d) # x
  BY <1>6, ExtendInjective DEF IInv, TypeOK, Paths
<1>7. \A d \in Component : d # c => (d \in Making' <=> d \in Making)
  BY <1>3, <1>4, <1>6 DEF Making, Building
<1>8. Making' = Making \ {c}
  BY <1>5, <1>7 DEF Making
<1>9. QED
  BY <1>2, <1>8 DEF Order!Complete, EndBuild

\* No process enters the phase "build".
LEMMA NoNewBuilds ==
    ASSUME IInv, IInv',
           \A q \in DOMAIN run' :
              run'[q].phase = "build" => q \in DOMAIN run /\ run[q].phase = "build"
    PROVE  Making' \subseteq Making
<1> SUFFICES ASSUME NEW c \in Component, NEW p \in DOMAIN run',
                    Append(p, c) \in DOMAIN run', run'[Append(p, c)].phase = "build"
             PROVE  c \in Making
  BY DEF Making, Building
<1>1. Append(p, c) \in DOMAIN run /\ run[Append(p, c)].phase = "build"
  OBVIOUS
<1>2. p \in Paths
  BY DEF IInv, TypeOK, Paths
<1>3. Append(p, c) # <<>>
  BY <1>2, ExtendPath
<1>4. PICK q \in DOMAIN run, d \in Component : Append(p, c) = Append(q, d)
  BY <1>1, <1>3, ParentLives DEF IInv
<1>5. p = q
  BY <1>2, <1>4, ExtendInjective DEF IInv, TypeOK, Paths
<1>6. QED
  BY <1>1, <1>4, <1>5 DEF Making, Building

LEMMA StepOrder ==
    ASSUME IInv, IInv', Exclusive, [Next]_vars
    PROVE  [Order!OrderNext]_Order!orderVars
<1> DEFINE NoNew == \A q \in DOMAIN run' :
              run'[q].phase = "build" => q \in DOMAIN run /\ run[q].phase = "build"
<1>0. NoNew /\ UNCHANGED built => [Order!OrderNext]_Order!orderVars
  BY NoNewBuilds, OtherSteps
<1>1. ASSUME NEW g \in Goals, Invoke(g) PROVE [Order!OrderNext]_Order!orderVars
  <2>1. NoNew /\ UNCHANGED built
    BY <1>1 DEF Invoke, Process
  <2>2. QED
    BY <1>0, <2>1
<1>2. ASSUME NEW p \in DOMAIN run, NEW c \in Component, StartMake(p, c)
      PROVE  [Order!OrderNext]_Order!orderVars
  <2>1. NoNew /\ UNCHANGED built
    BY <1>2 DEF StartMake, MayStart, Process
  <2>2. QED
    BY <1>0, <2>1
<1>3. ASSUME NEW p \in DOMAIN run, NEW c \in Component, Append(p, c) \in DOMAIN run,
             SubMake(p, c) \/ Fault(p, c)
      PROVE  [Order!OrderNext]_Order!orderVars
  <2>1. CASE StartBuild(p, c)
    BY <1>3, <2>1, StartBuildOrder DEF Order!OrderNext
  <2>2. CASE EndBuild(p, c)
    BY <1>3, <2>2, EndBuildOrder DEF Order!OrderNext
  <2> DEFINE x == Append(p, c)
  <2>0. TypeOK /\ p # x /\ run[p].phase # "build"
    BY <1>3, ExtendPath DEF IInv, TypeOK, Children, Paths
  <2>3. CASE Enter(p, c) \/ Generate(p, c) \/ GenerateFails(p, c) \/ EndTree(p, c)
    <3>1. /\ DOMAIN run' = DOMAIN run
          /\ run'[x].phase # "build"
          /\ \A q \in DOMAIN run : q # x => run'[q] = run[q]
          /\ UNCHANGED built
      BY <1>3, <2>0, <2>3
         DEF Enter, Generate, GenerateFails, EndTree, SetPhase, AfterRequires, TypeOK
    <3>2. NoNew
      BY <3>1
    <3>3. QED
      BY <1>0, <3>1, <3>2
  <2>4. CASE StartPrepare(p, c) \/ EndPrepare(p, c) \/ FailPrepare(p, c) \/ FailBuild(p, c)
    <3>1. /\ DOMAIN run' = DOMAIN run
          /\ run'[x].phase \in {run[x].phase, "failed"}
          /\ \A q \in DOMAIN run : q # x => run'[q] = run[q]
          /\ UNCHANGED built
      BY <1>3, <2>0, <2>4
         DEF StartPrepare, EndPrepare, FailPrepare, FailBuild, SetPhase, TypeOK
    <3>2. NoNew
      BY <1>3, <3>1
    <3>3. QED
      BY <1>0, <3>1, <3>2
  <2>5. CASE Return(p, c) \/ ReturnFailure(p, c)
    <3>1. /\ DOMAIN run' = DOMAIN run \ {x}
          /\ run'[p].phase \in {run[p].phase, "failed"}
          /\ \A q \in DOMAIN run' : q # p => run'[q] = run[q]
          /\ UNCHANGED built
      BY <1>3, <2>0, <2>5 DEF Return, ReturnFailure, Reap, TypeOK
    <3>2. NoNew
      BY <2>0, <3>1
    <3>3. QED
      BY <1>0, <3>1, <3>2
  <2>6. QED
    BY <1>3, <2>1, <2>2, <2>3, <2>4, <2>5 DEF SubMake, Fault
<1>4. CASE EndInvocation
  <2>1. NoNew /\ UNCHANGED built
    BY <1>4 DEF EndInvocation
  <2>2. QED
    BY <1>0, <2>1
<1>5. ASSUME NEW left \in {"none", "partial"}, Crash(left)
      PROVE  [Order!OrderNext]_Order!orderVars
  <2>1. NoNew /\ UNCHANGED built
    BY <1>5 DEF Crash
  <2>2. QED
    BY <1>0, <2>1
<1>6. ASSUME NEW c \in Component, LocalClean(Dir[c])
      PROVE  [Order!OrderNext]_Order!orderVars
  <2>1. Making = {} /\ UNCHANGED Making
    BY <1>6 DEF LocalClean, Idle, Making
  <2>2. built' \in SUBSET built
    BY <1>6 DEF LocalClean
  <2>3. QED
    BY <2>1, <2>2 DEF Order!OrderNext, Order!Clean
<1>7. CASE UNCHANGED vars
  BY <1>7 DEF vars, Order!orderVars, Making, Building
<1>8. QED
  BY <1>1, <1>2, <1>3, <1>4, <1>5, <1>6, <1>7 DEF Next, Progress

\* The recursive make, whatever it nests, fails, kills and resumes, is an
\* implementation of the order in which components are to be made.
THEOREM Refinement == Independent => (Spec => ImplementsOrder)
<1> SUFFICES ASSUME Independent PROVE Spec => ImplementsOrder
  OBVIOUS
<1>1. Init => Order!OrderInit
  BY DEF Init, Order!OrderInit, Making
<1>2. IInv /\ IInv' /\ [Next]_vars => [Order!OrderNext]_Order!orderVars
  BY InvExclusive, StepOrder
<1>3. Spec => []IInv
  BY Invariance
<1>4. QED
  BY <1>1, <1>2, <1>3, PTL DEF Spec, ImplementsOrder, Order!OrderSpec

-----------------------------------------------------------------------------
(* TreeBuild implements ComponentRecipes. *)

\* Nothing is begun in the phase "build", or at the sources.
NothingBegun ==
    \A q \in DOMAIN run' :
        /\ run'[q].phase = "build" => q \in DOMAIN run /\ run[q].phase = "build"
        /\ run'[q].sources = "running" => q \in DOMAIN run /\ run[q].sources = "running"

LEMMA NoNewSources ==
    ASSUME IInv, IInv', NothingBegun
    PROVE  Preparing' \subseteq Preparing
<1> SUFFICES ASSUME NEW c \in Component, NEW p \in DOMAIN run',
                    Append(p, c) \in DOMAIN run', run'[Append(p, c)].sources = "running"
             PROVE  c \in Preparing
  BY DEF Preparing
<1>1. Append(p, c) \in DOMAIN run /\ run[Append(p, c)].sources = "running"
  BY DEF NothingBegun
<1>2. p \in Paths
  BY DEF IInv, TypeOK, Paths
<1>3. Append(p, c) # <<>>
  BY <1>2, ExtendPath
<1>4. PICK q \in DOMAIN run, d \in Component : Append(p, c) = Append(q, d)
  BY <1>1, <1>3, ParentLives DEF IInv
<1>5. p = q
  BY <1>2, <1>4, ExtendInjective DEF IInv, TypeOK, Paths
<1>6. QED
  BY <1>1, <1>4, <1>5 DEF Preparing

\* Such a step is a pause of some recipes, or a stutter.
LEMMA QuietSteps ==
    ASSUME IInv, IInv', NothingBegun, UNCHANGED <<prepared, built>>
    PROVE  [Recipes!RecipesNext]_Recipes!recipeVars
<1>1. Making' \in SUBSET Making
  BY NoNewBuilds DEF NothingBegun
<1>2. Preparing' \in SUBSET Preparing
  BY NoNewSources
<1>3. QED
  BY <1>1, <1>2 DEF Recipes!RecipesNext, Recipes!Pause

\* What a make is at in a component, no other is at.
LEMMA OnlyOne ==
    ASSUME IInv, Exclusive, NEW p \in DOMAIN run, NEW c \in Component,
           Append(p, c) \in DOMAIN run
    PROVE  /\ c \in Preparing => run[Append(p, c)].sources = "running" /\ c \notin prepared
           /\ c \in Making => run[Append(p, c)].phase = "build" /\ c \in prepared
<1>1. ASSUME NEW q \in DOMAIN run, Append(q, c) \in DOMAIN run,
             run[Append(q, c)].sources = "running" \/ run[Append(q, c)].phase = "build"
      PROVE  q = p
  BY <1>1 DEF Exclusive, Working
<1>2. PhaseOK(p, c)
  BY DEF IInv, Phases
<1>3. QED
  BY <1>1, <1>2 DEF Preparing, Making, Building, PhaseOK

LEMMA StartPrepareRecipes ==
    ASSUME IInv, Exclusive, NEW p \in DOMAIN run, NEW c \in Component,
           Append(p, c) \in DOMAIN run, StartPrepare(p, c)
    PROVE  Recipes!StartPrepare(c)
<1> DEFINE x == Append(p, c)
<1>1. c \notin prepared /\ run[x].sources = "idle"
  BY DEF StartPrepare
<1>2. c \notin Preparing /\ c \notin Making
  BY <1>1, OnlyOne
<1>3. /\ DOMAIN run' = DOMAIN run /\ run'[x].sources = "running"
      /\ \A q \in DOMAIN run : run'[q].phase = run[q].phase
      /\ \A q \in DOMAIN run : q # x => run'[q] = run[q]
  BY DEF StartPrepare, IInv, TypeOK
<1>4. Making' = Making
  BY <1>3 DEF Making, Building
<1>5. ASSUME NEW q \in DOMAIN run, NEW d \in Component, d # c
      PROVE  Append(q, d) # x
  BY <1>5, ExtendInjective DEF IInv, TypeOK, Paths
<1>6. \A d \in Component : d # c => (d \in Preparing' <=> d \in Preparing)
  BY <1>3, <1>5 DEF Preparing
<1>7. Preparing' = Preparing \cup {c}
  BY <1>3, <1>6 DEF Preparing
<1>8. QED
  BY <1>1, <1>2, <1>4, <1>7 DEF Recipes!StartPrepare, StartPrepare

LEMMA EndPrepareRecipes ==
    ASSUME IInv, Exclusive, NEW p \in DOMAIN run, NEW c \in Component,
           Append(p, c) \in DOMAIN run, EndPrepare(p, c)
    PROVE  Recipes!EndPrepare(c)
<1> DEFINE x == Append(p, c)
<1>1. run[x].sources = "running" /\ c \in Preparing /\ Working(p, c)
  BY DEF EndPrepare, Preparing, Working
<1>2. c \notin built
  BY <1>1, OnlyOne DEF IInv
<1>3. /\ DOMAIN run' = DOMAIN run /\ run'[x].sources = "idle"
      /\ \A q \in DOMAIN run : run'[q].phase = run[q].phase
      /\ \A q \in DOMAIN run : q # x => run'[q] = run[q]
  BY DEF EndPrepare, IInv, TypeOK
<1>4. Making' = Making
  BY <1>3 DEF Making, Building
<1>5. c \notin Preparing'
  BY <1>1, <1>3 DEF Preparing, Exclusive
<1>6. ASSUME NEW q \in DOMAIN run, NEW d \in Component, d # c
      PROVE  Append(q, d) # x
  BY <1>6, ExtendInjective DEF IInv, TypeOK, Paths
<1>7. \A d \in Component : d # c => (d \in Preparing' <=> d \in Preparing)
  BY <1>3, <1>6 DEF Preparing
<1>8. Preparing' = Preparing \ {c}
  BY <1>5, <1>7 DEF Preparing
<1>9. QED
  BY <1>1, <1>2, <1>4, <1>8 DEF Recipes!EndPrepare, EndPrepare

LEMMA BuildRecipes ==
    ASSUME IInv, Exclusive, NEW p \in DOMAIN run, NEW c \in Component,
           Append(p, c) \in DOMAIN run, StartBuild(p, c) \/ EndBuild(p, c)
    PROVE  Recipes!StartBuild(c) \/ Recipes!EndBuild(c)
<1> DEFINE x == Append(p, c)
<1>0. TypeOK
  BY DEF IInv
<1>1. /\ DOMAIN run' = DOMAIN run /\ prepared' = prepared
      /\ \A q \in DOMAIN run : run'[q].sources = run[q].sources
  <2>1. CASE StartBuild(p, c)
    BY <1>0, <2>1 DEF StartBuild, SetPhase, TypeOK
  <2>2. CASE EndBuild(p, c)
    BY <1>0, <2>2 DEF EndBuild, SetPhase, TypeOK
  <2>3. QED
    BY <2>1, <2>2
<1>2. Preparing' = Preparing
  BY <1>1 DEF Preparing
<1>3. CASE StartBuild(p, c)
  <2>1. Order!Begin(c)
    BY <1>3, StartBuildOrder
  <2>2. c \in prepared /\ c \notin Preparing
    BY <1>3, OnlyOne DEF StartBuild
  <2>3. QED
    BY <1>1, <1>2, <2>1, <2>2 DEF Order!Begin, Recipes!StartBuild
<1>4. CASE EndBuild(p, c)
  BY <1>1, <1>2, <1>4, EndBuildOrder DEF Order!Complete, Recipes!EndBuild
<1>5. QED
  BY <1>3, <1>4

LEMMA StepRecipes ==
    ASSUME IInv, IInv', Exclusive, [Next]_vars
    PROVE  [Recipes!RecipesNext]_Recipes!recipeVars
<1>1. ASSUME NEW g \in Goals, Invoke(g) PROVE [Recipes!RecipesNext]_Recipes!recipeVars
  BY <1>1, QuietSteps DEF Invoke, Process, NothingBegun
<1>2. ASSUME NEW p \in DOMAIN run, NEW c \in Component, StartMake(p, c)
      PROVE  [Recipes!RecipesNext]_Recipes!recipeVars
  BY <1>2, QuietSteps DEF StartMake, MayStart, Process, NothingBegun
<1>3. ASSUME NEW p \in DOMAIN run, NEW c \in Component, Append(p, c) \in DOMAIN run,
             SubMake(p, c) \/ Fault(p, c)
      PROVE  [Recipes!RecipesNext]_Recipes!recipeVars
  <2> DEFINE x == Append(p, c)
  <2>0. TypeOK /\ p # x /\ run[p].phase # "build"
    BY <1>3, ExtendPath DEF IInv, TypeOK, Children, Paths
  <2>1. CASE StartPrepare(p, c)
    BY <1>3, <2>1, StartPrepareRecipes DEF Recipes!RecipesNext
  <2>2. CASE EndPrepare(p, c)
    BY <1>3, <2>2, EndPrepareRecipes DEF Recipes!RecipesNext
  <2>3. CASE StartBuild(p, c) \/ EndBuild(p, c)
    BY <1>3, <2>3, BuildRecipes DEF Recipes!RecipesNext
  <2>4. CASE Enter(p, c) \/ Generate(p, c) \/ GenerateFails(p, c) \/ EndTree(p, c)
    <3>1. /\ DOMAIN run' = DOMAIN run
          /\ run'[x].phase # "build" /\ run'[x].sources = run[x].sources
          /\ \A q \in DOMAIN run : q # x => run'[q] = run[q]
          /\ UNCHANGED <<prepared, built>>
      BY <1>3, <2>0, <2>4
         DEF Enter, Generate, GenerateFails, EndTree, SetPhase, AfterRequires, TypeOK
    <3>2. NothingBegun
      BY <1>3, <3>1 DEF NothingBegun
    <3>3. QED
      BY <3>1, <3>2, QuietSteps
  <2>5. CASE FailPrepare(p, c) \/ FailBuild(p, c)
    <3>1. /\ DOMAIN run' = DOMAIN run
          /\ run'[x].phase \in {run[x].phase, "failed"}
          /\ run'[x].sources \in {run[x].sources, "failed"}
          /\ \A q \in DOMAIN run : q # x => run'[q] = run[q]
          /\ UNCHANGED <<prepared, built>>
      BY <1>3, <2>0, <2>5 DEF FailPrepare, FailBuild, SetPhase, TypeOK
    <3>2. NothingBegun
      BY <1>3, <3>1 DEF NothingBegun
    <3>3. QED
      BY <3>1, <3>2, QuietSteps
  <2>6. CASE Return(p, c) \/ ReturnFailure(p, c)
    <3>1. /\ DOMAIN run' = DOMAIN run \ {x}
          /\ run'[p].phase \in {run[p].phase, "failed"} /\ run'[p].sources = run[p].sources
          /\ \A q \in DOMAIN run' : q # p => run'[q] = run[q]
          /\ UNCHANGED <<prepared, built>>
      BY <1>3, <2>0, <2>6 DEF Return, ReturnFailure, Reap, TypeOK
    <3>2. NothingBegun
      BY <1>3, <2>0, <3>1 DEF NothingBegun
    <3>3. QED
      BY <3>1, <3>2, QuietSteps
  <2>7. QED
    BY <1>3, <2>1, <2>2, <2>3, <2>4, <2>5, <2>6 DEF SubMake, Fault
<1>4. CASE EndInvocation
  BY <1>4, QuietSteps DEF EndInvocation, NothingBegun
<1>5. ASSUME NEW left \in {"none", "partial"}, Crash(left)
      PROVE  [Recipes!RecipesNext]_Recipes!recipeVars
  BY <1>5, QuietSteps DEF Crash, NothingBegun
<1>6. ASSUME NEW c \in Component, LocalClean(Dir[c])
      PROVE  [Recipes!RecipesNext]_Recipes!recipeVars
  <2>1. Making = {} /\ Preparing = {} /\ UNCHANGED <<Making, Preparing>>
    BY <1>6 DEF LocalClean, Idle, Making, Preparing
  <2>2. prepared' \in SUBSET prepared /\ built' \in SUBSET (built \cap prepared')
    BY <1>6 DEF LocalClean, IInv
  <2>3. QED
    BY <2>1, <2>2 DEF Recipes!RecipesNext, Recipes!Renew
<1>7. CASE UNCHANGED vars
  BY <1>7 DEF vars, Recipes!recipeVars, Making, Building, Preparing
<1>8. QED
  BY <1>1, <1>2, <1>3, <1>4, <1>5, <1>6, <1>7 DEF Next, Progress

\* All the makes of a tree do with each component what its own rules expect of one make:
\* its sources are prepared once at a time and built when nobody prepares them.
THEOREM RecipesOfATree == Independent => (Spec => ImplementsRecipes)
<1> SUFFICES ASSUME Independent PROVE Spec => ImplementsRecipes
  OBVIOUS
<1>1. Init => Recipes!RecipesInit
  BY DEF Init, Recipes!RecipesInit, Making, Preparing
<1>2. IInv /\ IInv' /\ [Next]_vars => [Recipes!RecipesNext]_Recipes!recipeVars
  BY InvExclusive, StepRecipes
<1>3. Spec => []IInv
  BY Invariance
<1>4. QED
  BY <1>1, <1>2, <1>3, PTL DEF Spec, ImplementsRecipes, Recipes!RecipesSpec

=============================================================================
