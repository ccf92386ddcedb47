------------------------- MODULE BuildRequiresProofs -------------------------
(***************************************************************************)
(* Proofs that .requires and .requires_depend are right, for all Makefiles,*)
(* cyclic ones included.  The walk keeps two facts: what a printed rule    *)
(* names is walked or still in the loop of a call under way, and nothing   *)
(* is walked that the rules do not lead to.                                *)
(***************************************************************************)
EXTENDS BuildRequiresInvariant, TLAPS

LEMMA RootNotAll == Root \in Component /\ "all" \notin Component /\ "all" \in Rules
BY ConstantAssumption DEF Rules

LEMMA InitInv == Init => IInv
<1> SUFFICES ASSUME Init PROVE IInv
  OBVIOUS
<1> USE DEF Init, None, Absent
<1>1. requires \in [Component -> SUBSET Component]
  BY ConstantAssumption
<1>2. TypeOK
  BY <1>1, ConstantAssumption DEF TypeOK
<1>3. QED
  BY <1>2 DEF IInv, NotWalking, WhileRunning, Walked, Stack, WalkedOnce, OnDisk, FaultOnDisk

\* An edit leaves the rules of all other directories as they are on disk.
LEMMA EditInv ==
    ASSUME IInv, NEW c \in Component, NEW m \in Makefiles, Edit(c, m[c])
    PROVE  IInv'
<1> USE DEF Edit, script
<1>0. /\ TypeOK /\ NotWalking /\ phase = "idle" /\ phase' = "idle"
      /\ UNCHANGED <<file, dependFile, phase, stack, rest, all, rules, depends, crashes>>
  BY DEF IInv
<1>1. m[c] \in SUBSET Component
  BY ConstantAssumption
<1>2. edits + 1 \in 0 .. MaxEdits
  BY <1>0, ConstantAssumption DEF TypeOK
<1>3. TypeOK'
  BY <1>0, <1>1, <1>2 DEF TypeOK
<1>4. \A d \in Component : Dir[d] \notin newer' =>
          d # c /\ Dir[d] \notin newer /\ Listed(d)' = Listed(d)
  BY <1>0 DEF Listed, TypeOK
<1>5. \A d \in Component : Faulty(d) => Faulty(d)' \/ Dir[d] \in newer'
  BY <1>0 DEF Faulty, TypeOK
<1>6. OnDisk'
  <2> SUFFICES ASSUME file.state = "complete" PROVE OnDisk'
    BY <1>0 DEF OnDisk
  <2>1. OnDisk /\ file.tree \subseteq Component
    BY <1>0 DEF IInv, TypeOK
  <2>2. Dir[Root] \notin newer' => file.rules["all"] = RootListed'
    BY <1>0, <1>4, <2>1, RootNotAll DEF OnDisk, RootListed
  <2>3. \A d \in file.tree : Dir[d] \notin newer' => file.rules[d] = Listed(d)'
    BY <1>0, <1>4, <2>1 DEF OnDisk
  <2>4. QED
    BY <1>0, <2>1, <2>2, <2>3 DEF OnDisk, NoMoreThan
<1>7. FaultOnDisk'
  BY <1>0, <1>5 DEF IInv, FaultOnDisk
<1>8. NotWalking' /\ WhileRunning' /\ Walked' /\ Stack' /\ WalkedOnce'
  BY <1>0 DEF IInv, NotWalking, WhileRunning, Walked, Stack, WalkedOnce
<1>9. QED
  BY <1>3, <1>6, <1>7, <1>8 DEF IInv

LEMMA OpenInv ==
    ASSUME IInv, Open
    PROVE  IInv'
<1> USE DEF Open, script
<1>1. TypeOK'
  BY ConstantAssumption DEF IInv, TypeOK, None
<1>2. NotWalking' /\ WhileRunning' /\ Walked' /\ Stack' /\ WalkedOnce'
  BY DEF IInv, NotWalking, WhileRunning, Walked, Stack, WalkedOnce, None
<1>3. OnDisk' /\ FaultOnDisk'
  BY DEF OnDisk, FaultOnDisk
<1>4. QED
  BY <1>1, <1>2, <1>3 DEF IInv

\* The script ends and leaves no complete file.
LEMMA EndInv ==
    ASSUME TypeOK', Forget, phase' = "idle",
           file'.state # "complete",
           FaultOnDisk'
    PROVE  IInv'
BY DEF Forget, IInv, NotWalking, WhileRunning, Walked, Stack, WalkedOnce, OnDisk, None

LEMMA GiveUpInv ==
    ASSUME IInv, NEW c \in Component, Faulty(c), phase \in {"root", "walk"},
           GiveUp(ReadMakefile(c))
    PROVE  IInv'
<1> USE DEF GiveUp
<1>1. TypeOK'
  BY DEF IInv, TypeOK, Forget, None, ReadMakefile
<1>2. file'.state # "complete"
  BY DEF IInv, WhileRunning
<1>3. Dir[c] \in dependFile' /\ Faulty(c)'
  BY DEF ReadMakefile, Faulty
<1>4. FaultOnDisk'
  BY <1>3 DEF FaultOnDisk
<1>5. QED
  BY <1>1, <1>2, <1>4, EndInv

LEMMA ReadRootInv ==
    ASSUME IInv, ReadRoot
    PROVE  IInv'
<1>1. CASE Faulty(Root) /\ GiveUp(ReadMakefile(Root))
  BY <1>1, RootNotAll, GiveUpInv DEF ReadRoot
<1>2. CASE ~ (Faulty(Root) /\ GiveUp(ReadMakefile(Root)))
  <2> USE DEF ReadRoot
  <2>0. /\ TypeOK /\ phase = "root" /\ phase' = "walk"
        /\ stack' = <<"all">> /\ all = {} /\ all' = {} /\ depends = {}
        /\ rules' = [None EXCEPT !["all"] = RootListed]
        /\ rest' = [None EXCEPT !["all"] = RootListed]
        /\ depends' = {Dir[Root]}
        /\ newer = {} /\ file.state = "partial"
        /\ UNCHANGED <<requires, newer, file, dependFile, all, edits, crashes>>
    BY <1>2 DEF IInv, NotWalking, WhileRunning, ReadMakefile
  <2>1. RootListed \in SUBSET Component /\ RootListed' = RootListed
    BY <2>0, RootNotAll DEF RootListed, Listed, TypeOK
  <2>2. /\ None \in [Rules -> SUBSET Component] /\ \A x \in Rules : None[x] = {}
        /\ "all" \in Rules
    BY RootNotAll DEF None
  <2>3. /\ rules' \in [Rules -> SUBSET Component] /\ rest' = rules'
        /\ rules'["all"] = RootListed
        /\ \A x \in Rules : x # "all" => rest'[x] = {}
    BY <2>0, <2>1, <2>2
  <2>4. TypeOK'
    BY <2>0, <2>3, RootNotAll DEF TypeOK, Rules
  <2>5. Walked'
    BY <2>0, <2>1, <2>3 DEF Walked, NoMoreThan
  <2>6. Stack' /\ WalkedOnce'
    BY <2>0, <2>3 DEF Stack, WalkedOnce
  <2>7. NotWalking' /\ WhileRunning' /\ OnDisk' /\ FaultOnDisk'
    BY <2>0 DEF NotWalking, WhileRunning, OnDisk, FaultOnDisk
  <2>8. QED
    BY <2>4, <2>5, <2>6, <2>7 DEF IInv
<1>3. QED
  BY <1>1, <1>2

\* What every step of the walk starts from.
LEMMA WalkFacts ==
    ASSUME IInv, phase = "walk", stack # << >>
    PROVE  /\ TypeOK /\ Walked /\ Stack /\ WalkedOnce /\ WhileRunning
           /\ Len(stack) \in Nat \ {0} /\ Len(stack) \in DOMAIN stack
           /\ DOMAIN stack = 1 .. Len(stack)
           /\ Top \in all \cup {"all"} /\ Top \in Rules
           /\ rest[Top] \subseteq Component
<1>1. TypeOK /\ Walked /\ Stack /\ WalkedOnce /\ WhileRunning
  BY DEF IInv
<1>2. /\ Len(stack) \in Nat \ {0} /\ Len(stack) \in DOMAIN stack
      /\ DOMAIN stack = 1 .. Len(stack)
  BY <1>1 DEF TypeOK
<1>3. Top \in all \cup {"all"} /\ Top \in Rules
  BY <1>1, <1>2 DEF Stack, Top, TypeOK, Rules
<1>4. QED
  BY <1>1, <1>2, <1>3 DEF TypeOK

LEMMA SkipInv ==
    ASSUME IInv, phase = "walk", stack # << >>, NEW c \in Component, c \in rest[Top], Skip(c)
    PROVE  IInv'
<1> USE DEF Skip
<1>1. /\ TypeOK /\ Walked /\ Stack /\ WalkedOnce /\ WhileRunning /\ c \in all
      /\ Top \in all \cup {"all"} /\ Top \in Rules
  BY WalkFacts DEF Known
<1>2. rest' \in [Rules -> SUBSET Component] /\ rest \in [Rules -> SUBSET Component]
  BY <1>1 DEF TypeOK
<1>3. \A x \in Rules : rest'[x] \subseteq rest[x] /\ rest[x] \subseteq rest'[x] \cup all
  BY <1>1, <1>2
<1>4. TypeOK'
  BY <1>1, <1>2 DEF TypeOK
<1>5. all \cup {"all"} \subseteq Rules
  BY <1>1 DEF TypeOK, Rules
<1>6. Walked'
  <2>1. \A x \in all \cup {"all"} : rules[x] \subseteq all \cup rest'[x] /\ rest'[x] \subseteq rules[x]
    BY <1>1, <1>3, <1>5 DEF Walked
  <2>2. QED
    BY <1>1, <2>1 DEF Walked, RootListed, Listed, NoMoreThan
<1>7. Stack'
  BY <1>1, <1>3 DEF Stack
<1>8. NotWalking' /\ WhileRunning' /\ WalkedOnce' /\ OnDisk' /\ FaultOnDisk'
  BY <1>1 DEF NotWalking, WhileRunning, WalkedOnce, OnDisk, FaultOnDisk
<1>9. QED
  BY <1>4, <1>6, <1>7, <1>8 DEF IInv

LEMMA VisitInv ==
    ASSUME IInv, phase = "walk", stack # << >>, NEW c \in Component, c \in rest[Top], Visit(c)
    PROVE  IInv'
<1>1. CASE Faulty(c) /\ GiveUp(ReadMakefile(c))
  BY <1>1, GiveUpInv
<1>2. CASE ~ (Faulty(c) /\ GiveUp(ReadMakefile(c)))
  <2>0. /\ c \notin all
        /\ all' = all \cup {c}
        /\ depends' = depends \cup {Dir[c]}
        /\ rules' = [rules EXCEPT ![c] = Listed(c)]
        /\ rest' = [rest EXCEPT ![Top] = @ \ {c}, ![c] = Listed(c)]
        /\ stack' = Append(stack, c)
        /\ UNCHANGED <<requires, newer, file, dependFile, phase, edits, crashes>>
    BY <1>2 DEF Visit, Known, ReadMakefile, Descend
  <2>1. /\ TypeOK /\ Walked /\ Stack /\ WalkedOnce /\ WhileRunning
        /\ Len(stack) \in Nat \ {0} /\ Len(stack) \in DOMAIN stack
        /\ DOMAIN stack = 1 .. Len(stack)
        /\ Top \in all \cup {"all"} /\ Top \in Rules
    BY WalkFacts
  <2>2. /\ c # "all" /\ c \in Rules /\ Top # c
        /\ Listed(c) \in SUBSET Component /\ Listed(c)' = Listed(c)
        /\ all \cup {"all"} \subseteq Rules
    BY <2>0, <2>1, RootNotAll DEF Rules, Listed, TypeOK
  <2>3. /\ rules \in [Rules -> SUBSET Component] /\ rest \in [Rules -> SUBSET Component]
        /\ stack \in Seq(Rules)
    BY <2>1 DEF TypeOK
  <2>4. /\ rules' \in [Rules -> SUBSET Component] /\ rest' \in [Rules -> SUBSET Component]
        /\ rules'[c] = Listed(c) /\ \A x \in Rules : x # c => rules'[x] = rules[x]
        /\ rest'[c] = Listed(c) /\ rest'[Top] = rest[Top] \ {c}
        /\ \A x \in Rules : x # c /\ x # Top => rest'[x] = rest[x]
    BY <2>0, <2>1, <2>2, <2>3
  <2>5. /\ stack' \in Seq(Rules) /\ Len(stack') = Len(stack) + 1
        /\ DOMAIN stack' = 1 .. Len(stack) + 1
        /\ stack'[Len(stack) + 1] = c
        /\ \A i \in DOMAIN stack : stack'[i] = stack[i]
    BY <2>0, <2>1, <2>2, <2>3
  <2>6. TypeOK'
    BY <2>0, <2>1, <2>4, <2>5 DEF TypeOK
  <2>7. Walked'
    <3>1. Walked /\ RootListed' = RootListed /\ (\A d \in Component : Listed(d)' = Listed(d))
      BY <2>0, <2>1 DEF RootListed, Listed
    <3>2. rules'["all"] = RootListed /\ \A d \in all' : rules'[d] = Listed(d)
      BY <2>0, <2>2, <2>4, <3>1, RootNotAll DEF Walked, Rules
    <3>3. \A x \in all' \cup {"all"} : rules'[x] \subseteq all' \cup rest'[x]
      BY <2>0, <2>2, <2>4, <3>1 DEF Walked
    <3>4. \A x \in all' \cup {"all"} : rest'[x] \subseteq rules'[x]
      BY <2>0, <2>2, <2>4, <3>1 DEF Walked
    <3>5. NoMoreThan(rules', RootListed, all')
      <4> SUFFICES ASSUME NEW S \in SUBSET Component, RootListed \subseteq S,
                          \A d \in S \cap all' : rules'[d] \subseteq S
                   PROVE  all' \subseteq S
        BY DEF NoMoreThan
      <4>1. \A d \in S \cap all : rules[d] \subseteq S
        BY <2>0, <2>2, <2>4
      <4>2. all \subseteq S
        BY <4>1, <3>1 DEF Walked, NoMoreThan
      <4>3. rules[Top] \subseteq S
        BY <2>1, <3>1, <4>1, <4>2 DEF Walked
      <4>4. c \in S
        BY <2>1, <4>3 DEF Walked
      <4>5. QED
        BY <2>0, <4>2, <4>4
    <3>6. depends' = {Dir[Root]} \cup {Dir[d] : d \in all'}
      BY <2>0, <3>1 DEF Walked
    <3>7. NoMoreThan(rules, RootListed, all)'
      BY <3>1, <3>5 DEF NoMoreThan
    <3>8. \A d \in all' : rules'[d] = Listed(d)'
      BY <2>6, <3>1, <3>2 DEF TypeOK
    <3>9. QED
      BY <3>1, <3>2, <3>3, <3>4, <3>6, <3>7, <3>8 DEF Walked
  <2>8. Stack'
    <3>1. \A i \in DOMAIN stack' : stack'[i] \in all' \cup {"all"}
      BY <2>0, <2>1, <2>5 DEF Stack
    <3>2. ASSUME NEW x \in Rules, rest'[x] # {} PROVE \E i \in DOMAIN stack' : stack'[i] = x
      <4>1. CASE x = c
        BY <2>1, <2>5, <4>1
      <4>2. CASE x # c
        <5>1. rest[x] # {}
          BY <2>4, <3>2, <4>2
        <5>2. PICK i \in DOMAIN stack : stack[i] = x
          BY <2>1, <5>1 DEF Stack
        <5>3. i \in DOMAIN stack' /\ stack'[i] = x
          BY <2>1, <2>5, <5>2
        <5>4. QED
          BY <5>3
      <4>3. QED
        BY <4>1, <4>2
    <3>3. QED
      BY <3>1, <3>2 DEF Stack
  <2>9. WalkedOnce'
    <3>1. \A i \in DOMAIN stack : stack[i] # c
      BY <2>0, <2>1, <2>2 DEF Stack
    <3>2. QED
      BY <2>1, <2>5, <3>1 DEF WalkedOnce
  <2>10. NotWalking' /\ WhileRunning' /\ OnDisk' /\ FaultOnDisk'
    BY <2>0, <2>1 DEF NotWalking, WhileRunning, OnDisk, FaultOnDisk
  <2>11. QED
    BY <2>6, <2>7, <2>8, <2>9, <2>10 DEF IInv
<1>3. QED
  BY <1>1, <1>2

LEMMA DoneInv ==
    ASSUME IInv, Done
    PROVE  IInv'
<1> USE DEF Done
<1>1. /\ TypeOK /\ Walked /\ Stack /\ WalkedOnce /\ WhileRunning
      /\ Len(stack) \in Nat \ {0} /\ DOMAIN stack = 1 .. Len(stack)
  BY WalkFacts
<1>2. /\ stack' \in Seq(Rules) /\ DOMAIN stack' = 1 .. Len(stack) - 1
      /\ \A i \in DOMAIN stack' : stack'[i] = stack[i]
  BY <1>1 DEF TypeOK
<1>3. TypeOK'
  BY <1>1, <1>2 DEF TypeOK
<1>4. Stack'
  <2>1. ASSUME NEW x \in Rules, rest[x] # {} PROVE \E i \in DOMAIN stack' : stack'[i] = x
    <3>1. PICK i \in DOMAIN stack : stack[i] = x
      BY <1>1, <2>1 DEF Stack
    <3>2. i # Len(stack)
      BY <2>1, <3>1 DEF Top
    <3>3. i \in DOMAIN stack' /\ stack'[i] = x
      BY <1>1, <1>2, <3>1, <3>2
    <3>4. QED
      BY <3>3
  <2>2. QED
    BY <1>1, <1>2, <2>1 DEF Stack
<1>5. WalkedOnce'
  BY <1>1, <1>2 DEF WalkedOnce
<1>6. Walked' /\ NotWalking' /\ WhileRunning' /\ OnDisk' /\ FaultOnDisk'
  BY <1>1 DEF Walked, NotWalking, WhileRunning, OnDisk, FaultOnDisk, RootListed, Listed,
              NoMoreThan
<1>7. QED
  BY <1>3, <1>4, <1>5, <1>6 DEF IInv

LEMMA CloseRequiresInv ==
    ASSUME IInv, CloseRequires
    PROVE  IInv'
<1> USE DEF CloseRequires, script
<1>1. TypeOK /\ Walked /\ WhileRunning
  BY DEF IInv
<1>2. TypeOK'
  BY <1>1 DEF TypeOK
<1>3. Walked'
  BY <1>1 DEF Walked, RootListed, Listed, NoMoreThan
<1>4. Stack' /\ WalkedOnce' /\ NotWalking' /\ WhileRunning' /\ OnDisk' /\ FaultOnDisk'
  BY <1>1 DEF IInv, Stack, WalkedOnce, NotWalking, WhileRunning, OnDisk, FaultOnDisk
<1>5. QED
  BY <1>2, <1>3, <1>4 DEF IInv

\* What is closed is on disk, whatever becomes of .requires_depend.
LEMMA ClosedOnDisk ==
    ASSUME IInv, phase = "closed"
    PROVE  /\ file.rules["all"] \subseteq file.tree
           /\ \A c \in file.tree : file.rules[c] \subseteq file.tree
           /\ NoMoreThan(file.rules, file.rules["all"], file.tree)
           /\ file.rules["all"] = RootListed
           /\ \A c \in file.tree : file.rules[c] = Listed(c)
           /\ depends = {Dir[Root]} \cup {Dir[c] : c \in file.tree}
<1>1. /\ TypeOK /\ Walked /\ Stack /\ stack = << >>
      /\ file.rules = rules /\ file.tree = all
  BY DEF IInv, WhileRunning
<1>2. \A x \in Rules : rest[x] = {}
  BY <1>1 DEF Stack
<1>3. all \cup {"all"} \subseteq Rules
  BY <1>1 DEF TypeOK, Rules
<1>4. \A x \in all \cup {"all"} : rules[x] \subseteq all
  BY <1>1, <1>2, <1>3 DEF Walked
<1>5. QED
  BY <1>1, <1>4 DEF Walked

LEMMA CloseDependInv ==
    ASSUME IInv, CloseDepend
    PROVE  IInv'
<1> USE DEF CloseDepend, Forget
<1>1. TypeOK /\ WhileRunning /\ file.state = "complete"
  BY DEF IInv, WhileRunning
<1>2. TypeOK'
  BY <1>1 DEF TypeOK, None
<1>3. OnDisk'
  BY ClosedOnDisk DEF OnDisk, NoMoreThan, RootListed, Listed
<1>4. Stack' /\ WalkedOnce' /\ NotWalking' /\ WhileRunning' /\ Walked' /\ FaultOnDisk'
  BY <1>1 DEF Stack, WalkedOnce, NotWalking, WhileRunning, Walked, FaultOnDisk, None
<1>5. QED
  BY <1>2, <1>3, <1>4 DEF IInv

LEMMA KillInv ==
    ASSUME IInv, NEW written \in SUBSET depends, Kill(written)
    PROVE  IInv'
<1> USE DEF Kill, Forget
<1>1. TypeOK /\ crashes' # 0 /\ crashes + 1 \in 0 .. MaxCrashes
  BY ConstantAssumption DEF IInv, TypeOK
<1>2. TypeOK'
  BY <1>1 DEF TypeOK, None, Absent
<1>3. ASSUME file'.state = "complete" PROVE phase = "closed" /\ file' = file
  BY <1>3 DEF Absent, IInv, WhileRunning, TypeOK
<1>4. OnDisk'
  <2> SUFFICES ASSUME file'.state = "complete" PROVE OnDisk'
    BY DEF OnDisk
  <2>1. phase = "closed" /\ file' = file
    BY <1>3
  <2>2. QED
    BY <1>1, <2>1, ClosedOnDisk DEF OnDisk, NoMoreThan, RootListed, Listed
<1>5. Stack' /\ WalkedOnce' /\ NotWalking' /\ WhileRunning' /\ Walked' /\ FaultOnDisk'
  BY <1>1 DEF Stack, WalkedOnce, NotWalking, WhileRunning, Walked, FaultOnDisk, None
<1>6. QED
  BY <1>2, <1>4, <1>5 DEF IInv

LEMMA NextInv == IInv /\ [Next]_vars => IInv'
<1> SUFFICES ASSUME IInv, [Next]_vars PROVE IInv'
  OBVIOUS
<1>1. ASSUME NEW c \in Component, NEW m \in Makefiles, Edit(c, m[c]) PROVE IInv'
  BY <1>1, EditInv
<1>2. ASSUME NEW c \in Component, Walk(c) PROVE IInv'
  BY <1>2, SkipInv, VisitInv DEF Walk, Least
<1>3. ASSUME NEW written \in SUBSET depends, Kill(written) PROVE IInv'
  BY <1>3, KillInv
<1>4. CASE UNCHANGED vars
  BY <1>4 DEF vars, script, IInv, TypeOK, NotWalking, WhileRunning, Walked, Stack, WalkedOnce,
              OnDisk, FaultOnDisk, NoMoreThan, RootListed, Listed, Faulty
<1>5. QED
  BY <1>1, <1>2, <1>3, <1>4, OpenInv, ReadRootInv, DoneInv, CloseRequiresInv, CloseDependInv
     DEF Next

-----------------------------------------------------------------------------
(* Theorems *)

\* The walk of build_requires and the files it leaves keep the invariant.
THEOREM Invariance == Spec => []IInv
<1>1. QED
  BY InitInv, NextInv, PTL DEF Spec

\* What the rules of the file reach is what the Makefiles reach.
LEMMA InvAccurate ==
    ASSUME IInv, phase = "idle", file.state = "complete", Dir[Root] \notin newer,
           \A c \in file.tree : Dir[c] \notin newer
    PROVE  Accurate
<1>1. /\ file.rules["all"] = RootListed /\ \A c \in file.tree : file.rules[c] = Listed(c)
      /\ RootListed \subseteq file.tree
      /\ \A c \in file.tree : file.rules[c] \subseteq file.tree
      /\ NoMoreThan(file.rules, RootListed, file.tree)
      /\ file.tree \subseteq Component
  BY DEF IInv, OnDisk, TypeOK
<1>2. DOMAIN Graph = Component /\ \A c \in Component : Graph[c] = Listed(c)
  BY DEF Graph
<1>3. Closed(Graph, file.tree)
  BY <1>1, <1>2 DEF Closed
<1>4. ASSUME NEW S \in SUBSET Component, RootListed \subseteq S, Closed(Graph, S)
      PROVE  file.tree \subseteq S
  BY <1>1, <1>2, <1>4 DEF NoMoreThan, Closed
<1>5. QED
  BY <1>1, <1>2, <1>3, <1>4 DEF Accurate, Reachable

\* A .requires with its TREEDIRS is right about the Makefiles it was made from.
THEOREM WrittenRight == Spec => []CompleteIsAccurate
<1>1. IInv => CompleteIsAccurate
  BY InvAccurate DEF CompleteIsAccurate
<1>2. QED
  BY <1>1, Invariance, PTL

\* A .requires that make does not have made again is right about the Makefiles as
\* they are now.
THEOREM KeptRight == Spec => []UpToDateIsAccurate
<1>1. ASSUME IInv PROVE UpToDateIsAccurate
  <2> SUFFICES ASSUME crashes = 0, phase = "idle", file.state = "complete", ~Stale
               PROVE  Accurate
    BY DEF UpToDateIsAccurate
  <2>1. dependFile = {Dir[Root]} \cup {Dir[c] : c \in file.tree}
    BY <1>1 DEF IInv, OnDisk
  <2>2. Dir[Root] \notin newer /\ \A c \in file.tree : Dir[c] \notin newer
    BY <2>1 DEF Stale
  <2>3. QED
    BY <1>1, <2>2, InvAccurate
<1>2. QED
  BY <1>1, Invariance, PTL

\* A .requires that build_requires gave up on waits for a Makefile to be corrected.
THEOREM FaultKept == Spec => []FaultIsNoticed
<1>1. IInv => FaultIsNoticed
  BY DEF IInv, FaultOnDisk, FaultIsNoticed, Stale
<1>2. QED
  BY <1>1, Invariance, PTL

\* build_requires calls itself for a component at most once, so that its recursion
\* ends for Makefiles that require each other in a circle.
THEOREM RecursionBounded == Spec => []WalkedOnce
<1>1. IInv => WalkedOnce
  BY DEF IInv
<1>2. QED
  BY <1>1, Invariance, PTL

=============================================================================
