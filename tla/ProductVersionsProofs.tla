------------------------ MODULE ProductVersionsProofs ------------------------
(***************************************************************************)
(* Proofs about products of several versions, for any REQUIRES.  The       *)
(* argument: what a make has done of its list is built; what is built is   *)
(* installed for the version it was built under; and a make in a tree with *)
(* nothing of another version reads no list and finds no stamp but its     *)
(* own, because the trees of what is in a tree are parts of it.            *)
(***************************************************************************)
EXTENDS ProductVersionsInvariant, TLAPS

Frame == [component : Component, version : Version, done : SUBSET Component]

\* A tree has the requirements of its component and the trees of its members.
LEMMA TreesNest ==
    ASSUME NEW v \in Version, NEW c \in Component
    PROVE  /\ Tree[v][c] \subseteq Component
           /\ Requires[v][c] \subseteq Tree[v][c]
           /\ \A d \in Tree[v][c] : Tree[v][d] \subseteq Tree[v][c]
<1>1. DOMAIN Requires[v] = Component
  BY VersionAssumption
<1>2. Reachable(Requires[v], Requires[v][c], Tree[v][c])
  BY ListAssumption DEF IsTree
<1>3. Tree[v][c] \subseteq Component /\ Requires[v][c] \subseteq Tree[v][c]
  BY <1>1, <1>2 DEF Reachable
<1>4. ASSUME NEW d \in Tree[v][c]
      PROVE  Tree[v][d] \subseteq Tree[v][c]
  <2>1. Closed(Requires[v], Tree[v][c]) /\ d \in Component
    BY <1>2, <1>3 DEF Reachable
  <2>2. Requires[v][d] \subseteq Tree[v][c]
    BY <2>1 DEF Closed
  <2>3. Reachable(Requires[v], Requires[v][d], Tree[v][d])
    BY <2>1, ListAssumption DEF IsTree
  <2>4. QED
    BY <1>1, <1>3, <2>1, <2>2, <2>3 DEF Reachable
<1>5. QED
  BY <1>3, <1>4

\* The make on top and its list.
LEMMA TopFacts ==
    ASSUME TypeOK, ~Idle
    PROVE  /\ Len(stack) \in DOMAIN stack
           /\ Len(stack) \in Nat \ {0}
           /\ DOMAIN stack = 1 .. Len(stack)
           /\ Top \in Frame
           /\ \A i \in DOMAIN stack : stack[i] \in Frame
           /\ \A c \in Component : c \in Written => List(c) \subseteq Component
<1>1. stack \in Seq(Frame) /\ stack # <<>>
  BY DEF TypeOK, Idle, Frame
<1>2. /\ Len(stack) \in Nat \ {0}
      /\ DOMAIN stack = 1 .. Len(stack)
      /\ \A i \in DOMAIN stack : stack[i] \in Frame
  BY <1>1
<1>3. ASSUME NEW c \in Component, c \in Written
      PROVE  List(c) \subseteq Component
  BY <1>3, TreesNest DEF Written, List, TypeOK
<1>4. QED
  BY <1>2, <1>3 DEF Top

\* A product is made by the user, under its own version.
LEMMA ProductOnTop ==
    ASSUME IInv, ~Idle, Top.component \in Product
    PROVE  /\ Len(stack) = 1
           /\ \A m \in Makes : m.component = Top.component => m.version = Top.version
<1>1. TypeOK
  BY DEF IInv
<1>2. Len(stack) = 1
  <2>1. SUFFICES ASSUME Len(stack) # 1 PROVE FALSE
    OBVIOUS
  <2> DEFINE i == Len(stack) - 1
  <2>2. i \in DOMAIN stack /\ i < Len(stack) /\ i + 1 = Len(stack)
    BY <1>1, <2>1, TopFacts
  <2>3. stack[i].component \in Written /\ Top.component \in List(stack[i].component)
    BY <2>2 DEF IInv, Descents, Top
  <2>4. stack[i].component \in Component /\ listed[stack[i].component] \in Version
    BY <1>1, <2>3 DEF Written, TypeOK
  <2>5. QED
    BY <2>3, <2>4, ProductAssumption DEF List
<1>3. [component |-> Top.component, version |-> Top.version] \in Makes
  BY <1>2 DEF IInv, Asked, Top
<1>4. QED
  BY <1>2, <1>3, ProductAssumption

\* Unless something is mixed, the make on top is in the tree of the first.
LEMMA InOwnTree ==
    ASSUME IInv, ~Idle, ~mixed
    PROVE  LET root == stack[1] IN
           /\ root \in Frame /\ Top.version = root.version
           /\ Top.component \in {root.component} \cup Tree[root.version][root.component]
           /\ Tree[root.version][Top.component] \subseteq Tree[root.version][root.component]
           /\ \A c \in {Top.component} \cup Tree[root.version][Top.component] :
                 {listed[c], builtFor[c]} \subseteq {NoVersion, root.version}
<1> DEFINE root == stack[1]
<1>1. TypeOK /\ Descents /\ Unmixed
  BY DEF IInv
<1>2. root \in Frame /\ Top.version = root.version
  BY <1>1, TopFacts DEF Descents, Top
<1>3. Top.component \in {root.component} \cup Tree[root.version][root.component]
  BY <1>1, TopFacts DEF Unmixed, Top
<1>4. Tree[root.version][Top.component] \subseteq Tree[root.version][root.component]
  BY <1>2, <1>3, TreesNest DEF Frame
<1>5. QED
  BY <1>1, <1>2, <1>3, <1>4 DEF Unmixed

-----------------------------------------------------------------------------

LEMMA InitInv == Init => IInv
<1> SUFFICES ASSUME Init PROVE IInv
  OBVIOUS
<1> USE DEF Init
<1>1. TypeOK
  <2>1. stack \in Seq(Frame)
    OBVIOUS
  <2>2. 0 \in 0 .. MaxMakes /\ 0 \in 0 .. MaxFaults
    BY VersionAssumption
  <2>3. QED
    BY <2>1, <2>2 DEF TypeOK, Frame
<1>2. Idle /\ DOMAIN stack = {} /\ Built = {}
  BY DEF Idle, Built
<1>3. Descents /\ DoneIsBuilt /\ BuiltIsInstalled /\ Asked /\ Unmixed
  BY <1>2 DEF Descents, DoneIsBuilt, BuiltIsInstalled, Asked, Unmixed
<1>4. ProductsOwn
  BY VersionAssumption DEF ProductsOwn
<1>5. TarballComplete /\ CleanSwitchIsRight
  BY VersionAssumption DEF TarballComplete, CleanSwitchIsRight
<1>6. QED
  BY <1>1, <1>3, <1>4, <1>5 DEF IInv

\* The make is in a tree of which it has just looked at all that is left there.
LEMMA MakeInv ==
    ASSUME IInv, NEW m \in Makes, Make(m)
    PROVE  IInv'
<1> USE DEF Make
<1>0. TypeOK /\ m.component \in Component /\ m.version \in Version
  BY VersionAssumption DEF IInv
<1>1. TypeOK'
  <2>1. stack' \in Seq(Frame)
    BY <1>0 DEF Enter, Frame
  <2>2. mixed' \in BOOLEAN /\ makes' \in 0 .. MaxMakes
    BY <1>0, VersionAssumption DEF TypeOK
  <2>3. QED
    BY <1>0, <2>1, <2>2 DEF TypeOK, Frame
<1>2. /\ DOMAIN stack' = {1} /\ Len(stack') = 1
      /\ stack'[1].component = m.component
      /\ stack'[1].version = m.version
      /\ stack'[1].done = {}
  BY DEF Enter
<1>3. Descents' /\ DoneIsBuilt'
  BY <1>2 DEF Descents, DoneIsBuilt
<1>4. BuiltIsInstalled' /\ ProductsOwn'
  BY DEF IInv, BuiltIsInstalled, ProductsOwn, Built
<1>5. Asked'
  <2>1. [component |-> m.component, version |-> m.version] = m
    BY VersionAssumption
  <2>2. QED
    BY <1>2, <2>1 DEF Asked
<1>6. Unmixed'
  <2>1. SUFFICES ASSUME ~mixed'
                 PROVE  \A c \in Family(m) :
                           {listed[c], builtFor[c]} \subseteq {NoVersion, m.version}
    BY <1>2 DEF Unmixed, Family
  <2>2. QED
    BY <2>1
<1>7. TarballComplete' /\ CleanSwitchIsRight'
  <2>1. mixed => mixed'
    OBVIOUS
  <2>2. QED
    BY <2>1 DEF IInv, TarballComplete, CleanSwitchIsRight
<1>8. QED
  BY <1>1, <1>3, <1>4, <1>5, <1>6, <1>7 DEF IInv

LEMMA WriteListInv ==
    ASSUME IInv, WriteList
    PROVE  IInv'
<1> USE DEF WriteList
<1> DEFINE c == Top.component
<1>0. TypeOK /\ Top \in Frame /\ c \in Component /\ Top.version \in Version
  BY TopFacts DEF IInv, Frame
<1>1. TypeOK'
  BY <1>0 DEF TypeOK, Frame
<1>2. \A d \in Component : d # c => listed'[d] = listed[d]
  BY <1>0 DEF TypeOK
<1>3. listed'[c] = Top.version
  BY <1>0 DEF TypeOK
<1>4. Descents'
  <2>1. ASSUME NEW i \in DOMAIN stack, i < Len(stack)
        PROVE  /\ stack[i].component \in Written'
               /\ stack[i + 1].component \in List(stack[i].component)'
    <3>1. stack[i].component \in Written
      BY <2>1 DEF IInv, Descents
    <3>2. stack[i].component # c
      BY <3>1 DEF Written
    <3>3. listed'[stack[i].component] = listed[stack[i].component]
      BY <1>2, <3>1, <3>2 DEF Written
    <3>4. QED
      BY <2>1, <3>1, <3>3 DEF IInv, Descents, Written, List
  <2>2. QED
    BY <2>1 DEF IInv, Descents
<1>5. DoneIsBuilt' /\ BuiltIsInstalled' /\ Asked'
  BY DEF IInv, DoneIsBuilt, BuiltIsInstalled, Asked, Built, Idle
<1>6. ProductsOwn'
  <2>1. SUFFICES ASSUME NEW m \in Makes, m.component \in Product
                 PROVE  {listed'[m.component], builtFor[m.component]}
                           \subseteq {NoVersion, m.version}
    BY DEF ProductsOwn
  <2>2. CASE m.component = c
    BY <1>3, <2>1, <2>2, ProductOnTop DEF IInv, ProductsOwn
  <2>3. CASE m.component # c
    BY <1>2, <2>1, <2>3, VersionAssumption DEF IInv, ProductsOwn
  <2>4. QED
    BY <2>2, <2>3
<1>7. Unmixed'
  <2>1. SUFFICES ASSUME ~mixed,
                        NEW d \in {stack[1].component}
                                    \cup Tree[stack[1].version][stack[1].component]
                 PROVE  listed'[d] \in {NoVersion, stack[1].version}
    BY DEF IInv, Unmixed, Idle
  <2>2. d \in Component
    BY <1>0, <2>1, InOwnTree, TreesNest DEF Frame
  <2>3. Top.version = stack[1].version
    BY <2>1, InOwnTree
  <2>4. QED
    BY <1>2, <1>3, <2>1, <2>2, <2>3 DEF IInv, Unmixed
<1>8. TarballComplete' /\ CleanSwitchIsRight'
  BY DEF IInv, TarballComplete, CleanSwitchIsRight
<1>9. QED
  BY <1>1, <1>4, <1>5, <1>6, <1>7, <1>8 DEF IInv

LEMMA DescendInv ==
    ASSUME IInv, NEW d \in Component, Descend(d)
    PROVE  IInv'
<1> USE DEF Descend
<1> DEFINE n == Len(stack)
<1>0. /\ TypeOK /\ Top \in Frame /\ Top.version \in Version
      /\ n \in Nat \ {0} /\ DOMAIN stack = 1 .. n
  BY TopFacts DEF IInv, Frame
<1>1. Enter(d, Top.version) \in Frame
  BY <1>0 DEF Enter, Frame
<1>2. TypeOK'
  BY <1>0, <1>1 DEF TypeOK, Frame
<1>3. /\ Len(stack') = n + 1 /\ DOMAIN stack' = 1 .. n + 1
      /\ \A i \in 1 .. n : stack'[i] = stack[i]
      /\ stack'[n + 1] = Enter(d, Top.version)
  BY <1>0, <1>1 DEF TypeOK, Frame
<1>4. Descents'
  <2>1. ASSUME NEW i \in 1 .. n + 1
        PROVE  stack'[i].version = stack'[1].version
    BY <1>0, <1>3 DEF IInv, Descents, Enter, Top
  <2>2. ASSUME NEW i \in 1 .. n + 1, i < n + 1
        PROVE  /\ stack'[i].component \in Written
               /\ stack'[i + 1].component \in List(stack'[i].component)
    <3>1. CASE i < n
      BY <1>0, <1>3, <3>1 DEF IInv, Descents
    <3>2. CASE i = n
      <4>1. stack'[i] = Top /\ stack'[i + 1] = Enter(d, Top.version)
        BY <1>0, <1>3, <3>2 DEF Top
      <4>2. stack'[i].component = Top.component /\ stack'[i + 1].component = d
        <5>1. Enter(d, Top.version).component = d
          BY DEF Enter
        <5>2. QED
          BY <4>1, <5>1
      <4>3. Top.component \in Written /\ d \in List(Top.component)
        BY <1>0 DEF Written, Frame
      <4>4. QED
        BY <4>2, <4>3
    <3>3. i < n \/ i = n
      <4>1. n \in Nat
        BY <1>0
      <4>2. QED
        BY <2>2, <4>1
    <3>4. QED
      BY <3>1, <3>2, <3>3
  <2>3. QED
    BY <1>3, <2>1, <2>2 DEF Descents, Written, List
<1>5. DoneIsBuilt'
  BY <1>0, <1>3 DEF IInv, DoneIsBuilt, Built, Enter
<1>6. BuiltIsInstalled' /\ ProductsOwn' /\ TarballComplete' /\ CleanSwitchIsRight'
  BY DEF IInv, BuiltIsInstalled, ProductsOwn, TarballComplete, CleanSwitchIsRight, Built
<1>7. Asked'
  BY <1>0, <1>3 DEF IInv, Asked
<1>8. Unmixed'
  <2>1. SUFFICES ASSUME ~mixed PROVE Unmixed'
    BY DEF Unmixed
  <2>2. List(Top.component) = Tree[stack[1].version][Top.component]
    BY <2>1, InOwnTree DEF List
  <2>3. d \in Tree[stack[1].version][stack[1].component]
    BY <2>1, <2>2, InOwnTree
  <2>4. stack'[1] = stack[1]
    BY <1>0, <1>3
  <2>5. ASSUME NEW i \in 1 .. n + 1
        PROVE  \/ stack'[i].component = stack[1].component
               \/ stack'[i].component \in Tree[stack[1].version][stack[1].component]
    BY <1>0, <1>3, <2>1, <2>3 DEF IInv, Unmixed, Enter
  <2>6. QED
    BY <1>3, <2>1, <2>4, <2>5 DEF IInv, Unmixed
<1>9. QED
  BY <1>2, <1>4, <1>5, <1>6, <1>7, <1>8 DEF IInv

\* A product is packed when all of its tree is built.
LEMMA BuildInv ==
    ASSUME IInv, Build
    PROVE  IInv'
<1> USE DEF Build
<1> DEFINE c == Top.component
           v == Top.version
<1>0. TypeOK /\ Top \in Frame /\ c \in Component /\ v \in Version
  BY TopFacts DEF IInv, Frame
<1>1. TypeOK'
  BY <1>0 DEF TypeOK
<1>2. /\ builtFor'[c] = v
      /\ \A d \in Component : d # c => builtFor'[d] = builtFor[d]
      /\ \A w \in Version : installed'[w] = IF w = v THEN installed[w] \cup {c}
                                                    ELSE installed[w]
  BY <1>0 DEF TypeOK
<1>3. Built' = Built \cup {c}
  BY <1>0, <1>2, VersionAssumption DEF Built
<1>4. Descents' /\ Asked'
  BY DEF IInv, Descents, Asked, Written, List, Idle
<1>5. DoneIsBuilt'
  BY <1>3 DEF IInv, DoneIsBuilt
<1>6. BuiltIsInstalled'
  <2>1. ASSUME NEW d \in Built'
        PROVE  d \in installed'[builtFor'[d]]
    <3>1. CASE d = c
      BY <1>0, <1>2, <3>1
    <3>2. CASE d # c
      <4>1. d \in Built /\ builtFor'[d] = builtFor[d] /\ builtFor[d] \in Version
        BY <1>0, <1>2, <1>3, <3>2 DEF Built, TypeOK
      <4>2. QED
        BY <1>2, <4>1 DEF IInv, BuiltIsInstalled
    <3>3. QED
      BY <3>1, <3>2
  <2>2. QED
    BY <2>1 DEF BuiltIsInstalled
<1>7. ProductsOwn'
  <2>1. SUFFICES ASSUME NEW m \in Makes, m.component \in Product
                 PROVE  {listed[m.component], builtFor'[m.component]}
                           \subseteq {NoVersion, m.version}
    BY DEF ProductsOwn
  <2>2. CASE m.component = c
    BY <1>2, <2>1, <2>2, ProductOnTop DEF IInv, ProductsOwn
  <2>3. CASE m.component # c
    BY <1>2, <2>1, <2>3, VersionAssumption DEF IInv, ProductsOwn
  <2>4. QED
    BY <2>2, <2>3
<1>8. Unmixed'
  <2>1. SUFFICES ASSUME ~mixed,
                        NEW d \in {stack[1].component}
                                    \cup Tree[stack[1].version][stack[1].component]
                 PROVE  builtFor'[d] \in {NoVersion, stack[1].version}
    BY DEF IInv, Unmixed, Idle
  <2>2. d \in Component
    BY <1>0, <2>1, InOwnTree, TreesNest DEF Frame
  <2>3. v = stack[1].version
    BY <2>1, InOwnTree
  <2>4. QED
    BY <1>2, <2>1, <2>2, <2>3 DEF IInv, Unmixed
<1>9. \A r \in Product : r # c =>
         builtFor'[r] = builtFor[r] /\ packed'[r] = packed[r] /\ borrowed'[r] = borrowed[r]
  BY <1>2, VersionAssumption
<1>10. ASSUME c \in Product
       PROVE  /\ Tree[v][c] \subseteq Component \cap Built
              /\ packed'[c] = installed[v]
              /\ borrowed'[c] = {d \in Component : builtFor[d] \notin {NoVersion, v}}
              /\ \A d \in Tree[v][c] : builtFor[d] = v => d \in installed[v]
  <2>1. listed[c] \in {NoVersion, v} /\ listed[c] # NoVersion
    <3>1. PICK m \in Makes : m.component = c /\ m.version = v
      BY <1>10, ProductOnTop DEF IInv, Asked, Top
    <3>2. QED
      BY <1>10, <3>1 DEF IInv, ProductsOwn, Ready
  <2>2. Top.done = Tree[v][c]
    BY <2>1 DEF Ready, List
  <2>3. Top.done \subseteq Built
    BY <1>0, TopFacts DEF IInv, DoneIsBuilt, Top
  <2>4. QED
    BY <1>0, <1>10, <2>2, <2>3, TreesNest DEF IInv, BuiltIsInstalled
<1>11. TarballComplete'
  <2>1. SUFFICES ASSUME NEW r \in Product, builtFor'[r] # NoVersion
                 PROVE  Tree[builtFor'[r]][r] \subseteq packed'[r] \cup borrowed'[r]
    BY DEF TarballComplete
  <2>2. CASE r = c
    BY <1>2, <1>10, <2>2 DEF Built
  <2>3. CASE r # c
    BY <1>9, <2>1, <2>3 DEF IInv, TarballComplete
  <2>4. QED
    BY <2>2, <2>3
<1>12. CleanSwitchIsRight'
  <2>1. SUFFICES ASSUME ~mixed PROVE CleanSwitchIsRight'
    BY DEF CleanSwitchIsRight
  <2>2. ASSUME NEW r \in Product, builtFor'[r] # NoVersion
        PROVE  Tree[builtFor'[r]][r] \subseteq packed'[r]
    <3>1. CASE r = c
      <4>1. \A d \in Tree[v][c] : builtFor[d] \in {NoVersion, v}
        BY <2>1, InOwnTree
      <4>2. QED
        BY <1>2, <1>10, <3>1, <4>1 DEF Built
    <3>2. CASE r # c
      BY <1>9, <2>1, <2>2, <3>2 DEF IInv, CleanSwitchIsRight
    <3>3. QED
      BY <3>1, <3>2
  <2>3. PICK m \in Makes : /\ m.component = stack[1].component
                           /\ m.version = stack[1].version
    BY DEF IInv, Asked
  <2>4. c \in Family(m) /\ m.version = v
    BY <2>1, <2>3, InOwnTree DEF Family
  <2>5. ASSUME NEW w \in Version
        PROVE  installed'[w] \subseteq UNION {Family(n) : n \in {k \in Makes : k.version = w}}
    <3>1. installed[w] \subseteq UNION {Family(n) : n \in {k \in Makes : k.version = w}}
      BY <2>1 DEF IInv, CleanSwitchIsRight
    <3>2. w = v => c \in UNION {Family(n) : n \in {k \in Makes : k.version = w}}
      BY <2>4
    <3>3. QED
      BY <1>2, <3>1, <3>2
  <2>6. QED
    BY <2>2, <2>5 DEF CleanSwitchIsRight, Family
<1>13. QED
  BY <1>1, <1>4, <1>5, <1>6, <1>7, <1>8, <1>11, <1>12 DEF IInv

\* The makes stop where they are.
LEMMA StopInv ==
    ASSUME IInv, BuildLacksTools \/ Fail
    PROVE  IInv'
<1>1. /\ stack' = <<>>
      /\ UNCHANGED <<listed, builtFor, installed, packed, borrowed, mixed, makes>>
      /\ faults' \in 0 .. MaxFaults
  BY VersionAssumption DEF IInv, TypeOK, BuildLacksTools, Fail
<1>2. TypeOK'
  <2>1. stack' \in Seq(Frame)
    BY <1>1
  <2>2. QED
    BY <1>1, <2>1 DEF IInv, TypeOK, Frame
<1>3. Descents' /\ DoneIsBuilt' /\ Asked' /\ Unmixed'
  BY <1>1 DEF Descents, DoneIsBuilt, Asked, Unmixed, Idle
<1>4. BuiltIsInstalled' /\ ProductsOwn' /\ TarballComplete' /\ CleanSwitchIsRight'
  BY <1>1 DEF IInv, BuiltIsInstalled, ProductsOwn, TarballComplete, CleanSwitchIsRight, Built
<1>5. QED
  BY <1>2, <1>3, <1>4 DEF IInv

LEMMA ReturnInv ==
    ASSUME IInv, Return
    PROVE  IInv'
<1> USE DEF Return
<1> DEFINE n == Len(stack) - 1
<1>0. /\ TypeOK /\ Top \in Frame /\ Top.component \in Built
      /\ n \in Nat /\ DOMAIN stack = 1 .. n + 1
      /\ \A i \in 1 .. n + 1 : stack[i] \in Frame
  BY TopFacts DEF IInv, Frame, Built
<1>1. \A i \in 1 .. n :
         /\ stack'[i] \in Frame
         /\ stack'[i].component = stack[i].component
         /\ stack'[i].version = stack[i].version
         /\ stack'[i].done \subseteq stack[i].done \cup {Top.component}
  BY <1>0 DEF Frame
<1>2. Len(stack') = n /\ DOMAIN stack' = 1 .. n /\ stack' \in Seq(Frame)
  BY <1>0, <1>1
<1>3. TypeOK'
  BY <1>0, <1>2 DEF TypeOK, Frame
<1>4. Descents'
  BY <1>0, <1>1, <1>2 DEF IInv, Descents, Written, List
<1>5. DoneIsBuilt'
  BY <1>0, <1>1, <1>2 DEF IInv, DoneIsBuilt, Built
<1>6. BuiltIsInstalled' /\ ProductsOwn' /\ TarballComplete' /\ CleanSwitchIsRight'
  BY DEF IInv, BuiltIsInstalled, ProductsOwn, TarballComplete, CleanSwitchIsRight, Built
<1>7. ~Idle' => 1 \in 1 .. n
  BY <1>0, <1>2 DEF Idle
<1>8. Asked'
  BY <1>0, <1>1, <1>7 DEF IInv, Asked
<1>9. Unmixed'
  BY <1>0, <1>1, <1>2, <1>7 DEF IInv, Unmixed
<1>10. QED
  BY <1>3, <1>4, <1>5, <1>6, <1>8, <1>9 DEF IInv

LEMMA CleanDirsInv ==
    ASSUME IInv, NEW D, CleanDirs(D)
    PROVE  IInv'
<1> USE DEF CleanDirs
<1>0. TypeOK
  BY DEF IInv
<1>1. TypeOK'
  BY <1>0 DEF TypeOK
<1>2. \A c \in Component : /\ listed'[c] \in {NoVersion, listed[c]}
                           /\ builtFor'[c] \in {NoVersion, builtFor[c]}
  OBVIOUS
<1>3. \A r \in Product : builtFor'[r] # NoVersion =>
         builtFor'[r] = builtFor[r] /\ packed'[r] = packed[r] /\ borrowed'[r] = borrowed[r]
  BY VersionAssumption
<1>4. Descents' /\ DoneIsBuilt' /\ Asked' /\ Unmixed'
  BY DEF Descents, DoneIsBuilt, Asked, Unmixed, Idle
<1>5. BuiltIsInstalled'
  <2>1. \A c \in Built' : c \in Built /\ builtFor'[c] = builtFor[c]
    BY <1>2 DEF Built
  <2>2. QED
    BY <2>1 DEF IInv, BuiltIsInstalled
<1>6. ProductsOwn'
  BY <1>2, VersionAssumption DEF IInv, ProductsOwn
<1>7. TarballComplete' /\ CleanSwitchIsRight'
  BY <1>3 DEF IInv, TarballComplete, CleanSwitchIsRight
<1>8. QED
  BY <1>1, <1>4, <1>5, <1>6, <1>7 DEF IInv

LEMMA StepInv == IInv /\ [Next]_vars => IInv'
<1> SUFFICES ASSUME IInv, [Next]_vars PROVE IInv'
  OBVIOUS
<1>1. ASSUME NEW m \in Makes, Make(m) PROVE IInv'
  BY <1>1, MakeInv
<1>2. CASE WriteList
  BY <1>2, WriteListInv
<1>3. ASSUME NEW d \in Component, Descend(d) PROVE IInv'
  BY <1>3, DescendInv
<1>4. CASE Build
  BY <1>4, BuildInv
<1>5. CASE BuildLacksTools \/ Fail
  BY <1>5, StopInv
<1>6. CASE Return
  BY <1>6, ReturnInv
<1>7. CASE LocalClean \/ TreeClean
  BY <1>7, CleanDirsInv DEF LocalClean, TreeClean
<1>8. CASE UNCHANGED vars
  BY <1>8 DEF vars, IInv, TypeOK, Descents, DoneIsBuilt, BuiltIsInstalled, Asked,
     ProductsOwn, Unmixed, TarballComplete, CleanSwitchIsRight, Idle, Written, Built, List
<1>9. QED
  BY <1>1, <1>2, <1>3, <1>4, <1>5, <1>6, <1>7, <1>8 DEF Next, Progress

\* The stamps, lists and paths are what IInv says, whatever is made in what order.
THEOREM Invariance == Spec => []IInv
<1>1. Init => IInv
  BY InitInv
<1>2. IInv /\ [Next]_vars => IInv'
  BY StepInv
<1>3. QED
  BY <1>1, <1>2, PTL DEF Spec

\* A tarball lacks nothing of the product's tree but what another version's make
\* had built (core.mk:157).
THEOREM PackedWhole == Spec => []TarballComplete
<1>1. IInv => TarballComplete
  BY DEF IInv
<1>2. QED
  BY <1>1, Invariance, PTL

\* Makes that never find what another version has left in their own tree pack
\* whole tarballs and install nothing foreign.
THEOREM SwitchIsRight == Spec => []CleanSwitchIsRight
<1>1. IInv => CleanSwitchIsRight
  BY DEF IInv
<1>2. QED
  BY <1>1, Invariance, PTL

\* Nor do their builds lack anything they require.
THEOREM ToolsFirst == Spec => []ToolsInPlace
<1>1. IInv => ToolsInPlace
  <2>1. SUFFICES ASSUME IInv, ~mixed, ~Idle, Ready(Top.component)
                 PROVE  Requires[Top.version][Top.component] \subseteq installed[Top.version]
    BY DEF ToolsInPlace
  <2> DEFINE c == Top.component
             v == Top.version
  <2>2. c \in Component /\ v \in Version
    BY <2>1, TopFacts DEF IInv, Frame
  <2>3. /\ v = stack[1].version
        /\ \A d \in {c} \cup Tree[v][c] : {listed[d], builtFor[d]} \subseteq {NoVersion, v}
    BY <2>1, InOwnTree
  <2>4. Top.done = Tree[v][c]
    BY <2>1, <2>3 DEF Ready, List
  <2>5. Tree[v][c] \subseteq Built
    BY <2>1, <2>4, TopFacts DEF IInv, DoneIsBuilt, Top
  <2>6. QED
    BY <2>1, <2>2, <2>3, <2>5, TreesNest DEF IInv, BuiltIsInstalled, Built
<1>2. QED
  BY <1>1, Invariance, PTL

=============================================================================
