------------------------ MODULE ComponentBuildProofs ------------------------
(***************************************************************************)
(* Proofs about the rules of a component, for any files and archives.  The *)
(* argument: each stamp stands for a fact about the source directory, and  *)
(* whatever breaks the fact makes the stamp old.                           *)
(***************************************************************************)
EXTENDS ComponentBuildRefinement, TLAPS

LEMMA InitInv == Init => IInv
<1> SUFFICES ASSUME Init PROVE IInv
  OBVIOUS
<1> USE DEF Init, NewDir
<1>1. TypeOK
  BY ConstantAssumption DEF TypeOK, Stamp, Object
<1>2. Order /\ Preparing /\ Done /\ Whole
  BY DEF Order, Preparing, Done, Whole
<1>3. Objects
  BY ConstantAssumption DEF Objects, Right
<1>4. QED
  BY <1>1, <1>2, <1>3 DEF IInv

\* An edit makes .source-done old.
LEMMA EditInv ==
    ASSUME IInv, NEW names \in SUBSET File, Edit(names)
    PROVE  IInv'
<1> USE DEF Edit, stamps, recipes, Older
<1>0. TypeOK /\ Order
  BY DEF IInv
<1>1. TypeOK'
  BY <1>0, ConstantAssumption DEF TypeOK, Stamp, Object, NewDir, Older, Kinds
<1>2. Order'
  BY <1>0 DEF TypeOK, Order, Older, Stamp
<1>3. Preparing'
  BY <1>0 DEF IInv, TypeOK, Order, Preparing, NewDir
<1>4. Done'
  BY <1>0 DEF IInv, TypeOK, Order, Preparing, Done, Patched, Older
<1>5. Whole'
  BY <1>0 DEF IInv, TypeOK, Order, Whole, Older
<1>6. Objects'
  BY <1>0, ConstantAssumption DEF IInv, TypeOK, Order, Done, Patched, Objects, Right, Older
<1>7. QED
  BY <1>1, <1>2, <1>3, <1>4, <1>5, <1>6 DEF IInv

LEMMA MakeInv ==
    ASSUME IInv, Make
    PROVE  IInv'
<1> USE DEF Make, stamps, recipes
<1>0. TypeOK /\ Order
  BY DEF IInv
<1>1. TypeOK'
  BY <1>0, ConstantAssumption DEF TypeOK, Stamp, Object, NewDir, Older, Kinds
<1>2. Order'
  BY <1>0 DEF TypeOK, Order, Older, Stamp
<1>3. Preparing'
  BY <1>0 DEF IInv, TypeOK, Order, Preparing, NewDir
<1>4. Done'
  BY <1>0 DEF IInv, TypeOK, Order, Preparing, Done, Patched, Older
<1>5. Whole'
  BY <1>0 DEF IInv, TypeOK, Order, Whole, Older
<1>6. Objects'
  BY <1>0, ConstantAssumption DEF IInv, TypeOK, Order, Done, Patched, Objects, Right, Older
<1>7. QED
  BY <1>1, <1>2, <1>3, <1>4, <1>5, <1>6 DEF IInv

LEMMA UnpackInv ==
    ASSUME IInv, Unpack
    PROVE  IInv'
<1> USE DEF Unpack, stamps, recipes, MayStart, NewDir
<1>0. TypeOK /\ Order
  BY DEF IInv
<1>1. TypeOK'
  BY <1>0, ConstantAssumption DEF TypeOK, Stamp, Object, NewDir, Older, Kinds
<1>2. Order'
  BY <1>0 DEF TypeOK, Order, Older, Stamp
<1>3. Preparing'
  BY <1>0 DEF IInv, TypeOK, Order, Preparing, NewDir
<1>4. Done'
  BY <1>0 DEF IInv, TypeOK, Order, Preparing, Done, Patched, Older
<1>5. Whole'
  BY <1>0 DEF IInv, TypeOK, Order, Whole, Older
<1>6. Objects'
  BY <1>0, ConstantAssumption DEF IInv, TypeOK, Order, Done, Patched, Objects, Right, Older
<1>7. QED
  BY <1>1, <1>2, <1>3, <1>4, <1>5, <1>6 DEF IInv

LEMMA UnpackedInv ==
    ASSUME IInv, Unpacked
    PROVE  IInv'
<1> USE DEF Unpacked, stamps, recipes
<1>0. TypeOK /\ Order
  BY DEF IInv
<1>1. TypeOK'
  BY <1>0, ConstantAssumption DEF TypeOK, Stamp, Object, NewDir, Older, Kinds
<1>2. Order'
  BY <1>0 DEF TypeOK, Order, Older, Stamp
<1>3. Preparing'
  BY <1>0 DEF IInv, TypeOK, Order, Preparing, NewDir
<1>4. Done'
  BY <1>0 DEF IInv, TypeOK, Order, Preparing, Done, Patched, Older
<1>5. Whole'
  BY <1>0 DEF IInv, TypeOK, Order, Whole, Older
<1>6. Objects'
  BY <1>0, ConstantAssumption DEF IInv, TypeOK, Order, Done, Patched, Objects, Right, Older
<1>7. QED
  BY <1>1, <1>2, <1>3, <1>4, <1>5, <1>6 DEF IInv

\* What a failing tar leaves is not said to be whole.
LEMMA TarFailsInv ==
    ASSUME IInv, TarFails
    PROVE  IInv'
<1> USE DEF TarFails, stamps, recipes, Fault
<1>0. TypeOK /\ Order
  BY DEF IInv
<1>1. TypeOK'
  BY <1>0, ConstantAssumption DEF TypeOK, Stamp, Object, NewDir, Older, Kinds
<1>2. Order'
  BY <1>0 DEF TypeOK, Order, Older, Stamp
<1>3. Preparing'
  BY <1>0 DEF IInv, TypeOK, Order, Preparing, NewDir
<1>4. Done'
  BY <1>0 DEF IInv, TypeOK, Order, Preparing, Done, Patched, Older
<1>5. Whole'
  BY <1>0 DEF IInv, TypeOK, Order, Whole, Older
<1>6. Objects'
  BY <1>0, ConstantAssumption DEF IInv, TypeOK, Order, Done, Patched, Objects, Right, Older
<1>7. QED
  BY <1>1, <1>2, <1>3, <1>4, <1>5, <1>6 DEF IInv

\* One more of the patches is in the source, and is not left to do.
LEMMA PatchInv ==
    ASSUME IInv, NEW f \in File, Patch(f)
    PROVE  IInv'
<1> USE DEF Patch, stamps, recipes
<1>0. TypeOK /\ Order
  BY DEF IInv
<1>1. TypeOK'
  BY <1>0, ConstantAssumption DEF TypeOK, Stamp, Object, NewDir, Older, Kinds
<1>2. Order'
  BY <1>0 DEF TypeOK, Order, Older, Stamp
<1>3. Preparing'
  BY <1>0 DEF IInv, TypeOK, Order, Preparing, NewDir
<1>4. Done'
  BY <1>0 DEF IInv, TypeOK, Order, Preparing, Done, Patched, Older
<1>5. Whole'
  BY <1>0 DEF IInv, TypeOK, Order, Whole, Older
<1>6. Objects'
  BY <1>0, ConstantAssumption DEF IInv, TypeOK, Order, Done, Patched, Objects, Right, Older
<1>7. QED
  BY <1>1, <1>2, <1>3, <1>4, <1>5, <1>6 DEF IInv

\* The directory is new: the stamps of the links are old.
LEMMA SourceDoneInv ==
    ASSUME IInv, SourceDone
    PROVE  IInv'
<1> USE DEF SourceDone, stamps, recipes, Older
<1>0. TypeOK /\ Order
  BY DEF IInv
<1>1. TypeOK'
  BY <1>0, ConstantAssumption DEF TypeOK, Stamp, Object, NewDir, Older, Kinds
<1>2. Order'
  BY <1>0 DEF TypeOK, Order, Older, Stamp
<1>3. Preparing'
  BY <1>0 DEF IInv, TypeOK, Order, Preparing, NewDir
<1>4. Done'
  BY <1>0 DEF IInv, TypeOK, Order, Preparing, Done, Patched, Older
<1>5. Whole'
  BY <1>0 DEF IInv, TypeOK, Order, Whole, Older
<1>6. Objects'
  BY <1>0, ConstantAssumption DEF IInv, TypeOK, Order, Done, Patched, Objects, Right, Older
<1>7. QED
  BY <1>1, <1>2, <1>3, <1>4, <1>5, <1>6 DEF IInv

LEMMA ExpandInv ==
    ASSUME IInv, NEW a \in Aux, Expand(a)
    PROVE  IInv'
<1> USE DEF Expand, stamps, recipes, MayStart, OutOfDate
<1>0. TypeOK /\ Order
  BY DEF IInv
<1>1. TypeOK'
  BY <1>0, ConstantAssumption DEF TypeOK, Stamp, Object, NewDir, Older, Kinds
<1>2. Order'
  BY <1>0 DEF TypeOK, Order, Older, Stamp
<1>3. Preparing'
  BY <1>0 DEF IInv, TypeOK, Order, Preparing, NewDir
<1>4. Done'
  BY <1>0 DEF IInv, TypeOK, Order, Preparing, Done, Patched, Older
<1>5. Whole'
  BY <1>0 DEF IInv, TypeOK, Order, Whole, Older
<1>6. Objects'
  BY <1>0, ConstantAssumption DEF IInv, TypeOK, Order, Done, Patched, Objects, Right, Older
<1>7. QED
  BY <1>1, <1>2, <1>3, <1>4, <1>5, <1>6 DEF IInv

LEMMA ExpandedInv ==
    ASSUME IInv, NEW a \in Aux, Expanded(a)
    PROVE  IInv'
<1> USE DEF Expanded, stamps, recipes, Older
<1>0. TypeOK /\ Order
  BY DEF IInv
<1>1. TypeOK'
  BY <1>0, ConstantAssumption DEF TypeOK, Stamp, Object, NewDir, Older, Kinds
<1>2. Order'
  BY <1>0 DEF TypeOK, Order, Older, Stamp
<1>3. Preparing'
  BY <1>0 DEF IInv, TypeOK, Order, Preparing, NewDir
<1>4. Done'
  BY <1>0 DEF IInv, TypeOK, Order, Preparing, Done, Patched, Older
<1>5. Whole'
  BY <1>0 DEF IInv, TypeOK, Order, Whole, Older
<1>6. Objects'
  BY <1>0, ConstantAssumption DEF IInv, TypeOK, Order, Done, Patched, Objects, Right, Older
<1>7. QED
  BY <1>1, <1>2, <1>3, <1>4, <1>5, <1>6 DEF IInv

LEMMA ExpandFailsInv ==
    ASSUME IInv, NEW a \in Aux, ExpandFails(a)
    PROVE  IInv'
<1> USE DEF ExpandFails, stamps, recipes, Fault
<1>0. TypeOK /\ Order
  BY DEF IInv
<1>1. TypeOK'
  BY <1>0, ConstantAssumption DEF TypeOK, Stamp, Object, NewDir, Older, Kinds
<1>2. Order'
  BY <1>0 DEF TypeOK, Order, Older, Stamp
<1>3. Preparing'
  BY <1>0 DEF IInv, TypeOK, Order, Preparing, NewDir
<1>4. Done'
  BY <1>0 DEF IInv, TypeOK, Order, Preparing, Done, Patched, Older
<1>5. Whole'
  BY <1>0 DEF IInv, TypeOK, Order, Whole, Older
<1>6. Objects'
  BY <1>0, ConstantAssumption DEF IInv, TypeOK, Order, Done, Patched, Objects, Right, Older
<1>7. QED
  BY <1>1, <1>2, <1>3, <1>4, <1>5, <1>6 DEF IInv

LEMMA ConfigureInv ==
    ASSUME IInv, Configure
    PROVE  IInv'
<1> USE DEF Configure, stamps, recipes, MayStart, Busy, OutOfDate
<1>0. TypeOK /\ Order
  BY DEF IInv
<1>1. TypeOK'
  BY <1>0, ConstantAssumption DEF TypeOK, Stamp, Object, NewDir, Older, Kinds
<1>2. Order'
  BY <1>0 DEF TypeOK, Order, Older, Stamp
<1>3. Preparing'
  BY <1>0 DEF IInv, TypeOK, Order, Preparing, NewDir
<1>4. Done'
  BY <1>0 DEF IInv, TypeOK, Order, Preparing, Done, Patched, Older
<1>5. Whole'
  BY <1>0 DEF IInv, TypeOK, Order, Whole, Older
<1>6. Objects'
  BY <1>0, ConstantAssumption DEF IInv, TypeOK, Order, Done, Patched, Objects, Right, Older
<1>7. QED
  BY <1>1, <1>2, <1>3, <1>4, <1>5, <1>6 DEF IInv

LEMMA CompileInv ==
    ASSUME IInv, NEW f \in File, Compile(f)
    PROVE  IInv'
<1> USE DEF Compile, stamps, recipes, Recompiled
<1>0. TypeOK /\ Order
  BY DEF IInv
<1>1. TypeOK'
  BY <1>0, ConstantAssumption DEF TypeOK, Stamp, Object, NewDir, Older, Kinds
<1>2. Order'
  BY <1>0 DEF TypeOK, Order, Older, Stamp
<1>3. Preparing'
  BY <1>0 DEF IInv, TypeOK, Order, Preparing, NewDir
<1>4. Done'
  BY <1>0 DEF IInv, TypeOK, Order, Preparing, Done, Patched, Older
<1>5. Whole'
  BY <1>0 DEF IInv, TypeOK, Order, Whole, Older
<1>6. Objects'
  <2>1. job = "build" /\ source = "done" /\ built # "done"
    BY <1>0 DEF Order
  <2>2. dir.patched[f] = IF f \in patches THEN 1 ELSE 0
    BY <2>1 DEF IInv, Done, Patched
  <2>3. object' \in [File -> Object] /\ \A g \in File \ {f} : object'[g] = object[g]
    BY <1>0 DEF TypeOK, Object
  <2>4. object[f] \in Object
    BY <1>0 DEF TypeOK
  <2>5. object'[f] = IF f \in patches THEN "patched"
                     ELSE IF object[f] = "none" THEN "plain" ELSE object[f]
    BY <1>0, <2>2 DEF TypeOK
  <2>6. \A g \in File : object[g] = "patched" => g \in patches \cup dropped
    BY DEF IInv, Objects
  <2>7. \A g \in File : object'[g] = "patched" => g \in patches \cup dropped
    BY <2>3, <2>5, <2>6
  <2>8. Right(f)'
    BY <2>4, <2>5, <2>6 DEF Right, Object
  <2>9. \A g \in File \ todo' : Right(g)'
    BY <2>1, <2>3, <2>8 DEF IInv, Objects, Right
  <2>10. QED
    BY <2>1, <2>7, <2>9 DEF Objects, Right
<1>7. QED
  BY <1>1, <1>2, <1>3, <1>4, <1>5, <1>6 DEF IInv

LEMMA BuiltInv ==
    ASSUME IInv, Built
    PROVE  IInv'
<1> USE DEF Built, stamps, recipes, Older
<1>0. TypeOK /\ Order
  BY DEF IInv
<1>1. TypeOK'
  BY <1>0, ConstantAssumption DEF TypeOK, Stamp, Object, NewDir, Older, Kinds
<1>2. Order'
  BY <1>0 DEF TypeOK, Order, Older, Stamp
<1>3. Preparing'
  BY <1>0 DEF IInv, TypeOK, Order, Preparing, NewDir
<1>4. Done'
  BY <1>0 DEF IInv, TypeOK, Order, Preparing, Done, Patched, Older
<1>5. Whole'
  BY <1>0 DEF IInv, TypeOK, Order, Whole, Older
<1>6. Objects'
  BY <1>0, ConstantAssumption DEF IInv, TypeOK, Order, Done, Patched, Objects, Right, Older
<1>7. QED
  BY <1>1, <1>2, <1>3, <1>4, <1>5, <1>6 DEF IInv

LEMMA InstallInv ==
    ASSUME IInv, Install
    PROVE  IInv'
<1> USE DEF Install, stamps, recipes, MayStart, Busy, OutOfDate
<1>0. TypeOK /\ Order
  BY DEF IInv
<1>1. TypeOK'
  BY <1>0, ConstantAssumption DEF TypeOK, Stamp, Object, NewDir, Older, Kinds
<1>2. Order'
  BY <1>0 DEF TypeOK, Order, Older, Stamp
<1>3. Preparing'
  BY <1>0 DEF IInv, TypeOK, Order, Preparing, NewDir
<1>4. Done'
  BY <1>0 DEF IInv, TypeOK, Order, Preparing, Done, Patched, Older
<1>5. Whole'
  BY <1>0 DEF IInv, TypeOK, Order, Whole, Older
<1>6. Objects'
  BY <1>0, ConstantAssumption DEF IInv, TypeOK, Order, Done, Patched, Objects, Right, Older
<1>7. QED
  BY <1>1, <1>2, <1>3, <1>4, <1>5, <1>6 DEF IInv

LEMMA CopyInv ==
    ASSUME IInv, NEW f \in File, Copy(f)
    PROVE  IInv'
<1> USE DEF Copy, stamps, recipes
<1>0. TypeOK /\ Order
  BY DEF IInv
<1>1. TypeOK'
  BY <1>0, ConstantAssumption DEF TypeOK, Stamp, Object, NewDir, Older, Kinds
<1>2. Order'
  BY <1>0 DEF TypeOK, Order, Older, Stamp
<1>3. Preparing'
  BY <1>0 DEF IInv, TypeOK, Order, Preparing, NewDir
<1>4. Done'
  BY <1>0 DEF IInv, TypeOK, Order, Preparing, Done, Patched, Older
<1>5. Whole'
  BY <1>0 DEF IInv, TypeOK, Order, Whole, Older
<1>6. Objects'
  BY <1>0, ConstantAssumption DEF IInv, TypeOK, Order, Done, Patched, Objects, Right, Older
<1>7. QED
  BY <1>1, <1>2, <1>3, <1>4, <1>5, <1>6 DEF IInv

LEMMA InstalledInv ==
    ASSUME IInv, Installed
    PROVE  IInv'
<1> USE DEF Installed, stamps, recipes
<1>0. TypeOK /\ Order
  BY DEF IInv
<1>1. TypeOK'
  BY <1>0, ConstantAssumption DEF TypeOK, Stamp, Object, NewDir, Older, Kinds
<1>2. Order'
  BY <1>0 DEF TypeOK, Order, Older, Stamp
<1>3. Preparing'
  BY <1>0 DEF IInv, TypeOK, Order, Preparing, NewDir
<1>4. Done'
  BY <1>0 DEF IInv, TypeOK, Order, Preparing, Done, Patched, Older
<1>5. Whole'
  BY <1>0 DEF IInv, TypeOK, Order, Whole, Older
<1>6. Objects'
  BY <1>0, ConstantAssumption DEF IInv, TypeOK, Order, Done, Patched, Objects, Right, Older
<1>7. QED
  BY <1>1, <1>2, <1>3, <1>4, <1>5, <1>6 DEF IInv

LEMMA JobFailsInv ==
    ASSUME IInv, JobFails
    PROVE  IInv'
<1> USE DEF JobFails, stamps, recipes, Fault
<1>0. TypeOK /\ Order
  BY DEF IInv
<1>1. TypeOK'
  BY <1>0, ConstantAssumption DEF TypeOK, Stamp, Object, NewDir, Older, Kinds
<1>2. Order'
  BY <1>0 DEF TypeOK, Order, Older, Stamp
<1>3. Preparing'
  BY <1>0 DEF IInv, TypeOK, Order, Preparing, NewDir
<1>4. Done'
  BY <1>0 DEF IInv, TypeOK, Order, Preparing, Done, Patched, Older
<1>5. Whole'
  BY <1>0 DEF IInv, TypeOK, Order, Whole, Older
<1>6. Objects'
  BY <1>0, ConstantAssumption DEF IInv, TypeOK, Order, Done, Patched, Objects, Right, Older
<1>7. QED
  BY <1>1, <1>2, <1>3, <1>4, <1>5, <1>6 DEF IInv

LEMMA EndInv ==
    ASSUME IInv, End
    PROVE  IInv'
<1> USE DEF End, stamps, recipes, Busy
<1>0. TypeOK /\ Order
  BY DEF IInv
<1>1. TypeOK'
  BY <1>0, ConstantAssumption DEF TypeOK, Stamp, Object, NewDir, Older, Kinds
<1>2. Order'
  BY <1>0 DEF TypeOK, Order, Older, Stamp
<1>3. Preparing'
  BY <1>0 DEF IInv, TypeOK, Order, Preparing, NewDir
<1>4. Done'
  BY <1>0 DEF IInv, TypeOK, Order, Preparing, Done, Patched, Older
<1>5. Whole'
  BY <1>0 DEF IInv, TypeOK, Order, Whole, Older
<1>6. Objects'
  BY <1>0, ConstantAssumption DEF IInv, TypeOK, Order, Done, Patched, Objects, Right, Older
<1>7. QED
  BY <1>1, <1>2, <1>3, <1>4, <1>5, <1>6 DEF IInv

LEMMA KillInv ==
    ASSUME IInv, Kill
    PROVE  IInv'
<1> USE DEF Kill, stamps, recipes, Fault
<1>0. TypeOK /\ Order
  BY DEF IInv
<1>1. TypeOK'
  BY <1>0, ConstantAssumption DEF TypeOK, Stamp, Object, NewDir, Older, Kinds
<1>2. Order'
  BY <1>0 DEF TypeOK, Order, Older, Stamp
<1>3. Preparing'
  BY <1>0 DEF IInv, TypeOK, Order, Preparing, NewDir
<1>4. Done'
  BY <1>0 DEF IInv, TypeOK, Order, Preparing, Done, Patched, Older
<1>5. Whole'
  BY <1>0 DEF IInv, TypeOK, Order, Whole, Older
<1>6. Objects'
  BY <1>0, ConstantAssumption DEF IInv, TypeOK, Order, Done, Patched, Objects, Right, Older
<1>7. QED
  BY <1>1, <1>2, <1>3, <1>4, <1>5, <1>6 DEF IInv

LEMMA LocalCleanInv ==
    ASSUME IInv, LocalClean
    PROVE  IInv'
<1> USE DEF LocalClean, stamps, recipes
<1>0. TypeOK /\ Order
  BY DEF IInv
<1>1. TypeOK'
  BY <1>0, ConstantAssumption DEF TypeOK, Stamp, Object, NewDir, Older, Kinds
<1>2. Order'
  BY <1>0 DEF TypeOK, Order, Older, Stamp
<1>3. Preparing'
  BY <1>0 DEF IInv, TypeOK, Order, Preparing, NewDir
<1>4. Done'
  BY <1>0 DEF IInv, TypeOK, Order, Preparing, Done, Patched, Older
<1>5. Whole'
  BY <1>0 DEF IInv, TypeOK, Order, Whole, Older
<1>6. Objects'
  BY <1>0, ConstantAssumption DEF IInv, TypeOK, Order, Done, Patched, Objects, Right, Older
<1>7. QED
  BY <1>1, <1>2, <1>3, <1>4, <1>5, <1>6 DEF IInv

LEMMA NextInv == IInv /\ [Next]_vars => IInv'
<1> SUFFICES ASSUME IInv, [Next]_vars PROVE IInv'
  OBVIOUS
<1>1. CASE UNCHANGED vars
  BY <1>1 DEF vars, stamps, recipes, IInv, TypeOK, Order, Preparing, Done, Patched, Whole,
             Objects, Right
<1>2. ASSUME NEW f \in File, Patch(f) \/ Compile(f) \/ Copy(f) PROVE IInv'
  BY <1>2, PatchInv, CompileInv, CopyInv
<1>3. ASSUME NEW a \in Aux, Expand(a) \/ Expanded(a) \/ ExpandFails(a) PROVE IInv'
  BY <1>3, ExpandInv, ExpandedInv, ExpandFailsInv
<1>4. CASE Unpack \/ Unpacked \/ SourceDone \/ TarFails
  BY <1>4, UnpackInv, UnpackedInv, SourceDoneInv, TarFailsInv
<1>5. CASE Configure \/ Built \/ Install \/ Installed \/ End
  BY <1>5, ConfigureInv, BuiltInv, InstallInv, InstalledInv, EndInv
<1>6. CASE Make \/ JobFails \/ Kill \/ LocalClean
  BY <1>6, MakeInv, JobFailsInv, KillInv, LocalCleanInv
<1>7. ASSUME NEW names \in SUBSET File, Edit(names) PROVE IInv'
  BY <1>7, EditInv
<1>8. QED
  BY <1>1, <1>2, <1>3, <1>4, <1>5, <1>6, <1>7 DEF Next, Step

\* The invariant holds in every state (type correctness included).
THEOREM Invariance == Spec => []IInv
<1>1. QED
  BY InitInv, NextInv, PTL DEF Spec

\* However often PATCHES are edited, and recipes fail or are killed: the component is
\* built from a source that has each of its patches once, and gmp, mpfr and mpc.
THEOREM PatchedOnce == Spec => []BuildsPatched
<1>1. IInv => BuildsPatched
  <2> SUFFICES ASSUME IInv, job = "build" PROVE Patched /\ dir.links = Aux
    BY DEF BuildsPatched
  <2>1. source = "done" /\ \A a \in Aux : aux[a] = "done"
    BY DEF IInv, Order
  <2>2. dir.links \subseteq Aux
    BY DEF IInv, TypeOK
  <2>3. QED
    BY <2>1, <2>2 DEF IInv, Done
<1>2. QED
  BY <1>1, Invariance, PTL

\* No build starts from what a tar that was killed has left.
THEOREM WholeArchive == Spec => []BuildsWhole
<1>1. IInv => BuildsWhole
  BY DEF IInv, Order, Whole, BuildsWhole
<1>2. QED
  BY <1>1, Invariance, PTL

\* When all stamps are done, what is installed was made with the PATCHES as they are
\* now, the files aside that a patch was taken from.
THEOREM PatchesReach == Spec => []PatchesAreBuilt
<1>1. IInv => PatchesAreBuilt
  BY DEF IInv, TypeOK, Objects, Right, PatchesAreBuilt, OutOfDate
<1>2. QED
  BY <1>1, Invariance, PTL

-----------------------------------------------------------------------------
(* The rules of one component implement ComponentRecipes. *)

Prepares == job \in {"unpack", "patch"} \/ expanding # {}

Builds == job \in {"build", "install"}

\* The four sets of ComponentRecipes have at most one element here.
LEMMA StutterRecipes ==
    ASSUME SourceIsReady' = SourceIsReady, IsBuilt' = IsBuilt,
           Prepares' = Prepares, Builds' = Builds
    PROVE  UNCHANGED Recipes!recipeVars
BY DEF Recipes!recipeVars, If, Prepares, Builds

LEMMA PauseRecipes ==
    ASSUME SourceIsReady' = SourceIsReady, IsBuilt' = IsBuilt,
           Prepares' => Prepares, Builds' => Builds
    PROVE  Recipes!Pause
BY DEF Recipes!Pause, If, Prepares, Builds

LEMMA RenewRecipes ==
    ASSUME ~Prepares, ~Builds, ~Prepares', ~Builds',
           SourceIsReady' => SourceIsReady, IsBuilt' => IsBuilt /\ SourceIsReady'
    PROVE  Recipes!Renew
BY DEF Recipes!Renew, If, Prepares, Builds

LEMMA StartPrepareRecipes ==
    ASSUME ~SourceIsReady, ~Prepares, ~Builds, Prepares', ~Builds',
           SourceIsReady' = SourceIsReady, IsBuilt' = IsBuilt
    PROVE  Recipes!StartPrepare(This)
BY DEF Recipes!StartPrepare, If, Prepares, Builds

LEMMA EndPrepareRecipes ==
    ASSUME Prepares, ~Prepares', SourceIsReady', ~IsBuilt, ~IsBuilt', Builds' = Builds
    PROVE  Recipes!EndPrepare(This)
BY DEF Recipes!EndPrepare, If, Prepares, Builds

LEMMA StartBuildRecipes ==
    ASSUME SourceIsReady, SourceIsReady', ~IsBuilt, ~IsBuilt', ~Prepares, ~Prepares',
           ~Builds, Builds'
    PROVE  Recipes!StartBuild(This)
BY DEF Recipes!StartBuild, If, Prepares, Builds

LEMMA EndBuildRecipes ==
    ASSUME SourceIsReady' = SourceIsReady, IsBuilt', ~IsBuilt, ~Prepares, ~Prepares',
           Builds, ~Builds'
    PROVE  Recipes!EndBuild(This)
BY DEF Recipes!EndBuild, If, Prepares, Builds

LEMMA StepRecipes ==
    ASSUME IInv, [Next]_vars
    PROVE  [Recipes!RecipesNext]_Recipes!recipeVars
<1> USE DEF SourceIsReady, IsBuilt, OutOfDate, stamps, recipes
<1>0. TypeOK /\ Order
  BY DEF IInv
<1>1. CASE UNCHANGED vars
  BY <1>1, StutterRecipes DEF vars, Prepares, Builds
<1>2. CASE Make \/ End
  BY <1>2, StutterRecipes DEF Make, End, Prepares, Builds
<1>3. CASE \E names \in SUBSET File : Edit(names)
  BY <1>0, <1>3, RenewRecipes DEF Edit, Older, Order, Prepares, Builds, Recipes!RecipesNext
<1>4. CASE LocalClean
  BY <1>0, <1>4, RenewRecipes DEF LocalClean, Order, Prepares, Builds, Recipes!RecipesNext
<1>5. CASE Unpack
  <2>1. source # "done" /\ job = "none" /\ job' = "unpack" /\ expanding = {}
    BY <1>0, <1>5 DEF Unpack, Order
  <2>2. QED
    BY <1>5, <2>1, StartPrepareRecipes DEF Unpack, Prepares, Builds, Recipes!RecipesNext, This
<1>6. CASE Unpacked \/ TarFails \/ \E f \in File : Patch(f) \/ Compile(f) \/ Copy(f)
  BY <1>6, StutterRecipes DEF Unpacked, TarFails, Patch, Compile, Copy, Prepares, Builds
<1>7. CASE SourceDone
  <2>1. source # "done" /\ Prepares /\ ~Builds /\ ~Builds'
    BY <1>0, <1>7 DEF SourceDone, Order, Prepares, Builds
  <2>2. ~SourceIsReady /\ ~IsBuilt
    BY <2>1
  <2>3. \A a \in Aux : aux'[a] # "done"
    BY <1>0, <1>7 DEF SourceDone, Older, TypeOK
  <2>4. ~SourceIsReady' /\ ~IsBuilt'
    BY <2>3, ConstantAssumption
  <2>5. QED
    BY <2>1, <2>2, <2>4, PauseRecipes DEF Recipes!RecipesNext
<1>8. ASSUME NEW a \in Aux, Expand(a) PROVE [Recipes!RecipesNext]_Recipes!recipeVars
  <2>1. /\ source = "done" /\ aux[a] # "done" /\ Prepares'
        /\ UNCHANGED <<job, source, aux, built, ready>>
    BY <1>8 DEF Expand, Prepares
  <2>2. job \notin {"build", "install", "unpack", "patch"}
    BY <1>0, <2>1 DEF Order
  <2>3. ~SourceIsReady /\ ~Builds /\ ~Builds' /\ SourceIsReady' = SourceIsReady /\ IsBuilt' = IsBuilt
    BY <2>1, <2>2 DEF Builds
  <2>4. CASE Prepares
    BY <2>1, <2>3, <2>4, StutterRecipes DEF Prepares, Builds
  <2>5. CASE ~Prepares
    BY <2>1, <2>3, <2>5, StartPrepareRecipes DEF Recipes!RecipesNext, This
  <2>6. QED
    BY <2>4, <2>5
<1>9. ASSUME NEW a \in Aux, Expanded(a) PROVE [Recipes!RecipesNext]_Recipes!recipeVars
  <2>1. /\ a \in expanding /\ source = "done" /\ aux[a] # "done" /\ built' # "done"
        /\ expanding' = expanding \ {a} /\ UNCHANGED <<job, source, ready>>
    BY <1>0, <1>9 DEF Expanded, Order, Older
  <2>2. job \notin {"build", "install", "unpack", "patch"}
    BY <1>0, <2>1 DEF Order
  <2>3. Prepares /\ ~Builds /\ ~Builds' /\ ~SourceIsReady /\ ~IsBuilt /\ ~IsBuilt'
    BY <2>1, <2>2 DEF Builds, Prepares
  <2>4. CASE expanding' = {} /\ SourceIsReady'
    BY <2>1, <2>2, <2>3, <2>4, EndPrepareRecipes DEF Prepares, Builds, Recipes!RecipesNext, This
  <2>5. CASE ~SourceIsReady'
    BY <2>3, <2>5, PauseRecipes DEF Recipes!RecipesNext
  <2>6. expanding' # {} => ~SourceIsReady'
    <3>1. SUFFICES ASSUME NEW b \in expanding, b # a PROVE aux'[b] # "done" /\ b \in Aux
      BY <2>1
    <3>2. QED
      BY <1>0, <1>9, <3>1 DEF Expanded, Order, TypeOK
  <2>7. QED
    BY <2>4, <2>5, <2>6
<1>10. ASSUME NEW a \in Aux, ExpandFails(a) PROVE [Recipes!RecipesNext]_Recipes!recipeVars
  <2>1. /\ a \in expanding /\ UNCHANGED <<job, source, aux, built, ready>>
    BY <1>10 DEF ExpandFails
  <2>2. QED
    BY <2>1, PauseRecipes DEF Prepares, Builds, Recipes!RecipesNext
<1>11. CASE Configure \/ Install
  <2>1. SourceIsReady /\ ~IsBuilt /\ ~Prepares /\ ~Builds /\ Builds' /\ ~Prepares'
    BY <1>11 DEF Configure, Install, Busy, Prepares, Builds
  <2>2. SourceIsReady' /\ ~IsBuilt'
    BY <1>11 DEF Configure, Install
  <2>3. QED
    BY <2>1, <2>2, StartBuildRecipes DEF Recipes!RecipesNext, This
<1>12. CASE Built
  <2>1. built # "done" /\ ready' # "done" /\ UNCHANGED <<source, aux, expanding>>
    BY <1>0, <1>12 DEF Built, Order, Older
  <2>2. IsBuilt' = IsBuilt /\ SourceIsReady' = SourceIsReady
    BY <2>1
  <2>3. (Prepares' => Prepares) /\ ~Builds'
    BY <1>12, <2>1 DEF Built, Prepares, Builds
  <2>4. QED
    BY <2>2, <2>3, PauseRecipes DEF Recipes!RecipesNext
<1>13. CASE Installed
  <2>1. job = "install" /\ job' = "none" /\ UNCHANGED <<source, aux, built, expanding>>
    BY <1>13 DEF Installed
  <2>2. SourceIsReady /\ built = "done" /\ ready # "done" /\ expanding = {}
    BY <1>0, <2>1 DEF Order
  <2>3. SourceIsReady' /\ ~IsBuilt /\ IsBuilt'
    BY <1>13, <2>1, <2>2 DEF Installed
  <2>4. QED
    BY <2>1, <2>2, <2>3, EndBuildRecipes DEF Prepares, Builds, Recipes!RecipesNext, This
<1>14. CASE JobFails \/ Kill
  BY <1>14, PauseRecipes DEF JobFails, Kill, Prepares, Builds, Recipes!RecipesNext
<1>15. QED
  BY <1>1, <1>2, <1>3, <1>4, <1>5, <1>6, <1>7, <1>8, <1>9, <1>10, <1>11, <1>12, <1>13, <1>14
     DEF Next, Step

\* Whatever fails or is killed, and however PATCHES are edited: the rules do with the
\* component what the tree takes them to do, and never take new sources for built.
THEOREM Refinement == Spec => ImplementsRecipes
<1>1. Init => Recipes!RecipesInit
  BY DEF Init, Recipes!RecipesInit, If, SourceIsReady, IsBuilt
<1>2. IInv /\ [Next]_vars => [Recipes!RecipesNext]_Recipes!recipeVars
  BY StepRecipes
<1>3. QED
  BY <1>1, <1>2, Invariance, PTL DEF Spec, ImplementsRecipes, Recipes!RecipesSpec

=============================================================================
