------------------------- MODULE SourcesReadyProofs -------------------------
(***************************************************************************)
(* Proofs about the set-up of a make, for any components and sources.  The *)
(* argument: a list that is newer than the stamp was begun by a make that  *)
(* either is at it, or has downloaded all of it, or has missed a part; and *)
(* an edit of the root's Makefile makes the stamp, hence the list, old.    *)
(***************************************************************************)
EXTENDS SourcesReady, TLAPS

LEMMA InitInv == Init => IInv
<1> SUFFICES ASSUME Init PROVE IInv
  OBVIOUS
<1> USE DEF Init
<1>1. TypeOK
  BY ConstantAssumption DEF TypeOK
<1>2. QED
  BY <1>1 DEF IInv, Progress, ListIsDone, SourcesReadyUnlessMissed

\* An edit of the root's Makefile makes the stamp old.
LEMMA EditInv ==
    ASSUME IInv, NEW c \in Component, NEW names \in SUBSET Source, Edit(c, names)
    PROVE  IInv'
<1> USE DEF Edit
<1>0. TypeOK /\ Progress
  BY DEF IInv
<1>1. TypeOK'
  <2>1. edits \in Nat /\ faults \in Nat
    BY <1>0 DEF TypeOK
  <2>2. edits' \in Nat /\ faults' \in Nat
    BY <2>1
  <2>3. QED
    BY <1>0, <2>2 DEF TypeOK
<1>3. Progress'
  BY <1>0 DEF TypeOK, Progress
<1>4. ListIsDone' /\ SourcesReadyUnlessMissed'
  BY <1>0 DEF IInv, TypeOK, Progress, ListIsDone, SourcesReadyUnlessMissed
<1>5. QED
  BY <1>1, <1>3, <1>4 DEF IInv

LEMMA MakeInv ==
    ASSUME IInv, Make
    PROVE  IInv'
<1> USE DEF Make
<1>0. TypeOK /\ Progress
  BY DEF IInv
<1>1. TypeOK'
  BY <1>0 DEF TypeOK
<1>2. Needed' = Needed
  BY DEF Needed
<1>3. Progress'
  BY <1>0, <1>2 DEF TypeOK, Progress
<1>4. ListIsDone' /\ SourcesReadyUnlessMissed'
  BY <1>0, <1>2 DEF IInv, TypeOK, Progress, ListIsDone, SourcesReadyUnlessMissed
<1>5. QED
  BY <1>1, <1>3, <1>4 DEF IInv

\* The list is older than the stamp now.
LEMMA TouchInv ==
    ASSUME IInv, Touch
    PROVE  IInv'
<1> USE DEF Touch
<1>0. TypeOK /\ Progress
  BY DEF IInv
<1>1. TypeOK'
  BY <1>0 DEF TypeOK
<1>2. Needed' = Needed
  BY DEF Needed
<1>3. Progress'
  BY <1>0, <1>2 DEF TypeOK, Progress
<1>4. ListIsDone' /\ SourcesReadyUnlessMissed'
  BY <1>0, <1>2 DEF IInv, TypeOK, Progress, ListIsDone, SourcesReadyUnlessMissed
<1>5. QED
  BY <1>1, <1>3, <1>4 DEF IInv

LEMMA CleanInv ==
    ASSUME IInv, Clean
    PROVE  IInv'
<1> USE DEF Clean
<1>0. TypeOK /\ Progress
  BY DEF IInv
<1>1. TypeOK'
  BY <1>0 DEF TypeOK
<1>2. Needed' = Needed
  BY DEF Needed
<1>3. Progress'
  BY <1>0, <1>2 DEF TypeOK, Progress
<1>4. ListIsDone' /\ SourcesReadyUnlessMissed'
  BY <1>0, <1>2 DEF IInv, TypeOK, Progress, ListIsDone, SourcesReadyUnlessMissed
<1>5. QED
  BY <1>1, <1>3, <1>4 DEF IInv

LEMMA ReadInv ==
    ASSUME IInv, Read
    PROVE  IInv'
<1> USE DEF Read, OutOfDate
<1>0. TypeOK /\ Progress
  BY DEF IInv
<1>1. TypeOK'
  BY <1>0 DEF TypeOK
<1>2. Needed' = Needed
  BY DEF Needed
<1>3. Progress'
  BY <1>0, <1>2 DEF TypeOK, Progress
<1>4. ListIsDone' /\ SourcesReadyUnlessMissed'
  BY <1>0, <1>2 DEF IInv, TypeOK, Progress, ListIsDone, SourcesReadyUnlessMissed
<1>5. QED
  BY <1>1, <1>3, <1>4 DEF IInv

LEMMA GiveUpInv ==
    ASSUME IInv, GiveUp
    PROVE  IInv'
<1> USE DEF GiveUp, Fault
<1>0. TypeOK /\ Progress
  BY DEF IInv
<1>1. TypeOK'
  <2>1. edits \in Nat /\ faults \in Nat
    BY <1>0 DEF TypeOK
  <2>2. edits' \in Nat /\ faults' \in Nat
    BY <2>1
  <2>3. QED
    BY <1>0, <2>2 DEF TypeOK
<1>2. Needed' = Needed
  BY DEF Needed
<1>3. Progress'
  BY <1>0, <1>2 DEF TypeOK, Progress
<1>4. ListIsDone' /\ SourcesReadyUnlessMissed'
  BY <1>0, <1>2 DEF IInv, TypeOK, Progress, ListIsDone, SourcesReadyUnlessMissed
<1>5. QED
  BY <1>1, <1>3, <1>4 DEF IInv

LEMMA WrittenInv ==
    ASSUME IInv, Written
    PROVE  IInv'
<1> USE DEF Written
<1>0. TypeOK /\ Progress
  BY DEF IInv
<1>1. TypeOK'
  BY <1>0 DEF TypeOK, Needed
<1>2. Needed' = Needed
  BY DEF Needed
<1>3. Progress'
  BY <1>0, <1>2 DEF TypeOK, Progress
<1>4. ListIsDone' /\ SourcesReadyUnlessMissed'
  BY <1>0, <1>2 DEF IInv, TypeOK, Progress, ListIsDone, SourcesReadyUnlessMissed
<1>5. QED
  BY <1>1, <1>3, <1>4 DEF IInv

LEMMA FetchInv ==
    ASSUME IInv, NEW s \in Source, Fetch(s)
    PROVE  IInv'
<1> USE DEF Fetch
<1>0. TypeOK /\ Progress
  BY DEF IInv
<1>1. TypeOK'
  BY <1>0 DEF TypeOK
<1>2. Needed' = Needed
  BY DEF Needed
<1>3. Progress'
  BY <1>0, <1>2 DEF TypeOK, Progress
<1>4. ListIsDone' /\ SourcesReadyUnlessMissed'
  BY <1>0, <1>2 DEF IInv, TypeOK, Progress, ListIsDone, SourcesReadyUnlessMissed
<1>5. QED
  BY <1>1, <1>3, <1>4 DEF IInv

LEMMA FetchFailsInv ==
    ASSUME IInv, NEW s \in Source, FetchFails(s)
    PROVE  IInv'
<1> USE DEF FetchFails, Fault
<1>0. TypeOK /\ Progress
  BY DEF IInv
<1>1. TypeOK'
  <2>1. edits \in Nat /\ faults \in Nat
    BY <1>0 DEF TypeOK
  <2>2. edits' \in Nat /\ faults' \in Nat
    BY <2>1
  <2>3. QED
    BY <1>0, <2>2 DEF TypeOK
<1>2. Needed' = Needed
  BY DEF Needed
<1>3. Progress'
  BY <1>0, <1>2 DEF TypeOK, Progress
<1>4. ListIsDone' /\ SourcesReadyUnlessMissed'
  BY <1>0, <1>2 DEF IInv, TypeOK, Progress, ListIsDone, SourcesReadyUnlessMissed
<1>5. QED
  BY <1>1, <1>3, <1>4 DEF IInv

LEMMA DownloadedInv ==
    ASSUME IInv, Downloaded
    PROVE  IInv'
<1> USE DEF Downloaded
<1>0. TypeOK /\ Progress
  BY DEF IInv
<1>1. TypeOK'
  BY <1>0 DEF TypeOK
<1>2. Needed' = Needed
  BY DEF Needed
<1>3. Progress'
  BY <1>0, <1>2 DEF TypeOK, Progress
<1>4. ListIsDone' /\ SourcesReadyUnlessMissed'
  BY <1>0, <1>2 DEF IInv, TypeOK, Progress, ListIsDone, SourcesReadyUnlessMissed
<1>5. QED
  BY <1>1, <1>3, <1>4 DEF IInv

\* The list is done: it was not begun by this make.
LEMMA SourcesAreReadyInv ==
    ASSUME IInv, SourcesAreReady
    PROVE  IInv'
<1> USE DEF SourcesAreReady, OutOfDate
<1>0. TypeOK /\ Progress
  BY DEF IInv
<1>1. TypeOK'
  BY <1>0 DEF TypeOK
<1>2. Needed' = Needed
  BY DEF Needed
<1>3. Progress'
  BY <1>0, <1>2 DEF TypeOK, Progress
<1>4. ListIsDone' /\ SourcesReadyUnlessMissed'
  BY <1>0, <1>2 DEF IInv, TypeOK, Progress, ListIsDone, SourcesReadyUnlessMissed
<1>5. QED
  BY <1>1, <1>3, <1>4 DEF IInv

LEMMA BuildInv ==
    ASSUME IInv, Build
    PROVE  IInv'
<1> USE DEF Build
<1>0. TypeOK /\ Progress
  BY DEF IInv
<1>1. TypeOK'
  BY <1>0 DEF TypeOK
<1>2. Needed' = Needed
  BY DEF Needed
<1>3. Progress'
  BY <1>0, <1>2 DEF TypeOK, Progress
<1>4. ListIsDone' /\ SourcesReadyUnlessMissed'
  BY <1>0, <1>2 DEF IInv, TypeOK, Progress, ListIsDone, SourcesReadyUnlessMissed
<1>5. QED
  BY <1>1, <1>3, <1>4 DEF IInv

LEMMA KillInv ==
    ASSUME IInv, Kill
    PROVE  IInv'
<1> USE DEF Kill, Fault
<1>0. TypeOK /\ Progress
  BY DEF IInv
<1>1. TypeOK'
  <2>1. edits \in Nat /\ faults \in Nat
    BY <1>0 DEF TypeOK
  <2>2. edits' \in Nat /\ faults' \in Nat
    BY <2>1
  <2>3. QED
    BY <1>0, <2>2 DEF TypeOK
<1>2. Needed' = Needed
  BY DEF Needed
<1>3. Progress'
  BY <1>0, <1>2 DEF TypeOK, Progress
<1>4. ListIsDone' /\ SourcesReadyUnlessMissed'
  BY <1>0, <1>2 DEF IInv, TypeOK, Progress, ListIsDone, SourcesReadyUnlessMissed
<1>5. QED
  BY <1>1, <1>3, <1>4 DEF IInv

LEMMA LocalCleanInv ==
    ASSUME IInv, LocalClean
    PROVE  IInv'
<1> USE DEF LocalClean
<1>0. TypeOK /\ Progress
  BY DEF IInv
<1>1. TypeOK'
  BY <1>0 DEF TypeOK
<1>2. Needed' = Needed
  BY DEF Needed
<1>3. Progress'
  BY <1>0, <1>2 DEF TypeOK, Progress
<1>4. ListIsDone' /\ SourcesReadyUnlessMissed'
  BY <1>0, <1>2 DEF IInv, TypeOK, Progress, ListIsDone, SourcesReadyUnlessMissed
<1>5. QED
  BY <1>1, <1>3, <1>4 DEF IInv

LEMMA DownloadsCleanInv ==
    ASSUME IInv, DownloadsClean
    PROVE  IInv'
<1> USE DEF DownloadsClean, Fault
<1>0. TypeOK /\ Progress
  BY DEF IInv
<1>1. TypeOK'
  <2>1. edits \in Nat /\ faults \in Nat
    BY <1>0 DEF TypeOK
  <2>2. edits' \in Nat /\ faults' \in Nat
    BY <2>1
  <2>3. QED
    BY <1>0, <2>2 DEF TypeOK
<1>2. Needed' = Needed
  BY DEF Needed
<1>3. Progress'
  BY <1>0, <1>2 DEF TypeOK, Progress
<1>4. ListIsDone' /\ SourcesReadyUnlessMissed'
  BY <1>0, <1>2 DEF IInv, TypeOK, Progress, ListIsDone, SourcesReadyUnlessMissed
<1>5. QED
  BY <1>1, <1>3, <1>4 DEF IInv

LEMMA NextInv == IInv /\ [Next]_vars => IInv'
<1> SUFFICES ASSUME IInv, [Next]_vars PROVE IInv'
  OBVIOUS
<1>1. CASE UNCHANGED vars
  BY <1>1 DEF vars, IInv, TypeOK, Progress, ListIsDone, SourcesReadyUnlessMissed, Needed
<1>2. ASSUME NEW c \in Component, NEW names \in SUBSET Source, Edit(c, names) PROVE IInv'
  BY <1>2, EditInv
<1>3. CASE Step
  BY <1>3, TouchInv, CleanInv, ReadInv, WrittenInv, FetchInv, DownloadedInv,
     SourcesAreReadyInv, BuildInv DEF Step
<1>4. ASSUME NEW s \in Source, FetchFails(s) PROVE IInv'
  BY <1>4, FetchFailsInv
<1>5. CASE Make \/ GiveUp \/ Kill \/ LocalClean \/ DownloadsClean
  BY <1>5, MakeInv, GiveUpInv, KillInv, LocalCleanInv, DownloadsCleanInv
<1>6. QED
  BY <1>1, <1>2, <1>3, <1>4, <1>5 DEF Next

\* The invariant holds in every state (type correctness included).
THEOREM Invariance == Spec => []IInv
<1>1. QED
  BY InitInv, NextInv, PTL DEF Spec

\* No build starts before all source tarballs are downloaded (core.mk:295), but after
\* what make misses.
THEOREM SourcesFirst == Spec => []SourcesReadyUnlessMissed
<1>1. IInv => SourcesReadyUnlessMissed
  BY DEF IInv
<1>2. QED
  BY <1>1, Invariance, PTL

\* In no case does the make in which a download failed go on to build.
THEOREM FailureStops == Spec => []NoBuildAfterFailure
<1>1. IInv => NoBuildAfterFailure
  BY DEF IInv, Progress, NoBuildAfterFailure
<1>2. QED
  BY <1>1, Invariance, PTL

=============================================================================
