------------------------ MODULE ProductInstallProofs ------------------------
(***************************************************************************)
(* Proofs about the install of a product, for any set of targets and any   *)
(* number of builds, installs, faults and cleanings.  The argument: a copy *)
(* is as new as its target only if cp made it so, and then its name is on  *)
(* some list or is lost; an install that fails leaves its list for the     *)
(* next one, and local_clean, which removes the lists, removes the targets *)
(* with them.                                                              *)
(***************************************************************************)
EXTENDS ProductInstallInvariant, TLAPS

LEMMA InitInv == Init => IInv
<1> SUFFICES ASSUME Init PROVE IInv
  OBVIOUS
<1> USE DEF Init, NotThere
<1>1. TypeOK
  BY DEF TypeOK, Copies
<1>2. CopyIsWhole /\ CopyIsListed /\ Progress /\ InstalledIsCurrent
  BY DEF CopyIsWhole, CopyIsListed, Progress, InstalledIsCurrent
<1>4. CopyIsRecorded /\ TreeCleanIsComplete
  BY DEF CopyIsRecorded, TreeCleanIsComplete
<1>3. QED
  BY <1>1, <1>2, <1>4 DEF IInv

\* What is assumed of the state before a step, in one place.
LEMMA Before ==
    ASSUME IInv
    PROVE  /\ TypeOK /\ CopyIsWhole /\ CopyIsListed /\ Progress
           /\ CopyIsRecorded /\ InstalledIsCurrent /\ TreeCleanIsComplete
BY DEF IInv

\* A build makes a target newer than any copy.
LEMMA BuildInv ==
    ASSUME IInv, NEW t \in Target, Build(t)
    PROVE  IInv'
<1> USE DEF Build, lists, script, outcome
<1>1. TypeOK /\ TypeOK' /\ (pc = "move" => merged = Listed) /\ \A s, u \in copying : s = u
  BY DEF IInv, TypeOK, Copies
<1>2. /\ \A s \in Target : target'[s] <= builds'
      /\ \A s, u \in copying' : s = u
      /\ last' # "none" => pc' = "idle"
      /\ pc' = "move" => merged' = Listed'
  BY <1>1 DEF IInv, TypeOK, Listed
<1>3. /\ CopyIsWhole' /\ CopyIsListed' /\ Progress'
      /\ CopyIsRecorded' /\ InstalledIsCurrent' /\ TreeCleanIsComplete'
  <2>0. /\ TypeOK /\ CopyIsWhole /\ CopyIsListed /\ Progress
        /\ CopyIsRecorded /\ InstalledIsCurrent /\ TreeCleanIsComplete
    BY Before
  <2>1. CopyIsWhole'
    BY <1>1, <1>2, <2>0 DEF TypeOK, Copies, CopyIsWhole, IInv
  <2>2. CopyIsListed'
    BY <1>1, <1>2, <2>0 DEF TypeOK, Copies, CopyIsListed, CopyIsWhole, Listed, Progress
  <2>3. Progress'
    BY <1>1, <1>2, <2>0 DEF TypeOK, Copies, Progress, CopyIsWhole, CopyIsListed, Listed, NewerThan
  <2>4. CopyIsRecorded'
    BY <1>1, <1>2, <2>0 DEF TypeOK, Copies, CopyIsRecorded, Progress
  <2>5. InstalledIsCurrent' /\ TreeCleanIsComplete'
    BY <1>1, <1>2, <2>0, <2>4 DEF TypeOK, Copies, InstalledIsCurrent, Progress, CopyIsWhole,
       TreeCleanIsComplete, CopyIsRecorded
  <2>6. QED
    BY <2>1, <2>2, <2>3, <2>4, <2>5
<1>4. QED
  BY <1>1, <1>2, <1>3 DEF IInv

LEMMA InstallInv ==
    ASSUME IInv, Install
    PROVE  IInv'
<1> USE DEF Install, lists, script, outcome
<1>1. TypeOK /\ TypeOK' /\ (pc = "move" => merged = Listed) /\ \A s, u \in copying : s = u
  BY DEF IInv, TypeOK, Copies
<1>2. /\ \A s \in Target : target'[s] <= builds'
      /\ \A s, u \in copying' : s = u
      /\ last' # "none" => pc' = "idle"
      /\ pc' = "move" => merged' = Listed'
  BY <1>1 DEF IInv, TypeOK, Listed
<1>3. /\ CopyIsWhole' /\ CopyIsListed' /\ Progress'
      /\ CopyIsRecorded' /\ InstalledIsCurrent' /\ TreeCleanIsComplete'
  <2>0. /\ TypeOK /\ CopyIsWhole /\ CopyIsListed /\ Progress
        /\ CopyIsRecorded /\ InstalledIsCurrent /\ TreeCleanIsComplete
    BY Before
  <2>1. CopyIsWhole'
    BY <1>1, <1>2, <2>0 DEF TypeOK, Copies, CopyIsWhole, IInv
  <2>2. CopyIsListed'
    BY <1>1, <1>2, <2>0 DEF TypeOK, Copies, CopyIsListed, CopyIsWhole, Listed, Progress
  <2>3. Progress'
    BY <1>1, <1>2, <2>0 DEF TypeOK, Copies, Progress, CopyIsWhole, CopyIsListed, Listed, NewerThan
  <2>4. CopyIsRecorded'
    BY <1>1, <1>2, <2>0 DEF TypeOK, Copies, CopyIsRecorded, Progress
  <2>5. InstalledIsCurrent' /\ TreeCleanIsComplete'
    BY <1>1, <1>2, <2>0, <2>4 DEF TypeOK, Copies, InstalledIsCurrent, Progress, CopyIsWhole,
       TreeCleanIsComplete, CopyIsRecorded
  <2>6. QED
    BY <2>1, <2>2, <2>3, <2>4, <2>5
<1>4. QED
  BY <1>1, <1>2, <1>3 DEF IInv

LEMMA UpToDateInv ==
    ASSUME IInv, NEW t \in Target, UpToDate(t)
    PROVE  IInv'
<1> USE DEF UpToDate, lists, script, outcome, NewerThan
<1>1. TypeOK /\ TypeOK' /\ (pc = "move" => merged = Listed) /\ \A s, u \in copying : s = u
  BY DEF IInv, TypeOK, Copies
<1>2. /\ \A s \in Target : target'[s] <= builds'
      /\ \A s, u \in copying' : s = u
      /\ last' # "none" => pc' = "idle"
      /\ pc' = "move" => merged' = Listed'
  BY <1>1 DEF IInv, TypeOK, Listed
<1>3. /\ CopyIsWhole' /\ CopyIsListed' /\ Progress'
      /\ CopyIsRecorded' /\ InstalledIsCurrent' /\ TreeCleanIsComplete'
  <2>0. /\ TypeOK /\ CopyIsWhole /\ CopyIsListed /\ Progress
        /\ CopyIsRecorded /\ InstalledIsCurrent /\ TreeCleanIsComplete
    BY Before
  <2>1. CopyIsWhole'
    BY <1>1, <1>2, <2>0 DEF TypeOK, Copies, CopyIsWhole, IInv
  <2>2. CopyIsListed'
    BY <1>1, <1>2, <2>0 DEF TypeOK, Copies, CopyIsListed, CopyIsWhole, Listed, Progress
  <2>3. Progress'
    BY <1>1, <1>2, <2>0 DEF TypeOK, Copies, Progress, CopyIsWhole, CopyIsListed, Listed, NewerThan
  <2>4. CopyIsRecorded'
    BY <1>1, <1>2, <2>0 DEF TypeOK, Copies, CopyIsRecorded, Progress
  <2>5. InstalledIsCurrent' /\ TreeCleanIsComplete'
    BY <1>1, <1>2, <2>0, <2>4 DEF TypeOK, Copies, InstalledIsCurrent, Progress, CopyIsWhole,
       TreeCleanIsComplete, CopyIsRecorded
  <2>6. QED
    BY <2>1, <2>2, <2>3, <2>4, <2>5
<1>4. QED
  BY <1>1, <1>2, <1>3 DEF IInv

LEMMA CopyInv ==
    ASSUME IInv, NEW t \in Target, Copy(t)
    PROVE  IInv'
<1> USE DEF Copy, lists, script, outcome
<1>1. TypeOK /\ TypeOK' /\ (pc = "move" => merged = Listed) /\ \A s, u \in copying : s = u
  BY DEF IInv, TypeOK, Copies
<1>2. /\ \A s \in Target : target'[s] <= builds'
      /\ \A s, u \in copying' : s = u
      /\ last' # "none" => pc' = "idle"
      /\ pc' = "move" => merged' = Listed'
  BY <1>1 DEF IInv, TypeOK, Listed
<1>3. /\ CopyIsWhole' /\ CopyIsListed' /\ Progress'
      /\ CopyIsRecorded' /\ InstalledIsCurrent' /\ TreeCleanIsComplete'
  <2>0. /\ TypeOK /\ CopyIsWhole /\ CopyIsListed /\ Progress
        /\ CopyIsRecorded /\ InstalledIsCurrent /\ TreeCleanIsComplete
    BY Before
  <2>1. CopyIsWhole'
    BY <1>1, <1>2, <2>0 DEF TypeOK, Copies, CopyIsWhole, IInv
  <2>2. CopyIsListed'
    BY <1>1, <1>2, <2>0 DEF TypeOK, Copies, CopyIsListed, CopyIsWhole, Listed, Progress
  <2>3. Progress'
    BY <1>1, <1>2, <2>0 DEF TypeOK, Copies, Progress, CopyIsWhole, CopyIsListed, Listed, NewerThan
  <2>4. CopyIsRecorded'
    BY <1>1, <1>2, <2>0 DEF TypeOK, Copies, CopyIsRecorded, Progress
  <2>5. InstalledIsCurrent' /\ TreeCleanIsComplete'
    BY <1>1, <1>2, <2>0, <2>4 DEF TypeOK, Copies, InstalledIsCurrent, Progress, CopyIsWhole,
       TreeCleanIsComplete, CopyIsRecorded
  <2>6. QED
    BY <2>1, <2>2, <2>3, <2>4, <2>5
<1>4. QED
  BY <1>1, <1>2, <1>3 DEF IInv

\* The copy that is whole now is listed as printed.
LEMMA CopiedInv ==
    ASSUME IInv, NEW t \in Target, Copied(t)
    PROVE  IInv'
<1> USE DEF Copied, lists, script, outcome, Named
<1>1. TypeOK /\ TypeOK' /\ (pc = "move" => merged = Listed) /\ \A s, u \in copying : s = u
  BY DEF IInv, TypeOK, Copies
<1>2. /\ \A s \in Target : target'[s] <= builds'
      /\ \A s, u \in copying' : s = u
      /\ last' # "none" => pc' = "idle"
      /\ pc' = "move" => merged' = Listed'
  BY <1>1 DEF IInv, TypeOK, Listed
<1>3. /\ CopyIsWhole' /\ CopyIsListed' /\ Progress'
      /\ CopyIsRecorded' /\ InstalledIsCurrent' /\ TreeCleanIsComplete'
  <2>0. /\ TypeOK /\ CopyIsWhole /\ CopyIsListed /\ Progress
        /\ CopyIsRecorded /\ InstalledIsCurrent /\ TreeCleanIsComplete
    BY Before
  <2>1. CopyIsWhole'
    BY <1>1, <1>2, <2>0 DEF TypeOK, Copies, CopyIsWhole, IInv
  <2>2. CopyIsListed'
    BY <1>1, <1>2, <2>0 DEF TypeOK, Copies, CopyIsListed, CopyIsWhole, Listed, Progress
  <2>3. Progress'
    BY <1>1, <1>2, <2>0 DEF TypeOK, Copies, Progress, CopyIsWhole, CopyIsListed, Listed, NewerThan
  <2>4. CopyIsRecorded'
    BY <1>1, <1>2, <2>0 DEF TypeOK, Copies, CopyIsRecorded, Progress
  <2>5. InstalledIsCurrent' /\ TreeCleanIsComplete'
    BY <1>1, <1>2, <2>0, <2>4 DEF TypeOK, Copies, InstalledIsCurrent, Progress, CopyIsWhole,
       TreeCleanIsComplete, CopyIsRecorded
  <2>6. QED
    BY <2>1, <2>2, <2>3, <2>4, <2>5
<1>4. QED
  BY <1>1, <1>2, <1>3 DEF IInv

LEMMA EndCopyInv ==
    ASSUME IInv, EndCopy
    PROVE  IInv'
<1> USE DEF EndCopy, lists, script, outcome, Forget
<1>1. TypeOK /\ TypeOK' /\ (pc = "move" => merged = Listed) /\ \A s, u \in copying : s = u
  BY DEF IInv, TypeOK, Copies
<1>2. /\ \A s \in Target : target'[s] <= builds'
      /\ \A s, u \in copying' : s = u
      /\ last' # "none" => pc' = "idle"
      /\ pc' = "move" => merged' = Listed'
  BY <1>1 DEF IInv, TypeOK, Listed
<1>3. /\ CopyIsWhole' /\ CopyIsListed' /\ Progress'
      /\ CopyIsRecorded' /\ InstalledIsCurrent' /\ TreeCleanIsComplete'
  <2>0. /\ TypeOK /\ CopyIsWhole /\ CopyIsListed /\ Progress
        /\ CopyIsRecorded /\ InstalledIsCurrent /\ TreeCleanIsComplete
    BY Before
  <2>1. CopyIsWhole'
    BY <1>1, <1>2, <2>0 DEF TypeOK, Copies, CopyIsWhole, IInv
  <2>2. CopyIsListed'
    BY <1>1, <1>2, <2>0 DEF TypeOK, Copies, CopyIsListed, CopyIsWhole, Listed, Progress
  <2>3. Progress'
    BY <1>1, <1>2, <2>0 DEF TypeOK, Copies, Progress, CopyIsWhole, CopyIsListed, Listed, NewerThan
  <2>4. CopyIsRecorded'
    BY <1>1, <1>2, <2>0 DEF TypeOK, Copies, CopyIsRecorded, Progress
  <2>5. InstalledIsCurrent' /\ TreeCleanIsComplete'
    BY <1>1, <1>2, <2>0, <2>4 DEF TypeOK, Copies, InstalledIsCurrent, Progress, CopyIsWhole,
       TreeCleanIsComplete, CopyIsRecorded
  <2>6. QED
    BY <2>1, <2>2, <2>3, <2>4, <2>5
<1>4. QED
  BY <1>1, <1>2, <1>3 DEF IInv

\* The list of an install_targets that gives up is kept.
LEMMA RefusedInv ==
    ASSUME IInv, NEW t \in Target, Refused(t)
    PROVE  IInv'
<1> USE DEF Refused, lists, script, outcome, Forget, Fault
<1>1. TypeOK /\ TypeOK' /\ (pc = "move" => merged = Listed) /\ \A s, u \in copying : s = u
  BY DEF IInv, TypeOK, Copies
<1>2. /\ \A s \in Target : target'[s] <= builds'
      /\ \A s, u \in copying' : s = u
      /\ last' # "none" => pc' = "idle"
      /\ pc' = "move" => merged' = Listed'
  BY <1>1 DEF IInv, TypeOK, Listed
<1>3. /\ CopyIsWhole' /\ CopyIsListed' /\ Progress'
      /\ CopyIsRecorded' /\ InstalledIsCurrent' /\ TreeCleanIsComplete'
  <2>0. /\ TypeOK /\ CopyIsWhole /\ CopyIsListed /\ Progress
        /\ CopyIsRecorded /\ InstalledIsCurrent /\ TreeCleanIsComplete
    BY Before
  <2>1. CopyIsWhole'
    BY <1>1, <1>2, <2>0 DEF TypeOK, Copies, CopyIsWhole, IInv
  <2>2. CopyIsListed'
    BY <1>1, <1>2, <2>0 DEF TypeOK, Copies, CopyIsListed, CopyIsWhole, Listed, Progress
  <2>3. Progress'
    BY <1>1, <1>2, <2>0 DEF TypeOK, Copies, Progress, CopyIsWhole, CopyIsListed, Listed, NewerThan
  <2>4. CopyIsRecorded'
    BY <1>1, <1>2, <2>0 DEF TypeOK, Copies, CopyIsRecorded, Progress
  <2>5. InstalledIsCurrent' /\ TreeCleanIsComplete'
    BY <1>1, <1>2, <2>0, <2>4 DEF TypeOK, Copies, InstalledIsCurrent, Progress, CopyIsWhole,
       TreeCleanIsComplete, CopyIsRecorded
  <2>6. QED
    BY <2>1, <2>2, <2>3, <2>4, <2>5
<1>4. QED
  BY <1>1, <1>2, <1>3 DEF IInv

\* What cp leaves is lost, and what was printed is listed.
LEMMA CutShortInv ==
    ASSUME IInv, NEW t \in Target, CutShort(t)
    PROVE  IInv'
<1> USE DEF CutShort, lists, script, outcome, Forget, Fault
<1>1. TypeOK /\ TypeOK' /\ (pc = "move" => merged = Listed) /\ \A s, u \in copying : s = u
  BY DEF IInv, TypeOK, Copies
<1>2. /\ \A s \in Target : target'[s] <= builds'
      /\ \A s, u \in copying' : s = u
      /\ last' # "none" => pc' = "idle"
      /\ pc' = "move" => merged' = Listed'
  BY <1>1 DEF IInv, TypeOK, Listed
<1>3. /\ CopyIsWhole' /\ CopyIsListed' /\ Progress'
      /\ CopyIsRecorded' /\ InstalledIsCurrent' /\ TreeCleanIsComplete'
  <2>0. /\ TypeOK /\ CopyIsWhole /\ CopyIsListed /\ Progress
        /\ CopyIsRecorded /\ InstalledIsCurrent /\ TreeCleanIsComplete
    BY Before
  <2>1. CopyIsWhole'
    BY <1>1, <1>2, <2>0 DEF TypeOK, Copies, CopyIsWhole, IInv
  <2>2. CopyIsListed'
    BY <1>1, <1>2, <2>0 DEF TypeOK, Copies, CopyIsListed, CopyIsWhole, Listed, Progress
  <2>3. Progress'
    BY <1>1, <1>2, <2>0 DEF TypeOK, Copies, Progress, CopyIsWhole, CopyIsListed, Listed, NewerThan
  <2>4. CopyIsRecorded'
    BY <1>1, <1>2, <2>0 DEF TypeOK, Copies, CopyIsRecorded, Progress
  <2>5. InstalledIsCurrent' /\ TreeCleanIsComplete'
    BY <1>1, <1>2, <2>0, <2>4 DEF TypeOK, Copies, InstalledIsCurrent, Progress, CopyIsWhole,
       TreeCleanIsComplete, CopyIsRecorded
  <2>6. QED
    BY <2>1, <2>2, <2>3, <2>4, <2>5
<1>4. QED
  BY <1>1, <1>2, <1>3 DEF IInv

\* What was not written of the list is lost.
LEMMA KillInv ==
    ASSUME IInv, NEW written \in SUBSET printed, Kill(written)
    PROVE  IInv'
<1> USE DEF Kill, lists, script, outcome, Forget, Fault
<1>1. TypeOK /\ TypeOK' /\ (pc = "move" => merged = Listed) /\ \A s, u \in copying : s = u
  BY DEF IInv, TypeOK, Copies
<1>2. /\ \A s \in Target : target'[s] <= builds'
      /\ \A s, u \in copying' : s = u
      /\ last' # "none" => pc' = "idle"
      /\ pc' = "move" => merged' = Listed'
  BY <1>1 DEF IInv, TypeOK, Listed
<1>3. /\ CopyIsWhole' /\ CopyIsListed' /\ Progress'
      /\ CopyIsRecorded' /\ InstalledIsCurrent' /\ TreeCleanIsComplete'
  <2>0. /\ TypeOK /\ CopyIsWhole /\ CopyIsListed /\ Progress
        /\ CopyIsRecorded /\ InstalledIsCurrent /\ TreeCleanIsComplete
    BY Before
  <2>1. CopyIsWhole'
    BY <1>1, <1>2, <2>0 DEF TypeOK, Copies, CopyIsWhole, IInv
  <2>2. CopyIsListed'
    BY <1>1, <1>2, <2>0 DEF TypeOK, Copies, CopyIsListed, CopyIsWhole, Listed, Progress
  <2>3. Progress'
    BY <1>1, <1>2, <2>0 DEF TypeOK, Copies, Progress, CopyIsWhole, CopyIsListed, Listed, NewerThan
  <2>4. CopyIsRecorded'
    BY <1>1, <1>2, <2>0 DEF TypeOK, Copies, CopyIsRecorded, Progress
  <2>5. InstalledIsCurrent' /\ TreeCleanIsComplete'
    BY <1>1, <1>2, <2>0, <2>4 DEF TypeOK, Copies, InstalledIsCurrent, Progress, CopyIsWhole,
       TreeCleanIsComplete, CopyIsRecorded
  <2>6. QED
    BY <2>1, <2>2, <2>3, <2>4, <2>5
<1>4. QED
  BY <1>1, <1>2, <1>3 DEF IInv

LEMMA MergeInv ==
    ASSUME IInv, Merge
    PROVE  IInv'
<1> USE DEF Merge, lists, script, outcome
<1>1. TypeOK /\ TypeOK' /\ (pc = "move" => merged = Listed) /\ \A s, u \in copying : s = u
  BY DEF IInv, TypeOK, Copies
<1>2. /\ \A s \in Target : target'[s] <= builds'
      /\ \A s, u \in copying' : s = u
      /\ last' # "none" => pc' = "idle"
      /\ pc' = "move" => merged' = Listed'
  BY <1>1 DEF IInv, TypeOK, Listed
<1>3. /\ CopyIsWhole' /\ CopyIsListed' /\ Progress'
      /\ CopyIsRecorded' /\ InstalledIsCurrent' /\ TreeCleanIsComplete'
  <2>0. /\ TypeOK /\ CopyIsWhole /\ CopyIsListed /\ Progress
        /\ CopyIsRecorded /\ InstalledIsCurrent /\ TreeCleanIsComplete
    BY Before
  <2>1. CopyIsWhole'
    BY <1>1, <1>2, <2>0 DEF TypeOK, Copies, CopyIsWhole, IInv
  <2>2. CopyIsListed'
    BY <1>1, <1>2, <2>0 DEF TypeOK, Copies, CopyIsListed, CopyIsWhole, Listed, Progress
  <2>3. Progress'
    BY <1>1, <1>2, <2>0 DEF TypeOK, Copies, Progress, CopyIsWhole, CopyIsListed, Listed, NewerThan
  <2>4. CopyIsRecorded'
    BY <1>1, <1>2, <2>0 DEF TypeOK, Copies, CopyIsRecorded, Progress
  <2>5. InstalledIsCurrent' /\ TreeCleanIsComplete'
    BY <1>1, <1>2, <2>0, <2>4 DEF TypeOK, Copies, InstalledIsCurrent, Progress, CopyIsWhole,
       TreeCleanIsComplete, CopyIsRecorded
  <2>6. QED
    BY <2>1, <2>2, <2>3, <2>4, <2>5
<1>4. QED
  BY <1>1, <1>2, <1>3 DEF IInv

LEMMA MoveInv ==
    ASSUME IInv, Move
    PROVE  IInv'
<1> USE DEF Move, lists, script, outcome
<1>1. TypeOK /\ TypeOK' /\ (pc = "move" => merged = Listed) /\ \A s, u \in copying : s = u
  BY DEF IInv, TypeOK, Copies
<1>2. /\ \A s \in Target : target'[s] <= builds'
      /\ \A s, u \in copying' : s = u
      /\ last' # "none" => pc' = "idle"
      /\ pc' = "move" => merged' = Listed'
  BY <1>1 DEF IInv, TypeOK, Listed
<1>3. /\ CopyIsWhole' /\ CopyIsListed' /\ Progress'
      /\ CopyIsRecorded' /\ InstalledIsCurrent' /\ TreeCleanIsComplete'
  <2>0. /\ TypeOK /\ CopyIsWhole /\ CopyIsListed /\ Progress
        /\ CopyIsRecorded /\ InstalledIsCurrent /\ TreeCleanIsComplete
    BY Before
  <2>1. CopyIsWhole'
    BY <1>1, <1>2, <2>0 DEF TypeOK, Copies, CopyIsWhole, IInv
  <2>2. CopyIsListed'
    BY <1>1, <1>2, <2>0 DEF TypeOK, Copies, CopyIsListed, CopyIsWhole, Listed, Progress
  <2>3. Progress'
    <3>1. todo = {} /\ printed = {} /\ copying = {}
      BY <1>1, <2>0 DEF TypeOK, Progress
    <3>2. \A t \in Target : target[t] # 0 /\ dist[t].build = target[t]
      BY <2>0 DEF Progress
    <3>3. Target \ lost \subseteq Listed
      BY <3>1, <3>2, <2>0 DEF CopyIsListed, Listed
    <3>4. Target \ lost' \subseteq record'
      BY <1>1, <3>3 DEF TypeOK, Listed
    <3>5. QED
      BY <3>1, <3>2, <3>4, <2>0 DEF Progress
  <2>4. CopyIsRecorded'
    BY <1>1, <1>2, <2>0 DEF TypeOK, Copies, CopyIsRecorded, Progress
  <2>5. InstalledIsCurrent' /\ TreeCleanIsComplete'
    BY <1>1, <1>2, <2>0, <2>4 DEF TypeOK, Copies, InstalledIsCurrent, Progress, CopyIsWhole,
       TreeCleanIsComplete, CopyIsRecorded
  <2>6. QED
    BY <2>1, <2>2, <2>3, <2>4, <2>5
<1>4. QED
  BY <1>1, <1>2, <1>3 DEF IInv

LEMMA RemoveInv ==
    ASSUME IInv, Remove
    PROVE  IInv'
<1> USE DEF Remove, lists, script, outcome
<1>1. TypeOK /\ TypeOK' /\ (pc = "move" => merged = Listed) /\ \A s, u \in copying : s = u
  BY DEF IInv, TypeOK, Copies
<1>2. /\ \A s \in Target : target'[s] <= builds'
      /\ \A s, u \in copying' : s = u
      /\ last' # "none" => pc' = "idle"
      /\ pc' = "move" => merged' = Listed'
  BY <1>1 DEF IInv, TypeOK, Listed
<1>3. /\ CopyIsWhole' /\ CopyIsListed' /\ Progress'
      /\ CopyIsRecorded' /\ InstalledIsCurrent' /\ TreeCleanIsComplete'
  <2>0. /\ TypeOK /\ CopyIsWhole /\ CopyIsListed /\ Progress
        /\ CopyIsRecorded /\ InstalledIsCurrent /\ TreeCleanIsComplete
    BY Before
  <2>1. CopyIsWhole'
    BY <1>1, <1>2, <2>0 DEF TypeOK, Copies, CopyIsWhole, IInv
  <2>2. CopyIsListed'
    BY <1>1, <1>2, <2>0 DEF TypeOK, Copies, CopyIsListed, CopyIsWhole, Listed, Progress
  <2>3. Progress'
    BY <1>1, <1>2, <2>0 DEF TypeOK, Copies, Progress, CopyIsWhole, CopyIsListed, Listed, NewerThan
  <2>4. CopyIsRecorded'
    BY <1>1, <1>2, <2>0 DEF TypeOK, Copies, CopyIsRecorded, Progress
  <2>5. InstalledIsCurrent' /\ TreeCleanIsComplete'
    BY <1>1, <1>2, <2>0, <2>4 DEF TypeOK, Copies, InstalledIsCurrent, Progress, CopyIsWhole,
       TreeCleanIsComplete, CopyIsRecorded
  <2>6. QED
    BY <2>1, <2>2, <2>3, <2>4, <2>5
<1>4. QED
  BY <1>1, <1>2, <1>3 DEF IInv

\* The lists that were to be merged are still there.
LEMMA MergeFailsInv ==
    ASSUME IInv, NEW part \in SUBSET (record \cup loose \cup merged), MergeFails(part)
    PROVE  IInv'
<1> USE DEF MergeFails, lists, script, outcome, Fault
<1>1. TypeOK /\ TypeOK' /\ (pc = "move" => merged = Listed) /\ \A s, u \in copying : s = u
  BY DEF IInv, TypeOK, Copies
<1>2. /\ \A s \in Target : target'[s] <= builds'
      /\ \A s, u \in copying' : s = u
      /\ last' # "none" => pc' = "idle"
      /\ pc' = "move" => merged' = Listed'
  BY <1>1 DEF IInv, TypeOK, Listed
<1>3. /\ CopyIsWhole' /\ CopyIsListed' /\ Progress'
      /\ CopyIsRecorded' /\ InstalledIsCurrent' /\ TreeCleanIsComplete'
  <2>0. /\ TypeOK /\ CopyIsWhole /\ CopyIsListed /\ Progress
        /\ CopyIsRecorded /\ InstalledIsCurrent /\ TreeCleanIsComplete
    BY Before
  <2>1. CopyIsWhole'
    BY <1>1, <1>2, <2>0 DEF TypeOK, Copies, CopyIsWhole, IInv
  <2>2. CopyIsListed'
    BY <1>1, <1>2, <2>0 DEF TypeOK, Copies, CopyIsListed, CopyIsWhole, Listed, Progress
  <2>3. Progress'
    BY <1>1, <1>2, <2>0 DEF TypeOK, Copies, Progress, CopyIsWhole, CopyIsListed, Listed, NewerThan
  <2>4. CopyIsRecorded'
    BY <1>1, <1>2, <2>0 DEF TypeOK, Copies, CopyIsRecorded, Progress
  <2>5. InstalledIsCurrent' /\ TreeCleanIsComplete'
    BY <1>1, <1>2, <2>0, <2>4 DEF TypeOK, Copies, InstalledIsCurrent, Progress, CopyIsWhole,
       TreeCleanIsComplete, CopyIsRecorded
  <2>6. QED
    BY <2>1, <2>2, <2>3, <2>4, <2>5
<1>4. QED
  BY <1>1, <1>2, <1>3 DEF IInv

\* Only copies that .dist names leave dist.
LEMMA DistCleanInv ==
    ASSUME IInv, DistClean
    PROVE  IInv'
<1> USE DEF DistClean, lists, script, outcome, Uninstalled, NotThere
<1>1. TypeOK /\ TypeOK' /\ (pc = "move" => merged = Listed) /\ \A s, u \in copying : s = u
  BY DEF IInv, TypeOK, Copies
<1>2. /\ \A s \in Target : target'[s] <= builds'
      /\ \A s, u \in copying' : s = u
      /\ last' # "none" => pc' = "idle"
      /\ pc' = "move" => merged' = Listed'
  BY <1>1 DEF IInv, TypeOK, Listed
<1>3. /\ CopyIsWhole' /\ CopyIsListed' /\ Progress'
      /\ CopyIsRecorded' /\ InstalledIsCurrent' /\ TreeCleanIsComplete'
  <2>0. /\ TypeOK /\ CopyIsWhole /\ CopyIsListed /\ Progress
        /\ CopyIsRecorded /\ InstalledIsCurrent /\ TreeCleanIsComplete
    BY Before
  <2>1. CopyIsWhole'
    BY <1>1, <1>2, <2>0 DEF TypeOK, Copies, CopyIsWhole, IInv
  <2>2. CopyIsListed'
    BY <1>1, <1>2, <2>0 DEF TypeOK, Copies, CopyIsListed, CopyIsWhole, Listed, Progress
  <2>3. Progress'
    BY <1>1, <1>2, <2>0 DEF TypeOK, Copies, Progress, CopyIsWhole, CopyIsListed, Listed, NewerThan
  <2>4. CopyIsRecorded'
    BY <1>1, <1>2, <2>0 DEF TypeOK, Copies, CopyIsRecorded, Progress
  <2>5. InstalledIsCurrent' /\ TreeCleanIsComplete'
    BY <1>1, <1>2, <2>0, <2>4 DEF TypeOK, Copies, InstalledIsCurrent, Progress, CopyIsWhole,
       TreeCleanIsComplete, CopyIsRecorded
  <2>6. QED
    BY <2>1, <2>2, <2>3, <2>4, <2>5
<1>4. QED
  BY <1>1, <1>2, <1>3 DEF IInv

LEMMA DistCleanKilledInv ==
    ASSUME IInv, NEW removed \in SUBSET record, DistCleanKilled(removed)
    PROVE  IInv'
<1> USE DEF DistCleanKilled, lists, script, outcome, Fault, Uninstalled, NotThere
<1>1. TypeOK /\ TypeOK' /\ (pc = "move" => merged = Listed) /\ \A s, u \in copying : s = u
  BY DEF IInv, TypeOK, Copies
<1>2. /\ \A s \in Target : target'[s] <= builds'
      /\ \A s, u \in copying' : s = u
      /\ last' # "none" => pc' = "idle"
      /\ pc' = "move" => merged' = Listed'
  BY <1>1 DEF IInv, TypeOK, Listed
<1>3. /\ CopyIsWhole' /\ CopyIsListed' /\ Progress'
      /\ CopyIsRecorded' /\ InstalledIsCurrent' /\ TreeCleanIsComplete'
  <2>0. /\ TypeOK /\ CopyIsWhole /\ CopyIsListed /\ Progress
        /\ CopyIsRecorded /\ InstalledIsCurrent /\ TreeCleanIsComplete
    BY Before
  <2>1. CopyIsWhole'
    BY <1>1, <1>2, <2>0 DEF TypeOK, Copies, CopyIsWhole, IInv
  <2>2. CopyIsListed'
    BY <1>1, <1>2, <2>0 DEF TypeOK, Copies, CopyIsListed, CopyIsWhole, Listed, Progress
  <2>3. Progress'
    BY <1>1, <1>2, <2>0 DEF TypeOK, Copies, Progress, CopyIsWhole, CopyIsListed, Listed, NewerThan
  <2>4. CopyIsRecorded'
    BY <1>1, <1>2, <2>0 DEF TypeOK, Copies, CopyIsRecorded, Progress
  <2>5. InstalledIsCurrent' /\ TreeCleanIsComplete'
    BY <1>1, <1>2, <2>0, <2>4 DEF TypeOK, Copies, InstalledIsCurrent, Progress, CopyIsWhole,
       TreeCleanIsComplete, CopyIsRecorded
  <2>6. QED
    BY <2>1, <2>2, <2>3, <2>4, <2>5
<1>4. QED
  BY <1>1, <1>2, <1>3 DEF IInv

\* The lists are lost, but so are the targets.
LEMMA LocalCleanInv ==
    ASSUME IInv, LocalClean
    PROVE  IInv'
<1> USE DEF LocalClean, lists, script, outcome
<1>1. TypeOK /\ TypeOK' /\ (pc = "move" => merged = Listed) /\ \A s, u \in copying : s = u
  BY DEF IInv, TypeOK, Copies
<1>2. /\ \A s \in Target : target'[s] <= builds'
      /\ \A s, u \in copying' : s = u
      /\ last' # "none" => pc' = "idle"
      /\ pc' = "move" => merged' = Listed'
  BY <1>1 DEF IInv, TypeOK, Listed
<1>3. /\ CopyIsWhole' /\ CopyIsListed' /\ Progress'
      /\ CopyIsRecorded' /\ InstalledIsCurrent' /\ TreeCleanIsComplete'
  <2>0. /\ TypeOK /\ CopyIsWhole /\ CopyIsListed /\ Progress
        /\ CopyIsRecorded /\ InstalledIsCurrent /\ TreeCleanIsComplete
    BY Before
  <2>1. CopyIsWhole'
    BY <1>1, <1>2, <2>0 DEF TypeOK, Copies, CopyIsWhole, IInv
  <2>2. CopyIsListed'
    BY <1>1, <1>2, <2>0 DEF TypeOK, Copies, CopyIsListed, CopyIsWhole, Listed, Progress
  <2>3. Progress'
    BY <1>1, <1>2, <2>0 DEF TypeOK, Copies, Progress, CopyIsWhole, CopyIsListed, Listed, NewerThan
  <2>4. CopyIsRecorded'
    BY <1>1, <1>2, <2>0 DEF TypeOK, Copies, CopyIsRecorded, Progress
  <2>5. InstalledIsCurrent' /\ TreeCleanIsComplete'
    BY <1>1, <1>2, <2>0, <2>4 DEF TypeOK, Copies, InstalledIsCurrent, Progress, CopyIsWhole,
       TreeCleanIsComplete, CopyIsRecorded
  <2>6. QED
    BY <2>1, <2>2, <2>3, <2>4, <2>5
<1>4. QED
  BY <1>1, <1>2, <1>3 DEF IInv

LEMMA TreeCleanInv ==
    ASSUME IInv, TreeClean
    PROVE  IInv'
<1> USE DEF TreeClean, lists, script, outcome, Uninstalled, NotThere
<1>1. TypeOK /\ TypeOK' /\ (pc = "move" => merged = Listed) /\ \A s, u \in copying : s = u
  BY DEF IInv, TypeOK, Copies
<1>2. /\ \A s \in Target : target'[s] <= builds'
      /\ \A s, u \in copying' : s = u
      /\ last' # "none" => pc' = "idle"
      /\ pc' = "move" => merged' = Listed'
  BY <1>1 DEF IInv, TypeOK, Listed
<1>3. /\ CopyIsWhole' /\ CopyIsListed' /\ Progress'
      /\ CopyIsRecorded' /\ InstalledIsCurrent' /\ TreeCleanIsComplete'
  <2>0. /\ TypeOK /\ CopyIsWhole /\ CopyIsListed /\ Progress
        /\ CopyIsRecorded /\ InstalledIsCurrent /\ TreeCleanIsComplete
    BY Before
  <2>1. CopyIsWhole'
    BY <1>1, <1>2, <2>0 DEF TypeOK, Copies, CopyIsWhole, IInv
  <2>2. CopyIsListed'
    BY <1>1, <1>2, <2>0 DEF TypeOK, Copies, CopyIsListed, CopyIsWhole, Listed, Progress
  <2>3. Progress'
    BY <1>1, <1>2, <2>0 DEF TypeOK, Copies, Progress, CopyIsWhole, CopyIsListed, Listed, NewerThan
  <2>4. CopyIsRecorded'
    BY <1>1, <1>2, <2>0 DEF TypeOK, Copies, CopyIsRecorded, Progress
  <2>5. InstalledIsCurrent' /\ TreeCleanIsComplete'
    BY <1>1, <1>2, <2>0, <2>4 DEF TypeOK, Copies, InstalledIsCurrent, Progress, CopyIsWhole,
       TreeCleanIsComplete, CopyIsRecorded
  <2>6. QED
    BY <2>1, <2>2, <2>3, <2>4, <2>5
<1>4. QED
  BY <1>1, <1>2, <1>3 DEF IInv

LEMMA NextInv == IInv /\ [Next]_vars => IInv'
<1> SUFFICES ASSUME IInv, [Next]_vars PROVE IInv'
  OBVIOUS
<1>1. CASE UNCHANGED vars
  BY <1>1 DEF vars, lists, script, outcome, IInv, TypeOK, CopyIsWhole, CopyIsListed, Listed,
     Progress, CopyIsRecorded, InstalledIsCurrent, TreeCleanIsComplete
<1>2. ASSUME NEW t \in Target, Build(t) \/ UpToDate(t) \/ Copy(t) \/ Copied(t) \/ Refused(t)
              \/ CutShort(t)
      PROVE  IInv'
  BY <1>2, BuildInv, UpToDateInv, CopyInv, CopiedInv, RefusedInv, CutShortInv
<1>3. CASE Install \/ EndCopy \/ Merge \/ Move \/ Remove
  BY <1>3, InstallInv, EndCopyInv, MergeInv, MoveInv, RemoveInv
<1>4. CASE DistClean \/ LocalClean \/ TreeClean
  BY <1>4, DistCleanInv, LocalCleanInv, TreeCleanInv
<1>5. ASSUME NEW written \in SUBSET printed, Kill(written) PROVE IInv'
  BY <1>5, KillInv
<1>6. ASSUME NEW part \in SUBSET (record \cup loose \cup merged), MergeFails(part) PROVE IInv'
  BY <1>6, MergeFailsInv
<1>7. ASSUME NEW removed \in SUBSET record, DistCleanKilled(removed) PROVE IInv'
  BY <1>7, DistCleanKilledInv
<1>8. QED
  BY <1>1, <1>2, <1>3, <1>4, <1>5, <1>6, <1>7 DEF Next

\* The invariant holds in every state (type correctness included).
THEOREM Invariance == Spec => []IInv
<1>1. QED
  BY InitInv, NextInv, PTL DEF Spec

\* After an install that ends well every target has a whole, current copy in dist, and
\* .dist names it, whatever failed or was killed before, except those over which cp failed
\* or install_targets was killed and that were not copied again (install_targets and the
\* rule install, core.mk:699).
THEOREM InstallIsRight == Spec => []InstalledIsCurrent
<1>1. IInv => InstalledIsCurrent
  BY DEF IInv, InstalledIsCurrent
<1>2. QED
  BY <1>1, Invariance, PTL

\* tree_clean removes everything from dist, except what installs have lost, unless the
\* last install failed (tree_clean:66 and doc/README:10).
THEOREM TreeCleanCleans == Spec => []TreeCleanIsComplete
<1>1. IInv => TreeCleanIsComplete
  BY DEF IInv, TreeCleanIsComplete
<1>2. QED
  BY <1>1, Invariance, PTL

\* However often an install or dist_clean fails or is killed, what .dist names stays
\* there as long as its copy is in dist (core.mk:701, sort to .dist.tmp and mv).
THEOREM RecordIsKept == Spec => RecordKept
<1>1. ASSUME IInv, [Next]_vars
      PROVE  [\A t \in record : t \in record' \/ dist'[t] = NotThere]_vars
  <2> SUFFICES ASSUME NEW t \in record, t \notin record', Next
               PROVE  dist'[t] = NotThere
    BY <1>1
  <2>1. t \in Target /\ (pc = "move" => record \subseteq merged)
    BY <1>1 DEF IInv, TypeOK, Listed
  <2>2. CASE Move
    BY <2>1, <2>2 DEF Move
  <2>3. CASE DistClean \/ TreeClean
    BY <2>1, <2>3 DEF DistClean, TreeClean, Uninstalled
  <2>4. ASSUME ~Move, ~DistClean, ~TreeClean PROVE UNCHANGED record
    BY <2>4 DEF Next, lists, script, outcome, Build, UpToDate, Copy, Copied, Refused, CutShort, Install,
       EndCopy, Merge, Remove, Kill, MergeFails, DistCleanKilled, LocalClean
  <2>5. QED
    BY <2>2, <2>3, <2>4
<1>2. QED
  BY <1>1, Invariance, PTL DEF Spec, RecordKept

=============================================================================
