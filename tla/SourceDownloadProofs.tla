------------------------ MODULE SourceDownloadProofs ------------------------
(***************************************************************************)
(* Proofs about the Makefile of a source directory, for any number of      *)
(* tarballs, with and without -j.  The argument: a check starts when all   *)
(* recipes of tarballs are done, these are done when their downloads are,  *)
(* and until a make fails, each has itself checked every sha1sum file or   *)
(* finds what an earlier one has checked.                                  *)
(***************************************************************************)
EXTENDS SourceDownload, TLAPS

LEMMA InitInv == Init => IInv
<1> USE DEF Init, Every
<1>1. Init => TypeOK
  BY ConstantAssumption DEF TypeOK
<1>2. QED
  BY <1>1 DEF IInv, Belongs, Open, Later, Fresh, Nothing, There, FreshIsGood, AcceptedIsThere, Fetched

\* A make that found nothing has no sha1sum file to take for up to date.
LEMMA MakeInv ==
    ASSUME IInv, Make
    PROVE  IInv'
<1> USE DEF Make, files, jobs
<1>0. TypeOK
  BY DEF IInv
<1>1. TypeOK'
  BY <1>0, ConstantAssumption DEF TypeOK
<1>2. Belongs'
  BY <1>0 DEF IInv, TypeOK, Belongs
<1>3. Open'
  BY <1>0 DEF IInv, TypeOK, Belongs, Open
<1>4. Later'
  BY <1>0 DEF IInv, TypeOK, Later, Fetched, Belongs
<1>5. Fresh'
  BY <1>0 DEF IInv, TypeOK, Fresh, AllGood, Nothing, Every, Open, Later, Belongs, Fetched, FreshIsGood
<1>6. FreshIsGood'
  BY <1>0 DEF IInv, TypeOK, Fresh, AllGood, Nothing, Every, Belongs, Later, Fetched, FreshIsGood
<1>7. There'
  BY <1>0 DEF IInv, TypeOK, There, Belongs, Open, Later, Fetched
<1>8. AcceptedIsThere'
  BY <1>0 DEF IInv, TypeOK, Fresh, There, Belongs, AcceptedIsThere
<1>9. QED
  BY <1>1, <1>2, <1>3, <1>4, <1>5, <1>6, <1>7, <1>8 DEF IInv

LEMMA FetchTarballInv ==
    ASSUME IInv, NEW t \in Tarball, FetchTarball(t)
    PROVE  IInv'
<1> USE DEF FetchTarball, files, jobs, MayStart
<1>0. TypeOK
  BY DEF IInv
<1>1. TypeOK'
  BY <1>0, ConstantAssumption DEF TypeOK
<1>2. Belongs'
  BY <1>0 DEF IInv, TypeOK, Belongs
<1>3. Open'
  BY <1>0 DEF IInv, TypeOK, Belongs, Open
<1>4. Later'
  BY <1>0 DEF IInv, TypeOK, Later, Fetched, Belongs
<1>5. Fresh'
  BY <1>0 DEF IInv, TypeOK, Fresh, AllGood, Nothing, Every, Open, Later, Belongs, Fetched, FreshIsGood
<1>6. FreshIsGood'
  BY <1>0 DEF IInv, TypeOK, Fresh, AllGood, Nothing, Every, Belongs, Later, Fetched, FreshIsGood
<1>7. There'
  BY <1>0 DEF IInv, TypeOK, There, Belongs, Open, Later, Fetched
<1>8. AcceptedIsThere'
  BY <1>0 DEF IInv, TypeOK, Fresh, There, Belongs, AcceptedIsThere
<1>9. QED
  BY <1>1, <1>2, <1>3, <1>4, <1>5, <1>6, <1>7, <1>8 DEF IInv

LEMMA WgetNothingInv ==
    ASSUME IInv, NEW t \in Tarball, NEW u \in Tarball, WgetNothing(t, u)
    PROVE  IInv'
<1> USE DEF WgetNothing, files, jobs
<1>0. TypeOK
  BY DEF IInv
<1>1. TypeOK'
  BY <1>0, ConstantAssumption DEF TypeOK
<1>2. Belongs'
  BY <1>0 DEF IInv, TypeOK, Belongs
<1>3. Open'
  BY <1>0 DEF IInv, TypeOK, Belongs, Open
<1>4. Later'
  BY <1>0 DEF IInv, TypeOK, Later, Fetched, Belongs
<1>5. Fresh'
  BY <1>0 DEF IInv, TypeOK, Fresh, AllGood, Nothing, Every, Open, Later, Belongs, Fetched, FreshIsGood
<1>6. FreshIsGood'
  BY <1>0 DEF IInv, TypeOK, Fresh, AllGood, Nothing, Every, Belongs, Later, Fetched, FreshIsGood
<1>7. There'
  BY <1>0 DEF IInv, TypeOK, There, Belongs, Open, Later, Fetched
<1>8. AcceptedIsThere'
  BY <1>0 DEF IInv, TypeOK, Fresh, There, Belongs, AcceptedIsThere
<1>9. QED
  BY <1>1, <1>2, <1>3, <1>4, <1>5, <1>6, <1>7, <1>8 DEF IInv

\* No check is under way: the recipe of t is not done.
LEMMA WgetOpenInv ==
    ASSUME IInv, NEW t \in Tarball, NEW u \in Tarball, WgetOpen(t, u)
    PROVE  IInv'
<1> USE DEF WgetOpen, files, jobs
<1>0. TypeOK
  BY DEF IInv
<1>1. TypeOK'
  BY <1>0, ConstantAssumption DEF TypeOK
<1>2. Belongs'
  BY <1>0 DEF IInv, TypeOK, Belongs
<1>3. Open'
  <2>1. tarball'[u] = "open" /\ <<t, u>> \in writing'
    BY <1>0 DEF TypeOK
  <2>2. ASSUME NEW v \in Tarball, v # u
        PROVE  tarball'[v] = tarball[v] /\ \A s \in Tarball : <<s, v>> \in writing' <=> <<s, v>> \in writing
    BY <1>0, <2>2 DEF TypeOK
  <2>3. QED
    BY <2>1, <2>2 DEF IInv, Open
<1>4. Later'
  BY <1>0 DEF IInv, TypeOK, Later, Fetched, Belongs
<1>5. Fresh'
  BY <1>0 DEF IInv, TypeOK, Fresh, AllGood, Nothing, Every, Open, Later, Belongs, Fetched, FreshIsGood
<1>6. FreshIsGood'
  BY <1>0 DEF IInv, TypeOK, Fresh, AllGood, Nothing, Every, Belongs, Later, Fetched, FreshIsGood
<1>7. There'
  BY <1>0 DEF IInv, TypeOK, There, Belongs, Open, Later, Fetched
<1>8. AcceptedIsThere'
  BY <1>0 DEF IInv, TypeOK, Fresh, There, Belongs, AcceptedIsThere
<1>9. QED
  BY <1>1, <1>2, <1>3, <1>4, <1>5, <1>6, <1>7, <1>8 DEF IInv

LEMMA WgetCloseInv ==
    ASSUME IInv, NEW t \in Tarball, NEW u \in Tarball,
           NEW content \in {"good", "bad"}, NEW dated \in BOOLEAN, WgetClose(t, u, content, dated)
    PROVE  IInv'
<1> USE DEF WgetClose, files, jobs
<1>0. TypeOK
  BY DEF IInv
<1>1. TypeOK'
  <2>1. tarball' \in [Tarball -> {"absent", "open", "good", "bad"}]
    BY <1>0 DEF TypeOK
  <2>2. writing' \subseteq Tarball \X Tarball
    BY <1>0 DEF TypeOK
  <2>3. newer' = newer \/ newer' = newer \cup ({u} \X Tarball) \/ newer' = newer \ ({u} \X Tarball)
    OBVIOUS
  <2>4. newer' \subseteq Tarball \X Tarball
    BY <1>0, <2>3, {u} \subseteq Tarball DEF TypeOK
  <2>5. QED
    BY <1>0, <2>1, <2>2, <2>4 DEF TypeOK
<1>2. Belongs'
  BY <1>0 DEF IInv, TypeOK, Belongs
<1>3. Open'
  <2> DEFINE Other == \E s \in Tarball \ {t} : <<s, u>> \in writing
  <2>1. ASSUME NEW v \in Tarball, v # u
        PROVE  tarball'[v] = tarball[v] /\ \A s \in Tarball : <<s, v>> \in writing' <=> <<s, v>> \in writing
    BY <1>0, <2>1 DEF TypeOK
  <2>2. (\E s \in Tarball : <<s, u>> \in writing') <=> Other
    BY <1>0 DEF TypeOK
  <2>3. CASE Other
    BY <1>0, <2>1, <2>2, <2>3 DEF IInv, Open
  <2>4. CASE ~Other
    <3>1. tarball'[u] = content /\ content # "open"
      BY <1>0, <2>4 DEF TypeOK
    <3>2. QED
      BY <2>1, <2>2, <2>4, <3>1 DEF IInv, Open
  <2>5. QED
    BY <2>3, <2>4
<1>4. Later'
  BY <1>0 DEF IInv, TypeOK, Later, Fetched, Belongs
<1>5. Fresh'
  BY <1>0 DEF IInv, TypeOK, Fresh, AllGood, Nothing, Every, Open, Later, Belongs, Fetched, FreshIsGood
<1>6. FreshIsGood'
  <2>1. make # "idle" /\ result' = "none"
    BY <1>0 DEF IInv, Belongs, Fresh
  <2>2. QED
    BY <2>1 DEF FreshIsGood
<1>7. There'
  BY <1>0 DEF IInv, TypeOK, There, Belongs, Open, Later, Fetched
<1>8. AcceptedIsThere'
  BY <1>0 DEF IInv, TypeOK, Fresh, There, Belongs, AcceptedIsThere
<1>9. QED
  BY <1>1, <1>2, <1>3, <1>4, <1>5, <1>6, <1>7, <1>8 DEF IInv

LEMMA FetchEndsInv ==
    ASSUME IInv, NEW t \in Tarball, FetchEnds(t)
    PROVE  IInv'
<1> USE DEF FetchEnds, files, jobs
<1>0. TypeOK
  BY DEF IInv
<1>1. TypeOK'
  BY <1>0, ConstantAssumption DEF TypeOK
<1>2. Belongs'
  BY <1>0 DEF IInv, TypeOK, Belongs
<1>3. Open'
  BY <1>0 DEF IInv, TypeOK, Belongs, Open
<1>4. Later'
  BY <1>0 DEF IInv, TypeOK, Later, Fetched, Belongs
<1>5. Fresh'
  BY <1>0 DEF IInv, TypeOK, Fresh, AllGood, Nothing, Every, Open, Later, Belongs, Fetched, FreshIsGood
<1>6. FreshIsGood'
  BY <1>0 DEF IInv, TypeOK, Fresh, AllGood, Nothing, Every, Belongs, Later, Fetched, FreshIsGood
<1>7. There'
  BY <1>0 DEF IInv, TypeOK, There, Belongs, Open, Later, Fetched
<1>8. AcceptedIsThere'
  BY <1>0 DEF IInv, TypeOK, Fresh, There, Belongs, AcceptedIsThere
<1>9. QED
  BY <1>1, <1>2, <1>3, <1>4, <1>5, <1>6, <1>7, <1>8 DEF IInv

LEMMA FetchShaInv ==
    ASSUME IInv, NEW t \in Tarball, NEW content \in {"empty", "good"}, FetchSha(t, content)
    PROVE  IInv'
<1> USE DEF FetchSha, files, jobs, MayStart
<1>0. TypeOK
  BY DEF IInv
<1>1. TypeOK'
  BY <1>0, ConstantAssumption DEF TypeOK
<1>2. Belongs'
  BY <1>0 DEF IInv, TypeOK, Belongs
<1>3. Open'
  BY <1>0 DEF IInv, TypeOK, Belongs, Open
<1>4. Later'
  BY <1>0 DEF IInv, TypeOK, Later, Fetched, Belongs
<1>5. Fresh'
  BY <1>0 DEF IInv, TypeOK, Fresh, AllGood, Nothing, Every, Open, Later, Belongs, Fetched, FreshIsGood
<1>6. FreshIsGood'
  BY <1>0 DEF IInv, TypeOK, Fresh, AllGood, Nothing, Every, Belongs, Later, Fetched, FreshIsGood
<1>7. There'
  BY <1>0 DEF IInv, TypeOK, There, Belongs, Open, Later, Fetched
<1>8. AcceptedIsThere'
  BY <1>0 DEF IInv, TypeOK, Fresh, There, Belongs, AcceptedIsThere
<1>9. QED
  BY <1>1, <1>2, <1>3, <1>4, <1>5, <1>6, <1>7, <1>8 DEF IInv

\* After a clean there is no sha1sum file that was not checked.
LEMMA ShaIsUpToDateInv ==
    ASSUME IInv, NEW t \in Tarball, ShaIsUpToDate(t)
    PROVE  IInv'
<1> USE DEF ShaIsUpToDate, files, jobs, MayStart, OutOfDate
<1>0. TypeOK
  BY DEF IInv
<1>1. TypeOK'
  BY <1>0, ConstantAssumption DEF TypeOK
<1>2. Belongs'
  BY <1>0 DEF IInv, TypeOK, Belongs
<1>3. Open'
  BY <1>0 DEF IInv, TypeOK, Belongs, Open
<1>4. Later'
  BY <1>0 DEF IInv, TypeOK, Later, Fetched, Belongs
<1>5. Fresh'
  BY <1>0 DEF IInv, TypeOK, Fresh, AllGood, Nothing, Every, Open, Later, Belongs, Fetched, FreshIsGood
<1>6. FreshIsGood'
  BY <1>0 DEF IInv, TypeOK, Fresh, AllGood, Nothing, Every, Belongs, Later, Fetched, FreshIsGood
<1>7. There'
  BY <1>0 DEF IInv, TypeOK, There, Belongs, Open, Later, Fetched
<1>8. AcceptedIsThere'
  BY <1>0 DEF IInv, TypeOK, Fresh, There, Belongs, AcceptedIsThere
<1>9. QED
  BY <1>1, <1>2, <1>3, <1>4, <1>5, <1>6, <1>7, <1>8 DEF IInv

LEMMA CheckShaInv ==
    ASSUME IInv, NEW t \in Tarball, CheckSha(t)
    PROVE  IInv'
<1> USE DEF CheckSha, files, jobs, Matches
<1>0. TypeOK
  BY DEF IInv
<1>1. TypeOK'
  BY <1>0, ConstantAssumption DEF TypeOK
<1>2. Belongs'
  BY <1>0 DEF IInv, TypeOK, Belongs
<1>3. Open'
  BY <1>0 DEF IInv, TypeOK, Belongs, Open
<1>4. Later'
  BY <1>0 DEF IInv, TypeOK, Later, Fetched, Belongs
<1>5. Fresh'
  BY <1>0 DEF IInv, TypeOK, Fresh, AllGood, Nothing, Every, Open, Later, Belongs, Fetched, FreshIsGood
<1>6. FreshIsGood'
  BY <1>0 DEF IInv, TypeOK, Fresh, AllGood, Nothing, Every, Belongs, Later, Fetched, FreshIsGood
<1>7. There'
  BY <1>0 DEF IInv, TypeOK, There, Belongs, Open, Later, Fetched
<1>8. AcceptedIsThere'
  BY <1>0 DEF IInv, TypeOK, Fresh, There, Belongs, AcceptedIsThere
<1>9. QED
  BY <1>1, <1>2, <1>3, <1>4, <1>5, <1>6, <1>7, <1>8 DEF IInv

LEMMA EndsInv ==
    ASSUME IInv, NEW r \in {"ok", "failed"}, Ends(r)
    PROVE  IInv'
<1> USE DEF Ends, files, jobs, NoJobs, Every
<1>0. TypeOK
  BY DEF IInv
<1>1. TypeOK'
  BY <1>0, ConstantAssumption DEF TypeOK
<1>2. Belongs'
  BY <1>0 DEF IInv, TypeOK, Belongs
<1>3. Open'
  <2>1. \A s, u \in Tarball : <<s, u>> \notin writing
    BY <1>0 DEF IInv, Belongs, Later, Fetched, Busy
  <2>2. QED
    BY <2>1 DEF IInv, Open
<1>4. Later'
  BY <1>0 DEF IInv, TypeOK, Later, Fetched, Belongs
<1>5. Fresh'
  BY <1>0 DEF IInv, TypeOK, Fresh, AllGood, Nothing, Every, Open, Later, Belongs, Fetched, FreshIsGood
<1>6. FreshIsGood'
  BY <1>0 DEF IInv, TypeOK, Fresh, AllGood, Nothing, Every, Belongs, Later, Fetched, FreshIsGood
<1>7. There'
  BY <1>0 DEF IInv, TypeOK, There, Belongs, Open, Later, Fetched
<1>8. AcceptedIsThere'
  BY <1>0 DEF IInv, TypeOK, Fresh, There, Belongs, AcceptedIsThere
<1>9. QED
  BY <1>1, <1>2, <1>3, <1>4, <1>5, <1>6, <1>7, <1>8 DEF IInv

LEMMA KillInv ==
    ASSUME IInv, NEW removed \in SUBSET Tarball, Kill(removed)
    PROVE  IInv'
<1> USE DEF Kill, files, jobs, NoJobs, Every
<1>0. TypeOK
  BY DEF IInv
<1>1. TypeOK'
  <2>1. /\ tarball' \in [Tarball -> {"absent", "open", "good", "bad"}]
        /\ sha' \in [Tarball -> {"absent", "empty", "good"}]
    BY <1>0 DEF TypeOK
  <2>2. newer' \subseteq Tarball \X Tarball
    BY <1>0 DEF TypeOK
  <2>3. /\ fetch' \in [Tarball -> {"none", "running", "done"}]
        /\ check' \in [Tarball -> {"none", "touched", "done", "failed"}]
        /\ pending' = {} /\ writing' = {}
    OBVIOUS
  <2>4. kills' \in 0 .. MaxKills /\ makes' \in 0 .. MaxMakes
    BY <1>0, ConstantAssumption DEF TypeOK
  <2>5. QED
    BY <2>1, <2>2, <2>3, <2>4 DEF TypeOK
<1>2. Belongs'
  BY <1>0 DEF IInv, TypeOK, Belongs
<1>3. Open'
  <2>1. \A u \in Tarball : tarball'[u] # "open"
    BY <1>0 DEF TypeOK
  <2>2. QED
    BY <2>1 DEF Open
<1>4. Later'
  BY <1>0 DEF IInv, TypeOK, Later, Fetched, Belongs
<1>5. Fresh'
  BY <1>0 DEF IInv, TypeOK, Fresh, AllGood, Nothing, Every, Open, Later, Belongs, Fetched, FreshIsGood
<1>6. FreshIsGood'
  BY <1>0 DEF IInv, TypeOK, Fresh, AllGood, Nothing, Every, Belongs, Later, Fetched, FreshIsGood
<1>7. There'
  BY <1>0 DEF IInv, TypeOK, There, Belongs, Open, Later, Fetched
<1>8. AcceptedIsThere'
  BY <1>0 DEF IInv, TypeOK, Fresh, There, Belongs, AcceptedIsThere
<1>9. QED
  BY <1>1, <1>2, <1>3, <1>4, <1>5, <1>6, <1>7, <1>8 DEF IInv

LEMMA DownloadCleanInv ==
    ASSUME IInv, DownloadClean
    PROVE  IInv'
<1> USE DEF DownloadClean, files, jobs, Every
<1>0. TypeOK
  BY DEF IInv
<1>1. TypeOK'
  BY <1>0, ConstantAssumption DEF TypeOK
<1>2. Belongs'
  BY <1>0 DEF IInv, TypeOK, Belongs
<1>3. Open'
  BY <1>0 DEF IInv, TypeOK, Belongs, Open
<1>4. Later'
  BY <1>0 DEF IInv, TypeOK, Later, Fetched, Belongs
<1>5. Fresh'
  BY <1>0 DEF IInv, TypeOK, Fresh, AllGood, Nothing, Every, Open, Later, Belongs, Fetched, FreshIsGood
<1>6. FreshIsGood'
  BY <1>0 DEF IInv, TypeOK, Fresh, AllGood, Nothing, Every, Belongs, Later, Fetched, FreshIsGood
<1>7. There'
  BY <1>0 DEF IInv, TypeOK, There, Belongs, Open, Later, Fetched
<1>8. AcceptedIsThere'
  BY <1>0 DEF IInv, TypeOK, Fresh, There, Belongs, AcceptedIsThere
<1>9. QED
  BY <1>1, <1>2, <1>3, <1>4, <1>5, <1>6, <1>7, <1>8 DEF IInv

LEMMA NextInv == IInv /\ [Next]_vars => IInv'
<1> SUFFICES ASSUME IInv, [Next]_vars PROVE IInv'
  OBVIOUS
<1>1. CASE UNCHANGED vars
  BY <1>1 DEF vars, files, jobs, IInv, TypeOK, Belongs, Open, Later, Fetched, Fresh,
     AllGood, Nothing, Every, There, FreshIsGood, AcceptedIsThere
<1>2. CASE Make \/ DownloadClean
  BY <1>2, MakeInv, DownloadCleanInv
<1>3. CASE Step
  BY <1>3, FetchTarballInv, FetchEndsInv, FetchShaInv, ShaIsUpToDateInv, CheckShaInv,
     WgetNothingInv, WgetOpenInv, WgetCloseInv, EndsInv DEF Step
<1>4. ASSUME NEW removed \in SUBSET Tarball, Kill(removed) PROVE IInv'
  BY <1>4, KillInv
<1>5. QED
  BY <1>1, <1>2, <1>3, <1>4 DEF Next

\* The invariant holds in every state (type correctness included).
THEOREM Invariance == Spec => []IInv
<1>1. QED
  BY InitInv, NextInv, PTL DEF Spec

\* While any sha1sum is checked, no recipe of the directory writes a tarball, although
\* with -j several of them download the same files (`$(sha1s): $(tarballs)').
THEOREM ChecksAreQuiet == Spec => []QuietWhileChecking
<1>1. IInv => QuietWhileChecking
  BY DEF IInv, TypeOK, Belongs, Later, Fetched, QuietWhileChecking
<1>2. QED
  BY <1>1, Invariance, PTL

\* Until a make fails or is killed (a clean forgets it), a make that ends well has good
\* tarballs only.
THEOREM FreshMakeIsGood == Spec => []FreshIsGood
<1>1. IInv => FreshIsGood
  BY DEF IInv
<1>2. QED
  BY <1>1, Invariance, PTL

\* After any failures, kills and cleans, a make that ends well leaves every tarball there,
\* downloaded to its end: `done ; wait' and the order of the two rules see to it.
THEOREM AcceptedThere == Spec => []AcceptedIsThere
<1>1. IInv => AcceptedIsThere
  BY DEF IInv
<1>2. QED
  BY <1>1, Invariance, PTL

LEMMA NothingTaken ==
    ASSUME IInv, AllThere, [Next]_vars
    PROVE  UNCHANGED tarball \/ (make = "idle" /\ tarball' = Every("absent"))
<1>0. TypeOK /\ pending = {} /\ writing = {} /\ \A t \in Tarball : tarball[t] # "absent" /\ tarball[t] # "open"
  BY DEF IInv, TypeOK, Belongs, AllThere
<1>1. CASE UNCHANGED vars
  BY <1>1 DEF vars, files
<1>2. CASE Make \/ DownloadClean
  BY <1>2 DEF Make, DownloadClean, files
<1>3. CASE Step
  BY <1>0, <1>3 DEF Step, FetchTarball, FetchEnds, FetchSha, ShaIsUpToDate, CheckSha, WgetNothing,
     WgetOpen, WgetClose, Ends, files
<1>4. ASSUME NEW removed \in SUBSET Tarball, Kill(removed) PROVE UNCHANGED tarball
  <2>1. \A t \in Tarball : tarball'[t] = tarball[t]
    BY <1>0, <1>4 DEF Kill, AllThere
  <2>2. tarball \in [Tarball -> {"absent", "open", "good", "bad"}] /\ DOMAIN tarball' = Tarball
    BY <1>0, <1>4 DEF Kill, TypeOK
  <2>3. tarball' = [t \in Tarball |-> tarball'[t]]
    BY <1>4 DEF Kill
  <2>4. QED
    BY <2>1, <2>2, <2>3
<1>5. QED
  BY <1>1, <1>2, <1>3, <1>4 DEF Next

\* Once every tarball is there, only download_clean takes one away, and no recipe, kill or
\* failure of a later make writes it again.
THEOREM WhatIsThereStays == Spec => KeepsWhatIsThere
<1>1. IInv /\ [Next]_vars =>
         [AllThere => UNCHANGED tarball \/ (make = "idle" /\ tarball' = Every("absent"))]_vars
  BY NothingTaken
<1>2. QED
  BY <1>1, Invariance, PTL DEF Spec, KeepsWhatIsThere

LEMMA FetchTarballAdvances ==
    ASSUME IInv, NEW t \in Tarball, FetchTarball(t)
    PROVE  Advances
<1>1. /\ TypeOK /\ fetch[t] = "none" /\ t \notin Begun /\ UNCHANGED <<writing, check>>
      /\ \A u \in Tarball : <<t, u>> \notin pending \cup writing
  BY DEF IInv, TypeOK, FetchTarball, Begun, Belongs
<1>2. t \in Begun' /\ Begun \subseteq Begun' /\ Ended \subseteq Ended'
  BY <1>1 DEF TypeOK, FetchTarball, Begun, Ended
<1>3. pending' \subseteq pending \cup ({t} \X Tarball)
  BY DEF FetchTarball
<1>4. Wanted \subseteq Wanted' /\ Got \subseteq Got'
  BY <1>1, <1>2, <1>3 DEF Wanted, Got
<1>5. QED
  BY <1>1, <1>2, <1>4 DEF Advances, Touched, Checked

LEMMA FetchEndsAdvances ==
    ASSUME IInv, NEW t \in Tarball, FetchEnds(t)
    PROVE  Advances
<1>1. TypeOK /\ t \notin Ended /\ t \in Ended' /\ UNCHANGED <<pending, writing, check>>
  BY DEF IInv, TypeOK, FetchEnds, Ended
<1>2. Begun' = Begun /\ Ended \subseteq Ended'
  BY <1>1 DEF TypeOK, FetchEnds, Begun, Ended
<1>3. Wanted' = Wanted /\ Got' = Got
  BY <1>1, <1>2 DEF Wanted, Got
<1>4. QED
  BY <1>1, <1>2, <1>3 DEF Advances, Touched, Checked

LEMMA WgetAdvances ==
    ASSUME IInv, NEW t \in Tarball, NEW u \in Tarball,
           \/ WgetNothing(t, u)
           \/ WgetOpen(t, u)
           \/ \E content \in {"good", "bad"}, dated \in BOOLEAN : WgetClose(t, u, content, dated)
    PROVE  Advances
<1>1. TypeOK /\ t \in Begun /\ pending \cap writing = {} /\ UNCHANGED <<fetch, check>>
  BY DEF IInv, Belongs, Begun, WgetNothing, WgetOpen, WgetClose
<1>2. Begun' = Begun /\ Ended' = Ended /\ Touched' = Touched /\ Checked' = Checked
  BY <1>1 DEF Begun, Ended, Touched, Checked
<1>3. CASE WgetNothing(t, u) \/ WgetOpen(t, u)
  <2>1. <<t, u>> \in pending /\ pending' = pending \ {<<t, u>>} /\ writing' \subseteq writing \cup {<<t, u>>}
    BY <1>3 DEF WgetNothing, WgetOpen
  <2>2. Wanted \subseteq Wanted' /\ <<t, u>> \in Wanted' /\ <<t, u>> \notin Wanted
    BY <1>1, <1>2, <2>1 DEF Wanted
  <2>3. Got \subseteq Got'
    BY <1>2, <2>1 DEF Got
  <2>4. QED
    BY <1>2, <2>2, <2>3 DEF Advances
<1>4. CASE \E content \in {"good", "bad"}, dated \in BOOLEAN : WgetClose(t, u, content, dated)
  <2>1. <<t, u>> \in writing /\ writing' = writing \ {<<t, u>>} /\ pending' = pending
    BY <1>4 DEF WgetClose
  <2>2. Got \subseteq Got' /\ <<t, u>> \in Got' /\ <<t, u>> \notin Got
    BY <1>1, <1>2, <2>1 DEF Got
  <2>3. Wanted' = Wanted
    BY <1>2, <2>1 DEF Wanted
  <2>4. QED
    BY <1>2, <2>2, <2>3 DEF Advances
<1>5. QED
  BY <1>3, <1>4

LEMMA CheckAdvances ==
    ASSUME IInv, NEW t \in Tarball,
           (\E content \in {"empty", "good"} : FetchSha(t, content)) \/ ShaIsUpToDate(t) \/ CheckSha(t)
    PROVE  Advances
<1>1. TypeOK /\ UNCHANGED <<fetch, pending, writing>>
  BY DEF IInv, FetchSha, ShaIsUpToDate, CheckSha
<1>2. Begun' = Begun /\ Ended' = Ended /\ Wanted' = Wanted /\ Got' = Got
  BY <1>1 DEF Begun, Ended, Wanted, Got
<1>3. /\ \A s \in Tarball \ {t} : check'[s] = check[s]
      /\ \/ check[t] = "none" /\ check'[t] \in {"touched", "done"}
         \/ check[t] = "touched" /\ check'[t] \in {"done", "failed"}
  BY <1>1 DEF TypeOK, FetchSha, ShaIsUpToDate, CheckSha
<1>4. Touched \subseteq Touched' /\ Checked \subseteq Checked'
  BY <1>3 DEF Touched, Checked
<1>5. (t \in Touched' /\ t \notin Touched) \/ (t \in Checked' /\ t \notin Checked)
  BY <1>3 DEF Touched, Checked
<1>6. QED
  BY <1>2, <1>4, <1>5 DEF Advances

\* A step of a make adds to what its recipes have done, and undoes none of it: for finitely
\* many tarballs there are finitely many such steps before the make ends.
THEOREM MakesGoForward == Spec => GoesForward
<1>1. ASSUME IInv, Step, make' # "idle" PROVE Advances
  <2>1. \A r \in {"ok", "failed"} : ~Ends(r)
    BY <1>1 DEF Ends
  <2>2. QED
    BY <1>1, <2>1, FetchTarballAdvances, FetchEndsAdvances, WgetAdvances, CheckAdvances DEF Step
<1>2. IInv => [Step /\ make' # "idle" => Advances]_vars
  BY <1>1
<1>3. QED
  BY <1>2, Invariance, PTL DEF Spec, GoesForward

=============================================================================
