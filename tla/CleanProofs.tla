----------------------------- MODULE CleanProofs -----------------------------
(***************************************************************************)
(* What is cleaned, for any toolchains, flavours and directories:          *)
(*   - by a make that finds its Makefile changed (MakefileCheck): no make  *)
(*     takes for built what an earlier Makefile built, unless the stamp    *)
(*     .makefile was touched for a part of it only; and the recipe of the  *)
(*     stamp does not enter itself for ever;                               *)
(*   - by a make that is for some targets (TargetSelection): those it      *)
(*     reads from the names it made are those the user means;              *)
(*   - by tree_clean (TreeClean): the whole tree, while what is enabled is *)
(*     not edited, and what it leaves is not taken for built unless a make *)
(*     that was not for all of it was there first.                         *)
(***************************************************************************)
EXTENDS MakefileCheck, TreeClean, SequenceTheorems, TLAPS

LEMMA StampInitInv == StampInit => StampInv
<1> SUFFICES ASSUME StampInit PROVE StampInv
  OBVIOUS
<1>1. StampTypeOK
  <2>1. edits \in 0 .. MaxEdits /\ faults \in 0 .. MaxFaults
    BY ConstantAssumption DEF StampInit
  <2>2. QED
    BY <2>1 DEF StampInit, StampTypeOK
<1>2. StampIsTrue /\ BuildsOnClean /\ DepthCounted /\ CleanedUnlessPartial
  BY DEF StampInit, StampIsTrue, BuildsOnClean, DepthCounted, CleanedUnlessPartial, TookStale
<1>3. QED
  BY <1>1, <1>2 DEF StampInv

LEMMA FaultCounted ==
    ASSUME StampTypeOK, NEW kind, Fault(kind)
    PROVE  faults \in Nat /\ faults' = faults + 1 /\ faults' \in 0 .. MaxFaults
BY ConstantAssumption DEF StampTypeOK, Fault

LEMMA EditInv ==
    ASSUME StampInv, Edit
    PROVE  StampInv'
<1>1. StampTypeOK'
  <2>1. edits' \in 0 .. MaxEdits
    BY ConstantAssumption DEF StampInv, StampTypeOK, Edit
  <2>2. makefile' \in {"absent", "old", "fresh"}
    BY DEF StampInv, StampTypeOK, Edit
  <2>3. made' \in [COMPONENT_TOOLCHAINS -> {"none", "stale", "fresh"}]
    BY DEF Edit
  <2>4. result' \in [Makes -> {"none", "ok", "failed"}]
    BY DEF Edit
  <2>5. QED
    BY <2>1, <2>2, <2>3, <2>4 DEF StampInv, StampTypeOK, Edit
<1>2. makefile' # "fresh" /\ \A m \in Makes : at'[m] = "idle" /\ result'[m] = "none"
  BY DEF Edit, Idle
<1>3. StampIsTrue' /\ BuildsOnClean' /\ CleanedUnlessPartial'
  BY <1>2 DEF StampIsTrue, BuildsOnClean, CleanedUnlessPartial, TookStale
<1>4. DepthCounted'
  BY <1>2 DEF StampInv, DepthCounted, Edit
<1>5. QED
  BY <1>1, <1>3, <1>4 DEF StampInv

LEMMA ComeInv ==
    ASSUME StampInv, NEW m \in Makes, Come(m)
    PROVE  StampInv'
<1>1. StampTypeOK /\ m \subseteq COMPONENT_TOOLCHAINS
  BY ConstantAssumption DEF StampInv
<1>2. StampTypeOK'
  BY <1>1 DEF StampTypeOK, Come, Goto
<1>3. /\ at[m] = "idle" /\ result'[m] = "none"
      /\ at'[m] = IF makefile = "fresh" THEN "build" ELSE "touch"
      /\ \A n \in Makes : n # m => at'[n] = at[n] /\ result'[n] = result[n] /\ depth'[n] = depth[n]
      /\ depth'[m] = 0
      /\ unclean' = unclean \ {m}
      /\ UNCHANGED <<makefile, made, partial, faults>>
  BY <1>1 DEF Come, Goto, StampTypeOK
<1>4. StampIsTrue'
  BY <1>3 DEF StampInv, StampIsTrue
<1>5. BuildsOnClean'
  <2> SUFFICES ASSUME ~partial, NEW n \in Makes, at'[n] = "build", n \notin unclean',
                      NEW t \in n, made[t] = "stale"
               PROVE  FALSE
    BY <1>3 DEF BuildsOnClean
  <2>1. CASE n # m
    BY <1>3, <2>1 DEF StampInv, BuildsOnClean
  <2>2. CASE n = m
    <3>1. makefile = "fresh" /\ t \in COMPONENT_TOOLCHAINS
      BY <1>1, <1>3, <2>2
    <3>2. PICK k \in Makes : k = COMPONENT_TOOLCHAINS /\ at[k] \in {"dist_clean", "local_clean"}
      BY <3>1 DEF StampInv, StampIsTrue
    <3>3. k # m /\ at[k] # "idle"
      BY <1>3, <3>2
    <3>4. k \cap m = {}
      BY <3>3 DEF Come
    <3>5. QED
      BY <2>2, <3>1, <3>2, <3>4
  <2>3. QED
    BY <2>1, <2>2
<1>6. DepthCounted'
  BY <1>1, <1>3, ConstantAssumption DEF StampInv, StampTypeOK, DepthCounted
<1>7. CleanedUnlessPartial'
  BY <1>3 DEF StampInv, CleanedUnlessPartial, TookStale
<1>8. QED
  BY <1>2, <1>4, <1>5, <1>6, <1>7 DEF StampInv

LEMMA TouchInv ==
    ASSUME StampInv, NEW m \in Makes, Touch(m)
    PROVE  StampInv'
<1>1. StampTypeOK
  BY DEF StampInv
<1>2. StampTypeOK'
  BY <1>1 DEF StampTypeOK, Touch, Goto
<1>3. /\ makefile' = "fresh" /\ at'[m] = "dist_clean"
      /\ \A n \in Makes : n # m => at'[n] = at[n]
      /\ partial' = (partial \/ m # COMPONENT_TOOLCHAINS)
      /\ UNCHANGED <<made, depth, unclean, result, faults>>
  BY <1>1 DEF Touch, Goto, StampTypeOK
<1>4. StampIsTrue'
  BY <1>3 DEF StampIsTrue
<1>5. BuildsOnClean'
  BY <1>3 DEF StampInv, BuildsOnClean
<1>6. DepthCounted'
  BY <1>3 DEF StampInv, DepthCounted
<1>7. CleanedUnlessPartial'
  BY <1>3 DEF StampInv, CleanedUnlessPartial, TookStale
<1>8. QED
  BY <1>2, <1>4, <1>5, <1>6, <1>7 DEF StampInv

LEMMA RunDistCleanInv ==
    ASSUME StampInv, NEW m \in Makes, RunDistClean(m)
    PROVE  StampInv'
<1>1. StampTypeOK
  BY DEF StampInv
<1>2. /\ at[m] = "dist_clean"
      /\ at'[m] \in {"touch", "local_clean"}
      /\ makefile = "fresh" => at'[m] = "local_clean"
      /\ \A n \in Makes : n # m => at'[n] = at[n] /\ depth'[n] = depth[n]
      /\ \/ depth'[m] = depth[m]
         \/ makefile # "fresh" /\ depth'[m] = depth[m] + 1
      /\ UNCHANGED <<makefile, made, unclean, result, partial, edits, faults>>
  BY <1>1 DEF RunDistClean, Goto, StampTypeOK
<1>3. StampTypeOK'
  BY <1>1 DEF StampTypeOK, RunDistClean, Goto
<1>4. StampIsTrue'
  BY <1>2 DEF StampInv, StampIsTrue
<1>5. BuildsOnClean'
  BY <1>2 DEF StampInv, BuildsOnClean
<1>6. DepthCounted'
  <2>1. faults \in Nat /\ depth[m] \in Nat
    BY <1>1, ConstantAssumption DEF StampTypeOK
  <2>2. depth'[m] <= faults /\ at'[m] # "dist_clean"
    BY <1>2, <2>1 DEF StampInv, DepthCounted
  <2>3. QED
    BY <1>2, <2>2 DEF StampInv, DepthCounted
<1>7. CleanedUnlessPartial'
  BY <1>2 DEF StampInv, CleanedUnlessPartial, TookStale
<1>8. QED
  BY <1>3, <1>4, <1>5, <1>6, <1>7 DEF StampInv

LEMMA AbortInv ==
    ASSUME StampInv, NEW m \in Makes, Abort(m)
    PROVE  StampInv'
<1>1. StampTypeOK /\ faults \in Nat /\ faults' = faults + 1 /\ faults' \in 0 .. MaxFaults
  BY FaultCounted DEF StampInv, Abort
<1>2. StampTypeOK'
  BY <1>1 DEF StampTypeOK, Abort, Goto
<1>3. partial' = TRUE
  BY DEF Abort
<1>4. DepthCounted'
  <2>1. \A n \in Makes : depth[n] \in Nat /\ depth[n] <= faults
    BY <1>1 DEF StampInv, StampTypeOK, DepthCounted
  <2>2. depth' = depth
    BY DEF Abort
  <2>3. QED
    BY <1>1, <2>1, <2>2 DEF DepthCounted
<1>5. QED
  BY <1>2, <1>3, <1>4 DEF StampInv, StampIsTrue, BuildsOnClean, CleanedUnlessPartial

LEMMA RunLocalCleanInv ==
    ASSUME StampInv, NEW m \in Makes, RunLocalClean(m)
    PROVE  StampInv'
<1>1. StampTypeOK /\ \A n \in Makes : n \subseteq COMPONENT_TOOLCHAINS
  BY ConstantAssumption DEF StampInv
<1>2. /\ at'[m] = "build"
      /\ \A n \in Makes : n # m => at'[n] = at[n]
      /\ \A t \in COMPONENT_TOOLCHAINS : made'[t] = IF t \in m THEN "none" ELSE made[t]
      /\ UNCHANGED <<makefile, depth, unclean, result, partial, edits, faults>>
  BY <1>1 DEF RunLocalClean, Goto, StampTypeOK
<1>3. StampTypeOK'
  BY <1>1 DEF StampTypeOK, RunLocalClean, Goto
<1>4. StampIsTrue'
  BY <1>2 DEF StampInv, StampIsTrue
<1>5. BuildsOnClean'
  <2> SUFFICES ASSUME ~partial, NEW n \in Makes, at'[n] = "build", n \notin unclean,
                      NEW t \in n
               PROVE  made'[t] # "stale"
    BY <1>2 DEF BuildsOnClean
  <2>1. t \in COMPONENT_TOOLCHAINS
    BY <1>1
  <2>2. QED
    BY <1>2, <2>1 DEF StampInv, BuildsOnClean
<1>6. DepthCounted'
  BY <1>2 DEF StampInv, DepthCounted
<1>7. CleanedUnlessPartial'
  BY <1>1, <1>2 DEF StampInv, CleanedUnlessPartial, TookStale
<1>8. QED
  BY <1>3, <1>4, <1>5, <1>6, <1>7 DEF StampInv

LEMMA LocalCleanFailsInv ==
    ASSUME StampInv, NEW m \in Makes, NEW cleaned \in SUBSET m, LocalCleanFails(m, cleaned)
    PROVE  StampInv'
<1>1. /\ StampTypeOK /\ faults \in Nat /\ faults' = faults + 1 /\ faults' \in 0 .. MaxFaults
      /\ \A n \in Makes : n \subseteq COMPONENT_TOOLCHAINS
  BY FaultCounted, ConstantAssumption DEF StampInv, LocalCleanFails
<1>2. /\ at'[m] = "build" /\ m \in unclean' /\ makefile' = "absent"
      /\ \A n \in Makes : n # m => at'[n] = at[n]
      /\ unclean \subseteq unclean'
      /\ \A t \in COMPONENT_TOOLCHAINS : made'[t] \in {"none", made[t]}
      /\ UNCHANGED <<depth, result, partial, edits>>
  BY <1>1 DEF LocalCleanFails, Goto, StampTypeOK
<1>3. StampTypeOK'
  BY <1>1 DEF StampTypeOK, LocalCleanFails, Goto
<1>4. StampIsTrue'
  BY <1>2 DEF StampIsTrue
<1>5. BuildsOnClean'
  <2> SUFFICES ASSUME ~partial, NEW n \in Makes, at'[n] = "build", n \notin unclean',
                      NEW t \in n
               PROVE  made'[t] # "stale"
    BY <1>2 DEF BuildsOnClean
  <2>1. n # m /\ at[n] = "build" /\ n \notin unclean /\ t \in COMPONENT_TOOLCHAINS
    BY <1>1, <1>2
  <2>2. made[t] # "stale"
    BY <2>1 DEF StampInv, BuildsOnClean
  <2>3. QED
    BY <1>2, <2>1, <2>2
<1>6. DepthCounted'
  <2>1. \A n \in Makes : depth[n] \in Nat /\ depth[n] <= faults
    BY <1>1 DEF StampInv, StampTypeOK, DepthCounted
  <2>2. QED
    BY <1>1, <1>2, <2>1 DEF DepthCounted
<1>7. CleanedUnlessPartial'
  <2> SUFFICES ASSUME ~partial, NEW n \in Makes, result[n] = "ok", n \notin unclean',
                      NEW t \in n
               PROVE  made'[t] # "stale"
    BY <1>2 DEF CleanedUnlessPartial, TookStale
  <2>1. t \in COMPONENT_TOOLCHAINS /\ n \notin unclean
    BY <1>1, <1>2
  <2>2. made[t] # "stale"
    BY <2>1 DEF StampInv, CleanedUnlessPartial, TookStale
  <2>3. QED
    BY <1>2, <2>1, <2>2
<1>8. QED
  BY <1>3, <1>4, <1>5, <1>6, <1>7 DEF StampInv

LEMMA BuildInv ==
    ASSUME StampInv, NEW m \in Makes, Build(m)
    PROVE  StampInv'
<1>1. StampTypeOK /\ \A n \in Makes : n \subseteq COMPONENT_TOOLCHAINS
  BY ConstantAssumption DEF StampInv
<1>2. /\ at[m] = "build" /\ at'[m] = "idle"
      /\ \A n \in Makes : n # m => at'[n] = at[n] /\ result'[n] = result[n]
      /\ \A t \in COMPONENT_TOOLCHAINS : made'[t] \in {"fresh", made[t]}
      /\ UNCHANGED <<makefile, depth, unclean, partial, edits, faults>>
  BY <1>1 DEF Build, Goto, StampTypeOK
<1>3. StampTypeOK'
  BY <1>1 DEF StampTypeOK, Build, Goto
<1>4. StampIsTrue'
  BY <1>2 DEF StampInv, StampIsTrue
<1>5. BuildsOnClean'
  <2> SUFFICES ASSUME ~partial, NEW n \in Makes, at'[n] = "build", n \notin unclean,
                      NEW t \in n
               PROVE  made'[t] # "stale"
    BY <1>2 DEF BuildsOnClean
  <2>1. t \in COMPONENT_TOOLCHAINS /\ at[n] = "build"
    BY <1>1, <1>2
  <2>2. made[t] # "stale"
    BY <2>1 DEF StampInv, BuildsOnClean
  <2>3. QED
    BY <1>2, <2>1, <2>2
<1>6. DepthCounted'
  BY <1>2 DEF StampInv, DepthCounted
<1>7. CleanedUnlessPartial'
  <2> SUFFICES ASSUME ~partial, NEW n \in Makes, result'[n] = "ok", n \notin unclean,
                      NEW t \in n
               PROVE  made'[t] # "stale"
    BY <1>2 DEF CleanedUnlessPartial, TookStale
  <2>1. t \in COMPONENT_TOOLCHAINS
    BY <1>1
  <2>2. made[t] # "stale"
    <3>1. CASE n = m
      BY <1>2, <3>1 DEF StampInv, BuildsOnClean
    <3>2. CASE n # m
      BY <1>2, <3>2 DEF StampInv, CleanedUnlessPartial, TookStale
    <3>3. QED
      BY <3>1, <3>2
  <2>3. QED
    BY <1>2, <2>1, <2>2
<1>8. QED
  BY <1>3, <1>4, <1>5, <1>6, <1>7 DEF StampInv

\* An interrupt removes the stamp that is being made; a kill is remembered.
LEMMA StopMakesInv ==
    ASSUME StampInv, Interrupt \/ KillMakes
    PROVE  StampInv'
<1>1. StampTypeOK /\ faults \in Nat /\ faults' = faults + 1 /\ faults' \in 0 .. MaxFaults
  BY FaultCounted DEF StampInv, Interrupt, KillMakes
<1>2. /\ \A m \in Makes : at'[m] = "idle" /\ result'[m] \in {result[m], "failed"}
      /\ UNCHANGED <<made, depth, unclean>>
      /\ partial => partial'
      /\ makefile' = makefile \/ makefile' = "absent"
      /\ Interrupted /\ ~partial' => makefile' = "absent"
  <2>1. CASE Interrupt
    BY <2>1 DEF Interrupt, StopMakes
  <2>2. CASE KillMakes
    BY <2>2 DEF KillMakes, StopMakes
  <2>3. QED
    BY <2>1, <2>2
<1>3. StampTypeOK'
  BY <1>1, <1>2 DEF StampTypeOK, Interrupt, KillMakes, StopMakes
<1>4. StampIsTrue'
  BY <1>2 DEF StampInv, StampIsTrue, Interrupted
<1>5. BuildsOnClean'
  BY <1>2 DEF BuildsOnClean
<1>6. DepthCounted'
  <2>1. \A n \in Makes : depth[n] \in Nat /\ depth[n] <= faults
    BY <1>1 DEF StampInv, StampTypeOK, DepthCounted
  <2>2. QED
    BY <1>1, <1>2, <2>1 DEF DepthCounted
<1>7. CleanedUnlessPartial'
  BY <1>2 DEF StampInv, CleanedUnlessPartial, TookStale
<1>8. QED
  BY <1>3, <1>4, <1>5, <1>6, <1>7 DEF StampInv

LEMMA StampNextInv ==
    ASSUME StampInv, [StampNext]_stampVars
    PROVE  StampInv'
<1>1. CASE UNCHANGED stampVars
  BY <1>1 DEF stampVars, StampInv, StampTypeOK, StampIsTrue, BuildsOnClean, DepthCounted,
              CleanedUnlessPartial, TookStale
<1>2. QED
  BY <1>1, EditInv, ComeInv, TouchInv, RunDistCleanInv, AbortInv, RunLocalCleanInv,
     LocalCleanFailsInv, BuildInv, StopMakesInv DEF StampNext

-----------------------------------------------------------------------------

\* The inductive invariant of the stamp holds in every state (type correctness included).
THEOREM StampInvariance == StampSpec => []StampInv
BY StampInitInv, StampNextInv, PTL DEF StampSpec

\* A make of any toolchains takes for built nothing that an earlier Makefile built, unless
\* the stamp was touched by a make that was not there for all, or that was aborted or
\* killed before it had cleaned (core.mk:322-329).
THEOREM NothingOldIsBuiltOn == StampSpec => []CleanedUnlessPartial
<1>1. StampInv => CleanedUnlessPartial
  BY DEF StampInv
<1>2. QED
  BY <1>1, StampInvariance, PTL

\* The recipe of .makefile enters itself at most as often as cleaning has failed.
THEOREM RecursionIsBounded == StampSpec => []RecursionEnds
<1>1. StampInv => RecursionEnds
  BY DEF StampInv, DepthCounted, RecursionEnds
<1>2. QED
  BY <1>1, StampInvariance, PTL

-----------------------------------------------------------------------------

\* The names of targets: sed hides the "_" of a toolchain, and finds it again.
LEMMA Separated ==
    ASSUME NEW t, IsToolchain(t)
    PROVE  /\ Hyphenate(t) \in Seq(Token)
           /\ Len(Hyphenate(t)) = Len(t)
           /\ \A k \in 1 .. Len(t) : Hyphenate(t)[k] # "underscore"
           /\ Restore(Hyphenate(t)) = t
<1> DEFINE n == Len(t)
           h == Hyphenate(t)
<1>0. t \in Seq(Token) /\ t # <<>>
  BY DEF IsToolchain, IsName
<1>1. t \in [1 .. n -> Token] /\ n \in Nat
  BY <1>0, LenProperties
<1>2. h = [k \in 1 .. n |-> IF t[k] = "underscore" /\ InX86(t, k) THEN "hyphen" ELSE t[k]]
  BY DEF Hyphenate, Sed
<1>3. h \in Seq(Token) /\ Len(h) = n
  <2>1. \A k \in 1 .. n : t[k] \in Token
    BY <1>1
  <2>2. h \in [1 .. n -> Token]
    BY <1>2, <2>1, TokenAssumption
  <2>3. h \in Seq(Token)
    BY <1>1, <2>2
  <2>4. Len(h) = n
    BY <1>1, <2>2
  <2>5. QED
    BY <2>3, <2>4
<1> HIDE DEF h
<1>4. \A k \in 1 .. n : h[k] # "underscore"
  BY <1>2 DEF IsToolchain
<1>5. \A k \in 1 .. n : InX86(h, k) <=> InX86(t, k)
  <2>1. \A k \in 1 .. n : h[k] = "x86" <=> t[k] = "x86"
    BY <1>2
  <2>2. \A k \in 1 .. n : h[k] = "n64" <=> t[k] = "n64"
    BY <1>2
  <2>3. QED
    BY <1>1, <1>3, <2>1, <2>2 DEF InX86
<1>6. Restore(h) = t
  <2>1. Restore(h) = [k \in 1 .. n |-> IF h[k] = "hyphen" /\ InX86(h, k) THEN "underscore" ELSE h[k]]
    BY <1>3 DEF Restore, Sed
  <2>2. \A k \in 1 .. n : (IF h[k] = "hyphen" /\ InX86(h, k) THEN "underscore" ELSE h[k]) = t[k]
    BY <1>2, <1>5 DEF IsToolchain
  <2>3. t = [k \in 1 .. n |-> t[k]]
    BY <1>1
  <2>4. QED
    BY <2>1, <2>2, <2>3
<1>7. QED
  BY <1>3, <1>4, <1>6 DEF h

\* Where a word ends: the first "_" after it, or the end of the name.
LEMMA CutFound ==
    ASSUME NEW name, NEW l \in Nat, Len(name) = l, NEW k \in Nat, NEW j \in k + 1 .. l + 2,
           j > l \/ name[j] = "underscore",
           \A i \in k + 1 .. j - 1 : i <= l /\ name[i] # "underscore"
    PROVE  NextCut(name, k) = j
<1> DEFINE Is(c) == (c > l \/ name[c] = "underscore") /\ \A i \in k + 1 .. c - 1 : ~(i > l \/ name[i] = "underscore")
<1>1. NextCut(name, k) = CHOOSE c \in k + 1 .. l + 2 : Is(c)
  BY Zenon DEF NextCut, IsCut
<1>2. ASSUME NEW c \in k + 1 .. l + 2, Is(c)
      PROVE  c = j
  <2>1. c \notin k + 1 .. j - 1
    BY <1>2
  <2>2. j \notin k + 1 .. c - 1
    BY <1>2
  <2>3. QED
    BY <2>1, <2>2
<1>3. Is(j)
  OBVIOUS
<1> HIDE DEF Is
<1>4. QED
  BY <1>1, <1>2, <1>3

\* A part that is found token by token.
LEMMA SubSeqFound ==
    ASSUME NEW name, NEW part \in Seq(Token), NEW n \in Nat, Len(part) = n, NEW k \in Nat,
           \A i \in 1 .. n : name[k + i] = part[i]
    PROVE  SubSeq(name, k + 1, k + n) = part
<1>1. \A i \in 1 .. n : part[i] \in Token
  BY ElementOfSeq
<1>2. \A i \in k + 1 .. k + n : name[i] \in Token
  <2>1. ASSUME NEW i \in k + 1 .. k + n PROVE i - k \in 1 .. n /\ k + (i - k) = i
    OBVIOUS
  <2>2. QED
    BY <1>1, <2>1
<1>3. k + 1 \in Int /\ k + n \in Int /\ (k + n) - (k + 1) + 1 = n
  OBVIOUS
<1> DEFINE s == SubSeq(name, k + 1, k + n)
           a == k + 1
           b == k + n
<1>4. /\ s \in Seq(Token)
      /\ Len(s) = IF a <= b THEN b - a + 1 ELSE 0
      /\ \A i \in 1 .. b - a + 1 : s[i] = name[a + i - 1]
  <2> HIDE DEF a, b
  <2>1. a \in Int /\ b \in Int /\ \A i \in a .. b : name[i] \in Token
    BY <1>2, <1>3 DEF a, b
  <2>2. s = SubSeq(name, a, b)
    BY DEF a, b
  <2>3. QED
    BY <2>1, <2>2, SubSeqProperties
<1>5. (IF a <= b THEN b - a + 1 ELSE 0) = n /\ b - a + 1 = n /\ \A i \in 1 .. n : a + i - 1 = k + i
  OBVIOUS
<1> HIDE DEF s, a, b
<1>6. Len(s) = n /\ \A i \in 1 .. n : s[i] = part[i]
  BY <1>4, <1>5
<1>7. s = part
  BY <1>4, <1>6, SeqEqual
<1>8. QED
  BY <1>7 DEF s

\* A name as it is made, token by token.
IsSpelled(x, h, f, n, m) ==
    /\ x[1] = "target" /\ x[2] = "underscore"
    /\ \A k \in 1 .. n : x[2 + k] = h[k]
    /\ f = <<>> => Len(x) = n + 2
    /\ f # <<>> => Len(x) = n + 3 + m /\ x[n + 3] = "underscore" /\ \A k \in 1 .. m : x[n + 3 + k] = f[k]

Joined(h, f) == <<"target", "underscore">> \o h \o Suffix(f)

LEMMA NameMade ==
    ASSUME NEW h \in Seq(Token), NEW f \in Seq(Token)
    PROVE  IsSpelled(Joined(h, f), h, f, Len(h), Len(f))
<1> DEFINE n == Len(h)
           m == Len(f)
           x == Joined(h, f)
<1>0. n \in Nat /\ m \in Nat /\ Len(h) = n /\ Len(f) = m
  BY LenProperties
<1>00. x = <<"target", "underscore">> \o h \o Suffix(f)
  BY DEF Joined
<1> HIDE DEF n, m, x
<1> DEFINE r == <<"target", "underscore">>
           p == r \o h
<1>1. r \in Seq(Token) /\ r[1] = "target" /\ r[2] = "underscore"
  BY TokenAssumption
<1>1a. Len(r) = 2
  OBVIOUS
<1> HIDE DEF r
<1>2. /\ p \in Seq(Token)
      /\ Len(p) = Len(r) + Len(h)
      /\ \A k \in 1 .. Len(r) + Len(h) : p[k] = IF k <= Len(r) THEN r[k] ELSE h[k - Len(r)]
  BY <1>1, ConcatProperties
<1> DEFINE lp == Len(p)
<1>2a. lp = n + 2 /\ \A k \in 1 .. n + 2 : p[k] = IF k <= 2 THEN r[k] ELSE h[k - 2]
  BY <1>0, <1>1a, <1>2
<1> HIDE DEF p, lp
<1>3. p[1] = "target" /\ p[2] = "underscore"
  BY <1>0, <1>1, <1>2a
<1>4. ASSUME NEW k \in 1 .. n PROVE p[2 + k] = h[k]
  <2>1. 2 + k \in 1 .. n + 2 /\ ~(2 + k <= 2) /\ (2 + k) - 2 = k
    BY <1>0
  <2>2. QED
    BY <1>2a, <2>1
<1>5. x = p \o Suffix(f)
  BY <1>00 DEF p, r
<1>6. ASSUME f = <<>> PROVE IsSpelled(x, h, f, n, m)
  <2>1. x = p
    BY <1>2, <1>5, <1>6, ConcatEmptySeq DEF Suffix
  <2>2. QED
    BY <1>2a, <1>3, <1>4, <1>6, <2>1 DEF lp, IsSpelled
<1>7. ASSUME f # <<>> PROVE IsSpelled(x, h, f, n, m)
  <2> DEFINE u == <<"underscore">>
             g == u \o f
  <2>1. u \in Seq(Token) /\ u[1] = "underscore"
    BY TokenAssumption
  <2>1a. Len(u) = 1
    OBVIOUS
  <2> HIDE DEF u
  <2>2. /\ g \in Seq(Token)
        /\ Len(g) = Len(u) + Len(f)
        /\ \A k \in 1 .. Len(u) + Len(f) : g[k] = IF k <= Len(u) THEN u[k] ELSE f[k - Len(u)]
    BY <2>1, ConcatProperties
  <2> DEFINE lg == Len(g)
  <2>3. lg = m + 1 /\ \A k \in 1 .. m + 1 : g[k] = IF k <= 1 THEN u[k] ELSE f[k - 1]
    BY <1>0, <2>1a, <2>2
  <2>4. x = p \o g
    BY <1>5, <1>7 DEF Suffix, u
  <2> HIDE DEF g, lg
  <2>5. /\ Len(x) = Len(p) + Len(g)
        /\ \A k \in 1 .. Len(p) + Len(g) : x[k] = IF k <= Len(p) THEN p[k] ELSE g[k - Len(p)]
    <3>1. p \in Seq(Token) /\ g \in Seq(Token)
      BY <1>2, <2>2
    <3>2. QED
      BY <2>4, <3>1, ConcatProperties
  <2> DEFINE lx == Len(x)
  <2>6. lx = lp + lg /\ \A k \in 1 .. lp + lg : x[k] = IF k <= lp THEN p[k] ELSE g[k - lp]
    BY <2>5 DEF lp, lg
  <2> HIDE DEF lx
  <2>7. lx = n + 3 + m /\ \A k \in 1 .. n + 3 + m : x[k] = IF k <= n + 2 THEN p[k] ELSE g[k - (n + 2)]
    <3>1. lp = n + 2 /\ lg = m + 1 /\ lp + lg = n + 3 + m
      BY <1>0, <1>2a, <2>3
    <3>2. QED
      BY <2>6, <3>1
  <2>8. \A k \in 1 .. n + 2 : x[k] = p[k]
    BY <1>0, <2>7
  <2>9. g[1] = "underscore" /\ x[n + 3] = g[1]
    <3>1. 1 \in 1 .. m + 1 /\ n + 3 \in 1 .. n + 3 + m /\ ~(n + 3 <= n + 2) /\ (n + 3) - (n + 2) = 1
      BY <1>0
    <3>2. g[1] = u[1]
      BY <2>3, <3>1
    <3>3. x[n + 3] = g[1]
      BY <2>7, <3>1
    <3>4. QED
      BY <2>1, <3>2, <3>3
  <2>10. ASSUME NEW k \in 1 .. m PROVE x[n + 3 + k] = f[k]
    <3>1. n + 3 + k \in 1 .. n + 3 + m /\ ~(n + 3 + k <= n + 2) /\ (n + 3 + k) - (n + 2) = k + 1
      BY <1>0
    <3>2. k + 1 \in 1 .. m + 1 /\ ~(k + 1 <= 1) /\ (k + 1) - 1 = k
      BY <1>0
    <3>3. QED
      BY <2>3, <2>7, <3>1, <3>2
  <2>11. \A k \in 1 .. n : x[2 + k] = h[k]
    <3>1. \A k \in 1 .. n : 2 + k \in 1 .. n + 2
      BY <1>0
    <3>2. QED
      BY <1>0, <1>4, <2>8, <3>1
  <2>12. x[1] = "target" /\ x[2] = "underscore"
    BY <1>0, <1>3, <2>8
  <2>13. QED
    BY <1>7, <2>7, <2>9, <2>10, <2>11, <2>12 DEF lx, IsSpelled
<1>8. IsSpelled(x, h, f, n, m)
  BY <1>6, <1>7
<1>9. QED
  BY <1>8 DEF x, n, m

\* core.mk reads from a name what it was made of.
LEMMA TakenApart ==
    ASSUME NEW t, IsToolchain(t), NEW f, IsFlavour(f) \/ f = <<>>
    PROVE  ToolchainOf(TargetName(t, f)) = t /\ FlavourOf(TargetName(t, f)) = f
<1> DEFINE h == Hyphenate(t)
           n == Len(h)
           m == Len(f)
           x == TargetName(t, f)
           l == Len(x)
<1>0. h \in Seq(Token) /\ Restore(h) = t /\ \A k \in 1 .. n : h[k] # "underscore"
  BY Separated
<1>1. x = Joined(h, f)
  BY DEF TargetName, Joined
<1> HIDE DEF h, x
<1>2. f \in Seq(Token) /\ \A k \in 1 .. m : f[k] # "underscore"
  <2>1. CASE IsFlavour(f)
    BY <2>1 DEF IsFlavour, IsName
  <2>2. CASE f = <<>>
    BY <2>2
  <2>3. QED
    BY <2>1, <2>2
<1>3. n \in Nat /\ m \in Nat
  BY <1>0, <1>2, LenProperties
<1>4. Len(h) = n /\ Len(f) = m
  OBVIOUS
<1>4a. Len(x) = l
  OBVIOUS
<1> HIDE DEF n, m, l
<1>5. /\ x[1] = "target" /\ x[2] = "underscore"
      /\ \A k \in 1 .. n : x[2 + k] = h[k]
      /\ f = <<>> => Len(x) = n + 2
      /\ f # <<>> => Len(x) = n + 3 + m /\ x[n + 3] = "underscore" /\ \A k \in 1 .. m : x[n + 3 + k] = f[k]
  <2>1. IsSpelled(x, h, f, n, m)
    BY <1>0, <1>1, <1>2, NameMade DEF n, m
  <2>2. QED
    BY <2>1 DEF IsSpelled
<1>6. (f = <<>> /\ l = n + 2) \/ (f # <<>> /\ l = n + 3 + m /\ x[n + 3] = "underscore")
  BY <1>4a, <1>5
<1>7. l \in Nat /\ l >= n + 2
  BY <1>3, <1>6
<1>8. NextCut(x, 0) = 2
  <2>1. 2 \in 0 + 1 .. l + 2 /\ \A i \in 0 + 1 .. 2 - 1 : i <= l /\ x[i] # "underscore"
    BY <1>3, <1>5, <1>7
  <2>2. QED
    BY <1>4a, <1>5, <1>7, <2>1, CutFound
<1>9. NextCut(x, 2) = n + 3
  <2>1. ASSUME NEW i \in 2 + 1 .. (n + 3) - 1 PROVE i <= l /\ x[i] # "underscore"
    <3>1. i - 2 \in 1 .. n /\ 2 + (i - 2) = i /\ i <= n + 2
      BY <1>3
    <3>2. x[i] = h[i - 2] /\ h[i - 2] # "underscore"
      BY <1>0, <1>5, <3>1
    <3>3. QED
      BY <1>3, <1>7, <3>1, <3>2
  <2>2. n + 3 \in 2 + 1 .. l + 2 /\ (n + 3 > l \/ x[n + 3] = "underscore")
    BY <1>3, <1>6
  <2>3. QED
    BY <1>4a, <1>7, <2>1, <2>2, CutFound
<1>10. WordAfter(x, 2) = h
  <2>1. SubSeq(x, 2 + 1, 2 + n) = h
    BY <1>0, <1>3, <1>4, <1>5, SubSeqFound
  <2>2. (n + 3) - 1 = 2 + n
    BY <1>3
  <2>3. QED
    BY <1>9, <2>1, <2>2 DEF WordAfter
<1>11. WordAfter(x, n + 3) = f
  <2> DEFINE k == n + 3
  <2>1. k \in Nat /\ k = n + 3
    BY <1>3
  <2> HIDE DEF k
  <2>2. CASE f = <<>>
    <3>1. NextCut(x, k) = k + 1
      <4>1. k + 1 \in k + 1 .. l + 2 /\ k + 1 > l /\ \A i \in k + 1 .. (k + 1) - 1 : i <= l /\ x[i] # "underscore"
        BY <1>3, <1>6, <2>1, <2>2
      <4>2. QED
        BY <1>4a, <1>7, <2>1, <4>1, CutFound
    <3>2. (k + 1) - 1 = k /\ k < k + 1 /\ k \in Int /\ k + 1 \in Int
      BY <2>1
    <3>3. SubSeq(x, k + 1, k) = <<>>
      BY <3>2, SubSeqEmpty
    <3>4. QED
      BY <2>1, <2>2, <3>1, <3>2, <3>3 DEF WordAfter
  <2>3. CASE f # <<>>
    <3>1. NextCut(x, k) = k + m + 1
      <4>1. ASSUME NEW i \in k + 1 .. (k + m + 1) - 1 PROVE i <= l /\ x[i] # "underscore"
        <5>1. i - k \in 1 .. m /\ k + (i - k) = i /\ i <= n + 3 + m
          BY <1>3, <2>1
        <5>2. x[i] = f[i - k] /\ f[i - k] # "underscore"
          BY <1>2, <1>5, <2>1, <2>3, <5>1
        <5>3. QED
          BY <1>6, <2>3, <5>1, <5>2
      <4>2. k + m + 1 \in k + 1 .. l + 2 /\ k + m + 1 > l
        BY <1>3, <1>6, <2>1, <2>3
      <4>3. QED
        BY <1>4a, <1>7, <2>1, <4>1, <4>2, CutFound
    <3>2. SubSeq(x, k + 1, k + m) = f
      <4>1. f \in Seq(Token) /\ \A i \in 1 .. m : x[k + i] = f[i]
        BY <1>2, <1>5, <2>1, <2>3
      <4>2. QED
        BY <1>3, <1>4, <2>1, <4>1, SubSeqFound
    <3>3. (k + m + 1) - 1 = k + m
      BY <1>3, <2>1
    <3>4. QED
      BY <2>1, <3>1, <3>2, <3>3 DEF WordAfter
  <2>4. QED
    BY <2>2, <2>3
<1>12. QED
  BY <1>0, <1>8, <1>9, <1>10, <1>11 DEF ToolchainOf, FlavourOf, x

LEMMA NamesDiffer ==
    ASSUME NEW t \in Toolchain, NEW f \in Flavour \cup {<<>>},
           NEW u \in Toolchain, NEW g \in Flavour \cup {<<>>},
           TargetName(t, f) = TargetName(u, g)
    PROVE  t = u /\ f = g
<1>1. IsToolchain(t) /\ IsToolchain(u) /\ (IsFlavour(f) \/ f = <<>>) /\ (IsFlavour(g) \/ g = <<>>)
  BY NamesAssumption
<1>2. ToolchainOf(TargetName(t, f)) = t /\ FlavourOf(TargetName(t, f)) = f
  BY <1>1, TakenApart
<1>3. ToolchainOf(TargetName(u, g)) = u /\ FlavourOf(TargetName(u, g)) = g
  BY <1>1, TakenApart
<1>4. QED
  BY <1>2, <1>3

\* What core.mk selects is what the user means.
LEMMA TargetsAreMeant ==
    ASSUME NEW names \in SUBSET Toolchain, NEW flavours \in SUBSET Flavour, NEW args \in Args
    PROVE  {<<ToolchainOf(x), FlavourOf(x)>> : x \in Targets(names, flavours, args)}
               = Meant(names, flavours, args)
<1> DEFINE ts == IF args.toolchain = <<>> THEN names ELSE {args.toolchain}
           fs == IF args.flavour = Undefined THEN flavours \cup {<<>>} ELSE {args.flavour}
           flav == flavours \cup {<<>>}
<1>1. args.toolchain \in Toolchain \cup {<<>>} /\ args.flavour \in Flavour \cup {<<>>, Undefined}
  BY DEF Args
<1>2. ts \subseteq Toolchain /\ fs \subseteq Flavour \cup {<<>>} /\ flav \subseteq Flavour \cup {<<>>}
  BY <1>1
<1>3. Targets(names, flavours, args)
        = {TargetName(t, f) : t \in ts, f \in fs} \cap {TargetName(t, f) : t \in names, f \in flav}
  BY DEF Targets, TargetArgs, AvailableTargets
<1>4. Meant(names, flavours, args) = (ts \cap names) \X (fs \cap flav)
  BY DEF Meant
<1> HIDE DEF ts, fs, flav
<1>5. \A t \in Toolchain, f \in Flavour \cup {<<>>} :
         ToolchainOf(TargetName(t, f)) = t /\ FlavourOf(TargetName(t, f)) = f
  BY NamesAssumption, TakenApart
<1>6. ASSUME NEW x \in Targets(names, flavours, args)
      PROVE  <<ToolchainOf(x), FlavourOf(x)>> \in Meant(names, flavours, args)
  <2>1. PICK t \in ts, f \in fs : x = TargetName(t, f)
    BY <1>3
  <2>2. PICK u \in names, g \in flav : x = TargetName(u, g)
    BY <1>3
  <2>3. t = u /\ f = g
    BY <1>2, <2>1, <2>2, NamesDiffer
  <2>4. ToolchainOf(x) = t /\ FlavourOf(x) = f
    BY <1>2, <1>5, <2>1
  <2>5. QED
    BY <1>4, <2>3, <2>4
<1>7. ASSUME NEW p \in Meant(names, flavours, args)
      PROVE  \E x \in Targets(names, flavours, args) : p = <<ToolchainOf(x), FlavourOf(x)>>
  <2>1. PICK t \in ts \cap names, f \in fs \cap flav : p = <<t, f>>
    BY <1>4
  <2>2. TargetName(t, f) \in Targets(names, flavours, args)
    BY <1>3
  <2>3. QED
    BY <1>2, <1>5, <2>1, <2>2
<1>8. QED
  BY <1>6, <1>7

LEMMA TablesAgree ==
    ASSUME NEW d \in Dir, NEW names \in SUBSET COMPONENT_TARGETS[d]
    PROVE  TargetTable[d][names] = MeantTable[d][names]
<1>1. names \in SUBSET Toolchain /\ FLAVOURS[d] \in SUBSET Flavour
  BY DirectoryAssumption
<1>2. \A args \in Args :
         {<<ToolchainOf(x), FlavourOf(x)>> : x \in Targets(names, FLAVOURS[d], args)}
             = Meant(names, FLAVOURS[d], args)
  BY <1>1, TargetsAreMeant
<1>3. TargetTable[d][names] = [args \in Args |->
         {<<ToolchainOf(x), FlavourOf(x)>> : x \in Targets(names, FLAVOURS[d], args)}]
  BY DEF TargetTable
<1>4. MeantTable[d][names] = [args \in Args |-> Meant(names, FLAVOURS[d], args)]
  BY DEF MeantTable
<1>5. QED
  BY <1>2, <1>3, <1>4

\* In whatever state; there is no induction in this.
LEMMA Selecting == SelectionIsMeant
<1>1. \A d \in Dir : Enabled(d) \in SUBSET COMPONENT_TARGETS[d]
  BY DEF Enabled
<1>2. QED
  BY <1>1, TablesAgree DEF SelectionIsMeant, SelectedTargets

\* A make without arguments is for all that is enabled, and no make is for more.
LEMMA Selection ==
    ASSUME NEW d \in Dir
    PROVE  /\ Selected(d, NoArgs) = Enabled(d)
           /\ \A s \in Selections(d) : s \subseteq Enabled(d) /\ s # {}
           /\ Enabled(d) \subseteq Toolchain
<1>1. Enabled(d) \subseteq Toolchain /\ Enabled(d) \in SUBSET COMPONENT_TARGETS[d]
  BY DirectoryAssumption DEF Enabled
<1>2. \A args \in Args : SelectedTargets(d)[args] = Meant(Enabled(d), FLAVOURS[d], args)
  BY <1>1, Selecting DEF SelectionIsMeant, MeantTable
<1>3. NoArgs \in Args
  BY DEF NoArgs, Args
<1>4. Selected(d, NoArgs) = Enabled(d)
  <2>1. SelectedTargets(d)[NoArgs] = Enabled(d) \X (FLAVOURS[d] \cup {<<>>})
    BY <1>2, <1>3 DEF Meant, NoArgs
  <2>2. \A x \in Enabled(d) \X (FLAVOURS[d] \cup {<<>>}) : x[1] \in Enabled(d)
    OBVIOUS
  <2>3. \A t \in Enabled(d) : \E x \in Enabled(d) \X (FLAVOURS[d] \cup {<<>>}) : x[1] = t
    <3>1. ASSUME NEW t \in Enabled(d)
          PROVE  <<t, <<>>>> \in Enabled(d) \X (FLAVOURS[d] \cup {<<>>}) /\ <<t, <<>>>>[1] = t
      OBVIOUS
    <3>2. QED
      BY <3>1
  <2>4. QED
    BY <2>1, <2>2, <2>3 DEF Selected
<1>5. ASSUME NEW args \in Args PROVE Selected(d, args) \subseteq Enabled(d)
  <2>1. SelectedTargets(d)[args] \subseteq Enabled(d) \X (FLAVOURS[d] \cup {<<>>})
    BY <1>2 DEF Meant
  <2>2. ASSUME NEW t \in Selected(d, args) PROVE t \in Enabled(d)
    <3>1. PICK x \in SelectedTargets(d)[args] : t = x[1]
      BY DEF Selected
    <3>2. x \in Enabled(d) \X (FLAVOURS[d] \cup {<<>>})
      BY <2>1
    <3>3. QED
      BY <3>1, <3>2
  <2>3. QED
    BY <2>2
<1>6. QED
  BY <1>1, <1>4, <1>5 DEF Selections

-----------------------------------------------------------------------------

\* tree_clean.

USE DirectoryAssumption, EntersAssumption

LEMMA InitInv == Init => IInv
<1> SUFFICES ASSUME Init PROVE IInv
  OBVIOUS
<1>1. TypeOK
  BY DEF Init, TypeOK
<1>2. WorkIsNamed /\ AllFound /\ NotRefused /\ OldIsPassed
  BY DEF Init, WorkIsNamed, AllFound, NotRefused, OldIsPassed
<1>3. CleansWholeTree /\ OldIsNotTaken
  BY DEF Init, CleansWholeTree, OldIsNotTaken
<1>4. QED
  BY <1>1, <1>2, <1>3 DEF IInv

LEMMA ConfigureInv ==
    ASSUME IInv, NEW names \in SUBSET Toolchain, NoArch \in names, Configure(names)
    PROVE  IInv'
<1> USE DEF IInv, Configure
<1>1. TypeOK'
  BY DEF TypeOK
<1>2. WorkIsNamed'
  BY DEF WorkIsNamed
<1>3. AllFound'
  BY DEF AllFound
<1>4. NotRefused'
  <2>1. reconfigured' = ~TreeIsClean /\ cleanDirs' = {} /\ work' = work /\ stamped' = stamped
    BY DEF AllFound, TypeOK
  <2>2. QED
    BY <2>1 DEF NotRefused, TreeIsClean
<1>5. OldIsPassed'
  BY DEF OldIsPassed
<1>6. CleansWholeTree'
  BY DEF CleansWholeTree
<1>7. OldIsNotTaken'
  BY DEF OldIsNotTaken
<1>8. QED
  BY <1>1, <1>2, <1>3, <1>4, <1>5, <1>6, <1>7

LEMMA MakeInv ==
    ASSUME IInv, NEW d \in Dir, NEW toolchains \in Selections(d),
           NEW makes \in SUBSET Below(d, toolchains), NEW first \in SUBSET makes,
           Make(d, toolchains, makes, first)
    PROVE  IInv'
<1> DEFINE for == For(d, toolchains, makes)
           cleaned == For(d, toolchains, first)
           visited == {d} \cup {m[1] : m \in makes}
           kept == [c \in visited |-> IF c \in stamped THEN old[c] ELSE old[c] \ cleaned[c]]
<1>1. /\ pc = "idle"
      /\ \A c \in visited \ {d} : \E t \in for[c] : cleaned[c] = {t}
      /\ work' = [c \in Dir |-> IF c \in visited THEN work[c] \cup (for[c] \ {NoArch})
                                                ELSE work[c]]
      /\ stamped' = stamped \cup visited
      /\ \E done \in SUBSET (visited \cap Products) : installed' = installed \cup done
      /\ ended' = "none"
      /\ old' = [c \in Dir |-> IF c \in visited THEN kept[c] ELSE old[c]]
      /\ passed' = passed \cup {c \in visited : ~(old[c] \subseteq cleaned[c])}
      /\ taken' = taken \cup {c \in visited : kept[c] \cap for[c] # {}}
      /\ UNCHANGED <<enabled, pc, distDirs, cleanDirs, reconfigured>>
  BY DEF Make
<1>2. toolchains \subseteq Enabled(d) /\ toolchains # {} /\ toolchains \subseteq Toolchain
  BY Selection
<1>3. /\ \A c \in Dir : for[c] = IF c = d THEN toolchains ELSE {t \in Toolchain : <<c, t>> \in makes}
      /\ \A m \in makes : \E u \in toolchains : m \in Enters[d][u]
  BY DEF For, Below
<1>3a. visited \subseteq Dir
  <2>1. \A m \in makes : m[1] \in Dir
    BY <1>2, <1>3, EntersAssumption
  <2>2. QED
    BY <2>1
<1> HIDE DEF for, cleaned
\* What is entered is enabled.
<1>4. ASSUME NEW c \in Dir PROVE for[c] \subseteq Enabled(c)
  <2>1. SUFFICES ASSUME NEW t \in for[c] PROVE t \in Enabled(c)
    OBVIOUS
  <2>2. (c = d /\ t \in toolchains) \/ \E u \in toolchains : <<c, t>> \in Enters[d][u]
    <3>1. (c = d /\ t \in toolchains) \/ <<c, t>> \in makes
      BY <1>3
    <3>2. QED
      BY <1>3, <3>1
  <2>3. CASE c = d /\ t \in toolchains
    BY <1>2, <2>3
  <2>4. CASE \E u \in toolchains : <<c, t>> \in Enters[d][u]
    <3>1. PICK u \in toolchains : <<c, t>> \in Enters[d][u]
      BY <2>4
    <3>2. t \in {u, NoArch} \cap COMPONENT_TARGETS[c]
      BY <1>2, <3>1, EntersAssumption
    <3>3. u \in enabled /\ NoArch \in enabled
      BY <1>2 DEF Enabled, IInv, NotRefused
    <3>4. QED
      BY <3>2, <3>3 DEF Enabled
  <2>5. QED
    BY <2>2, <2>3, <2>4
<1>5. for[d] # {}
  BY <1>2, <1>3
<1>6. \A c \in visited : Enabled(c) # {}
  <2>1. \A c \in visited : for[c] # {}
    BY <1>1, <1>5
  <2> HIDE DEF visited
  <2>2. QED
    BY <1>3a, <1>4, <2>1
<1>7. \A c \in visited : kept[c] \subseteq old[c]
  OBVIOUS
<1>8. visited \subseteq Dir
  BY <1>3a
<1> HIDE DEF visited
<1>9. \A c \in Dir : for[c] \subseteq enabled /\ for[c] \subseteq COMPONENT_TARGETS[c] /\ for[c] \subseteq Toolchain
  BY <1>3, <1>4 DEF Enabled
<1> USE DEF IInv
<1>10. /\ work \in [Dir -> SUBSET Toolchain] /\ old \in [Dir -> SUBSET Toolchain]
       /\ stamped \subseteq Dir /\ installed \subseteq Products /\ passed \subseteq Dir /\ taken \subseteq Dir
  BY DEF TypeOK
<1>11. \A c \in Dir : /\ work[c] \subseteq work'[c]
                     /\ work'[c] \subseteq work[c] \cup (for[c] \ {NoArch})
  BY <1>1, <1>10
<1>11a. \A c \in Dir : old'[c] \subseteq old[c]
  BY <1>1, <1>7, <1>10
<1>11b. \A c \in visited : c \notin stamped => old'[c] = old[c] \ cleaned[c]
  BY <1>1, <1>8
<1>12. TypeOK'
  <2>1. work' \in [Dir -> SUBSET Toolchain]
    BY <1>1, <1>9, <1>10
  <2>2. old' \in [Dir -> SUBSET Toolchain]
    <3>1. \A c \in visited : kept[c] \subseteq Toolchain
      BY <1>7, <1>8, <1>10
    <3> HIDE DEF kept
    <3>2. QED
      BY <1>1, <1>10, <3>1
  <2>3. installed' \subseteq Products
    BY <1>1, <1>10
  <2>4. stamped' \subseteq Dir /\ passed' \subseteq Dir /\ taken' \subseteq Dir
    BY <1>1, <1>8, <1>10
  <2>5. QED
    BY <1>1, <2>1, <2>2, <2>3, <2>4 DEF TypeOK
<1>13. WorkIsNamed'
  BY <1>9, <1>11 DEF WorkIsNamed
<1>14. AllFound'
  <2>1. d \in visited
    BY DEF visited
  <2>2. QED
    BY <1>1, <2>1 DEF AllFound
<1>15. NotRefused'
  <2>1. enabled' = enabled /\ cleanDirs' = cleanDirs /\ reconfigured' = reconfigured /\ ended' = "none"
    BY <1>1
  <2>2. \A c \in stamped' : c \in stamped \/ Enabled(c) # {}
    BY <1>1, <1>6
  <2>3. \A c \in Dir : work[c] \subseteq enabled => work'[c] \subseteq enabled
    BY <1>9, <1>11
  <2>4. QED
    BY <2>1, <2>2, <2>3 DEF NotRefused, Enabled
<1>16. OldIsPassed'
  <2>1. \A c \in Dir : old'[c] \subseteq work'[c]
    BY <1>11, <1>11a DEF OldIsPassed
  <2>2. ASSUME NEW c \in Dir, c \in stamped', old'[c] # {} PROVE c \in passed'
    <3>1. CASE c \in stamped
      <4>1. old[c] # {}
        BY <1>11a, <2>2
      <4>2. QED
        BY <1>1, <3>1, <4>1 DEF OldIsPassed
    <3>2. CASE c \notin stamped
      <4>1. c \in visited
        BY <1>1, <2>2, <3>2
      <4>2. old'[c] = old[c] \ cleaned[c]
        BY <1>11b, <3>2, <4>1
      <4>3. ~(old[c] \subseteq cleaned[c])
        BY <2>2, <4>2
      <4>4. QED
        BY <1>1, <4>1, <4>3
    <3>3. QED
      BY <3>1, <3>2
  <2>3. QED
    BY <2>1, <2>2 DEF OldIsPassed
<1>17. CleansWholeTree'
  BY <1>1 DEF CleansWholeTree
<1>18. OldIsNotTaken'
  <2>1. ASSUME NEW c \in visited, kept[c] \cap for[c] # {} PROVE c \in passed'
    <3>1. CASE c \in stamped
      <4>1. old[c] # {}
        BY <2>1, <3>1
      <4>2. QED
        BY <1>1, <1>8, <3>1, <4>1 DEF OldIsPassed
    <3>2. CASE c \notin stamped
      <4>1. ~(old[c] \subseteq cleaned[c])
        BY <2>1, <3>2
      <4>2. QED
        BY <1>1, <4>1
    <3>3. QED
      BY <3>1, <3>2
  <2> HIDE DEF kept
  <2>2. QED
    <3>1. taken \subseteq passed /\ passed \subseteq passed'
      BY <1>1 DEF OldIsNotTaken
    <3>2. QED
      BY <1>1, <2>1, <3>1 DEF OldIsNotTaken
<1>19. QED
  BY <1>12, <1>13, <1>14, <1>15, <1>16, <1>17, <1>18

LEMMA LocalCleanInv ==
    ASSUME IInv, NEW d \in Dir, NEW toolchains \in Selections(d), LocalClean(d, toolchains)
    PROVE  IInv'
<1> USE DEF IInv, LocalClean
<1>0. /\ work \in [Dir -> SUBSET Toolchain] /\ old \in [Dir -> SUBSET Toolchain]
      /\ \A c \in Dir : work'[c] \subseteq work[c] /\ old'[c] \subseteq old[c] /\ old'[c] \subseteq Toolchain
  BY DEF TypeOK
<1>1. TypeOK'
  BY <1>0 DEF TypeOK
<1>2. WorkIsNamed'
  BY <1>0 DEF WorkIsNamed
<1>3. AllFound'
  BY DEF AllFound
<1>4. NotRefused'
  BY <1>0 DEF NotRefused, AllFound, Enabled
<1>5. OldIsPassed'
  BY <1>0 DEF OldIsPassed
<1>6. CleansWholeTree'
  BY DEF CleansWholeTree
<1>7. OldIsNotTaken'
  BY DEF OldIsNotTaken
<1>8. QED
  BY <1>1, <1>2, <1>3, <1>4, <1>5, <1>6, <1>7

LEMMA BeginTreeCleanInv ==
    ASSUME IInv, BeginTreeClean
    PROVE  IInv'
<1> USE DEF IInv, BeginTreeClean
<1>01. \A d \in Dir \ Found : work[d] = {}
  BY DEF Found, WorkIsNamed
<1>02. Found \subseteq Dir /\ stamped \subseteq Found /\ installed \subseteq Found
  BY DEF Found, TypeOK, AllFound
<1>03. \A d \in Found : ~reconfigured => Enabled(d) # {}
  BY DEF Found, WorkIsNamed, NotRefused, Enabled, TypeOK
<1>1. TypeOK'
  BY <1>02 DEF TypeOK
<1>2. WorkIsNamed'
  BY DEF WorkIsNamed
<1>3. AllFound'
  BY <1>01, <1>02 DEF AllFound
<1>4. NotRefused'
  BY <1>02, <1>03 DEF NotRefused, Enabled
<1>5. OldIsPassed'
  BY DEF OldIsPassed
<1>6. CleansWholeTree'
  BY DEF CleansWholeTree
<1>7. OldIsNotTaken'
  BY DEF OldIsNotTaken
<1>8. QED
  BY <1>1, <1>2, <1>3, <1>4, <1>5, <1>6, <1>7

LEMMA DistCleanInv ==
    ASSUME IInv, NEW d \in Dir, DistClean(d)
    PROVE  IInv'
<1> USE DEF IInv, DistClean
<1>1. TypeOK'
  BY DEF TypeOK
<1>2. WorkIsNamed'
  BY DEF WorkIsNamed
<1>3. AllFound'
  BY DEF AllFound
<1>4. NotRefused'
  BY DEF NotRefused, Enabled
<1>5. OldIsPassed'
  BY DEF OldIsPassed
<1>6. CleansWholeTree'
  BY DEF CleansWholeTree, AllFound
<1>7. OldIsNotTaken'
  BY DEF OldIsNotTaken
<1>8. QED
  BY <1>1, <1>2, <1>3, <1>4, <1>5, <1>6, <1>7

LEMMA EndDistCleanInv ==
    ASSUME IInv, EndDistClean
    PROVE  IInv'
<1> USE DEF IInv, EndDistClean
<1>1. TypeOK'
  BY DEF TypeOK
<1>2. WorkIsNamed'
  BY DEF WorkIsNamed
<1>3. AllFound'
  BY DEF AllFound
<1>4. NotRefused'
  BY DEF NotRefused, Enabled
<1>5. OldIsPassed'
  BY DEF OldIsPassed
<1>6. CleansWholeTree'
  BY DEF CleansWholeTree, AllFound
<1>7. OldIsNotTaken'
  BY DEF OldIsNotTaken
<1>8. QED
  BY <1>1, <1>2, <1>3, <1>4, <1>5, <1>6, <1>7

LEMMA CleanInv ==
    ASSUME IInv, NEW d \in Dir, Clean(d)
    PROVE  IInv'
<1> USE DEF IInv
<1>01. /\ pc = "clean" /\ pc' = "clean" /\ d \in cleanDirs
       /\ work' = [work EXCEPT ![d] = @ \ Enabled(d)]
       /\ old' = [old EXCEPT ![d] = @ \ Enabled(d)]
       /\ stamped' = stamped \ {d} /\ cleanDirs' = cleanDirs \ {d}
       /\ UNCHANGED <<enabled, installed, distDirs, ended, reconfigured, passed, taken>>
  BY Selection DEF Clean
<1>02. /\ work \in [Dir -> SUBSET Toolchain] /\ old \in [Dir -> SUBSET Toolchain]
       /\ \A c \in Dir : work'[c] \subseteq work[c] /\ old'[c] \subseteq old[c] /\ old'[c] \subseteq Toolchain
       /\ work'[d] = work[d] \ Enabled(d) /\ old'[d] = old[d] \ Enabled(d)
       /\ \A c \in Dir \ {d} : work'[c] = work[c] /\ old'[c] = old[c]
  BY <1>01 DEF TypeOK
<1>03. distDirs = {}
  BY <1>01 DEF AllFound
<1>04. work'[d] \cap enabled = {}
  BY <1>02 DEF WorkIsNamed, Enabled
<1>1. TypeOK'
  BY <1>01, <1>02, <1>03 DEF TypeOK
<1>2. WorkIsNamed'
  BY <1>02 DEF WorkIsNamed
<1>3. AllFound'
  BY <1>01, <1>02, <1>04 DEF AllFound
<1>4. NotRefused'
  BY <1>01, <1>02 DEF NotRefused, Enabled
<1>5. OldIsPassed'
  BY <1>01, <1>02 DEF OldIsPassed
<1>6. CleansWholeTree'
  BY <1>01 DEF CleansWholeTree, AllFound
<1>7. OldIsNotTaken'
  BY <1>01 DEF OldIsNotTaken
<1>8. QED
  BY <1>1, <1>2, <1>3, <1>4, <1>5, <1>6, <1>7

LEMMA RefuseInv ==
    ASSUME IInv, NEW d \in Dir, Refuse(d)
    PROVE  IInv'
<1> USE DEF IInv, Refuse, Stop
<1>01. reconfigured
  BY Selection DEF NotRefused, TypeOK
<1>1. TypeOK'
  BY DEF TypeOK
<1>2. WorkIsNamed'
  BY DEF WorkIsNamed
<1>3. AllFound'
  BY DEF AllFound
<1>4. NotRefused'
  BY <1>01 DEF NotRefused
<1>5. OldIsPassed'
  BY DEF OldIsPassed
<1>6. CleansWholeTree'
  BY <1>01 DEF CleansWholeTree
<1>7. OldIsNotTaken'
  BY DEF OldIsNotTaken
<1>8. QED
  BY <1>1, <1>2, <1>3, <1>4, <1>5, <1>6, <1>7

LEMMA KillInv ==
    ASSUME IInv, Kill
    PROVE  IInv'
<1> USE DEF IInv, Kill, Stop
<1>1. TypeOK'
  BY DEF TypeOK
<1>2. WorkIsNamed'
  BY DEF WorkIsNamed
<1>3. AllFound'
  BY DEF AllFound
<1>4. NotRefused'
  BY DEF NotRefused, Enabled
<1>5. OldIsPassed'
  BY DEF OldIsPassed
<1>6. CleansWholeTree'
  BY DEF CleansWholeTree
<1>7. OldIsNotTaken'
  BY DEF OldIsNotTaken
<1>8. QED
  BY <1>1, <1>2, <1>3, <1>4, <1>5, <1>6, <1>7

LEMMA EndInv ==
    ASSUME IInv, End
    PROVE  IInv'
<1> USE DEF IInv, End, Stop
<1>01. stamped = {} /\ installed = {} /\ \A d \in Dir : work[d] \cap enabled = {}
  BY DEF AllFound
<1>02. ~reconfigured' => TreeIsClean
  BY <1>01 DEF TreeIsClean, NotRefused, TypeOK
<1>03. TreeIsClean' <=> TreeIsClean
  BY DEF TreeIsClean
<1>1. TypeOK'
  BY DEF TypeOK
<1>2. WorkIsNamed'
  BY DEF WorkIsNamed
<1>3. AllFound'
  BY DEF AllFound
<1>4. NotRefused'
  BY <1>01, <1>02 DEF NotRefused, TreeIsClean
<1>5. OldIsPassed'
  BY <1>01 DEF OldIsPassed
<1>6. CleansWholeTree'
  BY <1>01, <1>02, <1>03 DEF CleansWholeTree
<1>7. OldIsNotTaken'
  BY DEF OldIsNotTaken
<1>8. QED
  BY <1>1, <1>2, <1>3, <1>4, <1>5, <1>6, <1>7

LEMMA NextInv == IInv /\ [Next]_vars => IInv'
<1> SUFFICES ASSUME IInv, [Next]_vars PROVE IInv'
  OBVIOUS
<1>1. ASSUME NEW names \in SUBSET Toolchain, NoArch \in names, Configure(names) PROVE IInv'
  BY <1>1, ConfigureInv
<1>2. ASSUME NEW d \in Dir, NEW toolchains \in Selections(d),
             NEW makes \in SUBSET Below(d, toolchains), NEW first \in SUBSET makes,
             Make(d, toolchains, makes, first)
      PROVE  IInv'
  BY <1>2, MakeInv
<1>3. ASSUME NEW d \in Dir, NEW toolchains \in Selections(d), LocalClean(d, toolchains) PROVE IInv'
  BY <1>3, LocalCleanInv
<1>4. ASSUME NEW d \in Dir, DistClean(d) \/ Clean(d) \/ Refuse(d) PROVE IInv'
  BY <1>4, DistCleanInv, CleanInv, RefuseInv
<1>5. CASE BeginTreeClean \/ EndDistClean \/ End \/ Kill
  BY <1>5, BeginTreeCleanInv, EndDistCleanInv, EndInv, KillInv
<1>6. CASE UNCHANGED vars
  BY <1>6 DEF vars, IInv, TypeOK, WorkIsNamed, AllFound, NotRefused, OldIsPassed, CleansWholeTree,
              OldIsNotTaken, TreeIsClean, Enabled
<1>7. QED
  BY <1>1, <1>2, <1>3, <1>4, <1>5, <1>6 DEF Next

\* For all toolchains, flavours and directories: the invariant holds.
THEOREM Invariance == Spec => []IInv
BY InitInv, NextInv, PTL DEF Spec

\* For all names that the rules for names allow: what is selected is what is meant.
THEOREM SelectionRight == Spec => []SelectionIsMeant
BY Selecting, PTL

\* A tree_clean that ends well cleans the whole tree.
THEOREM WholeTreeCleaned == Spec => []CleansWholeTree
<1>1. IInv => CleansWholeTree
  BY DEF IInv
<1>2. QED
  BY <1>1, Invariance, PTL

\* What tree_clean has left is not taken for built but where a make that was not for all of
\* it has come first; in what a make enters below (core.mk:645), that may be itself.
THEOREM OldNotTaken == Spec => []OldIsNotTaken
<1>1. IInv => OldIsNotTaken
  BY DEF IInv
<1>2. QED
  BY <1>1, Invariance, PTL

=============================================================================
