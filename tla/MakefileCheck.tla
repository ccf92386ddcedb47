---------------------------- MODULE MakefileCheck ----------------------------
(***************************************************************************)
(* The stamp .makefile of a component's directory (core.mk, `Check if      *)
(* Makefile has been changed').  When the Makefile is newer than the stamp,*)
(* a make that comes to the directory touches the stamp and cleans what was*)
(* built: with dist_clean and local_clean, each a make of its own in the   *)
(* same directory.                                                         *)
(*                                                                         *)
(* There is one stamp, but local_clean is given the TOOLCHAIN of the make  *)
(* that runs it: a make of the component for one toolchain, started from a *)
(* .requires, cleans that toolchain's work only; a make that the user      *)
(* starts in the directory cleans the work of all.                         *)
(***************************************************************************)
EXTENDS Naturals, FiniteSets

CONSTANTS
    COMPONENT_TOOLCHAINS,
    Makes,      \* the makes that come here, each the set of its toolchains
    Final,      \* those of them that a .requires starts, with __final__ set
    Faults,     \* what may go wrong: "clean", "abort", "interrupt", "kill"
    MaxEdits,   \* bound: how often the Makefile is edited
    MaxFaults   \* bound: how often something goes wrong

ASSUME ConstantAssumption ==
    /\ Makes \subseteq SUBSET COMPONENT_TOOLCHAINS
    /\ Final \subseteq Makes
    /\ Faults \subseteq {"clean", "abort", "interrupt", "kill"}
    /\ MaxEdits \in Nat
    /\ MaxFaults \in Nat

VARIABLES
    makefile,  \* .makefile: absent, old or fresh
    made,      \* .<toolchain>: nothing, or made with a stale or fresh Makefile
    at,        \* where each make is
    depth,     \* how deep the recipe of .makefile has entered itself
    unclean,   \* makes whose local_clean failed
    result,    \* how each make ended
    partial,   \* history: since the last edit, a make that touched the stamp did not clean
               \* the work of all: it was not its own, or the make was aborted or killed
    edits,     \* edits so far
    faults     \* faults so far

stampVars == <<makefile, made, at, depth, unclean, result, partial, edits, faults>>

Idle == \A m \in Makes : at[m] = "idle"

Cleaning(m) == at[m] \in {"touch", "dist_clean", "local_clean"}

Fault(kind) == kind \in Faults /\ faults < MaxFaults /\ faults' = faults + 1

Goto(m, place) == at' = [at EXCEPT ![m] = place]

StampInit ==
    /\ makefile = "absent"
    /\ made = [t \in COMPONENT_TOOLCHAINS |-> "none"]
    /\ at = [m \in Makes |-> "idle"]
    /\ depth = [m \in Makes |-> 0]
    /\ unclean = {}
    /\ result = [m \in Makes |-> "none"]
    /\ partial = FALSE
    /\ edits = 0
    /\ faults = 0

-----------------------------------------------------------------------------

\* The Makefile changes while no make is here.
Edit ==
    /\ Idle
    /\ edits < MaxEdits
    /\ makefile' = IF makefile = "fresh" THEN "old" ELSE makefile
    /\ made' = [t \in COMPONENT_TOOLCHAINS |-> IF made[t] = "none" THEN "none" ELSE "stale"]
    /\ result' = [m \in Makes |-> "none"]
    /\ partial' = FALSE
    /\ edits' = edits + 1
    /\ UNCHANGED <<at, depth, unclean, faults>>

\* A make comes here; other makes, for other toolchains, may be here already.
Come(m) ==
    /\ at[m] = "idle"
    /\ \A n \in Makes : n # m /\ at[n] # "idle" => n \cap m = {}
    /\ Goto(m, IF makefile = "fresh" THEN "build" ELSE "touch")
    /\ depth' = [depth EXCEPT ![m] = 0]
    /\ unclean' = unclean \ {m}
    /\ result' = [result EXCEPT ![m] = "none"]
    /\ UNCHANGED <<makefile, made, partial, edits, faults>>

TouchLater(m) ==  \* mutation: the stamp is touched when all is clean
    /\ at[m] = "touch"
    /\ Goto(m, "dist_clean")
    /\ UNCHANGED <<makefile, made, depth, unclean, result, partial, edits, faults>>

\* The first line of the recipe.
Touch(m) ==
    /\ at[m] = "touch"
    /\ makefile' = "fresh"
    /\ Goto(m, "dist_clean")
    /\ partial' = (partial \/ m # COMPONENT_TOOLCHAINS)
    /\ UNCHANGED <<made, depth, unclean, result, edits, faults>>

\* `$(MAKE) dist_clean' is no quick target.  With __final__ it includes
\* .requires_depend, hence comes to .requires and to .makefile again, and runs this
\* recipe again unless the stamp is fresh.  (What it removes is not here.)
RunDistClean(m) ==
    /\ at[m] = "dist_clean"
    /\ IF m \in Final /\ makefile # "fresh"
          THEN Goto(m, "touch") /\ depth' = [depth EXCEPT ![m] = @ + 1]
          ELSE Goto(m, "local_clean") /\ UNCHANGED depth
    /\ UNCHANGED <<makefile, made, unclean, result, partial, edits, faults>>

\* dist_clean fails: the recipe ends there.
Abort(m) ==
    /\ Fault("abort")
    /\ at[m] = "dist_clean"
    /\ Goto(m, "idle")
    /\ result' = [result EXCEPT ![m] = "failed"]
    /\ partial' = TRUE
    /\ UNCHANGED <<makefile, made, depth, unclean, edits>>

\* `$(MAKE) local_clean' with the make's own TOOLCHAIN, or without one.
RunLocalClean(m) ==
    /\ at[m] = "local_clean"
    /\ made' = [t \in COMPONENT_TOOLCHAINS |-> IF t \in m THEN "none" ELSE made[t]]
    /\ Goto(m, "build")
    /\ UNCHANGED <<makefile, depth, unclean, result, partial, edits, faults>>

LocalCleanFailsKeepsStamp(m, cleaned) ==  \* mutation: no rm -f .makefile
    /\ Fault("clean")
    /\ at[m] = "local_clean"
    /\ made' = [t \in COMPONENT_TOOLCHAINS |-> IF t \in cleaned THEN "none" ELSE made[t]]
    /\ unclean' = unclean \cup {m}
    /\ Goto(m, "build")
    /\ UNCHANGED <<makefile, depth, result, partial, edits>>

\* local_clean fails after it has cleaned some of the toolchains: the stamp is
\* removed, and the make goes on.
LocalCleanFails(m, cleaned) ==
    /\ Fault("clean")
    /\ at[m] = "local_clean"
    /\ cleaned \subseteq m
    /\ made' = [t \in COMPONENT_TOOLCHAINS |-> IF t \in cleaned THEN "none" ELSE made[t]]
    /\ makefile' = "absent"
    /\ unclean' = unclean \cup {m}
    /\ Goto(m, "build")
    /\ UNCHANGED <<depth, result, partial, edits>>

\* What has its stamps is not built again.
Build(m) ==
    /\ at[m] = "build"
    /\ made' = [t \in COMPONENT_TOOLCHAINS |->
                   IF t \in m /\ made[t] = "none" THEN "fresh" ELSE made[t]]
    /\ result' = [result EXCEPT ![m] = "ok"]
    /\ Goto(m, "idle")
    /\ UNCHANGED <<makefile, depth, unclean, partial, edits, faults>>

\* All makes end at once.  The make that is interrupted in the recipe of .makefile
\* removes its target; the make that is killed does not.
StopMakes(stamp) ==
    /\ ~Idle
    /\ makefile' = stamp
    /\ at' = [m \in Makes |-> "idle"]
    /\ result' = [m \in Makes |-> IF at[m] = "idle" THEN result[m] ELSE "failed"]
    /\ UNCHANGED <<made, depth, unclean, edits>>

Interrupted == \E m \in Makes : at[m] \in {"dist_clean", "local_clean"}

Interrupt ==
    /\ Fault("interrupt")
    /\ StopMakes(IF Interrupted THEN "absent" ELSE makefile)
    /\ UNCHANGED partial

KillMakes ==
    /\ Fault("kill")
    /\ StopMakes(makefile)
    /\ partial' = (partial \/ Interrupted)

StampNext ==
    \/ Edit
    \/ \E m \in Makes :
          \/ Come(m)
          \/ Touch(m)
          \/ RunDistClean(m)
          \/ Abort(m)
          \/ RunLocalClean(m)
          \/ \E cleaned \in SUBSET m : LocalCleanFails(m, cleaned)
          \/ Build(m)
    \/ Interrupt
    \/ KillMakes

StampSpec == StampInit /\ [][StampNext]_stampVars

-----------------------------------------------------------------------------

StampTypeOK ==
    /\ makefile \in {"absent", "old", "fresh"}
    /\ made \in [COMPONENT_TOOLCHAINS -> {"none", "stale", "fresh"}]
    /\ at \in [Makes -> {"idle", "touch", "dist_clean", "local_clean", "build"}]
    /\ depth \in [Makes -> Nat]
    /\ unclean \subseteq Makes
    /\ result \in [Makes -> {"none", "ok", "failed"}]
    /\ partial \in BOOLEAN
    /\ edits \in 0 .. MaxEdits
    /\ faults \in 0 .. MaxFaults

\* m succeeds, and was able to clean, but took for built what an earlier Makefile built.
TookStale(m) == result[m] = "ok" /\ m \notin unclean /\ \E t \in m : made[t] = "stale"

\* `New makefile ... clean!' (core.mk:327): no make takes for built what an earlier
\* Makefile built.  The code keeps that when those that touched the stamp were there for
\* all toolchains; also when an earlier make could not clean or was interrupted while it
\* did, and for makes of single toolchains that come afterwards.
CleanedUnlessPartial == ~partial => \A m \in Makes : ~TookStale(m)

\* The recipe of .makefile runs make in the same directory, which comes to .makefile
\* again: that this ends is because the stamp is touched first.  Only another make,
\* that could not clean and removes the stamp, can send it round once more.
RecursionEnds == \A m \in Makes : depth[m] <= faults

\* A fresh stamp means that nothing old is left, or that a make which is there for all
\* toolchains is about to clean.
StampIsTrue ==
    ~partial /\ makefile = "fresh" /\ (\E t \in COMPONENT_TOOLCHAINS : made[t] = "stale") =>
        \E m \in Makes : m = COMPONENT_TOOLCHAINS /\ at[m] \in {"dist_clean", "local_clean"}

\* What a make is going to build on is not old.
BuildsOnClean ==
    ~partial => \A m \in Makes :
        at[m] = "build" /\ m \notin unclean => \A t \in m : made[t] # "stale"

\* Each time the recipe enters itself, the stamp has been removed by a failure.
DepthCounted ==
    \A m \in Makes :
        /\ depth[m] <= faults
        /\ at[m] = "dist_clean" /\ makefile # "fresh" => depth[m] < faults

StampInv ==
    /\ StampTypeOK
    /\ StampIsTrue
    /\ BuildsOnClean
    /\ DepthCounted
    /\ CleanedUnlessPartial

=============================================================================
