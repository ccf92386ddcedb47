---------------------------- MODULE SourceDownload ----------------------------
(***************************************************************************)
(* The Makefile of a source directory, sources/GNU/gmp and its like: one   *)
(* make downloads the tarballs and their sha1sum files and checks them.    *)
(*                                                                         *)
(* The rule for the tarballs is a rule for each of them whose recipe       *)
(* downloads them all, in the background: with -j several such recipes     *)
(* write the same files.  The user runs make again after a failure, kills  *)
(* it, and cleans the directory.                                           *)
(***************************************************************************)
EXTENDS Naturals, FiniteSets

CONSTANTS
    Tarball,   \* the tarballs; each has its sha1sum file
    Parallel,  \* make -j
    MaxMakes,  \* bound: how often make is run
    MaxKills   \* bound: how often it is killed

ASSUME ConstantAssumption ==
    /\ Parallel \in BOOLEAN
    /\ MaxMakes \in Nat
    /\ MaxKills \in Nat

VARIABLES
    tarball,  \* each tarball: absent, open (being written), good or bad
    sha,      \* each sha1sum file: absent, empty or good
    newer,    \* pairs: this tarball is newer than the sha1sum file of that one
    make,     \* idle, running or failing
    fetch,    \* the rules of the tarballs: none, running or done
    pending,  \* pairs: the recipe of this tarball has yet to wget that one
    writing,  \* pairs: the recipe of this tarball is writing that one
    check,    \* the rules of the sha1sum files: none, touched, done or failed
    result,   \* how the last make ended
    fresh,    \* history: no make has failed or was killed since there was nothing
    makes,    \* runs so far
    kills     \* kills so far

files == <<tarball, sha, newer>>
jobs == <<fetch, pending, writing, check>>
vars == <<files, make, jobs, result, fresh, makes, kills>>

Every(value) == [t \in Tarball |-> value]

Nothing == tarball = Every("absent") /\ sha = Every("absent")

NoJobs ==
    /\ fetch' = Every("none")
    /\ pending' = {}
    /\ writing' = {}
    /\ check' = Every("none")

\* A recipe runs; without -j the next waits for it.
Busy == (\E t \in Tarball : fetch[t] = "running") \/ (\E t \in Tarball : check[t] = "touched")

MayStart == make = "running" /\ (Parallel \/ ~Busy)

Init ==
    /\ tarball = Every("absent")
    /\ sha = Every("absent")
    /\ newer = {}
    /\ make = "idle"
    /\ fetch = Every("none")
    /\ pending = {}
    /\ writing = {}
    /\ check = Every("none")
    /\ result = "none"
    /\ fresh = TRUE
    /\ makes = 0
    /\ kills = 0

-----------------------------------------------------------------------------

Make ==
    /\ make = "idle"
    /\ makes < MaxMakes
    /\ make' = "running"
    /\ result' = "none"
    /\ fresh' = (fresh \/ Nothing)
    /\ makes' = makes + 1
    /\ UNCHANGED <<files, jobs, kills>>

\* make comes to the target t: a file that is there, even one that another recipe
\* is writing, is up to date.
FetchTarball(t) ==
    /\ MayStart
    /\ fetch[t] = "none"
    /\ IF tarball[t] = "absent"
          THEN /\ fetch' = [fetch EXCEPT ![t] = "running"]
               /\ pending' = pending \cup ({t} \X Tarball)
          ELSE /\ fetch' = [fetch EXCEPT ![t] = "done"]
               /\ UNCHANGED pending
    /\ UNCHANGED <<files, make, writing, check, result, fresh, makes, kills>>

\* wget -N cannot reach the server, or finds a file of the right size and date.
WgetNothing(t, u) ==
    /\ <<t, u>> \in pending
    /\ pending' = pending \ {<<t, u>>}
    /\ UNCHANGED <<files, make, fetch, writing, check, result, fresh, makes, kills>>

\* wget opens the file, over one that is absent, bad or still being written.
WgetOpen(t, u) ==
    /\ <<t, u>> \in pending
    /\ tarball[u] # "good"
    /\ pending' = pending \ {<<t, u>>}
    /\ writing' = writing \cup {<<t, u>>}
    /\ tarball' = [tarball EXCEPT ![u] = "open"]
    /\ UNCHANGED <<sha, newer, make, fetch, check, result, fresh, makes, kills>>

WgetRetries(t, u, content, dated) ==  \* mutation: wget is called until the file is good
    /\ <<t, u>> \in writing
    /\ writing' = writing \ {<<t, u>>}
    /\ pending' = IF content = "bad" THEN pending \cup {<<t, u>>} ELSE pending
    /\ tarball' = [tarball EXCEPT ![u] = content]
    /\ UNCHANGED <<sha, newer, make, fetch, check, result, fresh, makes, kills>>

\* wget ends.  The file has the date it has on the server, or, if it was cut
\* short, perhaps the present one.
WgetClose(t, u, content, dated) ==
    /\ <<t, u>> \in writing
    /\ writing' = writing \ {<<t, u>>}
    /\ IF \E s \in Tarball \ {t} : <<s, u>> \in writing
          THEN UNCHANGED <<tarball, newer>>
          ELSE /\ tarball' = [tarball EXCEPT ![u] = content]
               /\ newer' = IF content = "bad" /\ ~dated
                              THEN newer \cup ({u} \X Tarball)
                              ELSE newer \ ({u} \X Tarball)
    /\ UNCHANGED <<sha, make, fetch, pending, check, result, fresh, makes, kills>>

FetchEndsAtOnce(t) ==  \* mutation: no wait
    /\ fetch[t] = "running"
    /\ fetch' = [fetch EXCEPT ![t] = "done"]
    /\ UNCHANGED <<files, make, pending, writing, check, result, fresh, makes, kills>>

FetchEndsWhenThere(t) ==  \* mutation: `until [ -f ... ]' in place of `wait'
    /\ fetch[t] = "running"
    /\ \A u \in Tarball : <<t, u>> \notin pending \cup writing /\ tarball[u] # "absent"
    /\ fetch' = [fetch EXCEPT ![t] = "done"]
    /\ UNCHANGED <<files, make, pending, writing, check, result, fresh, makes, kills>>

\* `done ; wait' succeeds whatever the downloads did.
FetchEnds(t) ==
    /\ fetch[t] = "running"
    /\ \A u \in Tarball : <<t, u>> \notin pending \cup writing
    /\ fetch' = [fetch EXCEPT ![t] = "done"]
    /\ UNCHANGED <<files, make, pending, writing, check, result, fresh, makes, kills>>

FetchedAlone(t) == fetch[t] = "done"  \* mutation: a sha1sum file needs its own tarball

\* `$(sha1s): $(tarballs)': each sha1sum file needs all tarballs.
Fetched(t) == \A u \in Tarball : fetch[u] = "done"

OutOfDateIfNewer(t) ==  \* mutation: a tarball that is absent is no reason
    sha[t] = "absent" \/ \E u \in Tarball : <<u, t>> \in newer

OutOfDate(t) ==
    \/ sha[t] = "absent"
    \/ \E u \in Tarball : tarball[u] = "absent" \/ <<u, t>> \in newer

\* The recipe downloads the sha1sum file, if it can, and touches it.
FetchSha(t, content) ==
    /\ MayStart
    /\ check[t] = "none"
    /\ Fetched(t)
    /\ OutOfDate(t)
    /\ sha' = [sha EXCEPT ![t] = IF @ = "good" THEN @ ELSE content]
    /\ newer' = newer \ (Tarball \X {t})
    /\ check' = [check EXCEPT ![t] = "touched"]
    /\ UNCHANGED <<tarball, make, fetch, pending, writing, result, fresh, makes, kills>>

ShaIsUpToDate(t) ==
    /\ MayStart
    /\ check[t] = "none"
    /\ Fetched(t)
    /\ ~OutOfDate(t)
    /\ check' = [check EXCEPT ![t] = "done"]
    /\ UNCHANGED <<files, make, fetch, pending, writing, result, fresh, makes, kills>>

MatchesUnlessEmpty(t) == sha[t] = "empty" \/ tarball[t] = "good"  \* mutation

\* sha1sum --check
Matches(t) == sha[t] = "good" /\ tarball[t] = "good"

CheckSha(t) ==
    /\ check[t] = "touched"
    /\ IF Matches(t)
          THEN /\ check' = [check EXCEPT ![t] = "done"]
               /\ UNCHANGED make
          ELSE /\ check' = [check EXCEPT ![t] = "failed"]
               /\ make' = "failing"
    /\ UNCHANGED <<files, fetch, pending, writing, result, fresh, makes, kills>>

Ends(r) ==
    /\ \/ make = "running" /\ r = "ok" /\ \A t \in Tarball : check[t] = "done"
       \/ make = "failing" /\ r = "failed" /\ ~Busy
    /\ make' = "idle"
    /\ result' = r
    /\ fresh' = (fresh /\ r = "ok")
    /\ NoJobs
    /\ UNCHANGED <<files, makes, kills>>

\* make and all its children are killed.  When it is interrupted, make removes the
\* targets whose recipes it was running.
Kill(removed) ==
    /\ make # "idle"
    /\ kills < MaxKills
    /\ removed \subseteq {t \in Tarball : fetch[t] = "running" \/ check[t] = "touched"}
    /\ tarball' = [t \in Tarball |->
                      IF t \in removed /\ fetch[t] = "running" THEN "absent"
                      ELSE IF tarball[t] = "open" THEN "bad"
                      ELSE tarball[t]]
    /\ sha' = [t \in Tarball |->
                  IF t \in removed /\ check[t] = "touched" THEN "absent" ELSE sha[t]]
    /\ newer' = newer \cup ({t \in Tarball : tarball[t] = "open"} \X Tarball)
    /\ make' = "idle"
    /\ result' = "failed"
    /\ fresh' = FALSE
    /\ NoJobs
    /\ kills' = kills + 1
    /\ UNCHANGED makes

DownloadClean ==
    /\ make = "idle"
    /\ tarball' = Every("absent")
    /\ sha' = Every("absent")
    /\ newer' = {}
    /\ result' = "none"
    /\ fresh' = TRUE
    /\ UNCHANGED <<make, jobs, makes, kills>>

Step ==
    \/ \E t \in Tarball :
          \/ FetchTarball(t)
          \/ FetchEnds(t)
          \/ \E content \in {"empty", "good"} : FetchSha(t, content)
          \/ ShaIsUpToDate(t)
          \/ CheckSha(t)
    \/ \E t, u \in Tarball :
          \/ WgetNothing(t, u)
          \/ WgetOpen(t, u)
          \/ \E content \in {"good", "bad"}, dated \in BOOLEAN : WgetClose(t, u, content, dated)
    \/ \E r \in {"ok", "failed"} : Ends(r)

Next ==
    \/ Make
    \/ Step
    \/ \E removed \in SUBSET Tarball : Kill(removed)
    \/ DownloadClean

Spec == Init /\ [][Next]_vars

\* Every wget ends, and make goes on as long as it can.
FairSpec == Spec /\ WF_vars(Step)

-----------------------------------------------------------------------------

TypeOK ==
    /\ tarball \in [Tarball -> {"absent", "open", "good", "bad"}]
    /\ sha \in [Tarball -> {"absent", "empty", "good"}]
    /\ newer \subseteq Tarball \X Tarball
    /\ make \in {"idle", "running", "failing"}
    /\ fetch \in [Tarball -> {"none", "running", "done"}]
    /\ pending \subseteq Tarball \X Tarball
    /\ writing \subseteq Tarball \X Tarball
    /\ check \in [Tarball -> {"none", "touched", "done", "failed"}]
    /\ result \in {"none", "ok", "failed"}
    /\ fresh \in BOOLEAN
    /\ makes \in 0 .. MaxMakes
    /\ kills \in 0 .. MaxKills

\* No tarball is checked, and none is accepted, while any recipe of the directory may
\* still write it, whatever number of them were started by -j.
QuietWhileChecking ==
    \A t \in Tarball : check[t] # "none" => pending = {} /\ writing = {}

\* Until a make fails or is killed, a make that ends well has good tarballs only: what
\* it finds was downloaded and checked by itself or by makes that ended well.
FreshIsGood ==
    result = "ok" /\ fresh => \A t \in Tarball : tarball[t] = "good"

\* Whatever failed, was killed or cleaned before, a make that ends well leaves every
\* tarball there, the download of it ended.  That is what the make of a product relies on
\* (core.mk:357, the action Fetch of SourcesReady).
AcceptedIsThere ==
    result = "ok" => \A t \in Tarball : tarball[t] \in {"good", "bad"}

AllThere == \A t \in Tarball : tarball[t] \in {"good", "bad"} /\ fetch[t] # "running"

\* Nothing but download_clean takes away a tarball, or writes it again, once all are there:
\* not the recipes that -j has yet to start, nor a later make that fails or is killed.  That
\* is why a directory stays in `have' of SourcesReady.
KeepsWhatIsThere ==
    [][AllThere => \/ UNCHANGED tarball
                   \/ make = "idle" /\ tarball' = Every("absent")]_vars

\* What the recipes of a make have done: rules begun and ended, tarballs that a recipe has
\* wanted and is done with, sha1sum files touched and checked.
Begun == {t \in Tarball : fetch[t] # "none"}
Ended == {t \in Tarball : fetch[t] = "done"}
Wanted == {p \in Begun \X Tarball : p \notin pending}
Got == {p \in Begun \X Tarball : p \notin pending \cup writing}
Touched == {t \in Tarball : check[t] # "none"}
Checked == {t \in Tarball : check[t] \in {"done", "failed"}}

Advances ==
    /\ Begun \subseteq Begun' /\ Ended \subseteq Ended'
    /\ Wanted \subseteq Wanted' /\ Got \subseteq Got'
    /\ Touched \subseteq Touched' /\ Checked \subseteq Checked'
    /\ <<Begun, Ended, Wanted, Got, Touched, Checked>>
          # <<Begun, Ended, Wanted, Got, Touched, Checked>>'

\* Every step of a make but its end adds to what its recipes have done, and none is done
\* over, though several recipes write the same files.  There are finitely many, so the make
\* comes to an end.
GoesForward == [][Step /\ make' # "idle" => Advances]_vars

\* `ERROR: Bad sha1sum' ; exit 1 (sources/GNU/gmp/Makefile:47): make does not accept
\* a tarball that fails its check.
AcceptedIsGood ==
    result = "ok" => \A t \in Tarball : tarball[t] = "good"

\* Downloads belong to recipes that run.
Belongs ==
    /\ \A t, u \in Tarball : <<t, u>> \in pending \cup writing => fetch[t] = "running"
    /\ make = "idle" => \A t \in Tarball : fetch[t] = "none"
    /\ pending \cap writing = {}

\* A tarball is open while a recipe writes it.
Open == \A u \in Tarball : tarball[u] = "open" <=> \E t \in Tarball : <<t, u>> \in writing

\* Checks come after all recipes of tarballs.
Later == \A t \in Tarball : check[t] # "none" => Fetched(t)

AllGood == \A t \in Tarball : tarball[t] = "good"

\* Until one fails, a make finds nothing and accepts only what it has checked itself, or
\* finds all tarballs good.
Fresh ==
    /\ make # "idle" => result = "none"
    /\ fresh =>
          \/ AllGood
          \/ make = "idle" /\ Nothing
          \/ make # "idle" /\ \A t \in Tarball :
                /\ check[t] = "none" => sha[t] = "absent"
                /\ check[t] = "done" => tarball[t] = "good"

\* What is accepted is there, and is not written any more.
There == \A t \in Tarball : check[t] = "done" => tarball[t] \in {"good", "bad"}

\* The inductive invariant behind the three.
IInv ==
    /\ TypeOK
    /\ Belongs
    /\ Open
    /\ Later
    /\ Fresh
    /\ There
    /\ FreshIsGood
    /\ AcceptedIsThere

\* Every make of a source directory ends (FairSpec).
Termination == make # "idle" ~> make = "idle"

=============================================================================
