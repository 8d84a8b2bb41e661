---------------------------- MODULE UsenetEngine ----------------------------
(***************************************************************************)
(* The usenet download engine, internal/usenet/manager.go and pause.go: the *)
(* table of downloads, one goroutine per download, the semaphore of body    *)
(* slots, the pause gate, the stall detection of the poll loop, and the     *)
(* calls of the API and of the retry loops that interleave with them.       *)
(*                                                                         *)
(* A download is an object (dlState) of its own: a GID relaunched after a   *)
(* Cancel stands for another object while the first may still run.  What    *)
(* the code does by pointer is done to the object, what it does by GID is   *)
(* done to whatever the table holds by then.                                *)
(***************************************************************************)
EXTENDS Naturals, FiniteSets

CONSTANTS
  Gids, NoGid,
  Jobs, NoJob,   \* the dlState objects; one that is done may be used again
  Callers,       \* API requests and loops that call into the engine
  MaxConcurrentDownloads,
  Articles,      \* articles of an NZB
  Operators,     \* what callers do, of "cancel", "pause", "relaunch", "wipe"
  Races          \* bounds lifted, of "relaunch", "pause", "calls"

ASSUME NoGidAssumption == NoGid \notin Gids
ASSUME NoJobAssumption == NoJob \notin Jobs
ASSUME JobsAssumption == IsFiniteSet(Jobs)
ASSUME SlotsAssumption == MaxConcurrentDownloads \in Nat \ {0}
ASSUME ArticlesAssumption == Articles \in Nat \ {0}

VARIABLES
  downloads,  \* the table: the job each GID stands for
  jobs,       \* the jobs, each with its goroutine and its gate
  slots,      \* body slots taken from the semaphore
  staging,    \* the GIDs whose directory exists
  owed,       \* outcomes fired for a GID that no callback has looked at yet
  calls       \* what each caller is in the middle of

vars == <<downloads, jobs, slots, staging, owed, calls>>

Fetching == {"article", "fetching"}
At == {"unused", "precheck", "acquire", "blocked", "assembled", "repairing",
       "unpacking", "ended"} \union Fetching
JobStatus == {"active", "paused", "error", "complete", "removed"}
Phase == {"none", "precheck", "waiting", "downloading", "repairing", "unpacking"}
Quiet == {"never", "lately", "long"}

\* quiet: how long ago lastProgressAt is.  held: paused at least once.
\* told: how often an outcome of the job was fired.
Job == [gid: Gids \union {NoGid}, at: At, status: JobStatus, phase: Phase,
        shut: BOOLEAN, cancelled: BOOLEAN, staleAbort: BOOLEAN, quiet: Quiet,
        left: 0..Articles, again: BOOLEAN, held: BOOLEAN, told: Nat]

Unused == [gid |-> NoGid, at |-> "unused", status |-> "removed", phase |-> "none",
           shut |-> FALSE, cancelled |-> FALSE, staleAbort |-> FALSE,
           quiet |-> "never", left |-> Articles, again |-> FALSE,
           held |-> FALSE, told |-> 0]

CallStep == {"idle", "cancelling", "removing", "closing", "reviving", "opening",
             "losing", "waking"}
IdleCall == [at |-> "idle", job |-> NoJob]

Init ==
  /\ downloads = [h \in Gids |-> NoJob]
  /\ jobs = [j \in Jobs |-> Unused]
  /\ slots = 0
  /\ staging \in [Gids -> BOOLEAN]
  /\ owed = [h \in Gids |-> {}]
  /\ calls = [c \in Callers |-> IdleCall]

-----------------------------------------------------------------------------

Alive(j) == jobs[j].at \notin {"unused", "ended"}
InTable(j) == \E h \in Gids: downloads[h] = j
Called(j) == \E c \in Callers: calls[c].job = j

\* Nothing of an earlier download under h is still going on.
Settled(h) == \A j \in Jobs: jobs[j].gid = h => ~Alive(j) /\ ~Called(j)

SetJob(j, dl) == jobs' = [jobs EXCEPT ![j] = dl]
SetStatus(dl, status, phase) == [dl EXCEPT !.status = status, !.phase = phase]

\* Where the code looks the job up by GID again, and finds it in this status.
Found(h, status) == {j \in Jobs: downloads[h] = j /\ jobs[j].status = status}

-----------------------------------------------------------------------------
(* Starting a download *)

Enlist(j, h, again) ==
  /\ ~Alive(j) /\ ~InTable(j) /\ ~Called(j)
  /\ downloads[h] = NoJob
  /\ downloads' = [downloads EXCEPT ![h] = j]
  /\ SetJob(j, [Unused EXCEPT !.gid = h, !.at = "precheck", !.status = "active",
                              !.phase = "precheck", !.again = again])
  /\ staging' = [staging EXCEPT ![h] = TRUE]
  /\ UNCHANGED <<slots, owed, calls>>

\* addArticleSet: a GID drawn at random, so a finished one may stand for it.
AddNZB(j, h) ==
  /\ ~staging[h] /\ owed[h] = {} /\ Settled(h)
  /\ Enlist(j, h, FALSE)

\* relaunchArticleSet, into the directory of a known GID.  (Bound: what a Cancel
\* started under that GID is over, unless "relaunch" \in Races.)
RelaunchNZB(j, h) ==
  /\ "relaunch" \in Operators
  /\ Settled(h) \/ "relaunch" \in Races
  /\ Enlist(j, h, TRUE)

\* The STAT check runs on the request's context, so a Cancel does not end it.
PrecheckPasses(j) ==
  /\ jobs[j].at = "precheck"
  /\ SetJob(j, [jobs[j] EXCEPT !.at = "acquire"])
  /\ UNCHANGED <<downloads, slots, staging, owed, calls>>

\* dropPrecheckFailed: the entry goes by GID; a relaunch keeps the directory.
PrecheckRejects(j) ==
  LET h == jobs[j].gid IN
  /\ jobs[j].at = "precheck"
  /\ SetJob(j, [jobs[j] EXCEPT !.at = "ended", !.cancelled = TRUE])
  /\ downloads' = [downloads EXCEPT ![h] = NoJob]
  /\ staging' = [staging EXCEPT ![h] = @ /\ jobs[j].again]
  /\ UNCHANGED <<slots, owed, calls>>

-----------------------------------------------------------------------------
(* acquireDownloadSlot *)

\* The goroutine goes on to step at; the entry of its GID, if active, shows phase.
Shows(j, at, phase, quiet) ==
  LET shown == Found(jobs[j].gid, "active")
      moved == [jobs EXCEPT ![j].at = at] IN
  jobs' = [i \in Jobs |-> IF i \in shown
                          THEN [moved[i] EXCEPT !.phase = phase, !.quiet = quiet]
                          ELSE moved[i]]

TakesSlot(j) ==
  /\ jobs[j].at \in {"acquire", "blocked"} /\ slots < MaxConcurrentDownloads
  /\ slots' = slots + 1
  /\ Shows(j, "article", "downloading", "lately")
  /\ UNCHANGED <<downloads, staging, owed, calls>>

FindsNoSlot(j) ==
  /\ jobs[j].at = "acquire" /\ slots = MaxConcurrentDownloads
  /\ Shows(j, "blocked", "waiting", jobs[j].quiet)
  /\ UNCHANGED <<downloads, slots, staging, owed, calls>>

\* Cancelled while blocked: the goroutine returns, and tells no one.
GivesUp(j) ==
  /\ jobs[j].at = "blocked" /\ jobs[j].cancelled
  /\ SetJob(j, [jobs[j] EXCEPT !.at = "ended"])
  /\ UNCHANGED <<downloads, slots, staging, owed, calls>>

-----------------------------------------------------------------------------
(* The end of a download *)

Fire(h, outcome) == owed' = [owed EXCEPT ![h] = @ \union {outcome}]

\* fireOnError: a cancellation always tells; on a cancelled context any other
\* failure tells only if it is a transport failure.
Tells(dl, cause) == cause \in {"canceled", "transport"} \/ ~dl.cancelled

\* The goroutine returns.  Unless the job is in one of the spared statuses, it
\* is in error and onError is fired.  (Setting the status and firing are one
\* step here, as they are for whoever finds the job in error.)
Fails(j, cause, spared) ==
  LET dl == jobs[j] IN
  IF dl.status \in spared
  THEN SetJob(j, [dl EXCEPT !.at = "ended"]) /\ UNCHANGED owed
  ELSE /\ SetJob(j, [SetStatus(dl, "error", "none") EXCEPT
                       !.at = "ended", !.told = IF Tells(dl, cause) THEN @ + 1 ELSE @])
       /\ IF Tells(dl, cause) THEN Fire(dl.gid, "error") ELSE UNCHANGED owed

-----------------------------------------------------------------------------
(* downloadAll: each article waits at the gate, is fetched, and is written *)

\* gate.Wait lets the goroutine through.  (Bound: no goroutine passes between
\* the two statements of Pause, unless "pause" \in Races.)
Passes(j) ==
  /\ ~jobs[j].shut /\ ~jobs[j].cancelled
  /\ \/ "pause" \in Races
     \/ \A c \in Callers: ~(calls[c].at = "closing" /\ calls[c].job = j)

BeginsArticle(j) ==
  /\ jobs[j].at = "article" /\ Passes(j)
  /\ SetJob(j, [jobs[j] EXCEPT !.at = "fetching"])
  /\ UNCHANGED <<downloads, slots, staging, owed, calls>>

\* addCompleted; the last article of the set also frees the slot.
ArticleArrives(j) ==
  LET h == jobs[j].gid
      last == jobs[j].left = 1
      moved == [jobs EXCEPT ![j].at = IF last THEN "assembled" ELSE "article",
                            ![j].left = @ - 1] IN
  /\ jobs[j].at = "fetching"
  /\ jobs' = [i \in Jobs |-> IF downloads[h] = i THEN [moved[i] EXCEPT !.quiet = "lately"]
                             ELSE moved[i]]
  /\ slots' = IF last THEN slots - 1 ELSE slots
  /\ UNCHANGED <<downloads, staging, owed, calls>>

\* Mutant: a download already in error is told again.
FetchFailsTwice(j) ==
  /\ jobs[j].at \in Fetching
  /\ \E cause \in {"canceled", "transport", "article"}:
       /\ cause = "canceled" => jobs[j].cancelled
       /\ cause # "canceled" => jobs[j].at = "fetching"
       /\ Fails(j, IF cause = "canceled" /\ jobs[j].staleAbort THEN "transport" ELSE cause,
                {"removed", "paused"})
  /\ slots' = slots - 1
  /\ UNCHANGED <<downloads, staging, calls>>

\* Mutant: a download that was cancelled or paused returns with its slot.
FetchFailsWithSlot(j) ==
  /\ jobs[j].at \in Fetching
  /\ \E cause \in {"canceled", "transport", "article"}:
       /\ cause = "canceled" => jobs[j].cancelled
       /\ cause # "canceled" => jobs[j].at = "fetching"
       /\ Fails(j, IF cause = "canceled" /\ jobs[j].staleAbort THEN "transport" ELSE cause,
                {"removed", "paused", "error"})
  /\ slots' = IF jobs[j].status \in {"removed", "paused"} THEN slots ELSE slots - 1
  /\ UNCHANGED <<downloads, staging, calls>>

\* runDownload: an abort of the stall detection counts as a transport failure.
FetchFails(j) ==
  /\ jobs[j].at \in Fetching
  /\ \E cause \in {"canceled", "transport", "article"}:
       /\ cause = "canceled" => jobs[j].cancelled
       /\ cause # "canceled" => jobs[j].at = "fetching"
       /\ Fails(j, IF cause = "canceled" /\ jobs[j].staleAbort THEN "transport" ELSE cause,
                {"removed", "paused", "error"})
  /\ slots' = slots - 1
  /\ UNCHANGED <<downloads, staging, calls>>

-----------------------------------------------------------------------------
(* finalizeAssembled *)

RepairBegins(j) ==
  /\ jobs[j].at = "assembled" /\ Passes(j)
  /\ SetJob(j, [jobs[j] EXCEPT !.at = "repairing",
                   !.phase = IF jobs[j].status = "active" THEN "repairing" ELSE @])
  /\ UNCHANGED <<downloads, slots, staging, owed, calls>>

\* A failed repair is only a warning: the unpacking decides.
UnpackBegins(j) ==
  /\ jobs[j].at = "repairing" /\ Passes(j)
  /\ SetJob(j, [jobs[j] EXCEPT !.at = "unpacking",
                   !.phase = IF jobs[j].status = "active" THEN "unpacking" ELSE @])
  /\ UNCHANGED <<downloads, slots, staging, owed, calls>>

\* waitGateOrAbort: the cancellation is passed on as it is.
AbortsAtGate(j) ==
  /\ jobs[j].at \in {"assembled", "repairing"} /\ jobs[j].cancelled
  /\ Fails(j, "canceled", {"removed", "paused", "error"})
  /\ UNCHANGED <<downloads, slots, staging, calls>>

\* Mutant: the failure path frees the slot once more.
UnpackFailsFreeing(j) ==
  /\ jobs[j].at = "unpacking"
  /\ Fails(j, "content", {"removed", "paused"})
  /\ slots' = slots - 1
  /\ UNCHANGED <<downloads, staging, calls>>

UnpackFails(j) ==
  /\ jobs[j].at = "unpacking"
  /\ Fails(j, "content", {"removed", "paused"})
  /\ UNCHANGED <<downloads, slots, staging, calls>>

\* onComplete is fired whatever the status.
UnpackSucceeds(j) ==
  LET dl == jobs[j] IN
  /\ dl.at = "unpacking" /\ staging[dl.gid]
  /\ LET ended == [dl EXCEPT !.at = "ended", !.told = @ + 1] IN
     SetJob(j, IF dl.status \in {"removed", "paused"} THEN ended
               ELSE SetStatus(ended, "complete", "none"))
  /\ Fire(dl.gid, "complete")
  /\ UNCHANGED <<downloads, slots, staging, calls>>

-----------------------------------------------------------------------------
(* The table's entries go *)

Forget(h) ==
  /\ "relaunch" \in Operators
  /\ Found(h, "error") \union Found(h, "complete") # {}
  /\ downloads' = [downloads EXCEPT ![h] = NoJob]
  /\ UNCHANGED <<jobs, slots, staging, owed, calls>>

\* scheduleDismissComplete's timer.
DismissComplete(h) ==
  /\ Found(h, "complete") # {}
  /\ downloads' = [downloads EXCEPT ![h] = NoJob]
  /\ UNCHANGED <<jobs, slots, staging, owed, calls>>

-----------------------------------------------------------------------------
(* The poll loop *)

TimePasses(j) ==
  /\ Alive(j) /\ jobs[j].quiet = "lately"
  /\ SetJob(j, [jobs[j] EXCEPT !.quiet = "long"])
  /\ UNCHANGED <<downloads, slots, staging, owed, calls>>

\* Mutant: the stall detection does not look at the phase.
StalledInAnyPhase(dl) ==
  dl.status = "active" /\ ~dl.staleAbort

Stalled(dl) ==
  dl.status = "active" /\ dl.phase = "downloading" /\ ~dl.staleAbort

\* abortStaleDownloads; the cancel follows the unlock at once.
AbortStale(h) ==
  \E j \in Jobs:
    /\ downloads[h] = j /\ Stalled(jobs[j])
    /\ \/ jobs[j].quiet = "never" /\ SetJob(j, [jobs[j] EXCEPT !.quiet = "lately"])
       \/ /\ jobs[j].quiet = "long"
          /\ SetJob(j, [jobs[j] EXCEPT !.staleAbort = TRUE, !.cancelled = TRUE])
    /\ UNCHANGED <<downloads, slots, staging, owed, calls>>

-----------------------------------------------------------------------------
(* Cancel, Pause and Resume: one call per GID at a time, unless "calls" \in Races *)

Goes(c, at, j) == calls' = [calls EXCEPT ![c] = [at |-> at, job |-> j]]
Returns(c) == calls' = [calls EXCEPT ![c] = IdleCall]

\* The caller has looked the job of h up.
Calls(c, operator, h, j) ==
  /\ operator \in Operators
  /\ calls[c] = IdleCall
  /\ downloads[h] = j /\ j \in Jobs
  /\ \/ "calls" \in Races
     \/ \A d \in Callers: calls[d] # IdleCall => jobs[calls[d].job].gid # h

\* Mutant: the entry goes, the download's own status stays.
CancelDeletesOnly(c, h) ==
  \E j \in Jobs:
    /\ Calls(c, "cancel", h, j)
    /\ Goes(c, "cancelling", j)
    /\ downloads' = [downloads EXCEPT ![h] = NoJob]
    /\ UNCHANGED <<jobs, slots, staging, owed>>

CancelMarks(c, h) ==
  \E j \in Jobs:
    /\ Calls(c, "cancel", h, j)
    /\ Goes(c, "cancelling", j)
    /\ SetJob(j, SetStatus(jobs[j], "removed", "none"))
    /\ downloads' = [downloads EXCEPT ![h] = NoJob]
    /\ UNCHANGED <<slots, staging, owed>>

CancelStops(c) ==
  LET j == calls[c].job IN
  /\ calls[c].at = "cancelling"
  /\ Goes(c, "removing", j)
  /\ SetJob(j, [jobs[j] EXCEPT !.cancelled = TRUE])
  /\ UNCHANGED <<downloads, slots, staging, owed>>

\* deleteDownloadDir
CancelRemoves(c) ==
  /\ calls[c].at = "removing"
  /\ Returns(c)
  /\ staging' = [staging EXCEPT ![jobs[calls[c].job].gid] = FALSE]
  /\ UNCHANGED <<downloads, jobs, slots, owed>>

\* (Bound: only a download in phase "downloading", unless "pause" \in Races.)
PauseMarks(c, h) ==
  \E j \in Jobs:
    /\ Calls(c, "pause", h, j)
    /\ jobs[j].status = "active"
    /\ jobs[j].phase = "downloading" \/ "pause" \in Races
    /\ Goes(c, "closing", j)
    /\ SetJob(j, [SetStatus(jobs[j], "paused", "none") EXCEPT !.held = TRUE])
    /\ UNCHANGED <<downloads, slots, staging, owed>>

PauseCloses(c) ==
  LET j == calls[c].job IN
  /\ calls[c].at = "closing"
  /\ Returns(c)
  /\ SetJob(j, [jobs[j] EXCEPT !.shut = TRUE])
  /\ UNCHANGED <<downloads, slots, staging, owed>>

\* Resume looks at the directory with the lock released.
ResumeBegins(c, h) ==
  \E j \in Jobs:
    /\ Calls(c, "pause", h, j)
    /\ jobs[j].status = "paused"
    /\ Goes(c, IF staging[h] THEN "reviving" ELSE "losing", j)
    /\ UNCHANGED <<downloads, jobs, slots, staging, owed>>

\* Mutant: the resumed download's phase is left empty, and the stall detection
\* does not see it.
RevisitsUnseen(h, status, phase) ==
  LET found == Found(h, "paused") IN
  jobs' = [i \in Jobs |-> IF i \in found THEN SetStatus(jobs[i], status, "none")
                          ELSE jobs[i]]

\* What the GID stands for by now, if paused, goes to status and phase.
Revisits(h, status, phase) ==
  LET found == Found(h, "paused") IN
  jobs' = [i \in Jobs |-> IF i \in found THEN SetStatus(jobs[i], status, phase)
                          ELSE jobs[i]]

ResumeRevives(c) ==
  LET j == calls[c].job IN
  /\ calls[c].at = "reviving"
  /\ Goes(c, "opening", j)
  /\ Revisits(jobs[j].gid, "active", "downloading")
  /\ UNCHANGED <<downloads, slots, staging, owed>>

ResumeOpens(c) ==
  LET j == calls[c].job IN
  /\ calls[c].at = "opening"
  /\ Returns(c)
  /\ SetJob(j, [jobs[j] EXCEPT !.shut = FALSE])
  /\ UNCHANGED <<downloads, slots, staging, owed>>

ResumeLoses(c) ==
  LET j == calls[c].job IN
  /\ calls[c].at = "losing"
  /\ Goes(c, "waking", j)
  /\ Revisits(jobs[j].gid, "error", "none")
  /\ UNCHANGED <<downloads, slots, staging, owed>>

\* cancel, gate.Resume, fireOnError(baseContext, ErrStagingGone)
ResumeWakes(c) ==
  LET j == calls[c].job IN
  /\ calls[c].at = "waking"
  /\ Returns(c)
  /\ SetJob(j, [jobs[j] EXCEPT !.cancelled = TRUE, !.shut = FALSE, !.told = @ + 1])
  /\ Fire(jobs[j].gid, "error")
  /\ UNCHANGED <<downloads, slots, staging>>

-----------------------------------------------------------------------------
(* Around the engine *)

\* The directory is imported, swept or removed by hand.  (Bound: while no
\* goroutine writes to it, so of a paused or a finished download.)
Wipe(h) ==
  /\ "wipe" \in Operators /\ staging[h]
  /\ \A j \in Jobs: jobs[j].gid = h => ~Called(j) /\ (Alive(j) => jobs[j].shut)
  /\ staging' = [staging EXCEPT ![h] = FALSE]
  /\ UNCHANGED <<downloads, jobs, slots, owed, calls>>

\* A callback the engine started looks at its outcome.
Take(h) ==
  /\ \E outcome \in owed[h]: owed' = [owed EXCEPT ![h] = @ \ {outcome}]
  /\ UNCHANGED <<downloads, jobs, slots, staging, calls>>

\* The process stops: nothing but the directories is kept.
Restart ==
  /\ downloads' = [h \in Gids |-> NoJob]
  /\ jobs' = [j \in Jobs |-> Unused]
  /\ slots' = 0
  /\ owed' = [h \in Gids |-> {}]
  /\ calls' = [c \in Callers |-> IdleCall]
  /\ UNCHANGED staging

-----------------------------------------------------------------------------

Goroutine(j) ==
  \/ PrecheckPasses(j) \/ PrecheckRejects(j)
  \/ TakesSlot(j) \/ FindsNoSlot(j) \/ GivesUp(j)
  \/ BeginsArticle(j) \/ ArticleArrives(j) \/ FetchFails(j)
  \/ RepairBegins(j) \/ UnpackBegins(j) \/ AbortsAtGate(j)
  \/ UnpackFails(j) \/ UnpackSucceeds(j)

CallEnds(c) ==
  \/ CancelStops(c) \/ CancelRemoves(c) \/ PauseCloses(c)
  \/ ResumeRevives(c) \/ ResumeOpens(c) \/ ResumeLoses(c) \/ ResumeWakes(c)

CallBegins(c, h) == CancelMarks(c, h) \/ PauseMarks(c, h) \/ ResumeBegins(c, h)

Next ==
  \/ \E j \in Jobs: Goroutine(j) \/ TimePasses(j)
  \/ \E j \in Jobs, h \in Gids: AddNZB(j, h) \/ RelaunchNZB(j, h)
  \/ \E h \in Gids: Forget(h) \/ DismissComplete(h) \/ AbortStale(h) \/ Wipe(h) \/ Take(h)
  \/ \E c \in Callers: CallEnds(c)
  \/ \E c \in Callers, h \in Gids: CallBegins(c, h)
  \/ Restart

Spec == Init /\ [][Next]_vars

-----------------------------------------------------------------------------
(* Properties *)

\* Every variable has the values its declaration promises.
TypeOK ==
  /\ downloads \in [Gids -> Jobs \union {NoJob}]
  /\ jobs \in [Jobs -> Job]
  /\ slots \in Nat
  /\ staging \in [Gids -> BOOLEAN]
  /\ owed \in [Gids -> SUBSET {"error", "complete"}]
  /\ calls \in [Callers -> [at: CallStep, job: Jobs \union {NoJob}]]

\* The semaphore counts the goroutines that fetch bodies, paused or cancelled
\* ones included: no path out of runDownload leaks a slot or frees one twice
\* (the explicit release after the last article and the one on every failure).
SlotsAreHeld ==
  /\ slots = Cardinality({j \in Jobs: jobs[j].at \in Fetching})
  /\ slots <= MaxConcurrentDownloads

\* No outcome of a download is announced twice, whichever of the goroutine, the
\* stall detection, Cancel and a Resume that finds the directory gone gets to end
\* it: a second one would park or import the grab again.
ToldOnce == \A j \in Jobs: jobs[j].told <= 1

\* A download nobody has paused does not stay "active" in the table once its
\* goroutine has gone: what the stall detection cancels also ends in the table.
UnpausedJobRuns ==
  \A j \in Jobs: InTable(j) /\ jobs[j].status = "active" /\ ~jobs[j].held => Alive(j)

\* api/downloads.go and pause.go: a paused download "keeps the goroutine alive",
\* so a Resume finds one to wake.
QueuedJobRuns ==
  \A j \in Jobs: InTable(j) /\ jobs[j].status \in {"active", "paused"} => Alive(j)

\* Servers that fall silent are noticed: a download that fetches is paused,
\* cancelled, in the hands of a call, or watched by the stall detection, whatever
\* calls came before.  Else it would keep its slot, and the queue, for good.
SilenceIsNoticed ==
  \A j \in Jobs: jobs[j].at \in Fetching =>
    \/ jobs[j].shut \/ jobs[j].cancelled \/ Called(j)
    \/ downloads[jobs[j].gid] = j /\ Stalled(jobs[j])

\* What FindByGID reports of a GID, to the precision the pipeline uses it.
Reported(h) ==
  IF downloads[h] = NoJob THEN "none"
  ELSE LET dl == jobs[downloads[h]] IN
       CASE dl.status \in {"active", "paused"} ->
              IF dl.at = "precheck" THEN "precheck" ELSE "active"
         [] dl.status = "complete" -> "complete"
         [] OTHER -> "failed"

\* Cancelled, but past the last look at its context: it may still complete.
MayComplete(j) ==
  Alive(j) /\ jobs[j].status = "removed" /\ (jobs[j].cancelled => jobs[j].at = "unpacking")

\* The outcomes fired, about to be fired by a Resume, or possible of a download
\* the table has lost.
Due(h) ==
  owed[h]
    \union {o \in {"error"}: \E c \in Callers: calls[c].at = "waking"
                                               /\ jobs[calls[c].job].gid = h}
    \union {o \in {"complete"}: \E j \in Jobs: MayComplete(j) /\ jobs[j].gid = h}

reported == [h \in Gids |-> Reported(h)]
due == [h \in Gids |-> Due(h)]

Contract == INSTANCE DownloadEngine WITH job <- reported, owed <- due

\* The engine keeps the contract the grab pipeline is checked against: one live
\* download per GID, one outcome per download, none of one that never ran.
ContractKept == Contract!Spec

=============================================================================
