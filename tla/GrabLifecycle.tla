--------------------------- MODULE GrabLifecycle ---------------------------
(***************************************************************************)
(* The life of a grab: the row in the grabs table, the usenet job that      *)
(* downloads it, and the actors that move it, each at its own pace:         *)
(*                                                                         *)
(*   "retry"    RunUsenetRetry, the daily loop                              *)
(*   "drain"    RunAutoGrabDrain, the minute loop                           *)
(*   "boot"     the reconcile, resume and hygiene that run once at startup  *)
(*   "request"  an HTTP request or monitor creating a row and dispatching it*)
(*   "operator" un-monitoring, and the Calendar re-click                    *)
(*                                                                         *)
(* A loop works in passes.  A pass lists the rows it selects, then handles  *)
(* them one by one with the values it listed, while others write the rows.  *)
(* The engine's callbacks look a row up by GID and write it later.          *)
(*                                                                         *)
(* Every row carries a usenet GID or none; auto-grab is enabled.            *)
(***************************************************************************)
EXTENDS GrabStore, Sequences

CONSTANTS
  Grabs,        \* rows the table may come to hold
  NoGrab,
  Movies,       \* rows of films: the release gate may hold them
  SearchPicks,  \* rows requested by clicking a release in the search results
  Loops,        \* which of "retry" and "drain" the settings turn on
  Failure,      \* how downloads fail, of "transport" (a dropped connection),
                \* "content" (unusable), "removed" (a 451 takedown), "other"
  Operators,    \* what the operator does: "promote", "unmonitor", "calendar",
                \* "cancel"
  MaxRestarts,  \* bound: restarts of the process
  EarlyRequests \* bound: whether requests arrive while startup still runs

ASSUME NoGrabAssumption == NoGrab \notin Grabs
ASSUME LoopsAssumption == Loops \subseteq {"retry", "drain"}
ASSUME FailureAssumption == Failure \subseteq {"transport", "content", "removed", "other"}
ASSUME MaxRestartsAssumption == MaxRestarts \in Nat
ASSUME EarlyRequestsAssumption == EarlyRequests \in BOOLEAN

VARIABLES
  rows,      \* the grabs table
  job,       \* the engine: what each GID's download is doing
  staging,   \* what each GID's staging directory holds
  callback,  \* the engine's callback under way for each GID
  workers,   \* where each worker is
  owner,     \* history: the row each GID was minted for
  restarts

vars == <<rows, job, staging, callback, workers, owner, restarts>>
engine == <<job, staging, callback, owner>>

Drivers == Loops \union {"boot"}
Workers == Drivers \union {"request", "operator"}

Live == {"precheck", "active"}
JobState == {"none", "complete"} \union Live \union Failure
StagingState == {"none", "partial", "ready"}

\* A row as a pass or a callback read it.
Snapshots == [row: Grabs, gid: Gids \union {NoGid}, transport: Nat]
NoSnapshot == [row |-> NoGrab, gid |-> NoGid, transport |-> 0]
Snapshot(g) == [row |-> g, gid |-> rows[g].gid, transport |-> rows[g].transport]

CallbackState == {"none", "error", "complete", "apply", "import"}
NoCallback == [state |-> "none", err |-> "none", snap |-> NoSnapshot]

Passes == {"idle", "start", "reconcile", "resume", "sweep", "retry", "picks",
           "alternates", "refresh", "release", "hygiene", "done"}
Steps == {"next", "importing", "restoring", "resuming", "rearm", "precheck",
          "record", "picked", "alternate", "origin", "gid", "failing",
          "unmonitor", "hold", "re-arm"}
Idle == [pass |-> "idle", at |-> "next", todo |-> {}, cur |-> NoSnapshot]

Init ==
  /\ rows = [g \in Grabs |-> NoRow]
  /\ job = [h \in Gids |-> "none"]
  /\ staging = [h \in Gids |-> "none"]
  /\ callback = [h \in Gids |-> NoCallback]
  /\ workers = [w \in Workers |->
                  IF w = "boot" THEN [Idle EXCEPT !.pass = "done"] ELSE Idle]
  /\ owner = [h \in Gids |-> NoGrab]
  /\ restarts = 0

-----------------------------------------------------------------------------
(* Bookkeeping shared by the actions *)

Write(g, row) == rows' = [rows EXCEPT ![g] = row]

\* Worker w is done with s, the rest of its list still ahead.
Finish(w, s) ==
  workers' = [workers EXCEPT ![w].todo = @ \ {s}, ![w].at = "next",
                             ![w].cur = NoSnapshot]

\* Worker w goes on with s at a later step, holding cur for it.
ContinueAs(w, s, at, cur) ==
  workers' = [workers EXCEPT ![w].todo = @ \ {s}, ![w].at = at, ![w].cur = cur]
Continue(w, s, at) == ContinueAs(w, s, at, s)

\* s is a row worker w may take up next in pass p.
Takes(w, p, s) ==
  workers[w].pass = p /\ workers[w].at = "next" /\ s \in workers[w].todo

At(w, at) == workers[w].at = at

\* Mutant: GIDs are counted from one again, whatever the table still names.
NotRunning(h) == callback[h].state = "none" /\ job[h] \notin Live

\* A GID nothing refers to: the engine draws them at random, so a finished
\* one may stand for a new one.
Fresh(h) ==
  /\ \A g \in Grabs: rows[g].gid # h
  /\ \A w \in Workers: /\ workers[w].cur.gid # h
                       /\ \A s \in workers[w].todo: s.gid # h
  /\ callback[h].state = "none"
  /\ job[h] \notin Live

\* AddNZB: a new job, in its precheck, with a new staging directory.
AddNZB(h, g) ==
  /\ Fresh(h)
  /\ job' = [job EXCEPT ![h] = "precheck"]
  /\ staging' = [staging EXCEPT ![h] = "partial"]
  /\ owner' = [owner EXCEPT ![h] = g]
  /\ UNCHANGED callback

\* RelaunchNZB into a known GID's directory; a no-op on a GID in the engine.
RelaunchNZB(h) ==
  /\ job' = [job EXCEPT ![h] = "precheck"]
  /\ staging' = [staging EXCEPT ![h] = IF @ = "none" THEN "partial" ELSE @]
  /\ UNCHANGED <<callback, owner>>

\* Mutant: a job cancelled in its precheck starts all the same.
StartCancelled(h) ==
  /\ job' = [job EXCEPT ![h] = "active"]
  /\ UNCHANGED <<staging, callback, owner>>

\* The precheck passed: the goroutine starts, unless the job was cancelled.
StartDownload(h) ==
  /\ job' = [job EXCEPT ![h] = IF @ = "precheck" THEN "active" ELSE @]
  /\ UNCHANGED <<staging, callback, owner>>

\* Mutant: a job its precheck rejected stays in the queue.
DropUnlessPrecheck(h) ==
  job' = [job EXCEPT ![h] = IF @ = "precheck" THEN @ ELSE "none"]

DropJob(h) == job' = [job EXCEPT ![h] = "none"]

SomeDownloadRuns == \E h \in Gids: job[h] \in Live

-----------------------------------------------------------------------------
(* What a failed download does to its row *)

\* Mutant: one rung too many.
RungLeftInclusive(s) == s.transport <= MaxTransportRetries

\* The transport ladder has a rung left, going by the row as it was read.
RungLeft(s) == s.transport < MaxTransportRetries

\* parkUsenetContentFailure: another release, this one forgotten and wiped.
ParkContentFailure(s) ==
  /\ Write(s.row, ParkForAlternateRelease(rows[s.row]))
  /\ job' = [job EXCEPT ![s.gid] = IF @ \in Live THEN @ ELSE "none"]
  /\ staging' = [staging EXCEPT ![s.gid] = "none"]

\* applyUsenetFailure, with the row as its caller read it.
ApplyFailure(s, err) ==
  \/ /\ err = "removed"
     /\ Write(s.row, UpdateStatus(rows[s.row], "failed"))
     /\ UNCHANGED <<job, staging>>
  \/ /\ err = "transport" /\ RungLeft(s)
     /\ Write(s.row, ParkForTransportResume(rows[s.row]))
     /\ UNCHANGED <<job, staging>>
  \/ /\ \/ err = "content"
        \/ err = "transport" /\ ~RungLeft(s)
     /\ ParkContentFailure(s)
  \/ /\ err = "other"
     /\ Write(s.row, SetPendingRetry(rows[s.row]))
     /\ UNCHANGED <<job, staging>>

-----------------------------------------------------------------------------
(* Passes *)

\* Mutant: downloads in flight are never reconciled.
CycleWithoutReconcile ==
  [boot  |-> <<"start", "resume", "hygiene", "done">>,
   retry |-> <<"idle", "resume", "sweep", "retry", "refresh", "release",
               "hygiene", "idle">>,
   drain |-> <<"idle", "picks", "resume", "alternates", "idle">>]

\* Mutant: nothing releases the requests held for a date.
CycleWithoutRelease ==
  [boot  |-> <<"start", "reconcile", "resume", "hygiene", "done">>,
   retry |-> <<"idle", "reconcile", "resume", "sweep", "retry", "refresh",
               "hygiene", "idle">>,
   drain |-> <<"idle", "picks", "resume", "alternates", "idle">>]

Cycle ==
  [boot  |-> <<"start", "reconcile", "resume", "hygiene", "done">>,
   retry |-> <<"idle", "reconcile", "resume", "sweep", "retry", "refresh",
               "release", "hygiene", "idle">>,
   drain |-> <<"idle", "picks", "resume", "alternates", "idle">>]

\* The rows a pass lists.
Selects(pass, g) ==
  \/ pass \in {"reconcile", "sweep"} /\ InFlight(rows[g])
  \/ pass = "resume" /\ DueForResume(rows[g])
  \/ pass = "retry" /\ DueForRetry(rows[g])
  \/ pass = "picks" /\ DueForRetry(rows[g]) /\ rows[g].pick
  \/ pass = "alternates" /\ DueForRetry(rows[g]) /\ rows[g].tried
                         /\ ~rows[g].pick
  \/ pass = "refresh" /\ Held(rows[g])
  \/ pass = "release" /\ DueForRelease(rows[g])
  \/ pass = "hygiene" /\ rows[g].status = "pending_retry"
                      /\ rows[g].gid # NoGid /\ rows[g].retryAfter = "due"

Selected(pass) == {g \in Grabs: Selects(pass, g)}

\* The next pass lists its rows.  A pass that selects none changes nothing, so
\* the worker goes straight to the next one that does, or to the end of its
\* cycle.  The loops start once boot is done.
ListPass(w) ==
  /\ w \in Drivers
  /\ At(w, "next") /\ workers[w].todo = {} /\ workers[w].pass # "done"
  /\ w = "boot" \/ workers["boot"].pass = "done"
  /\ \E i, j \in DOMAIN Cycle[w]:
       /\ i < j /\ Cycle[w][i] = workers[w].pass
       /\ \A k \in i+1 .. j-1: Selected(Cycle[w][k]) = {}
       /\ j = Len(Cycle[w]) \/ Selected(Cycle[w][j]) # {}
       /\ j = Len(Cycle[w]) => Cycle[w][j] # workers[w].pass
       /\ workers' = [workers EXCEPT
            ![w].pass = Cycle[w][j],
            ![w].todo = {Snapshot(g): g \in Selected(Cycle[w][j])}]
  /\ UNCHANGED <<rows, engine, restarts>>

\* No download slot is free: the rest of the list waits for the next tick.
\* (Reconcile defers the rows one by one instead.)
NoFreeSlot(w) ==
  /\ workers[w].pass \in {"resume", "alternates"} /\ At(w, "next")
  /\ workers[w].todo # {}
  /\ SomeDownloadRuns
  /\ workers' = [workers EXCEPT ![w].todo = {}]
  /\ UNCHANGED <<rows, engine, restarts>>

-----------------------------------------------------------------------------
(* reconcileUsenetInFlight: a queued row whose GID the engine does not know *)

ReconcileSkips(w, s) ==
  /\ Takes(w, "reconcile", s)
  /\ job[s.gid] # "none" \/ (staging[s.gid] # "ready" /\ SomeDownloadRuns)
  /\ Finish(w, s)
  /\ UNCHANGED <<rows, engine, restarts>>

ReconcileFindsHollow(w, s) ==
  /\ Takes(w, "reconcile", s)
  /\ job[s.gid] = "none" /\ staging[s.gid] = "partial"
  /\ ParkContentFailure(s)
  /\ Finish(w, s)
  /\ UNCHANGED <<callback, owner, restarts>>

ReconcileStartsImport(w, s) ==
  /\ Takes(w, "reconcile", s)
  /\ job[s.gid] = "none" /\ staging[s.gid] = "ready"
  /\ Continue(w, s, "importing")
  /\ UNCHANGED <<rows, engine, restarts>>

\* The import succeeds, finds the content unusable, finds the library not
\* writable, or fails otherwise; then the NZB's URL is dead, or the download
\* starts over.
ReconcileImports(w) ==
  LET s == workers[w].cur IN
  /\ At(w, "importing")
  /\ \/ /\ Write(s.row, MarkImportedIfNot(rows[s.row]))
        /\ staging' = [staging EXCEPT ![s.gid] = "none"]
        /\ Finish(w, s)
        /\ UNCHANGED job
     \/ /\ ParkContentFailure(s)
        /\ Finish(w, s)
     \/ /\ Finish(w, s)
        /\ UNCHANGED <<rows, job, staging>>
     \/ /\ Write(s.row, SetPendingRetry(rows[s.row]))
        /\ Finish(w, s)
        /\ UNCHANGED <<job, staging>>
     \/ /\ job[s.gid] = "none"
        /\ RelaunchNZB(s.gid)
        /\ Continue(w, s, "restoring")
        /\ UNCHANGED rows
  /\ UNCHANGED <<callback, owner, restarts>>

ReconcileRelaunches(w, s) ==
  /\ Takes(w, "reconcile", s)
  /\ job[s.gid] = "none" /\ staging[s.gid] # "ready"
  /\ RelaunchNZB(s.gid)
  /\ Continue(w, s, "restoring")
  /\ UNCHANGED <<rows, restarts>>

\* The NZB cannot be fetched: parked when the indexer refuses it for good,
\* left for the next tick otherwise.
ReconcileFetchFails(w, s) ==
  /\ Takes(w, "reconcile", s)
  /\ job[s.gid] = "none" /\ staging[s.gid] # "ready"
  /\ \/ Write(s.row, SetPendingRetry(rows[s.row]))
     \/ UNCHANGED rows
  /\ Finish(w, s)
  /\ UNCHANGED <<engine, restarts>>

Restored(w) ==
  /\ At(w, "restoring")
  /\ StartDownload(workers[w].cur.gid)
  /\ Finish(w, workers[w].cur)
  /\ UNCHANGED <<rows, restarts>>

RestoreRejected(w) ==
  LET s == workers[w].cur IN
  /\ At(w, "restoring")
  /\ DropJob(s.gid)
  /\ Write(s.row, SetPendingRetry(rows[s.row])) \/ UNCHANGED rows
  /\ Finish(w, s)
  /\ UNCHANGED <<staging, callback, owner, restarts>>

Reconcile(w) ==
  \/ \E s \in workers[w].todo:
       \/ ReconcileSkips(w, s) \/ ReconcileFindsHollow(w, s)
       \/ ReconcileStartsImport(w, s) \/ ReconcileRelaunches(w, s)
       \/ ReconcileFetchFails(w, s)
  \/ ReconcileImports(w) \/ Restored(w) \/ RestoreRejected(w)

-----------------------------------------------------------------------------
(* resumeDueTransportRetries: the same GID, its staging kept *)

\* Out of rungs, the row joins the days ladder; the rung is the one listed.
ParkNextRung(s) ==
  Write(s.row, IF RungLeft(s)
               THEN ParkForTransportResume(rows[s.row])
               ELSE SetPendingRetry(rows[s.row]))

ResumeFindsLive(w, s) ==
  /\ Takes(w, "resume", s)
  /\ job[s.gid] \in Live
  /\ Write(s.row, Relaunch(rows[s.row], s.gid))
  /\ Finish(w, s)
  /\ UNCHANGED <<engine, restarts>>

\* The finished job is forgotten and its GID relaunched.
ResumeRelaunches(w, s) ==
  /\ Takes(w, "resume", s)
  /\ job[s.gid] \notin Live
  /\ RelaunchNZB(s.gid)
  /\ Continue(w, s, "resuming")
  /\ UNCHANGED <<rows, restarts>>

ResumeFetchFails(w, s) ==
  /\ Takes(w, "resume", s)
  /\ job[s.gid] \notin Live
  /\ DropJob(s.gid)
  /\ ParkNextRung(s)
  /\ Finish(w, s)
  /\ UNCHANGED <<staging, callback, owner, restarts>>

Resumed(w) ==
  /\ At(w, "resuming")
  /\ StartDownload(workers[w].cur.gid)
  /\ Continue(w, workers[w].cur, "rearm")
  /\ UNCHANGED <<rows, restarts>>

\* The precheck rejects the release, or fails for another reason.
ResumeRejected(w) ==
  LET s == workers[w].cur IN
  /\ At(w, "resuming")
  /\ DropJob(s.gid)
  /\ Write(s.row, SetPendingRetry(rows[s.row])) \/ ParkNextRung(s)
  /\ Finish(w, s)
  /\ UNCHANGED <<staging, callback, owner, restarts>>

Rearm(w) ==
  LET s == workers[w].cur IN
  /\ At(w, "rearm")
  /\ Write(s.row, Relaunch(rows[s.row], s.gid))
  /\ Finish(w, s)
  /\ UNCHANGED <<engine, restarts>>

Resume(w) ==
  \/ \E s \in workers[w].todo:
       \/ ResumeFindsLive(w, s) \/ ResumeRelaunches(w, s)
       \/ ResumeFetchFails(w, s)
  \/ Resumed(w) \/ ResumeRejected(w) \/ Rearm(w)

-----------------------------------------------------------------------------
(* sweepUsenetFailures *)

Sweep(w, s) ==
  /\ Takes(w, "sweep", s)
  /\ IF job[s.gid] \in Failure
     THEN ApplyFailure(s, job[s.gid])
     ELSE UNCHANGED <<rows, job, staging>>
  /\ Finish(w, s)
  /\ UNCHANGED <<callback, owner, restarts>>

-----------------------------------------------------------------------------
(* RunAutoGrab for an existing row, from three passes *)

SearchPasses == {"retry", "alternates", "release"}

GateBlocks(w, s) ==
  /\ workers[w].pass \in SearchPasses /\ Takes(w, workers[w].pass, s)
  /\ s.row \in Movies
  /\ \E until \in {"later", "never"}:
       Write(s.row, HoldForRelease(rows[s.row], until))
  /\ Finish(w, s)
  /\ UNCHANGED <<engine, restarts>>

\* Nothing qualifies, or the search itself fails; a failure also ends the
\* alternate-release pass.
SearchParks(w, s) ==
  /\ workers[w].pass \in SearchPasses /\ Takes(w, workers[w].pass, s)
  /\ Write(s.row, SetPendingRetry(rows[s.row]))
  /\ \/ Finish(w, s)
     \/ /\ workers[w].pass = "alternates"
        /\ workers' = [workers EXCEPT ![w].todo = {}]
  /\ UNCHANGED <<engine, restarts>>

SearchDispatches(w, s) ==
  /\ workers[w].pass \in SearchPasses \union {"picks"}
  /\ Takes(w, workers[w].pass, s)
  /\ \E h \in Gids:
       /\ AddNZB(h, s.row)
       /\ ContinueAs(w, s, "precheck", [s EXCEPT !.gid = h])
  /\ UNCHANGED <<rows, restarts>>

DispatchPrechecked(w) ==
  /\ At(w, "precheck")
  /\ StartDownload(workers[w].cur.gid)
  /\ Continue(w, workers[w].cur, "record")
  /\ UNCHANGED <<rows, restarts>>

\* Every candidate was rejected.  (Going on to the next candidate is the same
\* state with another fresh GID.)  redispatchSearchPicks leaves the row as it is.
DispatchRejected(w) ==
  LET s == workers[w].cur IN
  /\ At(w, "precheck")
  /\ DropJob(s.gid)
  /\ staging' = [staging EXCEPT ![s.gid] = "none"]
  /\ IF workers[w].pass = "picks"
     THEN UNCHANGED rows
     ELSE Write(s.row, SetPendingRetry(rows[s.row]))
  /\ Finish(w, s)
  /\ UNCHANGED <<callback, owner, restarts>>

RecordDispatch(w) ==
  LET s == workers[w].cur IN
  /\ workers[w].pass # "picks" /\ At(w, "record")
  /\ Write(s.row, Relaunch(rows[s.row], s.gid))
  /\ Finish(w, s)
  /\ UNCHANGED <<engine, restarts>>

\* redispatchSearchPicks: AddNZB on the clicked URL can fail at once, and the
\* row is then due again; a success is recorded in two statements.
PickFetchFails(w, s) ==
  /\ Takes(w, "picks", s)
  /\ Finish(w, s)
  /\ UNCHANGED <<rows, engine, restarts>>

PickSetsGid(w) ==
  LET s == workers[w].cur IN
  /\ workers[w].pass = "picks" /\ At(w, "record")
  /\ Write(s.row, SetDownloadGID(rows[s.row], s.gid))
  /\ Continue(w, s, "picked")
  /\ UNCHANGED <<engine, restarts>>

PickQueues(w) ==
  LET s == workers[w].cur IN
  /\ At(w, "picked")
  /\ Write(s.row, UpdateStatus(rows[s.row], "queued"))
  /\ Finish(w, s)
  /\ UNCHANGED <<engine, restarts>>

AutoGrab(w) ==
  \/ \E s \in workers[w].todo:
       \/ GateBlocks(w, s) \/ SearchParks(w, s) \/ SearchDispatches(w, s)
       \/ PickFetchFails(w, s)
  \/ DispatchPrechecked(w) \/ DispatchRejected(w) \/ RecordDispatch(w)
  \/ PickSetsGid(w) \/ PickQueues(w)

-----------------------------------------------------------------------------
(* releaseDueGrabs and runParkHygiene *)

\* refreshPreReleaseHolds: TMDB's present answer, or the row left as it is.
RefreshHold(w, s) ==
  /\ Takes(w, "refresh", s)
  /\ \/ \E until \in {"later", "never", "due"}:
          Write(s.row, SetHoldUntil(rows[s.row], until))
     \/ UNCHANGED rows
  /\ Finish(w, s)
  /\ UNCHANGED <<engine, restarts>>

\* terminateSupersededRequest: the film was obtained another way.  Two writes,
\* as when a title is un-monitored.
Supersede(w, s) ==
  /\ Takes(w, "release", s)
  /\ Write(s.row, SetRetryAfter(rows[s.row], "due"))
  /\ Continue(w, s, "failing")
  /\ UNCHANGED <<engine, restarts>>

Terminate(w) ==
  LET s == workers[w].cur IN
  /\ At(w, "failing")
  /\ Write(s.row, UpdateStatus(rows[s.row], "failed"))
  /\ Finish(w, s)
  /\ UNCHANGED <<engine, restarts>>

\* A transport park overdue by six hours joins the days ladder.
Hygiene(w, s) ==
  /\ Takes(w, "hygiene", s)
  /\ Write(s.row, SetPendingRetry(rows[s.row])) \/ UNCHANGED rows
  /\ Finish(w, s)
  /\ UNCHANGED <<engine, restarts>>

Schedule(w) ==
  \/ \E s \in workers[w].todo:
       Sweep(w, s) \/ RefreshHold(w, s) \/ Supersede(w, s) \/ Hygiene(w, s)
  \/ Terminate(w)

-----------------------------------------------------------------------------
(* A new row: grabHandler for a search pick, RunAutoGrab otherwise *)

RequestDispatches(g, h) ==
  /\ At("request", "next") /\ rows[g].status = "absent"
  /\ AddNZB(h, g)
  /\ Continue("request", [NoSnapshot EXCEPT !.row = g, !.gid = h], "precheck")
  /\ UNCHANGED <<rows, restarts>>

RequestFindsNothing(g) ==
  /\ At("request", "next") /\ rows[g].status = "absent" /\ g \notin SearchPicks
  /\ Write(g, CreatePendingRetry)
  /\ UNCHANGED <<engine, workers, restarts>>

RequestPrechecked ==
  LET s == workers["request"].cur IN
  /\ At("request", "precheck")
  /\ StartDownload(s.gid)
  /\ Continue("request", s, "record")
  /\ UNCHANGED <<rows, restarts>>

\* A clicked release the precheck rejects is recorded all the same, as a row
\* to find an alternate for.
RequestRejected ==
  LET s == workers["request"].cur IN
  /\ At("request", "precheck")
  /\ DropJob(s.gid)
  /\ staging' = [staging EXCEPT ![s.gid] = "none"]
  /\ IF s.row \in SearchPicks
     THEN Write(s.row, CreateQueued) /\ Continue("request", s, "alternate")
     ELSE Write(s.row, CreatePendingRetry) /\ Finish("request", s)
  /\ UNCHANGED <<callback, owner, restarts>>

RequestParks ==
  LET s == workers["request"].cur IN
  /\ At("request", "alternate")
  /\ Write(s.row, ParkForAlternateRelease(rows[s.row]))
  /\ Finish("request", s)
  /\ UNCHANGED <<engine, restarts>>

RequestCreates ==
  LET s == workers["request"].cur IN
  /\ At("request", "record")
  /\ Write(s.row, CreateQueued)
  /\ Continue("request", s, IF s.row \in SearchPicks THEN "origin" ELSE "gid")
  /\ UNCHANGED <<engine, restarts>>

RequestSetsOrigin ==
  LET s == workers["request"].cur IN
  /\ At("request", "origin")
  /\ Write(s.row, SetOrigin(rows[s.row]))
  /\ Continue("request", s, "gid")
  /\ UNCHANGED <<engine, restarts>>

RequestSetsGid ==
  LET s == workers["request"].cur IN
  /\ At("request", "gid")
  /\ Write(s.row, SetDownloadGID(rows[s.row], s.gid))
  /\ Finish("request", s)
  /\ UNCHANGED <<engine, restarts>>

\* The server listens before the startup passes are over.
NewRequest ==
  /\ EarlyRequests \/ workers["boot"].pass = "done"
  /\ \E g \in Grabs: RequestFindsNothing(g) \/ \E h \in Gids: RequestDispatches(g, h)

\* What the request does once begun.
RequestGoesOn ==
  \/ RequestPrechecked \/ RequestRejected \/ RequestParks
  \/ RequestCreates \/ RequestSetsOrigin \/ RequestSetsGid

-----------------------------------------------------------------------------
(* The engine *)

Finished(h, state, cb) ==
  /\ job[h] = "active" /\ callback[h].state = "none"
  /\ job' = [job EXCEPT ![h] = state]
  /\ callback' = [callback EXCEPT ![h] = cb]

\* The callback is not fired for a plain failure whose context the stall
\* detection has just cancelled: the sweep must find such a download.
DownloadFails(h) ==
  /\ \E err \in Failure:
       \/ Finished(h, err, [NoCallback EXCEPT !.state = "error", !.err = err])
       \/ err # "transport" /\ Finished(h, err, NoCallback)
  /\ UNCHANGED <<rows, staging, workers, owner, restarts>>

DownloadCompletes(h) ==
  /\ staging[h] # "none"
  /\ Finished(h, "complete", [NoCallback EXCEPT !.state = "complete"])
  /\ staging' = [staging EXCEPT ![h] = "ready"]
  /\ UNCHANGED <<rows, workers, owner, restarts>>

\* scheduleDismissComplete: the list drops a completed job.
DismissComplete(h) ==
  /\ job[h] = "complete"
  /\ DropJob(h)
  /\ UNCHANGED <<rows, staging, callback, workers, owner, restarts>>

SetCallback(h, cb) == callback' = [callback EXCEPT ![h] = cb]

\* handleUsenetError reads the row by GID, and goes on if it is in flight.
ErrorLooksUp(h) ==
  LET found == {g \in Grabs: rows[g].gid = h /\ rows[g].status = "queued"} IN
  /\ callback[h].state = "error"
  /\ \/ found = {} /\ SetCallback(h, NoCallback)
     \/ \E g \in found:
          SetCallback(h, [callback[h] EXCEPT !.state = "apply", !.snap = Snapshot(g)])
  /\ UNCHANGED <<rows, job, staging, workers, owner, restarts>>

ErrorApplies(h) ==
  /\ callback[h].state = "apply"
  /\ ApplyFailure(callback[h].snap, callback[h].err)
  /\ SetCallback(h, NoCallback)
  /\ UNCHANGED <<workers, owner, restarts>>

\* UsenetCompleteImporter reads the row by GID, imports, then writes it.
CompleteLooksUp(h) ==
  LET found == {g \in Grabs: rows[g].gid = h /\ rows[g].status # "imported"} IN
  /\ callback[h].state = "complete"
  /\ \/ found = {} /\ SetCallback(h, NoCallback)
     \/ \E g \in found:
          SetCallback(h, [callback[h] EXCEPT !.state = "import", !.snap = Snapshot(g)])
  /\ UNCHANGED <<rows, job, staging, workers, owner, restarts>>

\* An import moves a film into the library, so it outlasts the instant between
\* starting a download and the next statement, which records it (a bound).
BeingRecorded(h) ==
  \E w \in Workers: workers[w].at \in {"rearm", "picked"} /\ workers[w].cur.gid = h

CompleteImports(h) ==
  LET s == callback[h].snap IN
  /\ callback[h].state = "import" /\ ~BeingRecorded(h)
  /\ \/ /\ Write(s.row, MarkImportedIfNot(rows[s.row]))
        /\ staging' = [staging EXCEPT ![h] = "none"]
        /\ UNCHANGED job
     \/ ParkContentFailure(s)
     \/ UNCHANGED <<rows, job, staging>>
  /\ SetCallback(h, NoCallback)
  /\ UNCHANGED <<workers, owner, restarts>>

Callback(h) ==
  ErrorLooksUp(h) \/ ErrorApplies(h) \/ CompleteLooksUp(h) \/ CompleteImports(h)

Engine(h) == DownloadFails(h) \/ DownloadCompletes(h) \/ DismissComplete(h)

-----------------------------------------------------------------------------
(* The operator *)

Promote(g) ==
  /\ "promote" \in Operators
  /\ rows[g].status \in {"queued", "pending_retry"}
  /\ Write(g, PromoteToFront(rows[g]))
  /\ UNCHANGED <<engine, workers, restarts>>

\* Mutant: the files go, the job stays.
CancelFiles(h) ==
  /\ "cancel" \in Operators
  /\ job[h] # "none"
  /\ staging' = [staging EXCEPT ![h] = "none"]
  /\ UNCHANGED <<rows, job, callback, workers, owner, restarts>>

\* Cancel on the downloads page: the engine forgets the job and deletes its
\* directory; the row is not touched.  A job cancelled as it finishes unpacking
\* still announces its completion.
Cancel(h) ==
  /\ "cancel" \in Operators
  /\ job[h] # "none"
  /\ DropJob(h)
  /\ staging' = [staging EXCEPT ![h] = "none"]
  /\ \/ UNCHANGED callback
     \/ /\ job[h] = "active" /\ callback[h].state = "none"
        /\ SetCallback(h, [NoCallback EXCEPT !.state = "complete"])
  /\ UNCHANGED <<rows, workers, owner, restarts>>

\* cancelMonitorRetries: rows parked before any release was ever dispatched.
Unmonitor(g) ==
  /\ "unmonitor" \in Operators /\ At("operator", "next")
  /\ rows[g].status = "pending_retry" /\ ~rows[g].url
  /\ Continue("operator", Snapshot(g), "unmonitor")
  /\ UNCHANGED <<rows, engine, restarts>>

UnmonitorSchedules ==
  LET s == workers["operator"].cur IN
  /\ At("operator", "unmonitor")
  /\ Write(s.row, SetRetryAfter(rows[s.row], "due"))
  /\ Continue("operator", s, "failing")
  /\ UNCHANGED <<engine, restarts>>

\* preReleaseRequestHandler: a first click creates a held row, a later one
\* re-arms a failed row or moves the date of any other.
CalendarCreates(g) ==
  /\ "calendar" \in Operators /\ g \in Movies /\ rows[g].status = "absent"
  /\ workers["request"].cur.row # g
  /\ \E until \in {"later", "never"}: Write(g, CreateHeld(until))
  /\ UNCHANGED <<engine, workers, restarts>>

CalendarFinds(g) ==
  /\ "calendar" \in Operators /\ At("operator", "next")
  /\ rows[g].hold # "none"
  /\ Continue("operator", Snapshot(g),
              IF rows[g].status = "failed" THEN "re-arm" ELSE "hold")
  /\ UNCHANGED <<rows, engine, restarts>>

CalendarWrites ==
  LET s == workers["operator"].cur IN
  /\ \E until \in {"later", "never", "due"}:
       \/ At("operator", "re-arm") /\ Write(s.row, RearmHeldRequest(rows[s.row], until))
       \/ At("operator", "hold") /\ Write(s.row, SetHoldUntil(rows[s.row], until))
  /\ Finish("operator", s)
  /\ UNCHANGED <<engine, restarts>>

OperatorBegins ==
  \/ \E g \in Grabs: \/ Promote(g) \/ Unmonitor(g)
                     \/ CalendarCreates(g) \/ CalendarFinds(g)
  \/ \E h \in Gids: Cancel(h)

OperatorGoesOn == UnmonitorSchedules \/ Terminate("operator") \/ CalendarWrites

-----------------------------------------------------------------------------
(* Time and restarts *)

\* A wait runs out.  The shortest is two minutes, so an error callback, which
\* is two statements, is over by then; an import may still be under way.
Tick(g) ==
  /\ \A h \in Gids: callback[h].state \notin {"error", "apply"}
  /\ \/ /\ rows[g].retryAfter = "later"
        /\ Write(g, [rows[g] EXCEPT !.retryAfter = "due"])
     \/ /\ rows[g].hold = "later"
        /\ Write(g, [rows[g] EXCEPT !.hold = "due"])
  /\ UNCHANGED <<engine, workers, restarts>>

\* The process stops and starts again.  The cancelled downloads whose callback
\* still runs park their rows for resume; a killed process parks none.
Restart ==
  /\ restarts < MaxRestarts
  /\ \E parked \in SUBSET {g \in Grabs: /\ rows[g].status = "queued"
                                        /\ rows[g].gid # NoGid
                                        /\ job[rows[g].gid] = "active"}:
       rows' = [g \in Grabs |-> IF g \in parked
                                THEN ParkForShutdownResume(rows[g]) ELSE rows[g]]
  /\ job' = [h \in Gids |-> "none"]
  /\ callback' = [h \in Gids |-> NoCallback]
  /\ workers' = [w \in Workers |->
                   IF w = "boot" THEN [Idle EXCEPT !.pass = "start"] ELSE Idle]
  /\ restarts' = restarts + 1
  /\ UNCHANGED <<staging, owner>>

-----------------------------------------------------------------------------

\* A driver's next step, whichever pass it is in.
Work(w) ==
  \/ ListPass(w) \/ NoFreeSlot(w)
  \/ Reconcile(w) \/ Resume(w) \/ AutoGrab(w) \/ Schedule(w)

Next ==
  \/ \E w \in Drivers: Work(w)
  \/ NewRequest \/ RequestGoesOn
  \/ \E h \in Gids: Engine(h) \/ Callback(h)
  \/ OperatorBegins \/ OperatorGoesOn
  \/ \E g \in Grabs: Tick(g)
  \/ Restart

Spec == Init /\ [][Next]_vars

\* Goroutines run, the clock advances and every download ends.  New requests,
\* the operator and restarts need never come.
Fairness ==
  /\ \A w \in Drivers: WF_vars(Work(w))
  /\ WF_vars(RequestGoesOn)
  /\ WF_vars(OperatorGoesOn)
  /\ \A h \in Gids: WF_vars(Engine(h)) /\ WF_vars(Callback(h))
  /\ \A g \in Grabs: WF_vars(Tick(g))

\* Failures that the code answers by trying again later come to an end: the
\* indexer hands out the NZB, the news server answers, the library takes the film.
TransientFailuresEnd ==
  /\ \A w \in Drivers: /\ SF_vars(\E s \in workers[w].todo: ReconcileRelaunches(w, s))
                       /\ SF_vars(Restored(w))
                       /\ SF_vars(ReconcileImports(w) /\ rows' # rows)
  /\ \A h \in Gids: SF_vars(CompleteImports(h) /\ rows' # rows)

FairSpec == Spec /\ Fairness /\ TransientFailuresEnd

-----------------------------------------------------------------------------
(* Properties *)

TypeOK ==
  /\ rows \in [Grabs -> Row]
  /\ job \in [Gids -> JobState]
  /\ staging \in [Gids -> StagingState]
  /\ callback \in [Gids -> [state: CallbackState, err: Failure \union {"none"},
                            snap: Snapshots \union {NoSnapshot}]]
  /\ workers \in [Workers -> [pass: Passes, at: Steps, todo: SUBSET Snapshots,
                              cur: Snapshots \union {NoSnapshot}]]
  /\ owner \in [Gids -> Grabs \union {NoGrab}]
  /\ restarts \in 0..MaxRestarts

\* A GID belongs to one row: the callbacks, which find their row by GID, never
\* import or fail somebody else's download.
OneGrabPerDownload ==
  \A a, b \in Grabs: rows[a].gid = rows[b].gid /\ rows[a].gid # NoGid => a = b

\* No title is downloaded twice at once.
OneLiveDownloadPerGrab ==
  \A h, k \in Gids:
    job[h] \in Live /\ job[k] \in Live /\ owner[h] = owner[k] => h = k

\* A parked row is always on a schedule some loop reads: a retry time, a resume
\* time, or a release date; and a date that never comes is only kept on rows
\* the hold refresh looks at.
ParkedRowIsScheduled ==
  \A g \in Grabs: rows[g].status = "pending_retry" =>
    IF rows[g].retryAfter = "none"
    THEN Held(rows[g])
    ELSE rows[g].hold # "never"

\* A queued row names a download, or the request that made it is still at work.
QueuedRowHasDownload ==
  \A g \in Grabs: rows[g].status = "queued" /\ rows[g].gid = NoGid =>
    workers["request"].cur.row = g

\* The short ladder never takes more rungs than it has.
TransportRungsBounded ==
  \A g \in Grabs: rows[g].transport <= MaxTransportRetries

\* A row waiting to resume still has the directory it resumes from.
ResumableHasStaging ==
  \A g \in Grabs: rows[g].status = "pending_retry" /\ rows[g].gid # NoGid =>
    staging[rows[g].gid] # "none"

\* A failure costs a rung once: what climbs the ladder is a download in flight, or
\* a resume that has come due and fails. The rungs climbed are given up with the
\* GID, and only then.
RungsFollowTheDownload ==
  [][\A g \in Grabs:
       /\ rows'[g].transport > rows[g].transport
            => \/ rows[g].status = "queued"
               \/ rows[g].status = "pending_retry" /\ rows[g].retryAfter = "due"
       /\ rows'[g].transport < rows[g].transport => rows'[g].gid # rows[g].gid]_vars

\* Only the operator's Promote takes a GID off its row while the GID's
\* download is still running.
LiveDownloadKept ==
  [][\A g \in Grabs:
       LET h == rows[g].gid IN
       h # NoGid /\ rows'[g].gid # h /\ rows'[g] # PromoteToFront(rows[g])
         => job'[h] \notin Live]_vars

\* A staging directory is not wiped under a running download.
LiveStagingKept ==
  [][\A h \in Gids: job[h] \in Live /\ job'[h] \in Live /\ staging[h] # "none"
       => staging'[h] # "none"]_vars

\* What is finished stays so, whatever a loop or a callback read before: imported
\* for good, failed until the operator asks for the film again.
FinishedStaysFinished ==
  [][\A g \in Grabs:
       /\ rows[g].status = "imported" => rows'[g].status = "imported"
       /\ rows[g].status = "failed" =>
            \/ rows'[g].status = "failed"
            \/ \E until \in HoldStamp: rows'[g] = RearmHeldRequest(rows[g], until)]_vars

\* A row in flight leaves that state: imported, parked or failed.
InFlightEnds ==
  \A g \in Grabs: rows[g].status = "queued" ~> rows[g].status # "queued"

\* A download once recorded ends so even if the process restarts.
RecordedDownloadEnds ==
  \A g \in Grabs:
    rows[g].status = "queued" /\ rows[g].gid # NoGid ~> rows[g].status # "queued"

\* A row that has come due, to be searched, resumed or released, is served.
Due(row) == DueForRetry(row) \/ DueForResume(row) \/ DueForRelease(row)
DueRowIsServed == \A g \in Grabs: Due(rows[g]) ~> ~Due(rows[g])

-----------------------------------------------------------------------------
(* The engine's promise *)

engineJob == [h \in Gids |-> IF job[h] \in Failure THEN "failed" ELSE job[h]]
engineStaging == [h \in Gids |-> staging[h] # "none"]
engineOwed == [h \in Gids |-> {callback[h].state} \intersect {"error", "complete"}]

Contract == INSTANCE DownloadEngine WITH
  job <- engineJob, staging <- engineStaging, owed <- engineOwed

\* No pass, callback or request assumes more of the engine than it promises:
\* GIDs are launched only when dead, and every callback was fired once.
EngineContractKept == Contract!Spec

=============================================================================
