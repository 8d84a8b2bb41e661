------------------------ MODULE GrabContract_proofs -------------------------
(***************************************************************************)
(* GrabLifecycle asks of the download engine nothing that DownloadEngine    *)
(* does not promise: every step of a pass, a request, a callback, the       *)
(* operator or a restart is, as the engine sees it, one of the contract's   *)
(* steps or none.                                                          *)
(***************************************************************************)
EXTENDS GrabLifecycle_proofs

\* One step of the contract, or a stutter of it.
ContractStep == [Contract!Next]_<<engineJob, engineStaging, engineOwed>>

-----------------------------------------------------------------------------
(* How the engine's variables appear in the contract *)

LEMMA JobAppears ==
  ASSUME job \in [Gids -> JobState], NEW h, NEW state \in {"none", "complete"} \union Live,
         job' = [job EXCEPT ![h] = state]
  PROVE  engineJob' = [engineJob EXCEPT ![h] = state]
BY FailureAssumption DEF engineJob, JobState, Live

LEMMA StagingAppears ==
  ASSUME staging \in [Gids -> StagingState], NEW h, NEW state,
         staging' = [staging EXCEPT ![h] = state]
  PROVE  engineStaging' = [engineStaging EXCEPT ![h] = (state # "none")]
BY DEF engineStaging

LEMMA CallbackAppears ==
  ASSUME callback \in [Gids -> CallbackStates], NEW h, NEW cb \in CallbackStates,
         SetCallback(h, cb)
  PROVE  engineOwed' = [engineOwed EXCEPT ![h] = {cb.state} \intersect {"error", "complete"}]
BY DEF engineOwed, SetCallback

LEMMA UnseenSteps ==
  /\ UNCHANGED job => UNCHANGED engineJob
  /\ UNCHANGED staging => UNCHANGED engineStaging
  /\ UNCHANGED callback => UNCHANGED engineOwed
BY DEF engineJob, engineStaging, engineOwed

LEMMA EngineStutters == UNCHANGED engine => ContractStep
BY UnseenSteps DEF engine, ContractStep

-----------------------------------------------------------------------------
(* What the shared operators are in the contract *)

LEMMA LaunchIsAllowed ==
  ASSUME EngineInv, NEW h, job[h] \notin Live,
         job' = [job EXCEPT ![h] = "precheck"],
         NEW state \in StagingState, state # "none",
         staging' = [staging EXCEPT ![h] = state], UNCHANGED callback
  PROVE  ContractStep
<1>1. /\ engineJob' = [engineJob EXCEPT ![h] = "precheck"]
      /\ engineStaging' = [engineStaging EXCEPT ![h] = TRUE]
      /\ UNCHANGED engineOwed
  BY JobAppears, StagingAppears, UnseenSteps DEF EngineInv, Live
<1>2. CASE h \in Gids
  <2>1. engineJob[h] \notin Live
    BY <1>2, FailureAssumption DEF engineJob, Live
  <2>2. Contract!Launch(h)
    BY <1>1, <2>1 DEF Contract!Launch, Contract!Becomes, Contract!Live, Live
  <2> QED BY <1>2, <2>2 DEF Contract!Next, ContractStep
<1>3. CASE h \notin Gids
  BY <1>1, <1>3 DEF ContractStep, engineJob, engineStaging
<1> QED BY <1>2, <1>3

LEMMA AddIsAllowed ==
  ASSUME EngineInv, NEW h, NEW g, AddNZB(h, g)
  PROVE  ContractStep
BY LaunchIsAllowed DEF AddNZB, Fresh, StagingState

LEMMA RelaunchIsAllowed ==
  ASSUME EngineInv, NEW h, job[h] \notin Live, RelaunchNZB(h)
  PROVE  ContractStep
<1>1. CASE h \in Gids
  <2> DEFINE state == IF staging[h] = "none" THEN "partial" ELSE staging[h]
  <2>1. state \in StagingState /\ state # "none"
    BY <1>1 DEF EngineInv, StagingState
  <2> HIDE DEF state
  <2>2. staging' = [staging EXCEPT ![h] = state]
    BY <1>1 DEF RelaunchNZB, state, EngineInv
  <2> QED BY <2>1, <2>2, LaunchIsAllowed DEF RelaunchNZB
<1>2. CASE h \notin Gids
  BY <1>2, EngineStutters DEF RelaunchNZB, EngineInv, engine
<1> QED BY <1>1, <1>2

LEMMA StartIsAllowed ==
  ASSUME EngineInv, NEW h, StartDownload(h)
  PROVE  ContractStep
<1>1. CASE h \in Gids /\ job[h] = "precheck"
  <2>1. /\ engineJob' = [engineJob EXCEPT ![h] = "active"]
        /\ UNCHANGED <<engineStaging, engineOwed>>
    BY <1>1, JobAppears, UnseenSteps DEF StartDownload, EngineInv, Live
  <2>2. engineJob[h] = "precheck"
    BY <1>1, FailureAssumption DEF engineJob
  <2>3. Contract!Start(h)
    BY <2>1, <2>2 DEF Contract!Start, Contract!Becomes
  <2> QED BY <1>1, <2>3 DEF Contract!Next, ContractStep
<1>2. CASE ~(h \in Gids /\ job[h] = "precheck")
  BY <1>2, EngineStutters DEF StartDownload, EngineInv, engine
<1> QED BY <1>1, <1>2

\* The job goes, its directory with it or not.
LEMMA DropIsAllowed ==
  ASSUME EngineInv, NEW h, DropJob(h), UNCHANGED callback,
         UNCHANGED staging \/ staging' = [staging EXCEPT ![h] = "none"]
  PROVE  ContractStep
<1>1. /\ engineJob' = [engineJob EXCEPT ![h] = "none"]
      /\ UNCHANGED engineOwed
      /\ UNCHANGED engineStaging \/ engineStaging' = [engineStaging EXCEPT ![h] = FALSE]
  BY JobAppears, StagingAppears, UnseenSteps DEF DropJob, EngineInv
<1>2. CASE h \in Gids /\ engineJob[h] # "none"
  <2>1. Contract!Drop(h)
    BY <1>1, <1>2 DEF Contract!Drop, Contract!Becomes, Contract!Clear
  <2> QED BY <1>2, <2>1 DEF Contract!Next, ContractStep
<1>3. CASE ~(h \in Gids /\ engineJob[h] # "none")
  <2>1. UNCHANGED engineJob
    BY <1>1, <1>3 DEF engineJob
  <2>2. CASE UNCHANGED engineStaging
    BY <1>1, <2>1, <2>2 DEF ContractStep
  <2>3. CASE h \in Gids /\ engineStaging' = [engineStaging EXCEPT ![h] = FALSE]
    BY <1>1, <2>1, <2>3 DEF Contract!Wipe, Contract!Clear, Contract!Next, ContractStep
  <2>4. CASE h \notin Gids /\ engineStaging' = [engineStaging EXCEPT ![h] = FALSE]
    BY <1>1, <2>1, <2>4 DEF ContractStep, engineStaging
  <2> QED BY <1>1, <2>2, <2>3, <2>4
<1> QED BY <1>2, <1>3

LEMMA WipeIsAllowed ==
  ASSUME EngineInv, NEW h, staging' = [staging EXCEPT ![h] = "none"],
         UNCHANGED <<engineJob, engineOwed>>
  PROVE  ContractStep
<1>1. engineStaging' = [engineStaging EXCEPT ![h] = FALSE]
  BY StagingAppears DEF EngineInv
<1>2. CASE h \in Gids
  BY <1>1, <1>2 DEF Contract!Wipe, Contract!Clear, Contract!Next, ContractStep
<1>3. CASE h \notin Gids
  BY <1>1, <1>3 DEF ContractStep, engineStaging
<1> QED BY <1>2, <1>3

LEMMA ParkContentFailureIsAllowed ==
  ASSUME EngineInv, NEW s, ParkContentFailure(s), UNCHANGED engineOwed
  PROVE  ContractStep
<1>1. CASE UNCHANGED job
  BY <1>1, WipeIsAllowed, UnseenSteps DEF ParkContentFailure
<1>2. CASE s.gid \in Gids /\ job' # job
  <2>1. job' = [job EXCEPT ![s.gid] = "none"] /\ job[s.gid] # "none"
    BY <1>2 DEF ParkContentFailure, EngineInv
  <2>2. /\ engineJob' = [engineJob EXCEPT ![s.gid] = "none"]
        /\ engineStaging' = [engineStaging EXCEPT ![s.gid] = FALSE]
    BY <2>1, JobAppears, StagingAppears DEF ParkContentFailure, EngineInv
  <2>3. engineJob[s.gid] # "none"
    BY <1>2, <2>1 DEF engineJob
  <2>4. Contract!Drop(s.gid)
    BY <2>2, <2>3 DEF Contract!Drop, Contract!Becomes, Contract!Clear
  <2> QED BY <1>2, <2>4 DEF Contract!Next, ContractStep
<1>3. CASE s.gid \notin Gids
  BY <1>1, <1>3 DEF ParkContentFailure, EngineInv
<1> QED BY <1>1, <1>2, <1>3

LEMMA ApplyFailureIsAllowed ==
  ASSUME EngineInv, NEW s, NEW err, ApplyFailure(s, err), UNCHANGED engineOwed
  PROVE  ContractStep
<1>1. CASE UNCHANGED <<job, staging>>
  BY <1>1, UnseenSteps DEF ContractStep
<1>2. CASE ParkContentFailure(s)
  BY <1>2, ParkContentFailureIsAllowed
<1> QED BY <1>1, <1>2 DEF ApplyFailure

-----------------------------------------------------------------------------
(* The steps, one group of actions each *)

LEMMA ReconcileIsAllowed ==
  ASSUME EngineInv, NEW w, Reconcile(w)
  PROVE  ContractStep
<1>1. ASSUME NEW s, ReconcileSkips(w, s) \/ ReconcileStartsImport(w, s)
                    \/ ReconcileFetchFails(w, s)
      PROVE  ContractStep
  BY <1>1, EngineStutters DEF ReconcileSkips, ReconcileStartsImport, ReconcileFetchFails
<1>2. ASSUME NEW s, ReconcileFindsHollow(w, s) PROVE ContractStep
  BY <1>2, ParkContentFailureIsAllowed, UnseenSteps DEF ReconcileFindsHollow
<1>3. ASSUME NEW s, ReconcileRelaunches(w, s) PROVE ContractStep
  BY <1>3, RelaunchIsAllowed DEF ReconcileRelaunches, Live
<1>4. CASE ReconcileImports(w)
  <2> DEFINE c == workers[w].cur
  <2>1. UNCHANGED engineOwed
    BY <1>4, UnseenSteps DEF ReconcileImports
  <2>2. \/ staging' = [staging EXCEPT ![c.gid] = "none"] /\ UNCHANGED job
        \/ ParkContentFailure(c)
        \/ UNCHANGED <<job, staging>>
        \/ job[c.gid] = "none" /\ RelaunchNZB(c.gid)
    BY <1>4 DEF ReconcileImports
  <2> HIDE DEF c
  <2>3. CASE staging' = [staging EXCEPT ![c.gid] = "none"] /\ UNCHANGED job
    BY <2>1, <2>3, WipeIsAllowed, UnseenSteps
  <2>4. CASE UNCHANGED <<job, staging>>
    BY <2>1, <2>4, UnseenSteps DEF ContractStep
  <2> QED
    BY <2>1, <2>2, <2>3, <2>4, ParkContentFailureIsAllowed, RelaunchIsAllowed DEF Live
<1>5. CASE Restored(w)
  BY <1>5, StartIsAllowed DEF Restored
<1>6. CASE RestoreRejected(w)
  BY <1>6, DropIsAllowed DEF RestoreRejected
<1> QED BY <1>1, <1>2, <1>3, <1>4, <1>5, <1>6 DEF Reconcile

LEMMA ResumeIsAllowed ==
  ASSUME EngineInv, NEW w, Resume(w)
  PROVE  ContractStep
<1>1. ASSUME NEW s, ResumeFindsLive(w, s) PROVE ContractStep
  BY <1>1, EngineStutters DEF ResumeFindsLive
<1>2. ASSUME NEW s, ResumeRelaunches(w, s) PROVE ContractStep
  BY <1>2, RelaunchIsAllowed DEF ResumeRelaunches
<1>3. ASSUME NEW s, ResumeFetchFails(w, s) PROVE ContractStep
  BY <1>3, DropIsAllowed DEF ResumeFetchFails
<1>4. CASE Resumed(w)
  BY <1>4, StartIsAllowed DEF Resumed
<1>5. CASE ResumeRejected(w)
  BY <1>5, DropIsAllowed DEF ResumeRejected
<1>6. CASE Rearm(w)
  BY <1>6, EngineStutters DEF Rearm
<1> QED BY <1>1, <1>2, <1>3, <1>4, <1>5, <1>6 DEF Resume

LEMMA AutoGrabIsAllowed ==
  ASSUME EngineInv, NEW w, AutoGrab(w)
  PROVE  ContractStep
<1>1. ASSUME NEW s, GateBlocks(w, s) \/ SearchParks(w, s) \/ PickFetchFails(w, s)
      PROVE  ContractStep
  BY <1>1, EngineStutters DEF GateBlocks, SearchParks, PickFetchFails
<1>2. ASSUME NEW s, SearchDispatches(w, s) PROVE ContractStep
  BY <1>2, AddIsAllowed DEF SearchDispatches
<1>3. CASE DispatchPrechecked(w)
  BY <1>3, StartIsAllowed DEF DispatchPrechecked
<1>4. CASE DispatchRejected(w)
  BY <1>4, DropIsAllowed DEF DispatchRejected
<1>5. CASE RecordDispatch(w) \/ PickSetsGid(w) \/ PickQueues(w)
  BY <1>5, EngineStutters DEF RecordDispatch, PickSetsGid, PickQueues
<1> QED BY <1>1, <1>2, <1>3, <1>4, <1>5 DEF AutoGrab

LEMMA ScheduleIsAllowed ==
  ASSUME EngineInv, NEW w, Schedule(w)
  PROVE  ContractStep
<1>1. ASSUME NEW s, Sweep(w, s) PROVE ContractStep
  <2>1. UNCHANGED engineOwed
    BY <1>1, UnseenSteps DEF Sweep
  <2>2. ApplyFailure(s, job[s.gid]) \/ UNCHANGED <<job, staging>>
    BY <1>1 DEF Sweep
  <2> QED BY <2>1, <2>2, ApplyFailureIsAllowed, UnseenSteps DEF ContractStep
<1>2. ASSUME NEW s, RefreshHold(w, s) \/ Supersede(w, s) \/ Hygiene(w, s)
      PROVE  ContractStep
  BY <1>2, EngineStutters DEF RefreshHold, Supersede, Hygiene
<1>3. CASE Terminate(w)
  BY <1>3, EngineStutters DEF Terminate
<1> QED BY <1>1, <1>2, <1>3 DEF Schedule

LEMMA RequestIsAllowed ==
  ASSUME EngineInv, NewRequest \/ RequestGoesOn
  PROVE  ContractStep
<1>1. ASSUME NEW g, RequestFindsNothing(g) PROVE ContractStep
  BY <1>1, EngineStutters DEF RequestFindsNothing
<1>2. ASSUME NEW g, NEW h, RequestDispatches(g, h) PROVE ContractStep
  BY <1>2, AddIsAllowed DEF RequestDispatches
<1>3. CASE RequestPrechecked
  BY <1>3, StartIsAllowed DEF RequestPrechecked
<1>4. CASE RequestRejected
  BY <1>4, DropIsAllowed DEF RequestRejected
<1>5. CASE RequestParks \/ RequestCreates \/ RequestSetsOrigin \/ RequestSetsGid
  BY <1>5, EngineStutters
  DEF RequestParks, RequestCreates, RequestSetsOrigin, RequestSetsGid
<1> QED BY <1>1, <1>2, <1>3, <1>4, <1>5 DEF NewRequest, RequestGoesOn

\* A download ends once, with its outcome fired or, for an error, withheld.
LEMMA DownloadsAreAllowed ==
  ASSUME EngineInv, NEW h \in Gids, Engine(h)
  PROVE  ContractStep
<1>1. CASE DownloadFails(h)
  <2>0. PICK err \in Failure:
          \E cb \in {NoCallback, [NoCallback EXCEPT !.state = "error", !.err = err]}:
            Finished(h, err, cb)
    BY <1>1 DEF DownloadFails
  <2>1. PICK cb \in {NoCallback, [NoCallback EXCEPT !.state = "error", !.err = err]}:
          Finished(h, err, cb)
    BY <2>0
  <2>2. engineJob[h] = "active" /\ engineJob' = [engineJob EXCEPT ![h] = "failed"]
    BY <2>1, FailureAssumption DEF Finished, engineJob, EngineInv
  <2>3. UNCHANGED engineStaging
    BY <1>1, UnseenSteps DEF DownloadFails
  <2>4. engineOwed[h] = {}
    BY <2>1 DEF Finished, engineOwed
  <2>5. engineOwed' = engineOwed \/ engineOwed' = [engineOwed EXCEPT ![h] = {"error"}]
    BY <2>1, <2>4 DEF Finished, engineOwed, NoCallback, EngineInv
  <2>6. Contract!Fail(h)
    BY <2>2, <2>3, <2>4, <2>5 DEF Contract!Fail, Contract!Becomes, Contract!Owes
  <2> QED BY <2>6 DEF Contract!Next, ContractStep
<1>2. CASE DownloadCompletes(h)
  <2> DEFINE cb == [NoCallback EXCEPT !.state = "complete"]
  <2>1. Finished(h, "complete", cb) /\ staging[h] # "none"
    BY <1>2 DEF DownloadCompletes
  <2>2. engineJob[h] = "active" /\ engineJob' = [engineJob EXCEPT ![h] = "complete"]
    BY <2>1, FailureAssumption DEF Finished, engineJob, EngineInv
  <2>3. engineStaging[h] /\ UNCHANGED engineStaging
    BY <1>2 DEF DownloadCompletes, engineStaging, EngineInv
  <2>4. engineOwed[h] = {} /\ engineOwed' = [engineOwed EXCEPT ![h] = {"complete"}]
    BY <2>1 DEF Finished, engineOwed, NoCallback, EngineInv
  <2>5. Contract!Complete(h)
    BY <2>2, <2>3, <2>4 DEF Contract!Complete, Contract!Becomes, Contract!Owes
  <2> QED BY <2>5 DEF Contract!Next, ContractStep
<1>3. CASE DismissComplete(h)
  BY <1>3, DropIsAllowed DEF DismissComplete
<1> QED BY <1>1, <1>2, <1>3 DEF Engine

\* A callback that had been fired is looked at, or one looked at is done.
LEMMA CallbackStateIsAllowed ==
  ASSUME EngineInv, NEW h \in Gids, NEW cb, cb.state \notin {"error", "complete"},
         SetCallback(h, cb), UNCHANGED <<job, staging>>
  PROVE  ContractStep
<1> DEFINE was == callback[h].state
<1>1. /\ engineOwed' = [engineOwed EXCEPT ![h] = {}]
      /\ engineOwed[h] = {was} \intersect {"error", "complete"}
  BY DEF SetCallback, engineOwed, EngineInv
<1>2. UNCHANGED <<engineJob, engineStaging>>
  BY UnseenSteps
<1> HIDE DEF was
<1>3. CASE was \in {"error", "complete"}
  <2>1. was \in engineOwed[h] /\ engineOwed[h] \ {was} = {}
    BY <1>1, <1>3
  <2>2. Contract!Take(h)
    BY <1>1, <1>2, <2>1 DEF Contract!Take
  <2> QED BY <2>2 DEF Contract!Next, ContractStep
<1>4. CASE was \notin {"error", "complete"}
  <2>1. engineOwed' = engineOwed
    BY <1>1, <1>4 DEF engineOwed
  <2> QED BY <1>2, <2>1 DEF ContractStep
<1> QED BY <1>3, <1>4

LEMMA CallbackIsAllowed ==
  ASSUME EngineInv, NEW h \in Gids, Callback(h)
  PROVE  ContractStep
<1>1. NoCallback.state = "none"
  BY DEF NoCallback
<1>2. CASE ErrorLooksUp(h) \/ CompleteLooksUp(h)
  <2>1. UNCHANGED <<job, staging>>
    BY <1>2 DEF ErrorLooksUp, CompleteLooksUp
  <2>2. PICK cb: SetCallback(h, cb) /\ cb.state \in {"none", "apply", "import"}
    <3>1. ASSUME NEW state \in {"apply", "import"}, NEW g,
                 SetCallback(h, [callback[h] EXCEPT !.state = state, !.snap = Snapshot(g)])
          PROVE  \E cb: SetCallback(h, cb) /\ cb.state \in {"none", "apply", "import"}
      <4> DEFINE cb == [callback[h] EXCEPT !.state = state, !.snap = Snapshot(g)]
      <4>1. cb.state = state
        BY DEF EngineInv, CallbackStates
      <4> HIDE DEF cb
      <4> QED BY <3>1, <4>1 DEF cb
    <3>2. CASE ErrorLooksUp(h)
      BY <1>1, <3>1, <3>2 DEF ErrorLooksUp
    <3>3. CASE CompleteLooksUp(h)
      BY <1>1, <3>1, <3>3 DEF CompleteLooksUp
    <3> QED BY <1>2, <3>2, <3>3
  <2> QED BY <2>1, <2>2, CallbackStateIsAllowed
<1>3. ASSUME SetCallback(h, NoCallback), callback[h].state \in {"apply", "import"}
      PROVE  UNCHANGED engineOwed
  BY <1>3 DEF SetCallback, NoCallback, engineOwed, EngineInv
<1>4. CASE ErrorApplies(h)
  BY <1>3, <1>4, ApplyFailureIsAllowed DEF ErrorApplies
<1>5. CASE CompleteImports(h)
  <2>1. UNCHANGED engineOwed
    BY <1>3, <1>5 DEF CompleteImports
  <2>2. \/ staging' = [staging EXCEPT ![h] = "none"] /\ UNCHANGED job
        \/ ParkContentFailure(callback[h].snap)
        \/ UNCHANGED <<job, staging>>
    BY <1>5 DEF CompleteImports
  <2>3. CASE UNCHANGED <<job, staging>>
    BY <2>1, <2>3, UnseenSteps DEF ContractStep
  <2> QED BY <2>1, <2>2, <2>3, WipeIsAllowed, ParkContentFailureIsAllowed, UnseenSteps
<1> QED BY <1>2, <1>4, <1>5 DEF Callback

LEMMA CancelIsAllowed ==
  ASSUME EngineInv, NEW h \in Gids, Cancel(h)
  PROVE  ContractStep
<1>1. DropJob(h) /\ staging' = [staging EXCEPT ![h] = "none"]
  BY DEF Cancel
<1>2. CASE UNCHANGED callback
  BY <1>1, <1>2, DropIsAllowed
<1>3. CASE /\ job[h] = "active" /\ callback[h].state = "none"
           /\ SetCallback(h, [NoCallback EXCEPT !.state = "complete"])
  <2>1. /\ engineJob' = [engineJob EXCEPT ![h] = "none"]
        /\ engineStaging' = [engineStaging EXCEPT ![h] = FALSE]
    BY <1>1, JobAppears, StagingAppears DEF DropJob, EngineInv
  <2>2. engineJob[h] = "active"
    BY <1>3, FailureAssumption DEF engineJob
  <2>3. engineOwed[h] = {} /\ engineOwed' = [engineOwed EXCEPT ![h] = {"complete"}]
    BY <1>3 DEF SetCallback, engineOwed, NoCallback, EngineInv
  <2>4. Contract!Abandon(h)
    BY <2>1, <2>2, <2>3
    DEF Contract!Abandon, Contract!Becomes, Contract!Owes, Contract!Clear, Contract!Live
  <2> QED BY <2>4 DEF Contract!Next, ContractStep
<1> QED BY <1>2, <1>3 DEF Cancel

LEMMA OperatorIsAllowed ==
  ASSUME EngineInv, OperatorBegins \/ OperatorGoesOn
  PROVE  ContractStep
<1>1. ASSUME NEW g, Promote(g) \/ Unmonitor(g) \/ CalendarCreates(g) \/ CalendarFinds(g)
      PROVE  ContractStep
  BY <1>1, EngineStutters DEF Promote, Unmonitor, CalendarCreates, CalendarFinds
<1>2. CASE OperatorGoesOn
  BY <1>2, EngineStutters
  DEF OperatorGoesOn, UnmonitorSchedules, Terminate, CalendarWrites
<1> QED BY <1>1, <1>2, CancelIsAllowed DEF OperatorBegins

LEMMA RestartIsAllowed ==
  ASSUME Restart
  PROVE  ContractStep
<1>1. /\ engineJob' = [h \in Gids |-> "none"]
      /\ engineOwed' = [h \in Gids |-> {}]
      /\ UNCHANGED engineStaging
  BY FailureAssumption, UnseenSteps DEF Restart, engineJob, engineOwed, NoCallback
<1> QED BY <1>1 DEF Contract!Stop, Contract!Next, ContractStep

LEMMA NextIsAllowed == Inv /\ [Next]_vars => ContractStep
<1> SUFFICES ASSUME Inv, [Next]_vars PROVE ContractStep
  OBVIOUS
<1>1. EngineInv
  BY DEF Inv
<1>2. ASSUME NEW w \in Drivers, Work(w) PROVE ContractStep
  <2>1. CASE ListPass(w) \/ NoFreeSlot(w)
    BY <2>1, EngineStutters DEF ListPass, NoFreeSlot
  <2> QED
    BY <1>1, <1>2, <2>1, ReconcileIsAllowed, ResumeIsAllowed, AutoGrabIsAllowed,
       ScheduleIsAllowed DEF Work
<1>3. ASSUME NEW g, Tick(g) PROVE ContractStep
  BY <1>3, EngineStutters DEF Tick
<1>4. CASE UNCHANGED vars
  BY <1>4, EngineStutters DEF vars, engine
<1> QED
  BY <1>1, <1>2, <1>3, <1>4, RequestIsAllowed, DownloadsAreAllowed, CallbackIsAllowed,
     OperatorIsAllowed, RestartIsAllowed DEF Next

LEMMA InitIsAllowed == Init => Contract!Init
<1> SUFFICES ASSUME Init PROVE Contract!Init
  OBVIOUS
<1>1. engineJob = [h \in Gids |-> "none"]
  BY FailureAssumption DEF Init, engineJob
<1>2. engineStaging \in [Gids -> BOOLEAN]
  BY DEF engineStaging
<1>3. engineOwed = [h \in Gids |-> {}]
  BY DEF Init, engineOwed, NoCallback
<1> QED BY <1>1, <1>2, <1>3 DEF Contract!Init

\* The grab pipeline keeps to the engine's contract: whatever the passes, the
\* callbacks, the operator and restarts do, a GID is launched only when it is
\* dead, and an outcome is looked at only after it was fired.
THEOREM PipelineKeepsContract == Spec => EngineContractKept
<1>1. Inv /\ [Next]_vars => [Contract!Next]_<<engineJob, engineStaging, engineOwed>>
  BY NextIsAllowed DEF ContractStep
<1> QED
  BY <1>1, InitIsAllowed, InvHolds, PTL
  DEF Spec, EngineContractKept, Contract!Spec, Contract!vars

=============================================================================
