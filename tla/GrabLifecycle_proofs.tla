------------------------ MODULE GrabLifecycle_proofs ------------------------
(***************************************************************************)
(* Proofs about GrabLifecycle, for any number of rows, GIDs and restarts:   *)
(* the type invariant, and that a GID belongs to one row.                   *)
(*                                                                         *)
(* OneGrabPerDownload is not inductive: a step may write a GID that is in   *)
(* no row yet, read from the list of a pass or from the row a worker has in *)
(* hand.  Inv says in addition that the row for which a GID was minted      *)
(* (owner) is the row every list and every worker holds it for.             *)
(***************************************************************************)
EXTENDS GrabLifecycle, TLAPS

Rows == [Grabs -> Row]
Snaps == Snapshots \union {NoSnapshot}
WorkerStates == [pass: Passes, at: Steps, todo: SUBSET Snapshots, cur: Snaps]
CallbackStates == [state: CallbackState, err: Failure \union {"none"}, snap: Snaps]

\* What s names as its GID, if any, was minted for the row s names.
Owned(s) == s.gid # NoGid => owner[s.gid] = s.row

RowsInv ==
  /\ rows \in Rows
  /\ \A g \in Grabs: rows[g].gid # NoGid => owner[rows[g].gid] = g

WorkersInv ==
  /\ workers \in [Workers -> WorkerStates]
  /\ \A w \in Workers: /\ Owned(workers[w].cur)
                       /\ \A s \in workers[w].todo: Owned(s)

EngineInv ==
  /\ job \in [Gids -> JobState]
  /\ staging \in [Gids -> StagingState]
  /\ callback \in [Gids -> CallbackStates]
  /\ owner \in [Gids -> Grabs \union {NoGrab}]

\* The inductive invariant.
Inv == RowsInv /\ WorkersInv /\ EngineInv /\ restarts \in 0..MaxRestarts

-----------------------------------------------------------------------------
(* The store's statements: a row stays a row, and its GID is cleared, kept or *)
(* the one the statement writes.                                             *)

Keeping(row, gid) == {new \in Row: new.gid \in {NoGid, row.gid, gid}}

\* A fresh row carries no GID.
LEMMA StoreInserts ==
  ASSUME NEW row, NEW gid
  PROVE  /\ CreateQueued \in Keeping(row, gid)
         /\ CreatePendingRetry \in Keeping(row, gid)
         /\ \A until \in HoldStamp: CreateHeld(until) \in Keeping(row, gid)
BY DEF NoRow, Row, Keeping, CreateQueued, CreatePendingRetry, CreateHeld,
       Status, Stamp, HoldStamp

\* Status, timestamps and the search-pick mark leave the GID alone.
LEMMA StoreSets ==
  ASSUME NEW row \in Row, NEW gid
  PROVE  /\ \A status \in Status: UpdateStatus(row, status) \in Keeping(row, gid)
         /\ MarkImportedIfNot(row) \in Keeping(row, gid)
         /\ SetOrigin(row) \in Keeping(row, gid)
         /\ \A after \in Stamp: SetRetryAfter(row, after) \in Keeping(row, gid)
         /\ \A until \in HoldStamp: SetHoldUntil(row, until) \in Keeping(row, gid)
<1>1. \A status \in Status: UpdateStatus(row, status) \in Keeping(row, gid)
  BY DEF Row, Keeping, UpdateStatus
<1>2. MarkImportedIfNot(row) \in Keeping(row, gid)
  BY DEF Row, Keeping, MarkImportedIfNot, Status
<1>3. SetOrigin(row) \in Keeping(row, gid)
  BY DEF Row, Keeping, SetOrigin
<1>4. \A after \in Stamp: SetRetryAfter(row, after) \in Keeping(row, gid)
  BY DEF Row, Keeping, SetRetryAfter
<1>5. \A until \in HoldStamp: SetHoldUntil(row, until) \in Keeping(row, gid)
  BY DEF Row, Keeping, SetHoldUntil
<1> QED BY <1>1, <1>2, <1>3, <1>4, <1>5

\* A park clears the GID or keeps it.
LEMMA StoreParks ==
  ASSUME NEW row \in Row, NEW gid
  PROVE  /\ SetPendingRetry(row) \in Keeping(row, gid)
         /\ ParkForAlternateRelease(row) \in Keeping(row, gid)
         /\ ParkForTransportResume(row) \in Keeping(row, gid)
         /\ ParkForShutdownResume(row) \in Keeping(row, gid)
         /\ PromoteToFront(row) \in Keeping(row, gid)
<1>1. SetPendingRetry(row) \in Keeping(row, gid)
  BY DEF Row, Keeping, Status, Stamp, SetPendingRetry
<1>2. ParkForAlternateRelease(row) \in Keeping(row, gid)
  BY DEF Row, Keeping, Status, Stamp, ParkForAlternateRelease
<1>3. ParkForTransportResume(row) \in Keeping(row, gid)
  <2>1. row.transport + 1 \in Nat
    BY DEF Row
  <2>2. ParkForTransportResume(row) \in Row
    BY <2>1 DEF Row, Status, Stamp, ParkForTransportResume
  <2>3. ParkForTransportResume(row).gid = row.gid
    BY DEF Row, ParkForTransportResume
  <2> QED BY <2>2, <2>3 DEF Keeping
<1>4. ParkForShutdownResume(row) \in Keeping(row, gid)
  BY DEF Row, Keeping, Status, Stamp, ParkForShutdownResume
<1>5. PromoteToFront(row) \in Keeping(row, gid)
  BY DEF Row, Keeping, Status, Stamp, HoldStamp, PromoteToFront
<1> QED BY <1>1, <1>2, <1>3, <1>4, <1>5

\* A hold clears the GID or keeps it.
LEMMA StoreHolds ==
  ASSUME NEW row \in Row, NEW gid, NEW until \in HoldStamp
  PROVE  /\ RearmHeldRequest(row, until) \in Keeping(row, gid)
         /\ HoldForRelease(row, until) \in Keeping(row, gid)
<1>1. RearmHeldRequest(row, until) \in Keeping(row, gid)
  BY DEF Row, Keeping, Status, Stamp, RearmHeldRequest
<1>2. HoldForRelease(row, until) \in Keeping(row, gid)
  BY DEF Row, Keeping, Stamp, HoldForRelease
<1> QED BY <1>1, <1>2

\* Recording a dispatch writes the GID of the dispatch.
LEMMA StoreRecords ==
  ASSUME NEW row \in Row, NEW gid \in Gids \union {NoGid}
  PROVE  /\ SetDownloadGID(row, gid) \in Keeping(row, gid)
         /\ Relaunch(row, gid) \in Keeping(row, gid)
<1>1. SetDownloadGID(row, gid) \in Keeping(row, gid)
  BY DEF Row, Keeping, SetDownloadGID
<1>2. Relaunch(row, gid) \in Keeping(row, gid)
  BY DEF Row, Keeping, Status, Stamp, Relaunch
<1> QED BY <1>1, <1>2

-----------------------------------------------------------------------------
(* The bookkeeping operators *)

\* Writing for s what a statement makes of its row keeps the rows owned.
LEMMA WriteForSnapshot ==
  ASSUME RowsInv, UNCHANGED owner, NEW s \in Snaps, Owned(s), NEW row,
         s.row \in Grabs => row \in Keeping(rows[s.row], s.gid),
         Write(s.row, row)
  PROVE  RowsInv'
BY DEF RowsInv, Rows, Owned, Keeping, Write

\* So does writing a row that names no new GID.
LEMMA WriteInPlace ==
  ASSUME RowsInv, UNCHANGED owner, NEW g, NEW row,
         g \in Grabs => row \in Keeping(rows[g], NoGid), Write(g, row)
  PROVE  RowsInv'
BY DEF RowsInv, Rows, Keeping, Write

\* Going on takes a snapshot off the list and another in hand.
LEMMA ContinueAsKeepsType ==
  ASSUME workers \in [Workers -> WorkerStates], NEW w \in Workers, NEW s,
         NEW at \in Steps, NEW c \in Snaps, ContinueAs(w, s, at, c)
  PROVE  workers' \in [Workers -> WorkerStates]
<1> DEFINE r == [workers[w] EXCEPT !.todo = workers[w].todo \ {s}, !.at = at, !.cur = c]
<1>1. workers' = [workers EXCEPT ![w] = r]
  BY DEF ContinueAs
<1>2. workers[w] \in WorkerStates
  OBVIOUS
<1>3. workers[w].todo \ {s} \in SUBSET Snapshots
  BY <1>2 DEF WorkerStates
<1>4. r \in WorkerStates
  BY <1>2, <1>3 DEF WorkerStates
<1> HIDE DEF r
<1> QED BY <1>1, <1>4

LEMMA FinishInv ==
  ASSUME WorkersInv, UNCHANGED owner, NEW w \in Workers, NEW s, Finish(w, s)
  PROVE  WorkersInv'
<1>1. workers' \in [Workers -> WorkerStates]
  <2>1. NoSnapshot \in Snaps /\ "next" \in Steps
    BY DEF Snaps, Steps
  <2> QED BY <2>1, ContinueAsKeepsType DEF WorkersInv, Finish, ContinueAs
<1>2. \A v \in Workers: /\ workers'[v].cur \in {workers[v].cur, NoSnapshot}
                        /\ workers'[v].todo \subseteq workers[v].todo
  BY DEF WorkersInv, Finish, WorkerStates
<1> QED BY <1>1, <1>2 DEF WorkersInv, Owned, NoSnapshot

LEMMA ContinueInv ==
  ASSUME WorkersInv, UNCHANGED owner, NEW w \in Workers, NEW s \in Snaps,
         Owned(s), NEW at \in Steps, Continue(w, s, at)
  PROVE  WorkersInv'
<1>1. workers' \in [Workers -> WorkerStates]
  BY ContinueAsKeepsType DEF WorkersInv, Continue
<1>2. \A v \in Workers: /\ workers'[v].cur \in {workers[v].cur, s}
                        /\ workers'[v].todo \subseteq workers[v].todo
  BY DEF WorkersInv, Continue, ContinueAs, WorkerStates
<1> QED BY <1>1, <1>2 DEF WorkersInv, Owned

\* What a worker has in hand, or on its list.
LEMMA InHand ==
  ASSUME WorkersInv, NEW w \in Workers
  PROVE  /\ workers[w].cur \in Snaps /\ Owned(workers[w].cur)
         /\ \A s \in workers[w].todo: s \in Snapshots /\ s \in Snaps /\ Owned(s)
BY DEF WorkersInv, WorkerStates, Snaps

LEMMA SnapsTyped ==
  ASSUME NEW s \in Snaps
  PROVE  s.gid \in Gids \union {NoGid}
BY DEF Snaps, Snapshots, NoSnapshot

LEMMA SnapshotInv ==
  ASSUME RowsInv, NEW g \in Grabs
  PROVE  Snapshot(g) \in Snapshots /\ Snapshot(g) \in Snaps /\ Owned(Snapshot(g))
BY DEF Snapshot, Snapshots, Snaps, RowsInv, Rows, Row, Owned

LEMMA CycleTyped ==
  ASSUME NEW w \in {"boot", "retry", "drain"}, NEW i \in DOMAIN Cycle[w]
  PROVE  Cycle[w][i] \in Passes
BY DEF Cycle, Passes

LEMMA DriversAreWorkers ==
  /\ Drivers \subseteq Workers /\ Drivers \subseteq {"boot", "retry", "drain"}
  /\ "request" \in Workers /\ "operator" \in Workers
BY LoopsAssumption DEF Drivers, Workers

\* A new download: its GID is in no row, list or hand, so it can be given to g.
LEMMA AddNZBInv ==
  ASSUME RowsInv, WorkersInv, EngineInv, NEW h \in Gids, NEW g \in Grabs,
         AddNZB(h, g), UNCHANGED rows, NEW w \in Workers, NEW s, NEW c \in Snapshots,
         c.row = g, c.gid = h, ContinueAs(w, s, "precheck", c)
  PROVE  RowsInv' /\ WorkersInv' /\ EngineInv'
<1>1. RowsInv'
  BY DEF RowsInv, Rows, Row, EngineInv, AddNZB, Fresh
<1>2. workers' \in [Workers -> WorkerStates]
  <2>1. c \in Snaps /\ "precheck" \in Steps
    BY DEF Snaps, Steps
  <2> QED BY <2>1, ContinueAsKeepsType DEF WorkersInv
<1>3. \A v \in Workers: /\ workers'[v].cur \in {workers[v].cur, c}
                        /\ workers'[v].todo \subseteq workers[v].todo
  BY DEF WorkersInv, ContinueAs, WorkerStates
<1>4. owner' = [owner EXCEPT ![h] = g] /\ owner \in [Gids -> Grabs \union {NoGrab}]
  BY DEF AddNZB, EngineInv
<1>5. \A v \in Workers: /\ workers[v].cur.gid # h
                        /\ \A t \in workers[v].todo: t.gid # h
  BY DEF AddNZB, Fresh
<1>6. Owned(c)'
  BY <1>4 DEF Owned
<1>7. ASSUME NEW t, t.gid # h, Owned(t) PROVE t.gid # NoGid => owner'[t.gid] = t.row
  BY <1>4, <1>7 DEF Owned
<1>8. WorkersInv'
  BY <1>2, <1>3, <1>5, <1>6, <1>7 DEF WorkersInv, Owned
<1>9. EngineInv'
  BY <1>4 DEF EngineInv, AddNZB, JobState, Live, StagingState
<1> QED BY <1>1, <1>8, <1>9

-----------------------------------------------------------------------------
(* The engine and what a failure does *)

LEMMA RowTyped ==
  ASSUME RowsInv, NEW g \in Grabs
  PROVE  rows[g] \in Row
BY DEF RowsInv, Rows

\* Starting, relaunching, dropping a job keeps the engine well typed.
LEMMA JobsInv ==
  ASSUME EngineInv, NEW h, UNCHANGED <<callback, owner>>,
         \/ RelaunchNZB(h)
         \/ StartDownload(h)
         \/ DropJob(h) /\ UNCHANGED staging
         \/ DropJob(h) /\ staging' = [staging EXCEPT ![h] = "none"]
  PROVE  EngineInv'
BY DEF EngineInv, RelaunchNZB, StartDownload, DropJob, JobState, Live, StagingState

LEMMA ParkContentFailureInv ==
  ASSUME RowsInv, EngineInv, UNCHANGED <<callback, owner>>, NEW s \in Snaps,
         ParkContentFailure(s)
  PROVE  RowsInv' /\ EngineInv'
<1>1. RowsInv'
  BY WriteInPlace, RowTyped, StoreParks DEF ParkContentFailure
<1>2. EngineInv'
  BY DEF ParkContentFailure, EngineInv, JobState, Live, StagingState
<1> QED BY <1>1, <1>2

LEMMA ApplyFailureInv ==
  ASSUME RowsInv, EngineInv, UNCHANGED owner, NEW s \in Snaps, NEW err,
         ApplyFailure(s, err), callback' \in [Gids -> CallbackStates]
  PROVE  RowsInv' /\ EngineInv'
<1>1. RowsInv'
  <2>1. ASSUME NEW row \in Row PROVE UpdateStatus(row, "failed") \in Keeping(row, NoGid)
    BY StoreSets DEF Status
  <2> QED
    BY <2>1, WriteInPlace, RowTyped, StoreParks DEF ApplyFailure, ParkContentFailure
<1>2. EngineInv'
  BY DEF ApplyFailure, ParkContentFailure, EngineInv, JobState, Live, StagingState
<1> QED BY <1>1, <1>2

-----------------------------------------------------------------------------
(* Every step preserves the invariant *)

\* What UNCHANGED leaves, it leaves invariant.
LEMMA UnchangedInv ==
  /\ RowsInv /\ UNCHANGED <<rows, owner>> => RowsInv'
  /\ WorkersInv /\ UNCHANGED <<workers, owner>> => WorkersInv'
  /\ EngineInv /\ UNCHANGED engine => EngineInv'
BY DEF RowsInv, WorkersInv, EngineInv, engine, Owned

LEMMA InvInit == Init => Inv
<1> SUFFICES ASSUME Init PROVE Inv
  OBVIOUS
<1>1. RowsInv
  BY DEF Init, RowsInv, Rows, NoRow, Row, Status, Stamp, HoldStamp
<1>2. WorkersInv
  BY DEF Init, WorkersInv, WorkerStates, Idle, Passes, Steps, Snaps, NoSnapshot, Owned
<1>3. EngineInv
  BY DEF Init, EngineInv, JobState, StagingState, CallbackStates, NoCallback,
         CallbackState, Snaps
<1> QED BY <1>1, <1>2, <1>3, MaxRestartsAssumption DEF Init, Inv

LEMMA PassesInv ==
  ASSUME Inv, NEW w \in Drivers, ListPass(w) \/ NoFreeSlot(w)
  PROVE  Inv'
<1>1. UNCHANGED <<rows, engine, restarts, owner>>
  BY DEF ListPass, NoFreeSlot, engine
<1>2. CASE ListPass(w)
  <2>1. PICK i, j \in DOMAIN Cycle[w]:
          workers' = [workers EXCEPT
            ![w].pass = Cycle[w][j],
            ![w].todo = {Snapshot(g): g \in Selected(Cycle[w][j])}]
    BY <1>2 DEF ListPass
  <2> DEFINE list == {Snapshot(g): g \in Selected(Cycle[w][j])}
  <2>2. Cycle[w][j] \in Passes
    BY CycleTyped, DriversAreWorkers
  <2>3. list \subseteq Snapshots /\ \A s \in list: Owned(s)
    BY SnapshotInv DEF Selected, Inv
  <2> HIDE DEF list
  <2>4. workers' \in [Workers -> WorkerStates]
    BY <2>1, <2>2, <2>3, DriversAreWorkers DEF Inv, WorkersInv, WorkerStates, list
  <2>5. \A v \in Workers: /\ workers'[v].cur = workers[v].cur
                          /\ workers'[v].todo \in {workers[v].todo, list}
    BY <2>1, DriversAreWorkers DEF Inv, WorkersInv, WorkerStates, list
  <2>6. WorkersInv'
    BY <1>1, <2>3, <2>4, <2>5 DEF Inv, WorkersInv, Owned
  <2> QED BY <1>1, <2>6, UnchangedInv DEF Inv
<1>3. CASE NoFreeSlot(w)
  <2>1. workers' = [workers EXCEPT ![w].todo = {}]
    BY <1>3 DEF NoFreeSlot
  <2>2. WorkersInv'
    BY <1>1, <2>1 DEF Inv, WorkersInv, WorkerStates, Owned
  <2> QED BY <1>1, <2>2, UnchangedInv DEF Inv
<1> QED BY <1>2, <1>3

LEMMA ReconcileInv ==
  ASSUME Inv, NEW w \in Drivers, Reconcile(w)
  PROVE  Inv'
<1> USE DriversAreWorkers
<1> DEFINE c == workers[w].cur
<1>1. w \in Workers /\ RowsInv /\ WorkersInv /\ EngineInv /\ c \in Snaps /\ Owned(c)
  BY InHand DEF Inv
<1>2. \A s \in workers[w].todo: s \in Snaps /\ Owned(s)
  BY InHand DEF Inv
<1> HIDE DEF c
<1>3. ASSUME NEW s \in workers[w].todo, ReconcileSkips(w, s) PROVE Inv'
  BY <1>1, <1>3, FinishInv, UnchangedInv DEF ReconcileSkips, Inv, engine
<1>4. ASSUME NEW s \in workers[w].todo, ReconcileFindsHollow(w, s) PROVE Inv'
  BY <1>1, <1>2, <1>4, FinishInv, ParkContentFailureInv DEF ReconcileFindsHollow, Inv
<1>5. ASSUME NEW s \in workers[w].todo, ReconcileStartsImport(w, s) PROVE Inv'
  BY <1>1, <1>2, <1>5, ContinueInv, UnchangedInv
  DEF ReconcileStartsImport, Inv, engine, Steps
<1>6. ASSUME NEW s \in workers[w].todo, ReconcileRelaunches(w, s) PROVE Inv'
  BY <1>1, <1>2, <1>6, ContinueInv, UnchangedInv, JobsInv
  DEF ReconcileRelaunches, Inv, RelaunchNZB, Steps
<1>7. ASSUME NEW s \in workers[w].todo, ReconcileFetchFails(w, s) PROVE Inv'
  <2>1. WorkersInv' /\ EngineInv' /\ UNCHANGED <<owner, restarts>>
    BY <1>1, <1>7, FinishInv, UnchangedInv DEF ReconcileFetchFails, engine
  <2>2. RowsInv'
    BY <1>1, <1>2, <1>7, <2>1, WriteForSnapshot, RowTyped, StoreParks, UnchangedInv
    DEF ReconcileFetchFails
  <2> QED BY <2>1, <2>2 DEF Inv
<1>8. ASSUME ReconcileImports(w) PROVE Inv'
  <2>1. UNCHANGED <<callback, owner, restarts>>
    BY <1>8 DEF ReconcileImports
  <2>2. WorkersInv'
    BY <1>1, <1>8, <2>1, FinishInv, ContinueInv DEF ReconcileImports, c, Steps
  <2>3. RowsInv'
    BY <1>1, <1>8, <2>1, WriteForSnapshot, RowTyped, StoreSets, StoreParks,
       UnchangedInv, ParkContentFailureInv
    DEF ReconcileImports, c
  <2>4. \/ staging' = [staging EXCEPT ![c.gid] = "none"] /\ UNCHANGED job
        \/ ParkContentFailure(c)
        \/ UNCHANGED <<job, staging>>
        \/ RelaunchNZB(c.gid)
    BY <1>8 DEF ReconcileImports, c
  <2>5. EngineInv'
    <3>1. CASE staging' = [staging EXCEPT ![c.gid] = "none"] /\ UNCHANGED job
      BY <1>1, <2>1, <3>1 DEF EngineInv, StagingState
    <3>2. CASE ParkContentFailure(c)
      BY <1>1, <2>1, <3>2, ParkContentFailureInv
    <3>3. CASE RelaunchNZB(c.gid)
      BY <1>1, <3>3 DEF RelaunchNZB, EngineInv, JobState, Live, StagingState
    <3> QED BY <1>1, <2>1, <2>4, <3>1, <3>2, <3>3 DEF EngineInv
  <2> QED BY <2>1, <2>2, <2>3, <2>5 DEF Inv
<1>9. ASSUME Restored(w) PROVE Inv'
  BY <1>1, <1>9, FinishInv, UnchangedInv, JobsInv DEF Restored, Inv, StartDownload
<1>10. ASSUME RestoreRejected(w) PROVE Inv'
  <2>1. WorkersInv' /\ EngineInv' /\ UNCHANGED <<owner, restarts>>
    BY <1>1, <1>10, FinishInv, JobsInv DEF RestoreRejected
  <2>2. RowsInv'
    BY <1>1, <1>10, <2>1, WriteForSnapshot, RowTyped, StoreParks, UnchangedInv
    DEF RestoreRejected, c
  <2> QED BY <2>1, <2>2, <1>10 DEF Inv, RestoreRejected
<1> QED
  BY <1>3, <1>4, <1>5, <1>6, <1>7, <1>8, <1>9, <1>10 DEF Reconcile

LEMMA ResumeInv ==
  ASSUME Inv, NEW w \in Drivers, Resume(w)
  PROVE  Inv'
<1> USE DriversAreWorkers
<1> DEFINE c == workers[w].cur
<1>1. w \in Workers /\ RowsInv /\ WorkersInv /\ EngineInv /\ c \in Snaps /\ Owned(c)
  BY InHand DEF Inv
<1>2. \A s \in workers[w].todo: s \in Snaps /\ Owned(s)
  BY InHand DEF Inv
<1> HIDE DEF c
<1>3. ASSUME NEW s \in workers[w].todo, ResumeFindsLive(w, s) PROVE Inv'
  <2>1. WorkersInv' /\ EngineInv' /\ UNCHANGED <<owner, restarts>>
    BY <1>1, <1>3, FinishInv, UnchangedInv DEF ResumeFindsLive, engine
  <2>2. RowsInv'
    BY <1>1, <1>2, <1>3, <2>1, WriteForSnapshot, RowTyped, StoreRecords, SnapsTyped
    DEF ResumeFindsLive
  <2> QED BY <2>1, <2>2 DEF Inv
<1>4. ASSUME NEW s \in workers[w].todo, ResumeRelaunches(w, s) PROVE Inv'
  BY <1>1, <1>2, <1>4, ContinueInv, UnchangedInv, JobsInv
  DEF ResumeRelaunches, Inv, RelaunchNZB, Steps
<1>5. ASSUME NEW s \in Snaps, Owned(s), ParkNextRung(s), UNCHANGED owner
      PROVE  RowsInv'
  BY <1>1, <1>5, WriteForSnapshot, RowTyped, StoreParks DEF ParkNextRung
<1>6. ASSUME NEW s \in workers[w].todo, ResumeFetchFails(w, s) PROVE Inv'
  BY <1>1, <1>2, <1>5, <1>6, FinishInv, JobsInv DEF ResumeFetchFails, Inv
<1>7. ASSUME Resumed(w) PROVE Inv'
  BY <1>1, <1>7, ContinueInv, UnchangedInv, JobsInv
  DEF Resumed, Inv, StartDownload, Steps, c
<1>8. ASSUME ResumeRejected(w) PROVE Inv'
  <2>1. WorkersInv' /\ EngineInv' /\ UNCHANGED <<owner, restarts>>
    BY <1>1, <1>8, FinishInv, JobsInv DEF ResumeRejected
  <2>2. RowsInv'
    BY <1>1, <1>5, <1>8, <2>1, WriteForSnapshot, RowTyped, StoreParks
    DEF ResumeRejected, c
  <2> QED BY <2>1, <2>2 DEF Inv
<1>9. ASSUME Rearm(w) PROVE Inv'
  <2>1. WorkersInv' /\ EngineInv' /\ UNCHANGED <<owner, restarts>>
    BY <1>1, <1>9, FinishInv, UnchangedInv DEF Rearm, engine
  <2>2. RowsInv'
    BY <1>1, <1>9, <2>1, WriteForSnapshot, RowTyped, StoreRecords, SnapsTyped DEF Rearm, c
  <2> QED BY <2>1, <2>2 DEF Inv
<1> QED
  BY <1>3, <1>4, <1>6, <1>7, <1>8, <1>9 DEF Resume

LEMMA AutoGrabInv ==
  ASSUME Inv, NEW w \in Drivers, AutoGrab(w)
  PROVE  Inv'
<1> USE DriversAreWorkers
<1> DEFINE c == workers[w].cur
<1>1. w \in Workers /\ RowsInv /\ WorkersInv /\ EngineInv /\ c \in Snaps /\ Owned(c)
  BY InHand DEF Inv
<1>2. \A s \in workers[w].todo: s \in Snapshots /\ s \in Snaps /\ Owned(s)
  BY InHand DEF Inv
<1> HIDE DEF c
<1>3. ASSUME NEW s \in workers[w].todo, GateBlocks(w, s) PROVE Inv'
  <2>1. WorkersInv' /\ EngineInv' /\ UNCHANGED <<owner, restarts>>
    BY <1>1, <1>3, FinishInv, UnchangedInv DEF GateBlocks, engine
  <2>2. RowsInv'
    BY <1>1, <1>2, <1>3, <2>1, WriteForSnapshot, RowTyped, StoreHolds
    DEF GateBlocks, HoldStamp, Stamp
  <2> QED BY <2>1, <2>2 DEF Inv
<1>4. ASSUME NEW s \in workers[w].todo, SearchParks(w, s) PROVE Inv'
  <2>1. EngineInv' /\ UNCHANGED <<owner, restarts>>
    BY <1>1, <1>4, UnchangedInv DEF SearchParks, engine
  <2>2. RowsInv'
    BY <1>1, <1>2, <1>4, <2>1, WriteForSnapshot, RowTyped, StoreParks DEF SearchParks
  <2>3. CASE Finish(w, s)
    BY <1>1, <2>1, <2>2, <2>3, FinishInv DEF Inv
  <2>4. CASE workers' = [workers EXCEPT ![w].todo = {}]
    <3>1. WorkersInv'
      BY <1>1, <2>1, <2>4 DEF WorkersInv, WorkerStates, Owned
    <3> QED BY <2>1, <2>2, <3>1 DEF Inv
  <2> QED BY <1>4, <2>3, <2>4 DEF SearchParks
<1>5. ASSUME NEW s \in workers[w].todo, SearchDispatches(w, s) PROVE Inv'
  <2>1. PICK h \in Gids:
          AddNZB(h, s.row) /\ ContinueAs(w, s, "precheck", [s EXCEPT !.gid = h])
    BY <1>5 DEF SearchDispatches
  <2> DEFINE d == [s EXCEPT !.gid = h]
  <2>2. s.row \in Grabs /\ d \in Snapshots /\ d.row = s.row /\ d.gid = h
    BY <1>2 DEF Snapshots
  <2>3. UNCHANGED <<rows, restarts>>
    BY <1>5 DEF SearchDispatches
  <2>4. RowsInv' /\ WorkersInv' /\ EngineInv'
    BY <1>1, <2>1, <2>2, <2>3, AddNZBInv
  <2> QED BY <2>3, <2>4 DEF Inv
<1>6. ASSUME DispatchPrechecked(w) PROVE Inv'
  BY <1>1, <1>6, ContinueInv, UnchangedInv, JobsInv
  DEF DispatchPrechecked, Inv, StartDownload, Steps, c
<1>7. ASSUME DispatchRejected(w) PROVE Inv'
  <2>1. WorkersInv' /\ EngineInv' /\ UNCHANGED <<owner, restarts>>
    BY <1>1, <1>7, FinishInv, JobsInv DEF DispatchRejected
  <2>2. RowsInv'
    BY <1>1, <1>7, <2>1, WriteForSnapshot, RowTyped, StoreParks, UnchangedInv
    DEF DispatchRejected, c
  <2> QED BY <2>1, <2>2 DEF Inv
<1>8. ASSUME RecordDispatch(w) PROVE Inv'
  <2>1. WorkersInv' /\ EngineInv' /\ UNCHANGED <<owner, restarts>>
    BY <1>1, <1>8, FinishInv, UnchangedInv DEF RecordDispatch, engine
  <2>2. RowsInv'
    BY <1>1, <1>8, <2>1, WriteForSnapshot, RowTyped, StoreRecords, SnapsTyped
    DEF RecordDispatch, c
  <2> QED BY <2>1, <2>2 DEF Inv
<1>9. ASSUME NEW s \in workers[w].todo, PickFetchFails(w, s) PROVE Inv'
  BY <1>1, <1>9, FinishInv, UnchangedInv DEF PickFetchFails, Inv, engine
<1>10. ASSUME PickSetsGid(w) PROVE Inv'
  <2>1. WorkersInv' /\ EngineInv' /\ UNCHANGED <<owner, restarts>>
    BY <1>1, <1>10, ContinueInv, UnchangedInv DEF PickSetsGid, engine, Steps, c
  <2>2. RowsInv'
    BY <1>1, <1>10, <2>1, WriteForSnapshot, RowTyped, StoreRecords, SnapsTyped
    DEF PickSetsGid, c
  <2> QED BY <2>1, <2>2 DEF Inv
<1>11. ASSUME PickQueues(w) PROVE Inv'
  <2>1. WorkersInv' /\ EngineInv' /\ UNCHANGED <<owner, restarts>>
    BY <1>1, <1>11, FinishInv, UnchangedInv DEF PickQueues, engine
  <2>2. RowsInv'
    BY <1>1, <1>11, <2>1, WriteForSnapshot, RowTyped, StoreSets
    DEF PickQueues, Status, c
  <2> QED BY <2>1, <2>2 DEF Inv
<1> QED
  BY <1>3, <1>4, <1>5, <1>6, <1>7, <1>8, <1>9, <1>10, <1>11 DEF AutoGrab

LEMMA TerminateInv ==
  ASSUME Inv, NEW w \in Workers, Terminate(w)
  PROVE  Inv'
<1> DEFINE c == workers[w].cur
<1>1. RowsInv /\ WorkersInv /\ EngineInv /\ c \in Snaps /\ Owned(c)
  BY InHand DEF Inv
<1> HIDE DEF c
<1>2. WorkersInv' /\ EngineInv' /\ UNCHANGED <<owner, restarts>>
  BY <1>1, FinishInv, UnchangedInv DEF Terminate, engine
<1>3. RowsInv'
  BY <1>1, <1>2, WriteForSnapshot, RowTyped, StoreSets DEF Terminate, Status, c
<1> QED BY <1>2, <1>3 DEF Inv

LEMMA ScheduleInv ==
  ASSUME Inv, NEW w \in Drivers, Schedule(w)
  PROVE  Inv'
<1> USE DriversAreWorkers
<1>1. w \in Workers /\ RowsInv /\ WorkersInv /\ EngineInv
  BY DEF Inv
<1>2. \A s \in workers[w].todo: s \in Snaps /\ Owned(s)
  BY <1>1, InHand
<1>3. ASSUME NEW s \in workers[w].todo, Sweep(w, s) PROVE Inv'
  <2>1. callback' \in [Gids -> CallbackStates]
    BY <1>1, <1>3 DEF Sweep, EngineInv
  <2>2. RowsInv' /\ EngineInv'
    BY <1>1, <1>2, <1>3, <2>1, ApplyFailureInv, UnchangedInv DEF Sweep, engine
  <2> QED BY <1>1, <1>3, <2>2, FinishInv DEF Sweep, Inv
<1>4. ASSUME NEW s \in workers[w].todo, RefreshHold(w, s) PROVE Inv'
  <2>1. WorkersInv' /\ EngineInv' /\ UNCHANGED <<owner, restarts>>
    BY <1>1, <1>4, FinishInv, UnchangedInv DEF RefreshHold, engine
  <2>2. RowsInv'
    BY <1>1, <1>2, <1>4, <2>1, WriteForSnapshot, RowTyped, StoreSets, UnchangedInv
    DEF RefreshHold, HoldStamp, Stamp
  <2> QED BY <2>1, <2>2 DEF Inv
<1>5. ASSUME NEW s \in workers[w].todo, Supersede(w, s) PROVE Inv'
  <2>1. WorkersInv' /\ EngineInv' /\ UNCHANGED <<owner, restarts>>
    BY <1>1, <1>2, <1>5, ContinueInv, UnchangedInv DEF Supersede, engine, Steps
  <2>2. RowsInv'
    BY <1>1, <1>2, <1>5, <2>1, WriteForSnapshot, RowTyped, StoreSets
    DEF Supersede, Stamp
  <2> QED BY <2>1, <2>2 DEF Inv
<1>6. ASSUME NEW s \in workers[w].todo, Hygiene(w, s) PROVE Inv'
  <2>1. WorkersInv' /\ EngineInv' /\ UNCHANGED <<owner, restarts>>
    BY <1>1, <1>6, FinishInv, UnchangedInv DEF Hygiene, engine
  <2>2. RowsInv'
    BY <1>1, <1>2, <1>6, <2>1, WriteForSnapshot, RowTyped, StoreParks, UnchangedInv
    DEF Hygiene
  <2> QED BY <2>1, <2>2 DEF Inv
<1> QED
  BY <1>3, <1>4, <1>5, <1>6, TerminateInv DEF Schedule

LEMMA NewRequestInv ==
  ASSUME Inv, NewRequest
  PROVE  Inv'
<1> USE DriversAreWorkers
<1>1. RowsInv /\ WorkersInv /\ EngineInv
  BY DEF Inv
<1>2. ASSUME NEW g \in Grabs, RequestFindsNothing(g) PROVE Inv'
  <2>1. WorkersInv' /\ EngineInv' /\ UNCHANGED <<owner, restarts>>
    BY <1>1, <1>2, UnchangedInv DEF RequestFindsNothing, engine
  <2>2. RowsInv'
    BY <1>1, <1>2, <2>1, WriteInPlace, StoreInserts DEF RequestFindsNothing
  <2> QED BY <2>1, <2>2 DEF Inv
<1>3. ASSUME NEW g \in Grabs, NEW h \in Gids, RequestDispatches(g, h) PROVE Inv'
  <2> DEFINE d == [NoSnapshot EXCEPT !.row = g, !.gid = h]
  <2>1. d \in Snapshots /\ d.row = g /\ d.gid = h
    BY DEF NoSnapshot, Snapshots
  <2>2. ContinueAs("request", d, "precheck", d)
    BY <1>3 DEF RequestDispatches, Continue
  <2> HIDE DEF d
  <2>3. AddNZB(h, g) /\ UNCHANGED <<rows, restarts>>
    BY <1>3 DEF RequestDispatches
  <2>4. RowsInv' /\ WorkersInv' /\ EngineInv'
    BY <1>1, <2>1, <2>2, <2>3, AddNZBInv
  <2> QED BY <2>3, <2>4 DEF Inv
<1> QED BY <1>2, <1>3 DEF NewRequest

LEMMA RequestGoesOnInv ==
  ASSUME Inv, RequestGoesOn
  PROVE  Inv'
<1> DEFINE c == workers["request"].cur
<1>1. /\ "request" \in Workers /\ RowsInv /\ WorkersInv /\ EngineInv
      /\ c \in Snaps /\ Owned(c)
  BY DriversAreWorkers, InHand DEF Inv
<1> HIDE DEF c
<1>2. ASSUME RequestPrechecked PROVE Inv'
  BY <1>1, <1>2, ContinueInv, UnchangedInv, JobsInv
  DEF RequestPrechecked, Inv, StartDownload, Steps, c
<1>3. ASSUME RequestRejected PROVE Inv'
  <2>1. EngineInv' /\ UNCHANGED <<owner, restarts>>
    BY <1>1, <1>3, JobsInv DEF RequestRejected
  <2>2. WorkersInv'
    BY <1>1, <1>3, <2>1, FinishInv, ContinueInv DEF RequestRejected, Steps, c
  <2>3. RowsInv'
    BY <1>1, <1>3, <2>1, WriteForSnapshot, StoreInserts DEF RequestRejected, c
  <2> QED BY <2>1, <2>2, <2>3 DEF Inv
<1>4. ASSUME RequestParks PROVE Inv'
  <2>1. WorkersInv' /\ EngineInv' /\ UNCHANGED <<owner, restarts>>
    BY <1>1, <1>4, FinishInv, UnchangedInv DEF RequestParks, engine
  <2>2. RowsInv'
    BY <1>1, <1>4, <2>1, WriteForSnapshot, RowTyped, StoreParks DEF RequestParks, c
  <2> QED BY <2>1, <2>2 DEF Inv
<1>5. ASSUME RequestCreates PROVE Inv'
  <2>1. WorkersInv' /\ EngineInv' /\ UNCHANGED <<owner, restarts>>
    BY <1>1, <1>5, ContinueInv, UnchangedInv DEF RequestCreates, engine, Steps, c
  <2>2. RowsInv'
    BY <1>1, <1>5, <2>1, WriteForSnapshot, StoreInserts DEF RequestCreates, c
  <2> QED BY <2>1, <2>2 DEF Inv
<1>6. ASSUME RequestSetsOrigin PROVE Inv'
  <2>1. WorkersInv' /\ EngineInv' /\ UNCHANGED <<owner, restarts>>
    BY <1>1, <1>6, ContinueInv, UnchangedInv DEF RequestSetsOrigin, engine, Steps, c
  <2>2. RowsInv'
    BY <1>1, <1>6, <2>1, WriteForSnapshot, RowTyped, StoreSets DEF RequestSetsOrigin, c
  <2> QED BY <2>1, <2>2 DEF Inv
<1>7. ASSUME RequestSetsGid PROVE Inv'
  <2>1. WorkersInv' /\ EngineInv' /\ UNCHANGED <<owner, restarts>>
    BY <1>1, <1>7, FinishInv, UnchangedInv DEF RequestSetsGid, engine
  <2>2. RowsInv'
    BY <1>1, <1>7, <2>1, WriteForSnapshot, RowTyped, StoreRecords, SnapsTyped
    DEF RequestSetsGid, c
  <2> QED BY <2>1, <2>2 DEF Inv
<1> QED BY <1>2, <1>3, <1>4, <1>5, <1>6, <1>7 DEF RequestGoesOn

LEMMA SetCallbackTyped ==
  ASSUME EngineInv, NEW h, NEW cb \in CallbackStates, SetCallback(h, cb)
  PROVE  callback' \in [Gids -> CallbackStates]
BY DEF EngineInv, SetCallback

LEMMA NoCallbackTyped == NoCallback \in CallbackStates
BY DEF NoCallback, CallbackStates, CallbackState, Snaps

LEMMA DownloadsInv ==
  ASSUME Inv, NEW h \in Gids, Engine(h)
  PROVE  Inv'
<1>1. UNCHANGED <<rows, workers, owner, restarts>>
  BY DEF Engine, DownloadFails, DownloadCompletes, DismissComplete
<1>2. RowsInv' /\ WorkersInv'
  BY <1>1, UnchangedInv DEF Inv
<1>3. EngineInv
  BY DEF Inv
<1>4. CASE DownloadFails(h)
  <2>1. PICK err \in Failure, fired \in BOOLEAN:
          Finished(h, err, IF fired THEN [NoCallback EXCEPT !.state = "error", !.err = err]
                           ELSE NoCallback)
    BY <1>4 DEF DownloadFails
  <2>2. [NoCallback EXCEPT !.state = "error", !.err = err] \in CallbackStates
    BY DEF NoCallback, CallbackStates, CallbackState, Snaps
  <2>3. UNCHANGED <<staging, owner>>
    BY <1>4 DEF DownloadFails
  <2>4. PICK cb \in CallbackStates: Finished(h, err, cb)
    BY <2>1, <2>2, NoCallbackTyped
  <2> QED BY <1>1, <1>2, <1>3, <2>3, <2>4 DEF Finished, EngineInv, JobState, Inv
<1>5. CASE DownloadCompletes(h)
  <2>1. [NoCallback EXCEPT !.state = "complete"] \in CallbackStates
    BY DEF NoCallback, CallbackStates, CallbackState, Snaps
  <2> QED
    BY <1>1, <1>2, <1>3, <1>5, <2>1
    DEF DownloadCompletes, Finished, EngineInv, JobState, StagingState, Inv
<1>6. CASE DismissComplete(h)
  BY <1>1, <1>2, <1>3, <1>6, JobsInv DEF DismissComplete, Inv
<1> QED BY <1>4, <1>5, <1>6 DEF Engine

\* A callback that has found its row, or not.
LEMMA LooksUpTyped ==
  ASSUME RowsInv, EngineInv, NEW h \in Gids, NEW found \in SUBSET Grabs,
         NEW state \in CallbackState,
         \/ SetCallback(h, NoCallback)
         \/ \E g \in found:
              SetCallback(h, [callback[h] EXCEPT !.state = state, !.snap = Snapshot(g)])
  PROVE  callback' \in [Gids -> CallbackStates]
<1>1. ASSUME NEW g \in Grabs
      PROVE  [callback[h] EXCEPT !.state = state, !.snap = Snapshot(g)] \in CallbackStates
  <2>1. callback[h] \in CallbackStates
    BY DEF EngineInv
  <2> QED BY <2>1, SnapshotInv DEF CallbackStates
<1> QED BY <1>1, SetCallbackTyped, NoCallbackTyped

LEMMA CallbackInv ==
  ASSUME Inv, NEW h \in Gids, Callback(h)
  PROVE  Inv'
<1> DEFINE s == callback[h].snap
<1>1. RowsInv /\ WorkersInv /\ EngineInv /\ s \in Snaps
  BY DEF Inv, EngineInv, CallbackStates
<1> HIDE DEF s
<1>2. UNCHANGED <<workers, owner, restarts>> /\ WorkersInv'
  BY <1>1, UnchangedInv
  DEF Callback, ErrorLooksUp, ErrorApplies, CompleteLooksUp, CompleteImports
<1>3. CASE ErrorLooksUp(h)
  <2> DEFINE found == {g \in Grabs: rows[g].gid = h /\ rows[g].status = "queued"}
  <2>1. /\ found \in SUBSET Grabs
        /\ \/ SetCallback(h, NoCallback)
           \/ \E g \in found:
                SetCallback(h, [callback[h] EXCEPT !.state = "apply", !.snap = Snapshot(g)])
    BY <1>3 DEF ErrorLooksUp
  <2> HIDE DEF found
  <2>2. callback' \in [Gids -> CallbackStates]
    BY <1>1, <2>1, LooksUpTyped DEF CallbackState
  <2> QED
    BY <1>1, <1>2, <1>3, <2>2, UnchangedInv DEF ErrorLooksUp, EngineInv, Inv
<1>4. CASE ErrorApplies(h)
  <2>1. callback' \in [Gids -> CallbackStates]
    BY <1>1, <1>4, SetCallbackTyped, NoCallbackTyped DEF ErrorApplies
  <2>2. RowsInv' /\ EngineInv'
    BY <1>1, <1>2, <1>4, <2>1, ApplyFailureInv DEF ErrorApplies, s
  <2> QED BY <1>2, <2>2 DEF Inv
<1>5. CASE CompleteLooksUp(h)
  <2> DEFINE found == {g \in Grabs: rows[g].gid = h /\ rows[g].status # "imported"}
  <2>1. /\ found \in SUBSET Grabs
        /\ \/ SetCallback(h, NoCallback)
           \/ \E g \in found:
                SetCallback(h, [callback[h] EXCEPT !.state = "import", !.snap = Snapshot(g)])
    BY <1>5 DEF CompleteLooksUp
  <2> HIDE DEF found
  <2>2. callback' \in [Gids -> CallbackStates]
    BY <1>1, <2>1, LooksUpTyped DEF CallbackState
  <2> QED
    BY <1>1, <1>2, <1>5, <2>2, UnchangedInv DEF CompleteLooksUp, EngineInv, Inv
<1>6. CASE CompleteImports(h)
  <2>1. callback' \in [Gids -> CallbackStates]
    BY <1>1, <1>6, SetCallbackTyped, NoCallbackTyped DEF CompleteImports
  <2>2. \A row \in Row: /\ MarkImportedIfNot(row) \in Keeping(row, NoGid)
                        /\ ParkForAlternateRelease(row) \in Keeping(row, NoGid)
    BY StoreSets, StoreParks
  <2>3. RowsInv'
    BY <1>1, <1>2, <1>6, <2>2, WriteInPlace, RowTyped, UnchangedInv
    DEF CompleteImports, ParkContentFailure, s
  <2>4. EngineInv'
    BY <1>1, <1>2, <1>6, <2>1
    DEF CompleteImports, ParkContentFailure, EngineInv, JobState, Live, StagingState
  <2> QED BY <1>2, <2>3, <2>4 DEF Inv
<1> QED BY <1>3, <1>4, <1>5, <1>6 DEF Callback

LEMMA OperatorBeginsInv ==
  ASSUME Inv, OperatorBegins
  PROVE  Inv'
<1>1. "operator" \in Workers /\ RowsInv /\ WorkersInv /\ EngineInv
  BY DriversAreWorkers DEF Inv
<1>2. ASSUME NEW g \in Grabs, Promote(g) PROVE Inv'
  <2>1. WorkersInv' /\ EngineInv' /\ UNCHANGED <<owner, restarts>>
    BY <1>1, <1>2, UnchangedInv DEF Promote, engine
  <2>2. RowsInv'
    BY <1>1, <1>2, <2>1, WriteInPlace, RowTyped, StoreParks DEF Promote
  <2> QED BY <2>1, <2>2 DEF Inv
<1>3. ASSUME NEW g \in Grabs, Unmonitor(g) PROVE Inv'
  <2>1. WorkersInv'
    BY <1>1, <1>3, SnapshotInv, ContinueInv DEF Unmonitor, engine, Steps
  <2> QED BY <1>1, <1>3, <2>1, UnchangedInv DEF Unmonitor, engine, Inv
<1>4. ASSUME NEW g \in Grabs, CalendarCreates(g) PROVE Inv'
  <2>1. WorkersInv' /\ EngineInv' /\ UNCHANGED <<owner, restarts>>
    BY <1>1, <1>4, UnchangedInv DEF CalendarCreates, engine
  <2>2. RowsInv'
    BY <1>1, <1>4, <2>1, WriteInPlace, StoreInserts DEF CalendarCreates, HoldStamp, Stamp
  <2> QED BY <2>1, <2>2 DEF Inv
<1>5. ASSUME NEW g \in Grabs, CalendarFinds(g) PROVE Inv'
  <2>1. WorkersInv'
    BY <1>1, <1>5, SnapshotInv, ContinueInv DEF CalendarFinds, engine, Steps
  <2> QED BY <1>1, <1>5, <2>1, UnchangedInv DEF CalendarFinds, engine, Inv
<1>6. ASSUME NEW h \in Gids, Cancel(h) PROVE Inv'
  <2>1. RowsInv' /\ WorkersInv' /\ UNCHANGED <<owner, restarts>>
    BY <1>1, <1>6, UnchangedInv DEF Cancel
  <2>2. callback' \in [Gids -> CallbackStates]
    <3>1. [NoCallback EXCEPT !.state = "complete"] \in CallbackStates
      BY DEF NoCallback, CallbackStates, CallbackState, Snaps
    <3> QED BY <1>1, <1>6, <3>1, SetCallbackTyped DEF Cancel, EngineInv
  <2>3. job' \in [Gids -> JobState] /\ staging' \in [Gids -> StagingState]
    BY <1>1, <1>6 DEF Cancel, DropJob, EngineInv, JobState, StagingState
  <2> QED BY <1>1, <2>1, <2>2, <2>3 DEF EngineInv, Inv
<1> QED BY <1>2, <1>3, <1>4, <1>5, <1>6 DEF OperatorBegins

LEMMA OperatorGoesOnInv ==
  ASSUME Inv, OperatorGoesOn
  PROVE  Inv'
<1> DEFINE c == workers["operator"].cur
<1>1. /\ "operator" \in Workers /\ RowsInv /\ WorkersInv /\ EngineInv
      /\ c \in Snaps /\ Owned(c)
  BY DriversAreWorkers, InHand DEF Inv
<1> HIDE DEF c
<1>2. ASSUME UnmonitorSchedules PROVE Inv'
  <2>1. WorkersInv' /\ EngineInv' /\ UNCHANGED <<owner, restarts>>
    BY <1>1, <1>2, ContinueInv, UnchangedInv DEF UnmonitorSchedules, engine, Steps, c
  <2>2. RowsInv'
    BY <1>1, <1>2, <2>1, WriteForSnapshot, RowTyped, StoreSets
    DEF UnmonitorSchedules, Stamp, c
  <2> QED BY <2>1, <2>2 DEF Inv
<1>3. ASSUME CalendarWrites PROVE Inv'
  <2>1. WorkersInv' /\ EngineInv' /\ UNCHANGED <<owner, restarts>>
    BY <1>1, <1>3, FinishInv, UnchangedInv DEF CalendarWrites, engine
  <2>2. RowsInv'
    BY <1>1, <1>3, <2>1, WriteForSnapshot, RowTyped, StoreSets, StoreHolds
    DEF CalendarWrites, HoldStamp, Stamp, c
  <2> QED BY <2>1, <2>2 DEF Inv
<1> QED BY <1>1, <1>2, <1>3, TerminateInv DEF OperatorGoesOn

LEMMA TickInv ==
  ASSUME Inv, NEW g \in Grabs, Tick(g)
  PROVE  Inv'
<1>1. RowsInv /\ WorkersInv /\ EngineInv /\ rows[g] \in Row
  BY RowTyped DEF Inv
<1>2. WorkersInv' /\ EngineInv' /\ UNCHANGED <<owner, restarts>>
  BY <1>1, UnchangedInv DEF Tick, engine
<1>3. /\ [rows[g] EXCEPT !.retryAfter = "due"] \in Keeping(rows[g], NoGid)
      /\ [rows[g] EXCEPT !.hold = "due"] \in Keeping(rows[g], NoGid)
  BY <1>1 DEF Row, Keeping, Stamp, HoldStamp
<1>4. RowsInv'
  BY <1>1, <1>2, <1>3, WriteInPlace DEF Tick
<1> QED BY <1>2, <1>4 DEF Inv

LEMMA RestartInv ==
  ASSUME Inv, Restart
  PROVE  Inv'
<1>1. RowsInv /\ WorkersInv /\ EngineInv /\ UNCHANGED <<staging, owner>>
  BY DEF Inv, Restart
<1>2. RowsInv'
  <2>1. PICK parked \in SUBSET Grabs:
          rows' = [g \in Grabs |-> IF g \in parked
                                   THEN ParkForShutdownResume(rows[g]) ELSE rows[g]]
    BY DEF Restart
  <2>2. \A g \in Grabs: /\ rows[g] \in Row
                        /\ ParkForShutdownResume(rows[g]) \in Keeping(rows[g], NoGid)
    BY <1>1, RowTyped, StoreParks
  <2> QED BY <1>1, <2>1, <2>2 DEF RowsInv, Rows, Keeping
<1>3. WorkersInv'
  BY DEF Restart, WorkersInv, WorkerStates, Idle, Passes, Steps, Snaps, NoSnapshot, Owned
<1>4. EngineInv'
  BY <1>1, NoCallbackTyped DEF Restart, EngineInv, JobState
<1>5. restarts' \in 0..MaxRestarts
  BY MaxRestartsAssumption DEF Inv, Restart
<1> QED BY <1>2, <1>3, <1>4, <1>5 DEF Inv

LEMMA InvNext == Inv /\ [Next]_vars => Inv'
<1> SUFFICES ASSUME Inv, [Next]_vars PROVE Inv'
  OBVIOUS
<1>1. CASE UNCHANGED vars
  BY <1>1, UnchangedInv DEF vars, Inv, engine
<1>2. ASSUME NEW w \in Drivers, Work(w) PROVE Inv'
  BY <1>2, PassesInv, ReconcileInv, ResumeInv, AutoGrabInv, ScheduleInv DEF Work
<1>3. CASE NewRequest \/ RequestGoesOn
  BY <1>3, NewRequestInv, RequestGoesOnInv
<1>4. ASSUME NEW h \in Gids, Engine(h) \/ Callback(h) PROVE Inv'
  BY <1>4, DownloadsInv, CallbackInv
<1>5. CASE OperatorBegins \/ OperatorGoesOn
  BY <1>5, OperatorBeginsInv, OperatorGoesOnInv
<1>6. ASSUME NEW g \in Grabs, Tick(g) PROVE Inv'
  BY <1>6, TickInv
<1>7. CASE Restart
  BY <1>7, RestartInv
<1> QED BY <1>1, <1>2, <1>3, <1>4, <1>5, <1>6, <1>7 DEF Next

-----------------------------------------------------------------------------
(* The theorems *)

LEMMA InvHolds == Spec => []Inv
BY InvInit, InvNext, PTL DEF Spec

\* Every variable keeps its type: in particular a row always has a status, GID
\* and schedule the store's queries know, whatever was written to it.
THEOREM TypeCorrect == Spec => []TypeOK
<1>1. Inv => TypeOK
  BY DEF Inv, RowsInv, Rows, WorkersInv, WorkerStates, EngineInv, CallbackStates,
         Snaps, TypeOK
<1> QED BY <1>1, InvHolds, PTL

\* A GID is in one row at most, so a callback that looks its row up by GID never
\* imports or fails the download of another title.
THEOREM GidsNotShared == Spec => []OneGrabPerDownload
<1>1. Inv => OneGrabPerDownload
  BY DEF Inv, RowsInv, OneGrabPerDownload
<1> QED BY <1>1, InvHolds, PTL

=============================================================================
