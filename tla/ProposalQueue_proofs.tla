------------------------- MODULE ProposalQueue_proofs -------------------------
(***************************************************************************)
(* Proofs about ProposalQueue, for any paths, scans, requests and bounds:   *)
(* the type invariant, that a commit leaves alone what a request that still *)
(* holds the gate has applied, and that it deletes no row that the scan     *)
(* selected and whose file it saw.                                          *)
(*                                                                         *)
(* The second rests on two facts.  The gate counts the requests that hold   *)
(* it (GateInv), so that the second check of ReplacePending fails while one *)
(* of them has applied something.  And a scan past that check has locked    *)
(* what it wrote, so that a request which begins after it waits (CommitInv).*)
(*                                                                         *)
(* The third rests on the unique index: statements that wait and statements *)
(* that are refused leave one live row at a path, committed or about to be  *)
(* (IndexInv).  So a scan knows one row by a path, and having upserted it   *)
(* does not count it among the orphans (KeepsSeen).                         *)
(***************************************************************************)
EXTENDS ProposalQueue, TLAPS, FiniteSetTheorems

\* Steps at which a request knows its row, holds the gate, does not hold it.
IdSteps == {"begin item", "act", "mark", "look up", "mark found", "remove",
            "check", "put back", "restore", "write"}
HeldSteps == {"act", "mark", "look up", "mark found", "remove",
              "check", "put back", "restore"}
FreeSteps == {"idle", "get", "peek", "begin", "begin item", "write"}

KnowsRow(q) == q.id \in Ids /\ q.path \in Paths
Consistent(q) ==
  /\ q.at \in IdSteps => KnowsRow(q)
  /\ q.at = "begin" /\ q.kind \in {"apply", "undo"} => KnowsRow(q)
  /\ q.at = "peek" => q.kind \notin {"apply", "undo"}
  /\ q.at \in HeldSteps => q.holds
  /\ q.at \in FreeSteps => ~q.holds
  /\ q.done # {} => q.holds

Holders == {r \in Requests: requests[r].holds}

TableInv ==
  /\ rows \in [Ids -> Row]
  /\ \A i \in Ids: rows[i].status # "none" => rows[i].path \in Paths
ScansInv ==
  /\ scans \in [Scans -> ScanState]
  /\ \A s \in Scans, i \in Ids: LockedBy(s, i) => scans[s].writes[i].path \in Paths
RequestsInv ==
  /\ requests \in [Requests -> RequestState]
  /\ \A r \in Requests: Consistent(requests[r])
GateInv ==
  /\ gate \in [inFlight: Nat, deferred: BOOLEAN]
  /\ gate.inFlight = Cardinality(Holders)
CommitInv ==
  \A s \in Scans, r \in Requests:
    ScanAt(s, "commit") => \A i \in requests[r].done: ~LockedBy(s, i)
OtherInv ==
  /\ inbox \subseteq Paths
  /\ hub \in BOOLEAN
  /\ watch \in [on: BOOLEAN, timer: BOOLEAN]
  /\ launched \subseteq Causes
  /\ budget \in [arrivals: Nat, requests: Nat, restarts: Nat]

Inv == TableInv /\ ScansInv /\ RequestsInv /\ GateInv /\ CommitInv /\ OtherInv

-----------------------------------------------------------------------------
(* What a step changes, and what that leaves true *)

LEMMA IdleScanState ==
  /\ IdleScan \in ScanState /\ IdleScan.at = "idle"
  /\ \A i \in Ids: IdleScan.writes[i] = Unwritten
<1>1. NoWrites \in [Ids -> Row \union {Unwritten}] BY DEF NoWrites
<1> QED BY <1>1 DEF IdleScan, ScanState, ScanSteps, NoWrites

LEMMA IdleRequestState ==
  /\ IdleRequest \in RequestState /\ Consistent(IdleRequest)
  /\ IdleRequest.done = {} /\ ~IdleRequest.holds
BY DEF IdleRequest, RequestState, RequestSteps, Consistent, IdSteps, HeldSteps, FreeSteps

\* A scan whose record becomes q.
LEMMA ScanBecomes ==
  ASSUME ScansInv, CommitInv, NEW s \in Scans, NEW q \in ScanState,
         scans' = [scans EXCEPT ![s] = q],
         \A i \in Ids: q.writes[i] # Unwritten => q.writes[i].path \in Paths,
         q.at = "commit" => \A r \in Requests: \A i \in requests[r].done:
                              q.writes[i] = Unwritten,
         UNCHANGED requests
  PROVE  ScansInv' /\ CommitInv'
<1>1. scans' \in [Scans -> ScanState] BY DEF ScansInv
<1>2. \A t \in Scans: scans'[t] = IF t = s THEN q ELSE scans[t] BY DEF ScansInv
<1>3. ScansInv' BY <1>1, <1>2 DEF ScansInv, LockedBy
<1>4. CommitInv' BY <1>2 DEF CommitInv, ScanAt, LockedBy
<1> QED BY <1>3, <1>4

\* A request whose record becomes q, on the same side of the gate.
LEMMA RequestBecomes ==
  ASSUME RequestsInv, GateInv, NEW r \in Requests, NEW q \in RequestState,
         Consistent(q), q.holds = requests[r].holds,
         requests' = [requests EXCEPT ![r] = q], UNCHANGED gate
  PROVE  RequestsInv' /\ GateInv'
<1>1. requests' \in [Requests -> RequestState] BY DEF RequestsInv
<1>2. \A t \in Requests: requests'[t] = IF t = r THEN q ELSE requests[t]
  BY DEF RequestsInv
<1>3. RequestsInv' BY <1>1, <1>2 DEF RequestsInv
<1>4. Holders' = Holders BY <1>2 DEF Holders
<1>5. GateInv' BY <1>4 DEF GateInv
<1> QED BY <1>3, <1>5

\* What a request has done is no more than before, or is a row no scan writes.
LEMMA DoneSpared ==
  ASSUME CommitInv, RequestsInv, NEW r \in Requests, NEW q,
         requests' = [requests EXCEPT ![r] = q],
         \A i \in q.done: i \in requests[r].done \/ ~Locked(i),
         UNCHANGED scans
  PROVE  CommitInv'
<1>1. \A t \in Requests: requests'[t] = IF t = r THEN q ELSE requests[t]
  BY DEF RequestsInv
<1> QED BY <1>1 DEF CommitInv, ScanAt, LockedBy, Locked

LEMMA RequestLeaves ==
  ASSUME RequestsInv, GateInv, CommitInv, NEW r \in Requests, Leaves(r),
         ~requests[r].holds, UNCHANGED <<gate, scans>>
  PROVE  RequestsInv' /\ GateInv' /\ CommitInv'
<1>1. requests[r].holds = IdleRequest.holds
  BY DEF IdleRequest, RequestsInv, RequestState
<1>2. RequestsInv' /\ GateInv' BY <1>1, RequestBecomes, IdleRequestState DEF Leaves
<1>3. CommitInv' BY DoneSpared, IdleRequestState DEF Leaves
<1> QED BY <1>2, <1>3

\* A request that only moves on to another step.
LEMMA RequestGoes ==
  ASSUME RequestsInv, GateInv, CommitInv, NEW r \in Requests, NEW at \in RequestSteps,
         Goes(r, at), Consistent([requests[r] EXCEPT !.at = at]),
         UNCHANGED <<gate, scans>>
  PROVE  RequestsInv' /\ GateInv' /\ CommitInv'
<1> DEFINE q == [requests[r] EXCEPT !.at = at]
<1>1. requests[r] \in RequestState BY DEF RequestsInv
<1>2. q \in RequestState /\ q.holds = requests[r].holds /\ q.done = requests[r].done
  BY <1>1 DEF RequestState
<1>3. requests' = [requests EXCEPT ![r] = q] BY <1>1 DEF Goes, RequestsInv
<1> HIDE DEF q
<1>4. RequestsInv' /\ GateInv' BY <1>2, <1>3, RequestBecomes DEF q
<1>5. CommitInv' BY <1>2, <1>3, DoneSpared
<1> QED BY <1>4, <1>5

\* A scan that only moves on to another step, short of committing.
LEMMA ScanMoves ==
  ASSUME ScansInv, CommitInv, NEW s \in Scans, NEW at \in ScanSteps \ {"commit"},
         ScanGoes(s, at), UNCHANGED requests
  PROVE  ScansInv' /\ CommitInv'
<1> DEFINE q == [scans[s] EXCEPT !.at = at]
<1>1. scans[s] \in ScanState BY DEF ScansInv
<1>2. q \in ScanState /\ q.at # "commit" /\ q.writes = scans[s].writes
  BY <1>1 DEF ScanState
<1>3. scans' = [scans EXCEPT ![s] = q] BY <1>1 DEF ScanGoes, ScansInv
<1>4. \A i \in Ids: q.writes[i] # Unwritten => q.writes[i].path \in Paths
  BY <1>2 DEF ScansInv, LockedBy
<1> HIDE DEF q
<1> QED BY <1>2, <1>3, <1>4, ScanBecomes

\* A scan that reads, or writes some rows, while it is not at its commit.
LEMMA ScanLearns ==
  ASSUME ScansInv, CommitInv, NEW s \in Scans, NEW q,
         scans' = [scans EXCEPT ![s] = q], q \in ScanState, q.at # "commit",
         \A i \in Ids: q.writes[i] \in {scans[s].writes[i], Unwritten}
                       \/ q.writes[i].path \in Paths,
         UNCHANGED requests
  PROVE  ScansInv' /\ CommitInv'
<1>1. \A i \in Ids: q.writes[i] # Unwritten => q.writes[i].path \in Paths
  BY DEF ScansInv, LockedBy
<1> QED BY <1>1, ScanBecomes

LEMMA RollsBackKeeps ==
  ASSUME ScansInv, CommitInv, NEW s \in Scans, UNCHANGED requests,
         scans' = [scans EXCEPT ![s].at = "return", ![s].writes = NoWrites]
  PROVE  ScansInv' /\ CommitInv'
<1> DEFINE q == [scans[s] EXCEPT !.at = "return", !.writes = NoWrites]
<1>1. scans[s] \in ScanState BY DEF ScansInv
<1>2. NoWrites \in [Ids -> Row \union {Unwritten}] BY DEF NoWrites
<1>3. q \in ScanState /\ q.at # "commit" /\ q.writes = NoWrites
  BY <1>1, <1>2 DEF ScanState, ScanSteps
<1>4. scans' = [scans EXCEPT ![s] = q] BY <1>1 DEF ScansInv
<1>5. \A i \in Ids: q.writes[i] = Unwritten BY <1>3 DEF NoWrites
<1> HIDE DEF q
<1> QED BY <1>3, <1>4, <1>5, ScanBecomes

-----------------------------------------------------------------------------
(* The disk and what starts a scan *)

\* A step that leaves table, scans and requests alone.
LEMMA OnlyOther ==
  ASSUME Inv, OtherInv', UNCHANGED <<rows, scans, gate, requests>>
  PROVE  Inv'
BY DEF Inv, TableInv, ScansInv, RequestsInv, GateInv, CommitInv, LockedBy, Holders,
       ScanAt

\* A step that changes scans.
LEMMA OnlyScans ==
  ASSUME Inv, OtherInv', ScansInv', CommitInv', UNCHANGED <<rows, gate, requests>>
  PROVE  Inv'
BY DEF Inv, TableInv, RequestsInv, GateInv, Holders

\* The bounds count down.
LEMMA BudgetSpent ==
  ASSUME OtherInv,
         \/ /\ budget.arrivals > 0
            /\ budget' = [budget EXCEPT !.arrivals = budget.arrivals - 1]
         \/ /\ budget.requests > 0
            /\ budget' = [budget EXCEPT !.requests = budget.requests - 1]
         \/ /\ budget.restarts > 0
            /\ budget' = [budget EXCEPT !.restarts = budget.restarts - 1]
  PROVE  budget' \in [arrivals: Nat, requests: Nat, restarts: Nat]
<1>1. /\ budget \in [arrivals: Nat, requests: Nat, restarts: Nat]
      /\ budget.arrivals \in Nat /\ budget.requests \in Nat /\ budget.restarts \in Nat
  BY DEF OtherInv
<1>2. \A n \in Nat: n > 0 => n - 1 \in Nat OBVIOUS
<1> QED BY <1>1, <1>2

LEMMA WatchingKeepsInv ==
  ASSUME Inv,
         \/ \E p \in Paths: FileArrives(p)
         \/ TimerFires \/ WatcherStops \/ WatcherStarts \/ FolderSaved
         \/ \E cause \in Causes: WatchScanGivesUp(cause)
         \/ \E s \in Scans: Progresses(s)
  PROVE  Inv'
<1>0. OtherInv BY DEF Inv
<1>1. ASSUME NEW p \in Paths, FileArrives(p) PROVE Inv'
  <2>1. OtherInv'
    BY <1>0, <1>1, BudgetSpent DEF FileArrives, EventAt, OtherInv, queueVars, scanVars, watchVars,
       requestVars, Causes
  <2> QED BY <1>1, <2>1, OnlyOther DEF FileArrives, queueVars, scanVars, requestVars
<1>2. ASSUME TimerFires PROVE Inv'
  <2>1. OtherInv'
    BY <1>0, <1>2 DEF TimerFires, OtherInv, queueVars, scanVars, watchVars,
       requestVars, Causes
  <2> QED BY <1>2, <2>1, OnlyOther DEF TimerFires, queueVars, scanVars, requestVars
<1>3. ASSUME WatcherStops PROVE Inv'
  <2>1. OtherInv'
    BY <1>0, <1>3 DEF WatcherStops, OtherInv, queueVars, scanVars, watchVars,
       requestVars, Causes
  <2> QED BY <1>3, <2>1, OnlyOther DEF WatcherStops, queueVars, scanVars, requestVars
<1>4. ASSUME WatcherStarts PROVE Inv'
  <2>1. OtherInv'
    BY <1>0, <1>4 DEF WatcherStarts, OtherInv, queueVars, scanVars, watchVars,
       requestVars, Causes
  <2> QED BY <1>4, <2>1, OnlyOther DEF WatcherStarts, queueVars, scanVars, requestVars
<1>5. ASSUME FolderSaved PROVE Inv'
  <2>1. OtherInv'
    BY <1>0, <1>5, BudgetSpent DEF FolderSaved, OtherInv, queueVars, scanVars, watchVars,
       requestVars, Causes
  <2> QED BY <1>5, <2>1, OnlyOther DEF FolderSaved, queueVars, scanVars, requestVars
<1>6. ASSUME NEW cause \in Causes, WatchScanGivesUp(cause) PROVE Inv'
  <2>1. OtherInv'
    BY <1>0, <1>6 DEF WatchScanGivesUp, OtherInv, queueVars, scanVars, watchVars,
       requestVars, Causes
  <2> QED BY <1>6, <2>1, OnlyOther DEF WatchScanGivesUp, queueVars, scanVars, requestVars
<1>7. ASSUME NEW s \in Scans, Progresses(s) PROVE Inv'
  <2>1. OtherInv'
    BY <1>0, <1>7 DEF Progresses, OtherInv, queueVars, scanVars, watchVars,
       requestVars, Causes
  <2> QED BY <1>7, <2>1, OnlyOther DEF Progresses, queueVars, scanVars, requestVars
<1> QED BY <1>1, <1>2, <1>3, <1>4, <1>5, <1>6, <1>7

LEMMA StartsKeepInv ==
  ASSUME Inv,
         \/ \E s \in WatchScans, cause \in Causes: WatchScanStarts(s, cause)
         \/ \E s \in ManualScans: ManualScanStarts(s)
         \/ \E s \in ScheduledScans: ScheduledScanStarts(s)
  PROVE  Inv'
<1>0. "scan" \in ScanSteps \ {"commit"} BY DEF ScanSteps
<1>1. ASSUME NEW s \in WatchScans, NEW cause \in Causes, WatchScanStarts(s, cause)
      PROVE  Inv'
  <2>1. ScansInv' /\ CommitInv'
    BY <1>0, <1>1, ScanMoves DEF WatchScanStarts, Inv, Scans, requestVars
  <2>2. OtherInv' BY <1>1 DEF WatchScanStarts, Inv, OtherInv, queueVars
  <2> QED BY <1>1, <2>1, <2>2, OnlyScans DEF WatchScanStarts, queueVars, requestVars
<1>2. ASSUME NEW s \in ManualScans, ManualScanStarts(s) PROVE Inv'
  <2>1. ScansInv' /\ CommitInv'
    BY <1>0, <1>2, ScanMoves DEF ManualScanStarts, Inv, Scans, requestVars
  <2>2. OtherInv' BY <1>2 DEF ManualScanStarts, Inv, OtherInv, queueVars, watchVars
  <2> QED BY <1>2, <2>1, <2>2, OnlyScans DEF ManualScanStarts, queueVars, requestVars
<1>3. ASSUME NEW s \in ScheduledScans, ScheduledScanStarts(s) PROVE Inv'
  <2>1. ScansInv' /\ CommitInv'
    BY <1>0, <1>3, ScanMoves DEF ScheduledScanStarts, Inv, Scans, requestVars
  <2>2. OtherInv'
    BY <1>3 DEF ScheduledScanStarts, Inv, OtherInv, queueVars, watchVars
  <2> QED BY <1>3, <2>1, <2>2, OnlyScans DEF ScheduledScanStarts, queueVars, requestVars
<1> QED BY <1>1, <1>2, <1>3

-----------------------------------------------------------------------------
(* A scan *)

LEMMA ReadsDiskKeepsInv ==
  ASSUME Inv, NEW s \in Scans, ReadsDisk(s)
  PROVE  Inv'
<1> DEFINE q == [scans[s] EXCEPT !.at = "gate", !.found = inbox]
<1>1. scans[s] \in ScanState BY DEF Inv, ScansInv
<1>2. q \in ScanState /\ q.at # "commit" /\ q.writes = scans[s].writes
  BY <1>1 DEF ScanState, ScanSteps, Inv, OtherInv
<1>3. scans' = [scans EXCEPT ![s] = q] BY <1>1 DEF ReadsDisk, Inv, ScansInv
<1> HIDE DEF q
<1>4. ScansInv' /\ CommitInv'
  BY <1>2, <1>3, ScanLearns DEF Inv, ReadsDisk, requestVars
<1>5. OtherInv' BY DEF ReadsDisk, Inv, OtherInv, queueVars, watchVars
<1> QED BY <1>4, <1>5, OnlyScans DEF ReadsDisk, queueVars, requestVars

\* What else a statement of ReplacePending leaves alone.
LEMMA StatementKeepsInv ==
  ASSUME Inv, ScansInv', CommitInv',
         UNCHANGED <<queueVars, hub, watchVars, requestVars, budget>>
  PROVE  Inv'
<1>1. OtherInv' BY DEF Inv, OtherInv, queueVars, watchVars
<1> QED BY <1>1, OnlyScans DEF queueVars, requestVars

LEMMA ReplaceStepKeepsInv ==
  ASSUME Inv, NEW s \in Scans, NEW from, NEW to \in ScanSteps \ {"commit"},
         ReplaceStep(s, from, to)
  PROVE  Inv'
<1>1. ScansInv' /\ CommitInv' BY ScanMoves DEF ReplaceStep, Inv, requestVars
<1> QED BY <1>1, StatementKeepsInv DEF ReplaceStep

LEMMA NoHolders ==
  ASSUME Inv, gate.inFlight = 0
  PROVE  \A r \in Requests: requests[r].done = {}
<1>1. IsFiniteSet(Holders) BY ActorsAssumption, FS_Subset DEF Holders
<1>2. Cardinality(Holders) = 0 BY DEF Inv, GateInv
<1>3. Holders = {} BY <1>1, <1>2, FS_EmptySet
<1> QED BY <1>3 DEF Holders, Inv, RequestsInv, Consistent

\* The second check: nobody holds the gate, so nobody has done anything yet.
LEMMA PassesRecheck ==
  ASSUME Inv, NEW s \in Scans, gate.inFlight = 0, ReplaceStep(s, "recheck", "commit")
  PROVE  Inv'
<1> DEFINE q == [scans[s] EXCEPT !.at = "commit"]
<1>1. scans[s] \in ScanState BY DEF Inv, ScansInv
<1>2. q \in ScanState /\ q.writes = scans[s].writes BY <1>1 DEF ScanState, ScanSteps
<1>3. scans' = [scans EXCEPT ![s] = q]
  BY <1>1 DEF ReplaceStep, ScanGoes, Inv, ScansInv
<1>4. \A i \in Ids: q.writes[i] # Unwritten => q.writes[i].path \in Paths
  BY <1>2 DEF Inv, ScansInv, LockedBy
<1> HIDE DEF q
<1>5. ScansInv' /\ CommitInv'
  BY <1>2, <1>3, <1>4, NoHolders, ScanBecomes DEF Inv, ReplaceStep, requestVars
<1> QED BY <1>5, StatementKeepsInv DEF ReplaceStep

LEMMA ChecksGateKeepsInv ==
  ASSUME Inv, NEW s \in Scans, ChecksGate(s)
  PROVE  Inv'
<1>0. "select" \in ScanSteps \ {"commit"} /\ "defer" \in ScanSteps \ {"commit"}
  BY DEF ScanSteps
<1>1. CASE gate.inFlight = 0 /\ ReplaceStep(s, "gate", "select")
  BY <1>0, <1>1, ReplaceStepKeepsInv
<1>2. CASE gate.inFlight = 0 /\ ReplaceStep(s, "recheck", "commit")
  BY <1>2, PassesRecheck
<1>3. ASSUME NEW from \in {"gate", "recheck"}, ReplaceStep(s, from, "defer")
      PROVE  Inv'
  BY <1>0, <1>3, ReplaceStepKeepsInv
<1> QED BY <1>1, <1>2, <1>3 DEF ChecksGate

LEMMA DefersKeepsInv ==
  ASSUME Inv, NEW s \in Scans, Defers(s)
  PROVE  Inv'
<1>1. ScansInv' /\ CommitInv' BY RollsBackKeeps DEF Defers, Inv
<1>2. gate' \in [inFlight: Nat, deferred: BOOLEAN] /\ gate'.inFlight = gate.inFlight
  BY DEF Defers, Inv, GateInv
<1>3. TableInv' /\ RequestsInv' /\ GateInv' /\ OtherInv'
  BY <1>2 DEF Defers, Inv, TableInv, RequestsInv, GateInv, OtherInv, Holders, queueVars,
     watchVars
<1> QED BY <1>1, <1>3 DEF Inv

LEMMA SelectsKeepsInv ==
  ASSUME Inv, NEW s \in Scans, Selects(s)
  PROVE  Inv'
<1> DEFINE q == [scans[s] EXCEPT !.at = "upsert", !.todo = scans[s].found,
                                 !.existing = {i \in Ids: Live(i)}]
<1>1. scans[s] \in ScanState BY DEF Inv, ScansInv
<1>2. q \in ScanState /\ q.at # "commit" /\ q.writes = scans[s].writes
  BY <1>1 DEF ScanState, ScanSteps
<1>3. scans' = [scans EXCEPT ![s] = q] BY <1>1 DEF Selects, Inv, ScansInv
<1> HIDE DEF q
<1>4. ScansInv' /\ CommitInv' BY <1>2, <1>3, ScanLearns DEF Inv, Selects, requestVars
<1> QED BY <1>4, StatementKeepsInv DEF Selects

\* The rest of a row stays when its status changes.
LEMMA StatusChanges ==
  ASSUME TableInv, NEW i \in Ids, NEW status \in Statuses
  PROVE  WithStatus(i, status) \in Row /\ WithStatus(i, status).path = rows[i].path
<1>1. rows[i] \in Row BY DEF TableInv
<1> QED BY <1>1 DEF WithStatus, Row

LEMMA UpsertedKeepsInv ==
  ASSUME Inv, NEW s \in Scans, NEW p, NEW i \in Ids, NEW w \in Row \union {Unwritten},
         w = Unwritten \/ w.path \in Paths,
         ScanAt(s, "upsert"), Upserted(s, p, i, w)
  PROVE  Inv'
<1> DEFINE q == [scans[s] EXCEPT !.todo = scans[s].todo \ {p},
                                 !.kept = scans[s].kept \union {i},
                                 !.writes = [scans[s].writes EXCEPT ![i] = w]]
<1>1. scans[s] \in ScanState BY DEF Inv, ScansInv
<1>2. scans[s].writes \in [Ids -> Row \union {Unwritten}] BY <1>1 DEF ScanState
<1>3. [scans[s].writes EXCEPT ![i] = w] \in [Ids -> Row \union {Unwritten}] BY <1>2
<1>4. q \in ScanState BY <1>1, <1>3 DEF ScanState
<1>5. q.at # "commit" BY <1>1 DEF ScanState, ScanAt
<1>6. q.writes = [scans[s].writes EXCEPT ![i] = w] BY <1>1 DEF ScanState
<1>7. \A j \in Ids: q.writes[j] \in {scans[s].writes[j], Unwritten}
                     \/ q.writes[j].path \in Paths
  BY <1>2, <1>6
<1>8. scans' = [scans EXCEPT ![s] = q] BY <1>1 DEF Upserted, Inv, ScansInv
<1> HIDE DEF q
<1>9. ScansInv' /\ CommitInv'
  BY <1>4, <1>5, <1>7, <1>8, ScanLearns DEF Inv, Upserted, requestVars
<1> QED BY <1>9, StatementKeepsInv DEF Upserted

LEMMA UpsertsKeepInv ==
  ASSUME Inv, NEW s \in Scans, NEW p \in Paths,
         Updates(s, p) \/ Inserts(s, p) \/ IsRefused(s, p)
  PROVE  Inv'
<1>1. CASE Updates(s, p)
  <2>1. PICK i \in Known(s, p):
          \/ Upserted(s, p, i, Unwritten)
          \/ Exists(i) /\ Upserted(s, p, i, WithStatus(i, "live"))
    BY <1>1 DEF Updates
  <2>2. ScanAt(s, "upsert") BY <1>1 DEF Updates, Turn
  <2>3. i \in Ids BY DEF Known, Inv, ScansInv, ScanState
  <2>4. CASE Upserted(s, p, i, Unwritten) BY <2>2, <2>3, <2>4, UpsertedKeepsInv
  <2>5. CASE Exists(i) /\ Upserted(s, p, i, WithStatus(i, "live"))
    <3>1. WithStatus(i, "live") \in Row /\ WithStatus(i, "live").path = rows[i].path
      BY <2>3, StatusChanges DEF Inv, Statuses
    <3>2. rows[i].path \in Paths BY <2>3, <2>5 DEF Exists, Inv, TableInv
    <3> QED BY <2>2, <2>3, <2>5, <3>1, <3>2, UpsertedKeepsInv
  <2> QED BY <2>1, <2>4, <2>5
<1>2. CASE Inserts(s, p)
  <2>1. PICK i \in Ids: Upserted(s, p, i, LiveRow(p)) BY <1>2 DEF Inserts
  <2>2. LiveRow(p) \in Row /\ LiveRow(p).path = p BY DEF LiveRow, Row, Statuses
  <2> QED BY <1>2, <2>1, <2>2, UpsertedKeepsInv DEF Inserts, Turn
<1>3. CASE IsRefused(s, p)
  <2>1. ScansInv' /\ CommitInv'
    BY <1>3, RollsBackKeeps DEF IsRefused, RollsBack, Inv, requestVars
  <2> QED BY <1>3, <2>1, StatementKeepsInv DEF IsRefused, RollsBack
<1> QED BY <1>1, <1>2, <1>3

LEMMA FindsOrphansKeepsInv ==
  ASSUME Inv, NEW s \in Scans, FindsOrphans(s)
  PROVE  Inv'
<1> DEFINE q == [scans[s] EXCEPT !.at = "delete",
                                 !.orphans = {i \in Ids: Live(i)} \ scans[s].kept]
<1>1. scans[s] \in ScanState BY DEF Inv, ScansInv
<1>2. q \in ScanState /\ q.at # "commit" /\ q.writes = scans[s].writes
  BY <1>1 DEF ScanState, ScanSteps
<1>3. scans' = [scans EXCEPT ![s] = q] BY <1>1 DEF FindsOrphans, Inv, ScansInv
<1> HIDE DEF q
<1>4. ScansInv' /\ CommitInv'
  BY <1>2, <1>3, ScanLearns DEF Inv, FindsOrphans, requestVars
<1> QED BY <1>4, StatementKeepsInv DEF FindsOrphans

LEMMA DeletesKeepsInv ==
  ASSUME Inv, NEW s \in Scans, NEW i \in Ids, Deletes(s, i)
  PROVE  Inv'
<1> DEFINE writes == IF Live(i)
                     THEN [scans[s].writes EXCEPT ![i] = WithStatus(i, "deleted")]
                     ELSE scans[s].writes
           q == [scans[s] EXCEPT !.orphans = scans[s].orphans \ {i}, !.writes = writes]
<1>1. scans[s] \in ScanState BY DEF Inv, ScansInv
<1>2. scans[s].writes \in [Ids -> Row \union {Unwritten}] BY <1>1 DEF ScanState
<1>3. WithStatus(i, "deleted") \in Row /\ WithStatus(i, "deleted").path = rows[i].path
  BY StatusChanges DEF Inv, Statuses
<1>4. Live(i) => rows[i].path \in Paths BY DEF Live, Inv, TableInv
<1>5. writes \in [Ids -> Row \union {Unwritten}] BY <1>2, <1>3
<1>6. \A j \in Ids: writes[j] = scans[s].writes[j] \/ writes[j].path \in Paths
  BY <1>2, <1>3, <1>4
<1> HIDE DEF writes
<1>7. q \in ScanState /\ q.writes = writes BY <1>1, <1>5 DEF ScanState
<1>8. q.at # "commit" BY <1>1 DEF ScanState, Deletes, TurnToDelete, ScanAt
<1>9. scans' = [scans EXCEPT ![s] = q] BY <1>1 DEF Deletes, Inv, ScansInv, writes
<1> HIDE DEF q
<1>10. ScansInv' /\ CommitInv'
  BY <1>6, <1>7, <1>8, <1>9, ScanLearns DEF Inv, Deletes, requestVars
<1> QED BY <1>10, StatementKeepsInv DEF Deletes

LEMMA CommitsKeepsInv ==
  ASSUME Inv, NEW s \in Scans, Commits(s)
  PROVE  Inv'
<1>1. ScansInv' /\ CommitInv' BY RollsBackKeeps DEF Commits, Inv, requestVars
<1>2. scans[s].writes \in [Ids -> Row \union {Unwritten}]
  BY DEF Inv, ScansInv, ScanState
<1>3. \A i \in Ids: LockedBy(s, i) => /\ scans[s].writes[i] \in Row
                                       /\ scans[s].writes[i].path \in Paths
  BY <1>2 DEF LockedBy, Inv, ScansInv
<1>4. rows' = [i \in Ids |-> IF LockedBy(s, i) THEN scans[s].writes[i] ELSE rows[i]]
  BY DEF Commits
<1>5. TableInv' BY <1>3, <1>4 DEF Inv, TableInv
<1>6. RequestsInv' /\ GateInv' /\ OtherInv'
  BY DEF Commits, Inv, RequestsInv, GateInv, OtherInv, Holders, watchVars, requestVars
<1> QED BY <1>1, <1>5, <1>6 DEF Inv

LEMMA ScanEndsKeepsInv ==
  ASSUME Inv, NEW s \in Scans, DeadlockVictim(s) \/ HasDeleted(s) \/ Returns(s)
  PROVE  Inv'
<1>1. CASE DeadlockVictim(s)
  <2>1. ScansInv' /\ CommitInv'
    BY <1>1, RollsBackKeeps DEF DeadlockVictim, RollsBack, Inv, requestVars
  <2> QED BY <1>1, <2>1, StatementKeepsInv DEF DeadlockVictim, RollsBack
<1>2. CASE HasDeleted(s)
  <2>1. "recheck" \in ScanSteps \ {"commit"} BY DEF ScanSteps
  <2> QED BY <1>2, <2>1, ReplaceStepKeepsInv DEF HasDeleted
<1>3. CASE Returns(s)
  <2>1. ScansInv' /\ CommitInv'
    BY <1>3, IdleScanState, ScanBecomes DEF Returns, Inv, requestVars
  <2>2. OtherInv' BY <1>3 DEF Returns, Inv, OtherInv, queueVars, watchVars
  <2> QED BY <1>3, <2>1, <2>2, OnlyScans DEF Returns, queueVars, requestVars
<1> QED BY <1>1, <1>2, <1>3

LEMMA ScanKeepsInv ==
  ASSUME Inv, NEW s \in Scans, ScanGoesOn(s)
  PROVE  Inv'
BY ReadsDiskKeepsInv, ChecksGateKeepsInv, DefersKeepsInv, SelectsKeepsInv,
   UpsertsKeepInv, FindsOrphansKeepsInv, DeletesKeepsInv, CommitsKeepsInv,
   ScanEndsKeepsInv DEF ScanGoesOn

-----------------------------------------------------------------------------
(* Requests *)

\* What else a step of a request leaves alone.
LEMMA OnlyRequests ==
  ASSUME Inv, TableInv', RequestsInv', GateInv', CommitInv', OtherInv', UNCHANGED scans
  PROVE  Inv'
<1>1. ScansInv' BY DEF Inv, ScansInv, LockedBy
<1> QED BY <1>1 DEF Inv

LEMMA StatusSet ==
  ASSUME TableInv, NEW i \in Ids, NEW status \in Statuses, Exists(i),
         SetStatus(i, status)
  PROVE  TableInv'
<1>1. WithStatus(i, status) \in Row /\ WithStatus(i, status).path \in Paths
  BY StatusChanges DEF TableInv, Exists
<1>2. rows' = [rows EXCEPT ![i] = WithStatus(i, status)] BY DEF SetStatus
<1> QED BY <1>1, <1>2 DEF TableInv

LEMMA SetsLiveKeepsTable ==
  ASSUME TableInv, NEW i \in Ids, SetsLive(i)
  PROVE  TableInv'
<1>1. CASE Exists(i) /\ ~Refused("request", i, rows[i].path)
  BY <1>1, StatusSet DEF SetsLive, Statuses
<1>2. CASE ~(Exists(i) /\ ~Refused("request", i, rows[i].path))
  BY <1>2 DEF SetsLive, TableInv
<1> QED BY <1>1, <1>2

LEMMA RowKnown ==
  ASSUME TableInv, NEW i \in Ids, Exists(i) \/ Live(i)
  PROVE  rows[i].path \in Paths
BY DEF TableInv, Exists, Live

\* A request whose record becomes q, nothing else but requests being written.
LEMMA RequestStep ==
  ASSUME Inv, NEW r \in Requests, NEW q \in RequestState, Consistent(q),
         q.holds = requests[r].holds,
         \A i \in q.done: i \in requests[r].done \/ ~Locked(i),
         requests' = [requests EXCEPT ![r] = q],
         TableInv', OtherInv', UNCHANGED <<gate, scans>>
  PROVE  Inv'
<1>1. RequestsInv' /\ GateInv' BY RequestBecomes DEF Inv
<1>2. CommitInv' BY DoneSpared DEF Inv
<1> QED BY <1>1, <1>2, OnlyRequests

LEMMA GoesStep ==
  ASSUME Inv, NEW r \in Requests, NEW at \in RequestSteps, Goes(r, at),
         Consistent([requests[r] EXCEPT !.at = at]),
         TableInv', OtherInv', UNCHANGED <<gate, scans>>
  PROVE  Inv'
BY RequestGoes, OnlyRequests DEF Inv

LEMMA LeavesStep ==
  ASSUME Inv, NEW r \in Requests, Leaves(r), ~requests[r].holds,
         TableInv', OtherInv', UNCHANGED <<gate, scans>>
  PROVE  Inv'
BY RequestLeaves, OnlyRequests DEF Inv

\* Table and disk are untouched.
LEMMA NothingElse ==
  ASSUME Inv, UNCHANGED <<queueVars, hub, watchVars, budget>>
  PROVE  TableInv' /\ OtherInv'
BY DEF Inv, TableInv, OtherInv, queueVars, watchVars

LEMMA ClickKeepsInv ==
  ASSUME Inv, NEW r \in Requests, NEW kind \in Kinds, NEW items \in SUBSET Ids,
         Click(r, kind, items)
  PROVE  Inv'
<1> DEFINE at == IF kind \in {"batch", "delete"} THEN "peek" ELSE "get"
           q == [requests[r] EXCEPT !.kind = kind, !.items = items, !.at = at]
<1>1. requests[r] \in RequestState /\ Consistent(requests[r]) BY DEF Inv, RequestsInv
<1>2. at \in RequestSteps BY DEF RequestSteps
<1>3. q \in RequestState /\ q.holds = requests[r].holds /\ q.done = requests[r].done
  BY <1>1, <1>2 DEF RequestState
<1>4. ~requests[r].holds BY <1>1 DEF Click, At, Consistent, FreeSteps
<1>5. Consistent(q)
  BY <1>1, <1>4 DEF Consistent, RequestState, IdSteps, HeldSteps, FreeSteps
<1>6. requests' = [requests EXCEPT ![r] = q] BY <1>1 DEF Click, Inv, RequestsInv
<1> HIDE DEF q
<1>7. OtherInv' BY BudgetSpent DEF Click, Inv, OtherInv, queueVars, scanVars, watchVars
<1>8. TableInv' BY DEF Click, Inv, TableInv, queueVars
<1> QED BY <1>3, <1>5, <1>6, <1>7, <1>8, RequestStep DEF Click, scanVars

LEMMA GetsKeepsInv ==
  ASSUME Inv, NEW r \in Requests, NEW i \in Ids, Gets(r, i)
  PROVE  Inv'
<1>1. requests[r] \in RequestState /\ Consistent(requests[r]) BY DEF Inv, RequestsInv
<1>2. ~requests[r].holds BY <1>1 DEF Gets, At, Consistent, FreeSteps
<1>3. TableInv' /\ OtherInv' BY NothingElse DEF Gets, scanVars
<1>4. CASE Eligible(requests[r].kind, i)
  <2> DEFINE at == IF requests[r].kind \in {"apply", "undo"} THEN "begin" ELSE "write"
             q == [requests[r] EXCEPT !.id = i, !.path = rows[i].path, !.items = {},
                                      !.at = at]
  <2>1. rows[i].path \in Paths BY <1>4, RowKnown DEF Eligible, Inv
  <2>2. at \in RequestSteps BY DEF RequestSteps
  <2>3. q \in RequestState /\ q.holds = requests[r].holds /\ q.done = requests[r].done
    BY <1>1, <2>1, <2>2 DEF RequestState
  <2>4. Consistent(q)
    BY <1>1, <1>2, <2>1
    DEF Consistent, KnowsRow, RequestState, IdSteps, HeldSteps, FreeSteps
  <2>5. requests' = [requests EXCEPT ![r] = q]
    BY <1>1, <1>4 DEF Gets, Inv, RequestsInv
  <2> HIDE DEF q
  <2> QED BY <1>3, <2>3, <2>4, <2>5, RequestStep DEF Gets, scanVars
<1>5. CASE ~Eligible(requests[r].kind, i)
  BY <1>2, <1>3, <1>5, LeavesStep DEF Gets, scanVars
<1> QED BY <1>4, <1>5

LEMMA PeeksKeepsInv ==
  ASSUME Inv, NEW r \in Requests, NEW i \in Ids, Peeks(r, i)
  PROVE  Inv'
<1> DEFINE at == IF Exists(i) THEN "begin" ELSE "item"
<1>1. requests[r] \in RequestState /\ Consistent(requests[r]) BY DEF Inv, RequestsInv
<1>2. TableInv' /\ OtherInv' BY NothingElse DEF Peeks, scanVars
<1>3. at \in RequestSteps BY DEF RequestSteps
<1>4. Consistent([requests[r] EXCEPT !.at = at])
  BY <1>1 DEF Consistent, RequestState, IdSteps, HeldSteps, FreeSteps, Peeks, At
<1>5. Goes(r, at) BY DEF Peeks
<1> HIDE DEF at
<1> QED BY <1>2, <1>3, <1>4, <1>5, GoesStep DEF Peeks, scanVars

LEMMA BeginApplyKeepsInv ==
  ASSUME Inv, NEW r \in Requests, BeginApply(r)
  PROVE  Inv'
<1> DEFINE q == [requests[r] EXCEPT !.at = AfterBegin(r), !.holds = TRUE]
<1>1. requests[r] \in RequestState /\ Consistent(requests[r]) BY DEF Inv, RequestsInv
<1>2. ~requests[r].holds BY <1>1 DEF BeginApply, Consistent, FreeSteps
<1>3. AfterBegin(r) \in {"act", "check", "item"} BY DEF AfterBegin
<1>4. AfterBegin(r) \in {"act", "check"} => KnowsRow(requests[r])
  BY <1>1 DEF AfterBegin, BeginApply, Consistent, IdSteps
<1>5. q \in RequestState /\ q.at = AfterBegin(r) /\ q.holds /\ q.done = requests[r].done
  BY <1>1, <1>3 DEF RequestState, RequestSteps
<1>6. KnowsRow(requests[r]) => KnowsRow(q) BY <1>1 DEF KnowsRow, RequestState
<1>7. Consistent(q)
  BY <1>3, <1>4, <1>5, <1>6 DEF Consistent, IdSteps, HeldSteps, FreeSteps
<1>8. requests' = [requests EXCEPT ![r] = q] BY <1>1 DEF BeginApply, Inv, RequestsInv
<1> HIDE DEF q
<1>9. \A t \in Requests: requests'[t] = IF t = r THEN q ELSE requests[t]
  BY <1>8 DEF Inv, RequestsInv
<1>10. RequestsInv' BY <1>5, <1>7, <1>8, <1>9 DEF Inv, RequestsInv
<1>11. GateInv'
  <2>1. Holders' = Holders \union {r} BY <1>5, <1>9 DEF Holders
  <2>2. IsFiniteSet(Holders) /\ r \notin Holders
    BY <1>2, ActorsAssumption, FS_Subset DEF Holders
  <2>3. Cardinality(Holders') = Cardinality(Holders) + 1 BY <2>1, <2>2, FS_AddElement
  <2>4. gate \in [inFlight: Nat, deferred: BOOLEAN] BY DEF Inv, GateInv
  <2>5. gate' = [gate EXCEPT !.inFlight = gate.inFlight + 1] BY DEF BeginApply
  <2>6. gate'.inFlight = gate.inFlight + 1 BY <2>4, <2>5
  <2>7. gate' \in [inFlight: Nat, deferred: BOOLEAN] BY <2>4, <2>5
  <2> QED BY <2>3, <2>6, <2>7 DEF Inv, GateInv
<1>12. CommitInv' BY <1>5, <1>8, DoneSpared DEF Inv, BeginApply, scanVars
<1>13. TableInv' /\ OtherInv' BY NothingElse DEF BeginApply, scanVars
<1> QED BY <1>10, <1>11, <1>12, <1>13, OnlyRequests DEF BeginApply, scanVars

LEMMA OnwardSteps == \A items: Onward(items) \in {"end", "item"}
BY DEF Onward

\* A request that holds the gate and knows its row goes on with it.
LEMMA HeldGoesOn ==
  ASSUME NEW q \in RequestState, Consistent(q), q.at \in HeldSteps,
         NEW at \in HeldSteps \union {"end", "item"}
  PROVE  /\ Consistent([q EXCEPT !.at = at])
         /\ at \in RequestSteps /\ q.holds /\ KnowsRow(q)
<1>1. q.holds /\ KnowsRow(q) BY DEF Consistent, HeldSteps, IdSteps
<1>2. at \in RequestSteps BY DEF HeldSteps, RequestSteps
<1>3. Consistent([q EXCEPT !.at = at])
  BY <1>1 DEF Consistent, KnowsRow, RequestState, HeldSteps, IdSteps, FreeSteps
<1> QED BY <1>1, <1>2, <1>3

\* Such a step that writes nothing but the request, the table and the disk.
LEMMA HeldStep ==
  ASSUME Inv, NEW r \in Requests, requests[r].at \in HeldSteps,
         NEW at \in HeldSteps \union {"end", "item"}, Goes(r, at),
         TableInv', OtherInv', UNCHANGED <<gate, scans>>
  PROVE  Inv'
<1>1. requests[r] \in RequestState /\ Consistent(requests[r]) BY DEF Inv, RequestsInv
<1> QED BY <1>1, HeldGoesOn, GoesStep

LEMMA HeldKnows ==
  ASSUME Inv, NEW r \in Requests, requests[r].at \in HeldSteps
  PROVE  KnowsRow(requests[r]) /\ requests[r].holds
<1>1. Consistent(requests[r]) BY DEF Inv, RequestsInv
<1> QED BY <1>1 DEF Consistent, HeldSteps, IdSteps

LEMMA ResolvesItemKeepsInv ==
  ASSUME Inv, NEW r \in Requests, NEW i \in Ids, ResolvesItem(r, i)
  PROVE  Inv'
<1> DEFINE items == requests[r].items \ {i}
<1>1. requests[r] \in RequestState /\ Consistent(requests[r]) BY DEF Inv, RequestsInv
<1>2. items \in SUBSET Ids BY <1>1 DEF RequestState
<1>3. TableInv' /\ OtherInv' BY NothingElse DEF ResolvesItem, scanVars
<1>4. CASE requests' = [requests EXCEPT ![r].items = items, ![r].at = Onward(items)]
  <2> DEFINE q == [requests[r] EXCEPT !.items = items, !.at = Onward(items)]
  <2>1. Onward(items) \in {"end", "item"} BY OnwardSteps
  <2> HIDE DEF items
  <2>2. q \in RequestState /\ q.at = Onward(items) /\ q.holds = requests[r].holds
        /\ q.done = requests[r].done
    BY <1>1, <1>2, <2>1 DEF RequestState, RequestSteps
  <2>3. Consistent(q)
    BY <1>1, <2>1, <2>2 DEF Consistent, IdSteps, HeldSteps, FreeSteps
  <2>4. requests' = [requests EXCEPT ![r] = q] BY <1>1, <1>4 DEF Inv, RequestsInv
  <2> HIDE DEF q
  <2> QED BY <1>3, <2>2, <2>3, <2>4, RequestStep DEF ResolvesItem, scanVars
<1>5. ASSUME NEW j \in Resolved(r, i),
             requests' = [requests EXCEPT
               ![r].items = items, ![r].id = j, ![r].path = rows[j].path,
               ![r].at = IF requests[r].holds THEN "act" ELSE "begin item"]
      PROVE  Inv'
  <2> DEFINE at == IF requests[r].holds THEN "act" ELSE "begin item"
             q == [requests[r] EXCEPT !.items = items, !.id = j, !.path = rows[j].path,
                                      !.at = at]
  <2>1. j \in Ids /\ (Exists(j) \/ Live(j)) BY DEF Resolved, LiveAt
  <2>2. rows[j].path \in Paths BY <2>1, RowKnown DEF Inv
  <2>3. at \in RequestSteps BY DEF RequestSteps
  <2> HIDE DEF items
  <2>4. q \in RequestState BY <1>1, <1>2, <2>1, <2>2, <2>3 DEF RequestState
  <2>5. q.at = at /\ q.holds = requests[r].holds /\ q.done = requests[r].done
        /\ q.id = j /\ q.path = rows[j].path
    BY <1>1 DEF RequestState
  <2>6. requests' = [requests EXCEPT ![r] = q] BY <1>1, <1>5 DEF Inv, RequestsInv
  <2> HIDE DEF q
  <2>7. Consistent(q)
    BY <1>1, <2>1, <2>2, <2>5
    DEF Consistent, KnowsRow, RequestState, IdSteps, HeldSteps, FreeSteps
  <2> QED BY <1>3, <2>4, <2>5, <2>6, <2>7, RequestStep DEF ResolvesItem, scanVars
<1> QED BY <1>4, <1>5 DEF ResolvesItem

LEMMA ActsKeepsInv ==
  ASSUME Inv, NEW r \in Requests, Acts(r)
  PROVE  Inv'
<1>1. requests[r].at \in HeldSteps BY DEF Acts, At, HeldSteps
<1>2. TableInv' BY DEF Acts, Inv, TableInv
<1>3. OtherInv' BY DEF Acts, EventAt, Inv, OtherInv, scanVars
<1>4. \/ \E at \in {"remove", "mark"}: Goes(r, at)
      \/ Goes(r, Onward(requests[r].items))
  BY DEF Acts
<1>5. {"remove", "mark"} \subseteq HeldSteps BY DEF HeldSteps
<1> QED BY <1>1, <1>2, <1>3, <1>4, <1>5, HeldStep, OnwardSteps DEF Acts, scanVars

LEMMA MarksAppliedKeepsInv ==
  ASSUME Inv, NEW r \in Requests, MarksApplied(r)
  PROVE  Inv'
<1> DEFINE id == requests[r].id
           items == requests[r].items
<1>1. requests[r] \in RequestState /\ Consistent(requests[r]) BY DEF Inv, RequestsInv
<1>2. requests[r].at \in HeldSteps BY DEF MarksApplied, HeldSteps
<1>3. id \in Ids /\ KnowsRow(requests[r]) BY <1>2, HeldKnows DEF KnowsRow
<1>4. OtherInv' BY DEF MarksApplied, Inv, OtherInv, scanVars, watchVars
<1>5. CASE Exists(id)
  <2> DEFINE q == [requests[r] EXCEPT !.at = Onward(items),
                                      !.done = requests[r].done \union {id}]
  <2>1. TableInv' BY <1>3, <1>5, StatusSet DEF MarksApplied, Inv, Statuses
  <2>2. Onward(items) \in {"end", "item"} BY OnwardSteps
  <2>3. q \in RequestState /\ q.at = Onward(items) /\ q.holds = requests[r].holds
        /\ q.done = requests[r].done \union {id}
    BY <1>1, <1>3, <2>2 DEF RequestState, RequestSteps
  <2>4. requests[r].holds BY <1>2, HeldKnows
  <2>5. requests' = [requests EXCEPT ![r] = q]
    BY <1>1, <1>5 DEF MarksApplied, Inv, RequestsInv
  <2> HIDE DEF q
  <2>6. Consistent(q)
    BY <2>2, <2>3, <2>4 DEF Consistent, IdSteps, HeldSteps, FreeSteps
  <2>7. \A i \in q.done: i \in requests[r].done \/ ~Locked(i)
    BY <2>3 DEF MarksApplied
  <2> QED BY <1>4, <2>1, <2>3, <2>5, <2>6, <2>7, RequestStep DEF MarksApplied, scanVars
<1>6. CASE ~Exists(id)
  <2>1. TableInv' BY <1>6 DEF MarksApplied, Inv, TableInv
  <2>2. Goes(r, "look up") \/ Goes(r, Onward(items)) BY <1>6 DEF MarksApplied
  <2>3. "look up" \in HeldSteps BY DEF HeldSteps
  <2> QED BY <1>2, <1>4, <2>1, <2>2, <2>3, HeldStep, OnwardSteps
          DEF MarksApplied, scanVars
<1> QED BY <1>5, <1>6

LEMMA LooksUpKeepsInv ==
  ASSUME Inv, NEW r \in Requests, LooksUp(r)
  PROVE  Inv'
<1>1. requests[r] \in RequestState /\ Consistent(requests[r]) BY DEF Inv, RequestsInv
<1>2. requests[r].at \in HeldSteps BY DEF LooksUp, At, HeldSteps
<1>3. TableInv' /\ OtherInv' BY NothingElse DEF LooksUp, scanVars
<1>4. CASE Goes(r, Onward(requests[r].items))
  BY <1>2, <1>3, <1>4, HeldStep, OnwardSteps DEF LooksUp, scanVars
<1>5. ASSUME NEW j \in LiveAt(requests[r].path),
             requests' = [requests EXCEPT ![r].id = j, ![r].at = "mark found"]
      PROVE  Inv'
  <2> DEFINE q == [requests[r] EXCEPT !.id = j, !.at = "mark found"]
  <2>1. j \in Ids BY DEF LiveAt
  <2>2. requests[r].holds /\ KnowsRow(requests[r]) BY <1>2, HeldKnows
  <2>3. q \in RequestState /\ q.at = "mark found" /\ q.holds = requests[r].holds
        /\ q.done = requests[r].done /\ q.id = j /\ q.path = requests[r].path
    BY <1>1, <2>1 DEF RequestState, RequestSteps
  <2>4. requests' = [requests EXCEPT ![r] = q] BY <1>1, <1>5 DEF Inv, RequestsInv
  <2> HIDE DEF q
  <2>5. Consistent(q)
    BY <2>1, <2>2, <2>3 DEF Consistent, KnowsRow, IdSteps, HeldSteps, FreeSteps
  <2> QED BY <1>3, <2>3, <2>4, <2>5, RequestStep DEF LooksUp, scanVars
<1> QED BY <1>4, <1>5 DEF LooksUp

LEMMA RemovesRowKeepsInv ==
  ASSUME Inv, NEW r \in Requests, RemovesRow(r)
  PROVE  Inv'
<1>1. requests[r].at \in HeldSteps BY DEF RemovesRow, At, HeldSteps
<1>2. requests[r].id \in Ids BY <1>1, HeldKnows DEF KnowsRow
<1>3. TableInv'
  <2>1. CASE Exists(requests[r].id)
    BY <1>2, <2>1, StatusSet DEF RemovesRow, Inv, Statuses
  <2>2. CASE ~Exists(requests[r].id) BY <2>2 DEF RemovesRow, Inv, TableInv
  <2> QED BY <2>1, <2>2
<1>4. OtherInv' BY DEF RemovesRow, Inv, OtherInv, scanVars, watchVars
<1> QED BY <1>1, <1>3, <1>4, HeldStep, OnwardSteps DEF RemovesRow, scanVars

LEMMA UndoStepsKeepInv ==
  ASSUME Inv, NEW r \in Requests, ChecksConflict(r) \/ PutsBack(r) \/ Restores(r)
  PROVE  Inv'
<1>1. CASE ChecksConflict(r)
  <2>1. requests[r].at \in HeldSteps BY <1>1 DEF ChecksConflict, At, HeldSteps
  <2>2. TableInv' /\ OtherInv' BY <1>1, NothingElse DEF ChecksConflict, scanVars
  <2>3. \E at \in {"put back", "end"}: Goes(r, at) BY <1>1 DEF ChecksConflict
  <2>4. "put back" \in HeldSteps BY DEF HeldSteps
  <2> QED BY <1>1, <2>1, <2>2, <2>3, <2>4, HeldStep DEF ChecksConflict, scanVars
<1>2. CASE PutsBack(r)
  <2>1. requests[r].at \in HeldSteps BY <1>2 DEF PutsBack, At, HeldSteps
  <2>2. requests[r].path \in Paths BY <2>1, HeldKnows DEF KnowsRow
  <2>3. TableInv' BY <1>2 DEF PutsBack, Inv, TableInv
  <2>4. OtherInv' BY <1>2, <2>2 DEF PutsBack, EventAt, Inv, OtherInv, scanVars
  <2>5. "restore" \in HeldSteps BY DEF HeldSteps
  <2> QED BY <1>2, <2>1, <2>3, <2>4, <2>5, HeldStep DEF PutsBack, scanVars
<1>3. CASE Restores(r)
  <2>1. requests[r].at \in HeldSteps BY <1>3 DEF Restores, At, HeldSteps
  <2>2. requests[r].id \in Ids BY <2>1, HeldKnows DEF KnowsRow
  <2>3. TableInv' BY <1>3, <2>2, SetsLiveKeepsTable DEF Restores, Inv
  <2>4. OtherInv' BY <1>3 DEF Restores, Inv, OtherInv, scanVars, watchVars
  <2> QED BY <1>3, <2>1, <2>3, <2>4, HeldStep DEF Restores, scanVars
<1> QED BY <1>1, <1>2, <1>3

LEMMA DecidesRowKeepsInv ==
  ASSUME Inv, NEW r \in Requests, DecidesRow(r)
  PROVE  Inv'
<1> DEFINE i == requests[r].id
<1>1. Consistent(requests[r]) BY DEF Inv, RequestsInv
<1>2. i \in Ids /\ ~requests[r].holds
  BY <1>1 DEF DecidesRow, At, Consistent, KnowsRow, IdSteps, FreeSteps
<1>3. TableInv'
  <2>1. CASE UNCHANGED rows BY <2>1 DEF Inv, TableInv
  <2>2. CASE SetsLive(i) BY <1>2, <2>2, SetsLiveKeepsTable DEF Inv
  <2>3. ASSUME NEW status \in {"dismissed", "moved"}, Exists(i), SetStatus(i, status)
        PROVE  TableInv'
    BY <1>2, <2>3, StatusSet DEF Inv, Statuses
  <2> QED BY <2>1, <2>2, <2>3 DEF DecidesRow
<1>4. OtherInv' BY DEF DecidesRow, Inv, OtherInv, scanVars, watchVars
<1>5. Leaves(r) /\ UNCHANGED <<gate, scans>> BY DEF DecidesRow, scanVars
<1> QED BY <1>2, <1>3, <1>4, <1>5, LeavesStep

LEMMA EndApplyKeepsInv ==
  ASSUME Inv, NEW r \in Requests, EndApply(r)
  PROVE  Inv'
<1>1. requests[r].holds BY DEF EndApply
<1>2. \A t \in Requests: requests'[t] = IF t = r THEN IdleRequest ELSE requests[t]
  BY DEF EndApply, Leaves, Inv, RequestsInv
<1>3. RequestsInv'
  BY <1>2, IdleRequestState DEF EndApply, Leaves, Inv, RequestsInv
<1>4. GateInv'
  <2>1. IsFiniteSet(Holders) /\ r \in Holders
    BY <1>1, ActorsAssumption, FS_Subset DEF Holders
  <2>2. Holders' = Holders \ {r} BY <1>2, IdleRequestState DEF Holders
  <2>3. Cardinality(Holders') = Cardinality(Holders) - 1
    BY <2>1, <2>2, FS_RemoveElement
  <2>4. Cardinality(Holders') \in Nat BY <2>1, <2>2, FS_RemoveElement, FS_CardinalityType
  <2>5. gate'.inFlight = gate.inFlight - 1 /\ gate'.deferred \in BOOLEAN
        /\ gate' = [inFlight |-> gate'.inFlight, deferred |-> gate'.deferred]
    BY DEF EndApply, Inv, GateInv
  <2> QED BY <2>3, <2>4, <2>5 DEF Inv, GateInv
<1>5. CommitInv' BY IdleRequestState, DoneSpared DEF EndApply, Leaves, Inv, scanVars
<1>6. TableInv' BY DEF EndApply, Inv, TableInv, queueVars
<1>7. OtherInv' BY DEF EndApply, Inv, OtherInv, Causes, queueVars, scanVars
<1> QED BY <1>3, <1>4, <1>5, <1>6, <1>7, OnlyRequests DEF EndApply, scanVars

LEMMA EndsWithoutGateKeepsInv ==
  ASSUME Inv, NEW r \in Requests, EndsWithoutGate(r)
  PROVE  Inv'
<1>1. TableInv' /\ OtherInv' BY NothingElse DEF EndsWithoutGate, scanVars
<1> QED BY <1>1, LeavesStep DEF EndsWithoutGate, scanVars

LEMMA RequestKeepsInv ==
  ASSUME Inv, NEW r \in Requests, RequestGoesOn(r)
  PROVE  Inv'
BY GetsKeepsInv, PeeksKeepsInv, ResolvesItemKeepsInv, BeginApplyKeepsInv, ActsKeepsInv,
   MarksAppliedKeepsInv, LooksUpKeepsInv, RemovesRowKeepsInv, UndoStepsKeepInv,
   DecidesRowKeepsInv, EndApplyKeepsInv, EndsWithoutGateKeepsInv DEF RequestGoesOn

-----------------------------------------------------------------------------
(* The process starts and stops *)

LEMMA AllIdle ==
  ASSUME scans = [s \in Scans |-> IdleScan], requests = [r \in Requests |-> IdleRequest],
         gate = [inFlight |-> 0, deferred |-> FALSE]
  PROVE  ScansInv /\ RequestsInv /\ GateInv /\ CommitInv
<1>1. \A s \in Scans: scans[s] = IdleScan OBVIOUS
<1>2. \A r \in Requests: requests[r] = IdleRequest OBVIOUS
<1>3. ScansInv BY <1>1, IdleScanState DEF ScansInv, LockedBy
<1>4. RequestsInv BY <1>2, IdleRequestState DEF RequestsInv
<1>5. Holders = {} BY <1>2, IdleRequestState DEF Holders
<1>6. GateInv BY <1>5, FS_EmptySet DEF GateInv
<1>7. CommitInv BY <1>2, IdleRequestState DEF CommitInv
<1> QED BY <1>3, <1>4, <1>6, <1>7

LEMMA InitInv == Init => Inv
<1> SUFFICES ASSUME Init PROVE Inv OBVIOUS
<1>1. ScansInv /\ RequestsInv /\ GateInv /\ CommitInv BY AllIdle DEF Init
<1>2. TableInv BY DEF Init, TableInv, NoRow, Row, Statuses
<1>3. OtherInv BY BoundsAssumption DEF Init, OtherInv
<1> QED BY <1>1, <1>2, <1>3 DEF Inv

LEMMA RestartKeepsInv ==
  ASSUME Inv, Restart
  PROVE  Inv'
<1>1. ScansInv' /\ RequestsInv' /\ GateInv' /\ CommitInv'
  <2>1. /\ scans' = [s \in Scans |-> IdleScan]
        /\ requests' = [r \in Requests |-> IdleRequest]
        /\ gate' = [inFlight |-> 0, deferred |-> FALSE]
    BY DEF Restart
  <2>2. \A s \in Scans: scans'[s] = IdleScan BY <2>1
  <2>3. \A r \in Requests: requests'[r] = IdleRequest BY <2>1
  <2>4. ScansInv' BY <2>1, <2>2, IdleScanState DEF ScansInv, LockedBy
  <2>5. RequestsInv' BY <2>1, <2>3, IdleRequestState DEF RequestsInv
  <2>6. Holders' = {} BY <2>3, IdleRequestState DEF Holders
  <2>7. GateInv' BY <2>1, <2>6, FS_EmptySet DEF GateInv
  <2>8. CommitInv' BY <2>3, IdleRequestState DEF CommitInv
  <2> QED BY <2>4, <2>5, <2>7, <2>8
<1>2. TableInv' BY DEF Restart, Inv, TableInv, queueVars
<1>3. budget' \in [arrivals: Nat, requests: Nat, restarts: Nat]
  BY BudgetSpent DEF Restart, Inv
<1>4. OtherInv' BY <1>3 DEF Restart, Inv, OtherInv, Causes, queueVars
<1> QED BY <1>1, <1>2, <1>4 DEF Inv

LEMMA NextInv == Inv /\ [Next]_vars => Inv'
<1> SUFFICES ASSUME Inv, [Next]_vars PROVE Inv' OBVIOUS
<1>1. CASE UNCHANGED vars
  <2>1. UNCHANGED <<inbox, rows, scans, hub, watch, launched, gate, requests, budget>>
    BY <1>1 DEF vars, queueVars, scanVars, watchVars, requestVars
  <2>2. OtherInv' BY <2>1 DEF Inv, OtherInv
  <2> QED BY <2>1, <2>2, OnlyOther
<1>2. CASE \/ \E p \in Paths: FileArrives(p)
           \/ TimerFires \/ WatcherStops \/ WatcherStarts \/ FolderSaved
           \/ \E s \in Scans: Progresses(s)
  BY <1>2, WatchingKeepsInv
<1>3. CASE Launch BY <1>3, WatchingKeepsInv, StartsKeepInv DEF Launch
<1>4. CASE \/ \E s \in ManualScans: ManualScanStarts(s)
           \/ \E s \in ScheduledScans: ScheduledScanStarts(s)
  BY <1>4, StartsKeepInv
<1>5. ASSUME NEW s \in Scans, ScanGoesOn(s) PROVE Inv'
  BY <1>5, ScanKeepsInv
<1>6. ASSUME NEW r \in Requests, NEW kind \in Kinds, NEW items \in SUBSET Ids,
             Click(r, kind, items)
      PROVE  Inv'
  BY <1>6, ClickKeepsInv
<1>7. ASSUME NEW r \in Requests, RequestGoesOn(r) PROVE Inv'
  BY <1>7, RequestKeepsInv
<1>8. CASE Restart BY <1>8, RestartKeepsInv
<1> QED BY <1>1, <1>2, <1>3, <1>4, <1>5, <1>6, <1>7, <1>8 DEF Next

LEMMA InvHolds == Spec => []Inv
BY InitInv, NextInv, PTL DEF Spec

-----------------------------------------------------------------------------

\* Queue, scans, gate and requests are well formed in every reachable state; in
\* particular the gate's count never runs below zero (applygate.go).
THEOREM TypeCorrect == Spec => []TypeOK
<1>1. Inv => TypeOK
  BY DEF Inv, TableInv, ScansInv, RequestsInv, GateInv, OtherInv, TypeOK
<1> QED BY <1>1, InvHolds, PTL

\* No commit of ReplacePending touches a row that a request still holding the
\* gate has marked applied, whatever the scans and requests (proposals.go, the
\* second check).
THEOREM ResultsSpared == Spec => CommitSparesResults
<1>1. ASSUME Inv, NEW s \in Scans, Commits(s), NEW r \in Requests,
             NEW i \in requests[r].done
      PROVE  rows'[i] = rows[i]
  <2>1. i \in Ids BY <1>1 DEF Inv, RequestsInv, RequestState
  <2>2. ~LockedBy(s, i) BY <1>1 DEF Inv, CommitInv, Commits
  <2> QED BY <1>1, <2>1, <2>2 DEF Commits
<1>2. Inv => [\A s \in Scans: Commits(s) =>
                \A r \in Requests: \A i \in requests[r].done: rows'[i] = rows[i]]_vars
  BY <1>1
<1> QED BY <1>2, InvHolds, PTL DEF CommitSparesResults

-----------------------------------------------------------------------------
(* The unique index under concurrent transactions, and the rows a scan keeps *)

Pending(s, i) == LockedBy(s, i) /\ scans[s].writes[i].status = "live"

\* At a path there is one live row, or one a transaction is about to make live.
OneLive ==
  \A i, j \in Ids: Live(i) /\ Live(j) /\ rows[i].path = rows[j].path => i = j
PendingAlone ==
  \A s \in Scans, i, j \in Ids:
    Pending(s, i) /\ Live(j) /\ rows[j].path = scans[s].writes[i].path => i = j
OnePending ==
  \A s, t \in Scans, i, j \in Ids:
    Pending(s, i) /\ Pending(t, j) /\ scans[s].writes[i].path = scans[t].writes[j].path
      => i = j

\* One transaction writes a row, and it changes neither the path nor that the
\* row is one.
Exclusive ==
  \A s, t \in Scans, i \in Ids: LockedBy(s, i) /\ LockedBy(t, i) => s = t
PathsStay ==
  \A s \in Scans, i \in Ids: LockedBy(s, i) =>
    /\ scans[s].writes[i].status # "none"
    /\ rows[i].status # "none" => scans[s].writes[i].path = rows[i].path

\* Between its SELECT and its commit a scan has or will have upserted what it
\* selected and saw, and what it has upserted it does not delete.
Selected(s) == scans[s].at \in {"upsert", "delete", "recheck", "commit"}
Upserting(s) == scans[s].at = "upsert"
KeepsSeen(s) ==
  /\ scans[s].at \in {"idle", "scan", "gate", "select", "return"}
       => \A i \in Ids: ~LockedBy(s, i)
  /\ Upserting(s) => \A i \in Ids:
       Pending(s, i) => scans[s].writes[i].path \notin scans[s].todo
  /\ Selected(s) =>
       /\ \A i \in scans[s].existing: rows[i].status # "none"
       /\ \A i, j \in scans[s].existing: rows[i].path = rows[j].path => i = j
       /\ \A i \in scans[s].existing: rows[i].path \in scans[s].found =>
            i \in scans[s].kept \/ (Upserting(s) /\ rows[i].path \in scans[s].todo)
       /\ \A i \in Ids: LockedBy(s, i) /\ scans[s].writes[i].status = "deleted"
                          => ~Upserting(s) /\ i \notin scans[s].kept
  /\ scans[s].at = "delete" => scans[s].orphans \intersect scans[s].kept = {}

IndexInv == OneLive /\ PendingAlone /\ OnePending /\ Exclusive /\ PathsStay
SeenInv == IndexInv /\ \A s \in Scans: KeepsSeen(s)

\* Only steps and reading matter to a scan as long as nobody writes.
LEMMA SameWrites ==
  ASSUME IndexInv, UNCHANGED rows,
         \A s \in Scans: scans'[s].writes = scans[s].writes
  PROVE  IndexInv'
<1>1. \A s \in Scans, i \in Ids: LockedBy(s, i)' = LockedBy(s, i) BY DEF LockedBy
<1>2. \A s \in Scans, i \in Ids: Pending(s, i)' = Pending(s, i) BY <1>1 DEF Pending
<1> QED BY <1>1, <1>2 DEF IndexInv, OneLive, PendingAlone, OnePending, Exclusive,
                          PathsStay, Live

\* What KeepsSeen says of a scan is about its record and the rows' paths.
LEMMA SameScan ==
  ASSUME NEW s \in Scans, KeepsSeen(s), scans'[s] = scans[s],
         scans[s].existing \subseteq Ids,
         \A i \in Ids: rows[i].status # "none" =>
           rows'[i].status # "none" /\ rows'[i].path = rows[i].path
  PROVE  KeepsSeen(s)'
BY DEF KeepsSeen, Selected, Upserting, Pending, LockedBy

LEMMA ExistingAreIds ==
  ASSUME Inv, NEW s \in Scans
  PROVE  /\ scans[s].existing \subseteq Ids /\ scans[s].todo \subseteq Paths
         /\ scans[s].kept \subseteq Ids
         /\ scans[s].writes \in [Ids -> Row \union {Unwritten}]
         /\ scans[s].at \in ScanSteps
BY DEF Inv, ScansInv, ScanState

\* A step that neither writes a row nor touches a scan.
LEMMA OthersKeepSeen ==
  ASSUME Inv, SeenInv, UNCHANGED <<rows, scans>>
  PROVE  SeenInv'
<1>1. IndexInv' BY SameWrites DEF SeenInv
<1>2. \A s \in Scans: KeepsSeen(s)' BY SameScan, ExistingAreIds DEF SeenInv
<1> QED BY <1>1, <1>2 DEF SeenInv

\* A scan whose record becomes q, its writes the same.
LEMMA ScanReads ==
  ASSUME Inv, SeenInv, NEW s \in Scans, NEW q,
         scans' = [scans EXCEPT ![s] = q], q.writes = scans[s].writes,
         UNCHANGED rows, KeepsSeen(s)'
  PROVE  SeenInv'
<1>1. \A t \in Scans: scans'[t] = IF t = s THEN q ELSE scans[t] BY DEF Inv, ScansInv
<1>2. IndexInv' BY <1>1, SameWrites DEF SeenInv
<1>3. \A t \in Scans: KeepsSeen(t)' BY <1>1, SameScan, ExistingAreIds DEF SeenInv
<1> QED BY <1>2, <1>3 DEF SeenInv

\* A scan that moves on without reading or writing.
LEMMA ScanMovesOn ==
  ASSUME Inv, SeenInv, NEW s \in Scans, NEW at,
         ScanGoes(s, at), UNCHANGED rows,
         \/ scans[s].at = "idle" /\ at = "scan"
         \/ scans[s].at = "gate" /\ at = "select"
         \/ scans[s].at \in {"gate", "recheck"} /\ at = "defer"
         \/ scans[s].at \in {"delete", "recheck"} /\ at \in {"recheck", "commit"}
  PROVE  SeenInv'
<1> DEFINE q == [scans[s] EXCEPT !.at = at]
<1>1. scans[s] \in ScanState BY DEF Inv, ScansInv
<1>2. /\ q.at = at /\ q.found = scans[s].found /\ q.existing = scans[s].existing
      /\ q.todo = scans[s].todo /\ q.kept = scans[s].kept
      /\ q.orphans = scans[s].orphans /\ q.writes = scans[s].writes
  BY <1>1 DEF ScanState
<1>3. scans' = [scans EXCEPT ![s] = q] BY <1>1 DEF ScanGoes, Inv, ScansInv
<1> HIDE DEF q
<1>4. scans'[s] = q BY <1>3 DEF Inv, ScansInv
<1>5. KeepsSeen(s) BY DEF SeenInv
<1>6. KeepsSeen(s)'
  BY <1>2, <1>4, <1>5 DEF KeepsSeen, Selected, Upserting, Pending, LockedBy
<1> QED BY <1>2, <1>3, <1>6, ScanReads

\* A scan that gives up what it wrote.
LEMMA ScanDrops ==
  ASSUME Inv, SeenInv, NEW s \in Scans, NEW q,
         scans' = [scans EXCEPT ![s] = q], UNCHANGED rows,
         q.at \in {"idle", "return"}, \A i \in Ids: q.writes[i] = Unwritten
  PROVE  SeenInv'
<1>1. \A t \in Scans: scans'[t] = IF t = s THEN q ELSE scans[t] BY DEF Inv, ScansInv
<1>2. \A t \in Scans, i \in Ids: LockedBy(t, i)' =>
        t # s /\ LockedBy(t, i) /\ scans'[t] = scans[t]
  BY <1>1 DEF LockedBy
<1>3. \A t \in Scans, i \in Ids: Pending(t, i)' =>
        t # s /\ Pending(t, i) /\ scans'[t] = scans[t]
  BY <1>1, <1>2 DEF Pending
<1>4. IndexInv'
  BY <1>2, <1>3 DEF SeenInv, IndexInv, OneLive, PendingAlone, OnePending, Exclusive,
                    PathsStay, Live
<1>5. KeepsSeen(s)'
  BY <1>1, <1>2 DEF KeepsSeen, Selected, Upserting, Pending
<1>6. \A t \in Scans \ {s}: KeepsSeen(t)'
  BY <1>1, SameScan, ExistingAreIds DEF SeenInv
<1> QED BY <1>4, <1>5, <1>6 DEF SeenInv

LEMMA RollbackKeepsSeen ==
  ASSUME Inv, SeenInv, NEW s \in Scans, UNCHANGED rows,
         scans' = [scans EXCEPT ![s].at = "return", ![s].writes = NoWrites]
  PROVE  SeenInv'
<1> DEFINE q == [scans[s] EXCEPT !.at = "return", !.writes = NoWrites]
<1>1. scans[s] \in ScanState BY DEF Inv, ScansInv
<1>2. q.at = "return" /\ \A i \in Ids: q.writes[i] = Unwritten
  BY <1>1 DEF ScanState, NoWrites
<1>3. scans' = [scans EXCEPT ![s] = q] BY <1>1 DEF Inv, ScansInv
<1> HIDE DEF q
<1> QED BY <1>2, <1>3, ScanDrops

-----------------------------------------------------------------------------
(* Its statements *)

LEMMA SelectsKeepsSeen ==
  ASSUME Inv, SeenInv, NEW s \in Scans, Selects(s)
  PROVE  SeenInv'
<1> DEFINE q == [scans[s] EXCEPT !.at = "upsert", !.todo = scans[s].found,
                                 !.existing = {i \in Ids: Live(i)}]
<1>1. scans[s] \in ScanState BY DEF Inv, ScansInv
<1>2. /\ q.at = "upsert" /\ q.todo = q.found /\ q.existing = {i \in Ids: Live(i)}
      /\ q.writes = scans[s].writes
  BY <1>1 DEF ScanState
<1>3. scans' = [scans EXCEPT ![s] = q] BY <1>1 DEF Selects, Inv, ScansInv
<1> HIDE DEF q
<1>4. scans'[s] = q BY <1>3 DEF Inv, ScansInv
<1>5. \A i \in Ids: ~LockedBy(s, i)
  BY DEF SeenInv, KeepsSeen, Selects, ScanAt
<1>6. \A i \in Ids: ~LockedBy(s, i)' BY <1>2, <1>4, <1>5 DEF LockedBy
<1>7. UNCHANGED rows BY DEF Selects, queueVars
<1>8. KeepsSeen(s)'
  BY <1>2, <1>4, <1>6, <1>7
  DEF KeepsSeen, Selected, Upserting, Pending, SeenInv, IndexInv, OneLive, Live
<1> QED BY <1>2, <1>3, <1>7, <1>8, ScanReads

\* No live row at p but i, and no transaction about to make one.
Clear(i, p) ==
  /\ \A j \in LiveAt(p): j = i
  /\ \A t \in Scans, j \in Ids: Pending(t, j) /\ scans[t].writes[j].path = p => j = i

\* Neither refused nor waiting, a statement has the path to itself, but for
\* what its own transaction has written.
LEMMA IndexAdmits ==
  ASSUME Inv, NEW s, NEW i \in Ids, NEW p, rows[i].status # "moved",
         ~Refused(s, i, p), ~Waits(s, i, p)
  PROVE  /\ \A j \in LiveAt(p): j = i
         /\ \A t \in Scans \ {s}, j \in Ids:
              Pending(t, j) /\ scans[t].writes[j].path = p => j = i
<1>1. ASSUME NEW j \in LiveAt(p), j # i PROVE FALSE
  <2>1. j \in Ids BY DEF LiveAt
  <2>2. PICK t \in Scans \ {s}: LockedBy(t, j) BY <1>1 DEF Refused, LockedFor
  <2> QED BY <1>1, <2>1, <2>2 DEF Waits
<1>2. ASSUME NEW t \in Scans \ {s}, NEW j \in Ids, Pending(t, j),
             scans[t].writes[j].path = p, j # i
      PROVE  FALSE
  <2>1. scans[t].writes[j] \in Row /\ LockedBy(t, j)
    BY <1>2, ExistingAreIds DEF Pending, LockedBy
  <2>2. scans[t].writes[j] = LiveRow(p)
    BY <1>2, <2>1 DEF Pending, Row, LiveRow
  <2> QED BY <1>2, <2>1, <2>2 DEF Waits
<1> QED BY <1>1, <1>2

\* Row i becomes w in the transaction of s, which has path p to itself.
LEMMA IndexKept ==
  ASSUME Inv, IndexInv, NEW s \in Scans, NEW i \in Ids, NEW w, NEW q,
         scans' = [scans EXCEPT ![s] = q], UNCHANGED rows,
         q.writes = [scans[s].writes EXCEPT ![i] = w],
         ~LockedFor(s, i),
         w # Unwritten => /\ w.status # "none"
                          /\ rows[i].status # "none" => w.path = rows[i].path
                          /\ w.status = "live" => Clear(i, w.path)
  PROVE  IndexInv'
<1>0. scans[s].writes \in [Ids -> Row \union {Unwritten}] BY ExistingAreIds
<1>1. \A t \in Scans: scans'[t] = IF t = s THEN q ELSE scans[t] BY DEF Inv, ScansInv
<1>2. \A j \in Ids: q.writes[j] = IF j = i THEN w ELSE scans[s].writes[j]
  BY <1>0
<1>3. \A t \in Scans, j \in Ids:
        (t = s /\ j = i) \/ scans'[t].writes[j] = scans[t].writes[j]
  <2>1. scans'[s] = q /\ \A t \in Scans \ {s}: scans'[t] = scans[t] BY <1>1
  <2>2. \A j \in Ids \ {i}: scans'[s].writes[j] = scans[s].writes[j]
    BY <1>2, <2>1
  <2> QED BY <2>1, <2>2
<1>4. scans'[s].writes[i] = w BY <1>1, <1>2
<1>5. \A t \in Scans, j \in Ids: (t = s /\ j = i) \/ (LockedBy(t, j)' <=> LockedBy(t, j))
  BY <1>3 DEF LockedBy
<1>6. \A t \in Scans, j \in Ids: (t = s /\ j = i) \/ (Pending(t, j)' <=> Pending(t, j))
  BY <1>3, <1>5 DEF Pending
<1>7. LockedBy(s, i)' => w # Unwritten BY <1>4 DEF LockedBy
<1>8. Pending(s, i)' => w # Unwritten /\ w.status = "live" BY <1>4, <1>7 DEF Pending
<1>9. OneLive' BY DEF IndexInv, OneLive, Live
<1>10. PendingAlone'
  <2> SUFFICES ASSUME NEW t \in Scans, NEW k \in Ids, NEW j \in Ids, Pending(t, k)',
                      Live(j), rows[j].path = scans'[t].writes[k].path
               PROVE  k = j
    BY DEF PendingAlone, Live
  <2>1. CASE t = s /\ k = i
    BY <1>4, <1>8, <2>1 DEF Clear, LiveAt
  <2>2. CASE ~(t = s /\ k = i)
    BY <1>3, <1>6, <2>2 DEF IndexInv, PendingAlone
  <2> QED BY <2>1, <2>2
<1>11. OnePending'
  <2> SUFFICES ASSUME NEW t \in Scans, NEW u \in Scans, NEW k \in Ids, NEW j \in Ids,
                      Pending(t, k)', Pending(u, j)',
                      scans'[t].writes[k].path = scans'[u].writes[j].path
               PROVE  k = j
    BY DEF OnePending
  <2>1. CASE t = s /\ k = i /\ ~(u = s /\ j = i)
    BY <1>3, <1>4, <1>6, <1>8, <2>1 DEF Clear
  <2>2. CASE ~(t = s /\ k = i) /\ u = s /\ j = i
    BY <1>3, <1>4, <1>6, <1>8, <2>2 DEF Clear
  <2>3. CASE ~(t = s /\ k = i) /\ ~(u = s /\ j = i)
    BY <1>3, <1>6, <2>3 DEF IndexInv, OnePending
  <2> QED BY <2>1, <2>2, <2>3
<1>12. Exclusive'
  <2>1. \A t \in Scans: LockedBy(t, i) => t = s BY DEF LockedFor
  <2> QED BY <1>5, <2>1 DEF IndexInv, Exclusive
<1>13. PathsStay' BY <1>3, <1>4, <1>5, <1>7 DEF IndexInv, PathsStay
<1> QED BY <1>9, <1>10, <1>11, <1>12, <1>13 DEF IndexInv

\* The statement for path p writes row i as w, or leaves it be.
LEMMA UpsertedKeepsSeen ==
  ASSUME Inv, SeenInv, NEW s \in Scans, NEW p \in Paths, NEW i \in Ids, NEW w,
         Turn(s, p), Upserted(s, p, i, w), ~LockedFor(s, i),
         Known(s, p) \subseteq {i},
         \/ w = Unwritten
         \/ /\ w \in Row /\ w.path = p /\ w.status \in {"live", "moved"}
            /\ rows[i].status # "none" => rows[i].path = p
            /\ w.status = "live" => /\ rows[i].status # "moved"
                                    /\ ~Refused(s, i, p) /\ ~Waits(s, i, p)
  PROVE  SeenInv'
<1> DEFINE q == [scans[s] EXCEPT !.todo = scans[s].todo \ {p},
                                 !.kept = scans[s].kept \union {i},
                                 !.writes = [scans[s].writes EXCEPT ![i] = w]]
<1>1. scans[s] \in ScanState BY DEF Inv, ScansInv
<1>2. /\ q.at = "upsert" /\ q.todo = scans[s].todo \ {p}
      /\ q.kept = scans[s].kept \union {i} /\ q.found = scans[s].found
      /\ q.existing = scans[s].existing
      /\ q.writes = [scans[s].writes EXCEPT ![i] = w]
  BY <1>1 DEF ScanState, Turn, ScanAt
<1>3. scans' = [scans EXCEPT ![s] = q] BY <1>1 DEF Upserted, Inv, ScansInv
<1> HIDE DEF q
<1>4. \A t \in Scans: scans'[t] = IF t = s THEN q ELSE scans[t]
  BY <1>3 DEF Inv, ScansInv
<1>5. UNCHANGED rows BY DEF Upserted, queueVars
<1>6. KeepsSeen(s) /\ scans[s].at = "upsert" /\ p \in scans[s].todo
  BY DEF SeenInv, Turn, ScanAt
<1>7. w # Unwritten => w.status # "none" /\ w.status # "deleted"
  OBVIOUS
<1>8. \A j \in Ids: Pending(s, j) => scans[s].writes[j].path # p
  BY <1>6 DEF KeepsSeen, Upserting
<1>9. w # Unwritten /\ w.status = "live" => Clear(i, w.path)
  BY <1>8, IndexAdmits DEF Clear, Unwritten
<1>10. IndexInv'
  <2>1. w # Unwritten => /\ w.status # "none"
                         /\ rows[i].status # "none" => w.path = rows[i].path
                         /\ w.status = "live" => Clear(i, w.path)
    BY <1>7, <1>9
  <2>2. IndexInv BY DEF SeenInv
  <2>3. q.writes = [scans[s].writes EXCEPT ![i] = w] BY <1>2
  <2> QED BY <1>3, <1>5, <2>1, <2>2, <2>3, IndexKept
<1>11. \A j \in Ids: q.writes[j] = IF j = i THEN w ELSE scans[s].writes[j]
  <2>1. scans[s].writes \in [Ids -> Row \union {Unwritten}] BY ExistingAreIds
  <2> QED BY <1>2, <2>1
<1>12. KeepsSeen(s)'
  <2>1. scans'[s] = q BY <1>4
  <2>2. \A j \in Ids: Pending(s, j)' => q.writes[j].path \notin q.todo
    <3>1. ASSUME NEW j \in Ids, Pending(s, j)', j # i
          PROVE  q.writes[j].path \notin q.todo
      BY <1>2, <1>6, <1>11, <2>1, <3>1 DEF Pending, LockedBy, KeepsSeen, Upserting
    <3>2. Pending(s, i)' => q.writes[i].path \notin q.todo
      BY <1>2, <1>11, <2>1 DEF Pending, LockedBy, Unwritten
    <3> QED BY <3>1, <3>2
  <2>3. \A j \in q.existing: rows[j].path \in q.found =>
          j \in q.kept \/ rows[j].path \in q.todo
    BY <1>2, <1>6 DEF KeepsSeen, Selected, Known
  <2>4. \A j \in Ids: ~(LockedBy(s, j)' /\ q.writes[j].status = "deleted")
    BY <1>6, <1>7, <1>11, <2>1 DEF LockedBy, KeepsSeen, Selected, Upserting
  <2> QED BY <1>2, <1>5, <1>6, <2>1, <2>2, <2>3, <2>4
          DEF KeepsSeen, Selected, Upserting
<1>13. \A t \in Scans \ {s}: KeepsSeen(t)'
  BY <1>4, <1>5, SameScan, ExistingAreIds DEF SeenInv
<1> QED BY <1>10, <1>12, <1>13 DEF SeenInv

LEMMA UpdatesKeepsSeen ==
  ASSUME Inv, SeenInv, NEW s \in Scans, NEW p \in Paths, Updates(s, p)
  PROVE  SeenInv'
<1>1. PICK i \in Known(s, p):
        /\ ~LockedFor(s, i)
        /\ \/ Upserted(s, p, i, Unwritten)
           \/ /\ Exists(i) /\ ~Refused(s, i, p) /\ ~Waits(s, i, p)
              /\ Upserted(s, p, i, WithStatus(i, "live"))
  BY DEF Updates
<1>2. i \in Ids /\ rows[i].path = p BY ExistingAreIds DEF Known
<1>3. Known(s, p) \subseteq {i}
  BY <1>1 DEF Updates, Turn, ScanAt, SeenInv, KeepsSeen, Selected, Known
<1>4. Turn(s, p) BY DEF Updates
<1>5. rows[i] \in Row BY <1>2 DEF Inv, TableInv
<1>6. /\ WithStatus(i, "live") \in Row /\ WithStatus(i, "live").path = p
      /\ WithStatus(i, "live").status \in {"live", "moved"}
      /\ WithStatus(i, "live").status = "live" => rows[i].status # "moved"
  BY <1>2, <1>5 DEF WithStatus, Row, Statuses
<1> QED BY <1>1, <1>2, <1>3, <1>4, <1>6, UpsertedKeepsSeen

LEMMA InsertsKeepsSeen ==
  ASSUME Inv, SeenInv, NEW s \in Scans, NEW p \in Paths, Inserts(s, p)
  PROVE  SeenInv'
<1>1. PICK i \in Ids: /\ NextId(i) /\ ~Refused(s, i, p) /\ ~Waits(s, i, p)
                      /\ Upserted(s, p, i, LiveRow(p))
  BY DEF Inserts
<1>2. rows[i].status = "none" /\ ~LockedFor(s, i)
  BY <1>1 DEF NextId, NoRow, Locked, LockedFor
<1>3. LiveRow(p) \in Row /\ LiveRow(p).path = p /\ LiveRow(p).status = "live"
  BY DEF LiveRow, Row, Statuses
<1>4. Turn(s, p) /\ Known(s, p) \subseteq {i} BY DEF Inserts
<1> QED BY <1>1, <1>2, <1>3, <1>4, UpsertedKeepsSeen

LEMMA FindsOrphansKeepsSeen ==
  ASSUME Inv, SeenInv, NEW s \in Scans, FindsOrphans(s)
  PROVE  SeenInv'
<1> DEFINE q == [scans[s] EXCEPT !.at = "delete",
                                 !.orphans = {i \in Ids: Live(i)} \ scans[s].kept]
<1>1. scans[s] \in ScanState BY DEF Inv, ScansInv
<1>2. /\ q.at = "delete" /\ q.orphans = {i \in Ids: Live(i)} \ scans[s].kept
      /\ q.kept = scans[s].kept /\ q.found = scans[s].found
      /\ q.existing = scans[s].existing /\ q.writes = scans[s].writes
  BY <1>1 DEF ScanState
<1>3. scans' = [scans EXCEPT ![s] = q] BY <1>1 DEF FindsOrphans, Inv, ScansInv
<1> HIDE DEF q
<1>4. scans'[s] = q BY <1>3 DEF Inv, ScansInv
<1>5. UNCHANGED rows BY DEF FindsOrphans, queueVars
<1>6. KeepsSeen(s) /\ scans[s].at = "upsert" /\ scans[s].todo = {}
  BY DEF SeenInv, FindsOrphans, ScanAt
<1>7. KeepsSeen(s)'
  BY <1>2, <1>4, <1>5, <1>6 DEF KeepsSeen, Selected, Upserting, LockedBy
<1> QED BY <1>2, <1>3, <1>5, <1>7, ScanReads

LEMMA DeletesKeepsSeen ==
  ASSUME Inv, SeenInv, NEW s \in Scans, NEW i \in Ids, Deletes(s, i)
  PROVE  SeenInv'
<1> DEFINE w == IF Live(i) THEN WithStatus(i, "deleted") ELSE scans[s].writes[i]
           q == [scans[s] EXCEPT !.orphans = scans[s].orphans \ {i},
                                 !.writes = [scans[s].writes EXCEPT ![i] = w]]
<1>1. scans[s] \in ScanState BY DEF Inv, ScansInv
<1>2. scans[s].writes \in [Ids -> Row \union {Unwritten}] BY ExistingAreIds
<1>3. [scans[s].writes EXCEPT ![i] = scans[s].writes[i]] = scans[s].writes BY <1>2
<1>4. scans' = [scans EXCEPT ![s] = q] BY <1>1, <1>3 DEF Deletes, Inv, ScansInv
<1>5. /\ q.at = "delete" /\ q.orphans = scans[s].orphans \ {i}
      /\ q.kept = scans[s].kept /\ q.found = scans[s].found
      /\ q.existing = scans[s].existing
      /\ q.writes = [scans[s].writes EXCEPT ![i] = w]
  BY <1>1 DEF ScanState, Deletes, TurnToDelete, ScanAt
<1> HIDE DEF q
<1>6. Live(i) => w.status = "deleted" /\ w.path = rows[i].path
  BY DEF WithStatus, Live, Inv, TableInv, Row
<1> HIDE DEF w
<1>7. scans'[s] = q BY <1>4 DEF Inv, ScansInv
<1>8. UNCHANGED rows BY DEF Deletes, queueVars
<1>9. KeepsSeen(s) /\ scans[s].at = "delete" /\ i \notin scans[s].kept
  BY DEF SeenInv, KeepsSeen, Deletes, TurnToDelete, ScanAt
<1>10. \A j \in Ids: q.writes[j] = IF j = i THEN w ELSE scans[s].writes[j]
  BY <1>2, <1>5
<1>11. KeepsSeen(s)'
  BY <1>5, <1>7, <1>8, <1>9, <1>10 DEF KeepsSeen, Selected, Upserting, LockedBy
<1>12. IndexInv'
  <2>1. CASE Live(i)
    <3>1. w.status = "deleted" /\ w.path = rows[i].path BY <1>6, <2>1
    <3>2. ~LockedFor(s, i) BY DEF Deletes
    <3> QED BY <1>4, <1>5, <1>8, <3>1, <3>2, IndexKept DEF SeenInv
  <2>2. CASE ~Live(i)
    <3>1. q.writes = scans[s].writes BY <1>3, <1>5, <2>2 DEF w
    <3>2. \A t \in Scans: scans'[t].writes = scans[t].writes
      BY <1>4, <3>1 DEF Inv, ScansInv
    <3> QED BY <1>8, <3>2, SameWrites DEF SeenInv
  <2> QED BY <2>1, <2>2
<1>13. \A t \in Scans \ {s}: KeepsSeen(t)'
  BY <1>4, <1>8, SameScan, ExistingAreIds DEF SeenInv, Inv, ScansInv
<1> QED BY <1>11, <1>12, <1>13 DEF SeenInv

\* What a commit makes of the table.
LEMMA CommitKeepsSeen ==
  ASSUME Inv, SeenInv, NEW s \in Scans, Commits(s)
  PROVE  SeenInv'
<1> DEFINE q == [scans[s] EXCEPT !.at = "return", !.writes = NoWrites]
<1>1. scans[s] \in ScanState BY DEF Inv, ScansInv
<1>2. q.at = "return" /\ \A i \in Ids: q.writes[i] = Unwritten
  BY <1>1 DEF ScanState, NoWrites
<1>3. scans' = [scans EXCEPT ![s] = q] BY <1>1 DEF Commits, Inv, ScansInv
<1> HIDE DEF q
<1>4. \A t \in Scans: scans'[t] = IF t = s THEN q ELSE scans[t]
  BY <1>3 DEF Inv, ScansInv
<1>5. \A i \in Ids: rows'[i] = IF LockedBy(s, i) THEN scans[s].writes[i] ELSE rows[i]
  BY DEF Commits
<1>6. \A t \in Scans, i \in Ids: LockedBy(t, i)' =>
        /\ t # s /\ LockedBy(t, i) /\ scans'[t] = scans[t]
        /\ rows'[i] = rows[i]
  <2>1. \A t \in Scans, i \in Ids: LockedBy(t, i)' =>
          t # s /\ LockedBy(t, i) /\ scans'[t] = scans[t]
    BY <1>2, <1>4 DEF LockedBy
  <2> QED BY <1>5, <2>1 DEF SeenInv, IndexInv, Exclusive
<1>7. \A t \in Scans, i \in Ids: Pending(t, i)' => t # s /\ Pending(t, i)
  BY <1>6 DEF Pending
<1>8. \A i \in Ids: Live(i)' =>
        \/ Pending(s, i) /\ rows'[i].path = scans[s].writes[i].path
        \/ Live(i) /\ rows'[i].path = rows[i].path
  BY <1>5 DEF Live, Pending
<1>9. OneLive' BY <1>8 DEF OneLive, SeenInv, IndexInv, PendingAlone, OnePending
<1>10. PendingAlone'
  BY <1>6, <1>7, <1>8 DEF SeenInv, IndexInv, PendingAlone, OnePending, Pending
<1>11. OnePending' BY <1>6, <1>7 DEF SeenInv, IndexInv, OnePending, Pending
<1>12. Exclusive' BY <1>6 DEF SeenInv, IndexInv, Exclusive
<1>13. PathsStay' BY <1>6 DEF SeenInv, IndexInv, PathsStay
<1>14. IndexInv' BY <1>9, <1>10, <1>11, <1>12, <1>13 DEF IndexInv
<1>15. \A i \in Ids: rows[i].status # "none" =>
         rows'[i].status # "none" /\ rows'[i].path = rows[i].path
  BY <1>5 DEF SeenInv, IndexInv, PathsStay
<1>16. \A t \in Scans \ {s}: KeepsSeen(t)'
  BY <1>4, <1>15, SameScan, ExistingAreIds DEF SeenInv
<1>17. KeepsSeen(s)'
  BY <1>2, <1>4 DEF KeepsSeen, Selected, Upserting, LockedBy
<1> QED BY <1>14, <1>16, <1>17 DEF SeenInv

LEMMA ReadsDiskKeepsSeen ==
  ASSUME Inv, SeenInv, NEW s \in Scans, ReadsDisk(s)
  PROVE  SeenInv'
<1> DEFINE q == [scans[s] EXCEPT !.at = "gate", !.found = inbox]
<1>1. scans[s] \in ScanState BY DEF Inv, ScansInv
<1>2. q.at = "gate" /\ q.writes = scans[s].writes BY <1>1 DEF ScanState
<1>3. scans' = [scans EXCEPT ![s] = q] BY <1>1 DEF ReadsDisk, Inv, ScansInv
<1> HIDE DEF q
<1>4. scans'[s] = q BY <1>3 DEF Inv, ScansInv
<1>5. KeepsSeen(s) /\ scans[s].at = "scan" BY DEF SeenInv, ReadsDisk, ScanAt
<1>6. KeepsSeen(s)'
  BY <1>2, <1>4, <1>5 DEF KeepsSeen, Selected, Upserting, LockedBy
<1> QED BY <1>2, <1>3, <1>6, ScanReads DEF ReadsDisk, queueVars

LEMMA ScanKeepsSeen ==
  ASSUME Inv, SeenInv, NEW s \in Scans, ScanGoesOn(s)
  PROVE  SeenInv'
<1>1. CASE ReadsDisk(s) BY <1>1, ReadsDiskKeepsSeen
<1>2. CASE ChecksGate(s) \/ HasDeleted(s)
  BY <1>2, ScanMovesOn DEF ChecksGate, HasDeleted, ReplaceStep, ScanAt, queueVars
<1>3. CASE Defers(s) BY <1>3, RollbackKeepsSeen DEF Defers, queueVars
<1>4. CASE Selects(s) BY <1>4, SelectsKeepsSeen
<1>5. ASSUME NEW p \in Paths, Updates(s, p) \/ Inserts(s, p) PROVE SeenInv'
  BY <1>5, UpdatesKeepsSeen, InsertsKeepsSeen
<1>6. ASSUME NEW p \in Paths, IsRefused(s, p) PROVE SeenInv'
  BY <1>6, RollbackKeepsSeen DEF IsRefused, RollsBack, queueVars
<1>7. CASE FindsOrphans(s) BY <1>7, FindsOrphansKeepsSeen
<1>8. ASSUME NEW i \in Ids, Deletes(s, i) PROVE SeenInv' BY <1>8, DeletesKeepsSeen
<1>9. CASE Commits(s) BY <1>9, CommitKeepsSeen
<1>10. CASE DeadlockVictim(s)
  BY <1>10, RollbackKeepsSeen DEF DeadlockVictim, RollsBack, queueVars
<1>11. CASE Returns(s)
  BY <1>11, ScanDrops, IdleScanState DEF Returns, queueVars
<1> QED BY <1>1, <1>2, <1>3, <1>4, <1>5, <1>6, <1>7, <1>8, <1>9, <1>10, <1>11
        DEF ScanGoesOn

-----------------------------------------------------------------------------
(* What requests and a restart do to it *)

\* A statement of a request: no scan is writing the row, and if it makes it
\* live it has the path to itself.
LEMMA RowWritten ==
  ASSUME Inv, SeenInv, NEW i \in Ids, NEW status \in Statuses \ {"none"},
         Exists(i), ~Locked(i), SetStatus(i, status), UNCHANGED scans,
         status = "live" => /\ ~Refused("request", i, rows[i].path)
                            /\ ~Waits("request", i, rows[i].path)
  PROVE  SeenInv'
<1> DEFINE w == WithStatus(i, status)
<1>1. rows[i] \in Row /\ rows \in [Ids -> Row] BY DEF Inv, TableInv
<1>2. w.path = rows[i].path /\ w.status \in {status, "moved"} /\ w.status # "none"
  BY <1>1 DEF WithStatus, Row
<1>3. \A j \in Ids: rows'[j] = IF j = i THEN w ELSE rows[j]
  BY <1>1 DEF SetStatus
<1> HIDE DEF w
<1>4. \A t \in Scans, j \in Ids: LockedBy(t, j)' = LockedBy(t, j) BY DEF LockedBy
<1>5. \A t \in Scans, j \in Ids: Pending(t, j)' = Pending(t, j) BY <1>4 DEF Pending
<1>6. \A t \in Scans: ~LockedBy(t, i) BY DEF Locked
<1>7. "request" \notin Scans BY ActorsAssumption DEF Scans
<1>8. Live(i)' =>
        /\ \A j \in LiveAt(rows[i].path): j = i
        /\ \A t \in Scans, j \in Ids:
             Pending(t, j) /\ scans[t].writes[j].path = rows[i].path => j = i
  <2>1. CASE rows[i].status = "moved" BY <1>3, <2>1 DEF Live, w, WithStatus
  <2>2. CASE status = "live" /\ rows[i].status # "moved"
    BY <1>7, <2>2, IndexAdmits
  <2>3. CASE status # "live" BY <1>2, <1>3, <2>3 DEF Live
  <2> QED BY <2>1, <2>2, <2>3
<1>9. \A j \in Ids: Live(j)' /\ j # i => Live(j) /\ rows'[j] = rows[j]
  BY <1>3 DEF Live
<1>10. rows'[i].path = rows[i].path BY <1>2, <1>3
<1>11. OneLive'
  <2> SUFFICES ASSUME NEW j \in Ids, NEW k \in Ids, Live(j)', Live(k)',
                      rows'[j].path = rows'[k].path
               PROVE  j = k
    BY DEF OneLive
  <2>1. CASE j = i BY <1>8, <1>9, <1>10, <2>1 DEF LiveAt
  <2>2. CASE k = i BY <1>8, <1>9, <1>10, <2>2 DEF LiveAt
  <2>3. CASE j # i /\ k # i BY <1>9, <2>3 DEF SeenInv, IndexInv, OneLive
  <2> QED BY <2>1, <2>2, <2>3
<1>12. PendingAlone'
  BY <1>5, <1>8, <1>9, <1>10 DEF SeenInv, IndexInv, PendingAlone
<1>13. OnePending' BY <1>5 DEF SeenInv, IndexInv, OnePending
<1>14. Exclusive' BY <1>4 DEF SeenInv, IndexInv, Exclusive
<1>15. PathsStay' BY <1>3, <1>4, <1>6 DEF SeenInv, IndexInv, PathsStay
<1>16. \A j \in Ids: rows[j].status # "none" =>
         rows'[j].status # "none" /\ rows'[j].path = rows[j].path
  BY <1>2, <1>3
<1>17. \A t \in Scans: KeepsSeen(t)' BY <1>16, SameScan, ExistingAreIds DEF SeenInv
<1> QED BY <1>11, <1>12, <1>13, <1>14, <1>15, <1>17 DEF SeenInv, IndexInv

LEMMA SetsLiveKeepsSeen ==
  ASSUME Inv, SeenInv, NEW i \in Ids, SetsLive(i), UNCHANGED scans
  PROVE  SeenInv'
<1>1. CASE Exists(i) /\ ~Refused("request", i, rows[i].path)
  BY <1>1, RowWritten DEF SetsLive, Statuses
<1>2. CASE ~(Exists(i) /\ ~Refused("request", i, rows[i].path))
  BY <1>2, OthersKeepSeen DEF SetsLive
<1> QED BY <1>1, <1>2

LEMMA RequestKeepsSeen ==
  ASSUME Inv, SeenInv, NEW r \in Requests, RequestGoesOn(r)
  PROVE  SeenInv'
<1>0. {"applied", "deleted", "dismissed", "moved"} \subseteq Statuses \ {"none"}
  BY DEF Statuses
<1>1. CASE MarksApplied(r) \/ RemovesRow(r)
  <2>1. requests[r].id \in Ids
    BY <1>1, HeldKnows DEF MarksApplied, RemovesRow, At, HeldSteps, KnowsRow
  <2>2. UNCHANGED scans /\ ~Locked(requests[r].id)
    BY <1>1 DEF MarksApplied, RemovesRow, scanVars
  <2>3. \/ UNCHANGED rows
        \/ /\ Exists(requests[r].id)
           /\ \E status \in {"applied", "deleted"}: SetStatus(requests[r].id, status)
    BY <1>1 DEF MarksApplied, RemovesRow
  <2> QED BY <1>0, <2>1, <2>2, <2>3, RowWritten, OthersKeepSeen
<1>2. CASE Restores(r)
  <2>1. requests[r].id \in Ids
    BY <1>2, HeldKnows DEF Restores, At, HeldSteps, KnowsRow
  <2> QED BY <1>2, <2>1, SetsLiveKeepsSeen DEF Restores, scanVars
<1>3. CASE DecidesRow(r)
  <2>1. Consistent(requests[r]) BY DEF Inv, RequestsInv
  <2>2. requests[r].id \in Ids
    BY <1>3, <2>1 DEF DecidesRow, At, Consistent, KnowsRow, IdSteps
  <2>3. \/ UNCHANGED rows
        \/ SetsLive(requests[r].id)
        \/ /\ Exists(requests[r].id) /\ ~Locked(requests[r].id)
           /\ \E status \in {"dismissed", "moved"}: SetStatus(requests[r].id, status)
    BY <1>3 DEF DecidesRow
  <2>4. UNCHANGED scans BY <1>3 DEF DecidesRow, scanVars
  <2> QED BY <1>0, <2>2, <2>3, <2>4, RowWritten, OthersKeepSeen, SetsLiveKeepsSeen
<1>4. CASE UNCHANGED <<rows, scans>> BY <1>4, OthersKeepSeen
<1>5. UNCHANGED <<rows, scans>> \/ MarksApplied(r) \/ RemovesRow(r) \/ Restores(r)
        \/ DecidesRow(r)
  BY DEF RequestGoesOn, Gets, Peeks, ResolvesItem, BeginApply, Acts, LooksUp,
         ChecksConflict, PutsBack, EndApply, EndsWithoutGate, queueVars, scanVars
<1> QED BY <1>1, <1>2, <1>3, <1>4, <1>5

LEMMA NobodyWrites ==
  ASSUME \A s \in Scans: scans[s] = IdleScan, OneLive
  PROVE  SeenInv
<1>1. \A s \in Scans, i \in Ids: ~LockedBy(s, i) BY IdleScanState DEF LockedBy
<1>2. IndexInv
  BY <1>1 DEF IndexInv, PendingAlone, OnePending, Exclusive, PathsStay, Pending
<1>3. \A s \in Scans: KeepsSeen(s)
  BY <1>1, IdleScanState DEF KeepsSeen, Selected, Upserting
<1> QED BY <1>2, <1>3 DEF SeenInv

LEMMA InitSeen == Init => SeenInv
<1> SUFFICES ASSUME Init PROVE SeenInv OBVIOUS
<1>1. \A s \in Scans: scans[s] = IdleScan BY DEF Init
<1>2. OneLive BY DEF Init, OneLive, Live, NoRow
<1> QED BY <1>1, <1>2, NobodyWrites

LEMMA RestartKeepsSeen ==
  ASSUME Inv, SeenInv, Restart
  PROVE  SeenInv'
<1>1. \A s \in Scans: scans'[s] = IdleScan BY DEF Restart
<1>2. OneLive' BY DEF Restart, queueVars, SeenInv, IndexInv, OneLive, Live
<1>3. \A s \in Scans, i \in Ids: ~LockedBy(s, i)' BY <1>1, IdleScanState DEF LockedBy
<1>4. IndexInv'
  BY <1>2, <1>3 DEF IndexInv, PendingAlone, OnePending, Exclusive, PathsStay, Pending
<1>5. \A s \in Scans: KeepsSeen(s)'
  BY <1>1, <1>3, IdleScanState DEF KeepsSeen, Selected, Upserting
<1> QED BY <1>4, <1>5 DEF SeenInv

LEMMA NextSeen == Inv /\ SeenInv /\ [Next]_vars => SeenInv'
<1> SUFFICES ASSUME Inv, SeenInv, [Next]_vars PROVE SeenInv' OBVIOUS
<1>1. CASE UNCHANGED vars
  BY <1>1, OthersKeepSeen DEF vars, queueVars, scanVars
<1>2. CASE \/ \E p \in Paths: FileArrives(p)
           \/ TimerFires \/ WatcherStops \/ WatcherStarts \/ FolderSaved
           \/ \E s \in Scans: Progresses(s)
           \/ \E cause \in Causes: WatchScanGivesUp(cause)
           \/ \E r \in Requests, kind \in Kinds, items \in SUBSET Ids:
                Click(r, kind, items)
  <2>1. UNCHANGED <<rows, scans>>
    BY <1>2 DEF FileArrives, TimerFires, WatcherStops, WatcherStarts, FolderSaved,
       Progresses, WatchScanGivesUp, Click, queueVars, scanVars
  <2> QED BY <2>1, OthersKeepSeen
<1>3. ASSUME NEW s \in Scans, ScanAt(s, "idle"), ScanGoes(s, "scan"), UNCHANGED rows
      PROVE  SeenInv'
  BY <1>3, ScanMovesOn DEF ScanAt
<1>4. CASE \/ \E s \in WatchScans, cause \in Causes: WatchScanStarts(s, cause)
           \/ \E s \in ManualScans: ManualScanStarts(s)
           \/ \E s \in ScheduledScans: ScheduledScanStarts(s)
  BY <1>3, <1>4 DEF WatchScanStarts, ManualScanStarts, ScheduledScanStarts, Scans,
     queueVars
<1>5. ASSUME NEW s \in Scans, ScanGoesOn(s) PROVE SeenInv' BY <1>5, ScanKeepsSeen
<1>6. ASSUME NEW r \in Requests, RequestGoesOn(r) PROVE SeenInv'
  BY <1>6, RequestKeepsSeen
<1>7. CASE Restart BY <1>7, RestartKeepsSeen
<1> QED BY <1>1, <1>2, <1>4, <1>5, <1>6, <1>7 DEF Next, Launch

LEMMA SeenHolds == Spec => [](Inv /\ SeenInv)
BY InitInv, NextInv, InitSeen, NextSeen, PTL DEF Spec

\* A row that a scan found live in the table, and whose file it saw on disk, is
\* not deleted by its commit, whatever other scans and requests have done in
\* between (proposals.go, "Upsert preserves IDs").
THEOREM SeenRowsKept == Spec => SeenRowsKeepTheirId
<1>1. ASSUME Inv, SeenInv, NEW s \in Scans, Commits(s), NEW i \in scans[s].existing,
             Exists(i), rows[i].path \in scans[s].found
      PROVE  rows'[i].status # "deleted"
  <2>1. i \in Ids BY <1>1, ExistingAreIds
  <2>2. KeepsSeen(s) /\ scans[s].at = "commit" BY <1>1 DEF SeenInv, Commits, ScanAt
  <2>3. i \in scans[s].kept BY <1>1, <2>2 DEF KeepsSeen, Selected, Upserting
  <2>4. LockedBy(s, i) => scans[s].writes[i].status # "deleted"
    BY <2>1, <2>2, <2>3 DEF KeepsSeen, Selected
  <2> QED BY <1>1, <2>1, <2>4 DEF Commits, Exists
<1>2. Inv /\ SeenInv =>
        [\A s \in Scans: Commits(s) =>
           \A i \in scans[s].existing:
             Exists(i) /\ rows[i].path \in scans[s].found
               => rows'[i].status # "deleted"]_vars
  BY <1>1
<1> QED BY <1>2, SeenHolds, PTL DEF SeenRowsKeepTheirId
=============================================================================
