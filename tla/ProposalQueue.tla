--------------------------- MODULE ProposalQueue ---------------------------
(***************************************************************************)
(* The Rename queue of one mode (Movies).  A scan reads the disk and then   *)
(* replaces the queue in a transaction of many statements; requests decide  *)
(* single rows meanwhile; the apply gate is to keep the first off the       *)
(* second.  A scan is started by the scheduler, by the Scan button, or by   *)
(* the watcher: after a file event and its debounce time, when an apply     *)
(* that had a replacement deferred ends, or when a folder is saved.         *)
(*                                                                         *)
(* The database is PostgreSQL at READ COMMITTED: a statement sees what is   *)
(* committed and what its own transaction wrote, and waits for a row that   *)
(* another transaction has written.                                        *)
(***************************************************************************)
EXTENDS Naturals, FiniteSets

CONSTANTS
  Paths,           \* source paths at which files arrive, in the order of the walk
  NoPath,
  WatchScans,      \* goroutines in scanFromWatcher
  ManualScans,     \* requests in renameScanHandler
  ScheduledScans,  \* goroutines in ScanRename
  Requests,        \* HTTP requests about proposals under way at once
  Kinds,           \* what they ask
  MaxId,           \* bound: rows
  Budgets          \* bounds, one of them chosen at the start: files that arrive,
                   \* requests made, times the process stops

ASSUME PathsAssumption == IsFiniteSet(Paths) /\ Paths \subseteq Nat /\ NoPath \notin Paths
ASSUME KindsAssumption ==
  Kinds \subseteq {"apply", "batch", "delete", "dismiss", "repick", "undo", "move"}
ASSUME ActorsAssumption ==
  /\ IsFiniteSet(Requests)
  /\ "request" \notin WatchScans \union ManualScans \union ScheduledScans
ASSUME BoundsAssumption ==
  MaxId \in Nat /\ Budgets \subseteq [arrivals: Nat, requests: Nat, restarts: Nat]

Ids == 1 .. MaxId
Scans == WatchScans \union ManualScans \union ScheduledScans

\* A row that was moved belongs to another mode's queue.
Statuses == {"none", "live", "applied", "dismissed", "moved", "deleted"}
Row == [path: Paths \union {NoPath}, status: Statuses]
NoRow == [path |-> NoPath, status |-> "none"]
LiveRow(p) == [path |-> p, status |-> "live"]

\* What a transaction has made of a row it did not touch.
Unwritten == [path |-> NoPath, status |-> "unwritten"]
NoWrites == [i \in Ids |-> Unwritten]

VARIABLES
  inbox,     \* paths at which a file waits to be taken into the library
  rows,      \* the committed rows
  scans,     \* each scan: where it is, what it found, what it has written
  hub,       \* whether renameScans says a scan is running
  watch,     \* whether the folders are watched, and the debounce timer is set
  launched,  \* calls of scanFromWatcher that have not begun
  gate,      \* applies in flight, and whether a replacement was deferred
  requests,  \* each request: where it is, what it has read
  budget     \* what the bounds have left

queueVars == <<inbox, rows>>
scanVars == <<scans, hub>>
watchVars == <<watch, launched>>
requestVars == <<gate, requests>>
vars == <<queueVars, scanVars, watchVars, requestVars, budget>>

ScanSteps == {"idle", "scan", "gate", "select", "upsert", "delete",
              "recheck", "commit", "defer", "return"}
IdleScan == [at |-> "idle", found |-> {}, existing |-> {}, todo |-> {},
             kept |-> {}, orphans |-> {}, writes |-> NoWrites]

RequestSteps == {"idle", "get", "peek", "begin", "item", "begin item", "act",
                 "mark", "look up", "mark found", "remove", "check", "put back",
                 "restore", "write", "end"}
IdleRequest == [at |-> "idle", kind |-> "none", items |-> {}, id |-> 0,
                path |-> NoPath, holds |-> FALSE, done |-> {}]

Init ==
  /\ inbox = {}
  /\ rows = [i \in Ids |-> NoRow]
  /\ scans = [s \in Scans |-> IdleScan]
  /\ hub = FALSE
  /\ watch = [on |-> TRUE, timer |-> FALSE]
  /\ launched = {}
  /\ gate = [inFlight |-> 0, deferred |-> FALSE]
  /\ requests = [r \in Requests |-> IdleRequest]
  /\ budget \in Budgets

-----------------------------------------------------------------------------
(* The table *)

Exists(i) == rows[i].status \notin {"none", "deleted"}
Live(i) == rows[i].status = "live"
LiveAt(p) == {i \in Ids: Live(i) /\ rows[i].path = p}

\* A transaction other than s has written row i and not yet ended.
LockedBy(t, i) == scans[t].writes[i] # Unwritten
LockedFor(s, i) == \E t \in Scans \ {s}: LockedBy(t, i)
Locked(i) == \E t \in Scans: LockedBy(t, i)

\* proposals_live_source_path_uidx: another committed live row at p refuses a
\* live row i, and one that a transaction is writing makes it wait. The mode is
\* part of the index, so a row that was moved is not among these.
Refused(s, i, p) ==
  rows[i].status # "moved" /\ \E j \in LiveAt(p) \ {i}: ~LockedFor(s, j)
Waits(s, i, p) ==
  /\ rows[i].status # "moved"
  /\ \E t \in Scans \ {s}, j \in Ids \ {i}:
       LockedBy(t, j) /\ (scans[t].writes[j] = LiveRow(p) \/ j \in LiveAt(p))

\* A row of another mode is none of this queue's business.
WithStatus(i, status) ==
  IF rows[i].status = "moved" THEN rows[i] ELSE [rows[i] EXCEPT !.status = status]
SetStatus(i, status) == rows' = [rows EXCEPT ![i] = WithStatus(i, status)]

\* The serial the next INSERT draws.
NextId(i) ==
  /\ \A j \in Ids: j < i => rows[j] # NoRow \/ Locked(j)
  /\ rows[i] = NoRow /\ ~Locked(i)

-----------------------------------------------------------------------------
(* The disk and what starts a scan *)

\* fsnotify reports what appears directly under a watched folder.
EventAt(on) == watch' = [watch EXCEPT !.timer = watch.timer \/ on]

FileArrives(p) ==
  /\ p \notin inbox /\ budget.arrivals > 0
  /\ inbox' = inbox \union {p}
  /\ EventAt(watch.on)
  /\ budget' = [budget EXCEPT !.arrivals = budget.arrivals - 1]
  /\ UNCHANGED <<rows, scanVars, launched, requestVars>>

TimerFires ==
  /\ watch.timer
  /\ watch' = [watch EXCEPT !.timer = FALSE]
  /\ launched' = launched \union {"timer"}
  /\ UNCHANGED <<queueVars, scanVars, requestVars, budget>>

\* The poll ticks: timers are stopped and the watcher closed.
WatcherStops ==
  /\ watch.on
  /\ watch' = [on |-> FALSE, timer |-> FALSE]
  /\ UNCHANGED <<queueVars, scanVars, launched, requestVars, budget>>

WatcherStarts ==
  /\ ~watch.on
  /\ watch' = [watch EXCEPT !.on = TRUE]
  /\ UNCHANGED <<queueVars, scanVars, launched, requestVars, budget>>

\* A folder is saved: the watcher reloads and the folder is scanned.
FolderSaved ==
  /\ budget.requests > 0
  /\ budget' = [budget EXCEPT !.requests = budget.requests - 1]
  /\ watch' = [on |-> FALSE, timer |-> FALSE]
  /\ launched' = launched \union {"saved"}
  /\ UNCHANGED <<queueVars, scanVars, requestVars>>

-----------------------------------------------------------------------------
(* A scan *)

ScanAt(s, at) == scans[s].at = at
ScanGoes(s, at) == scans' = [scans EXCEPT ![s].at = at]

WatchScanStarts(s, cause) ==
  /\ cause \in launched /\ ScanAt(s, "idle") /\ ~hub
  /\ launched' = launched \ {cause}
  /\ hub' = TRUE
  /\ ScanGoes(s, "scan")
  /\ UNCHANGED <<queueVars, watch, requestVars, budget>>

\* scanFromWatcher gives up when the hub says that a scan is running.
WatchScanGivesUp(cause) ==
  /\ cause \in launched /\ hub
  /\ launched' = launched \ {cause}
  /\ UNCHANGED <<queueVars, scanVars, watch, requestVars, budget>>

\* renameScanHandler starts whatever the hub says.
ManualScanStarts(s) ==
  /\ ScanAt(s, "idle") /\ budget.requests > 0
  /\ budget' = [budget EXCEPT !.requests = budget.requests - 1]
  /\ hub' = TRUE
  /\ ScanGoes(s, "scan")
  /\ UNCHANGED <<queueVars, watchVars, requestVars>>

\* The scheduler does not tell the hub.
ScheduledScanStarts(s) ==
  /\ ScanAt(s, "idle")
  /\ ScanGoes(s, "scan")
  /\ UNCHANGED <<queueVars, hub, watchVars, requestVars, budget>>

\* Each file looked at reports progress, and with it that a scan is running.
Progresses(s) ==
  /\ s \notin ScheduledScans /\ ScanAt(s, "scan") /\ ~hub
  /\ hub' = TRUE
  /\ UNCHANGED <<queueVars, scans, watchVars, requestVars, budget>>

\* The handler reports its scan done before it replaces the queue.
ReadsDisk(s) ==
  /\ ScanAt(s, "scan")
  /\ scans' = [scans EXCEPT ![s].at = "gate", ![s].found = inbox]
  /\ hub' = (hub /\ s \notin ManualScans)
  /\ UNCHANGED <<queueVars, watchVars, requestVars, budget>>

-----------------------------------------------------------------------------
(* ReplacePending, of a scan that found some paths *)

ReplaceStep(s, from, to) ==
  /\ ScanAt(s, from)
  /\ ScanGoes(s, to)
  /\ UNCHANGED <<queueVars, hub, watchVars, requestVars, budget>>

\* Mutant: no second check.
ChecksGateOnce(s) ==
  \/ gate.inFlight = 0 /\ ReplaceStep(s, "gate", "select")
  \/ gate.inFlight > 0 /\ ReplaceStep(s, "gate", "defer")
  \/ ReplaceStep(s, "recheck", "commit")

\* Before the transaction begins and again before it commits.
ChecksGate(s) ==
  \/ gate.inFlight = 0 /\ ReplaceStep(s, "gate", "select")
  \/ gate.inFlight = 0 /\ ReplaceStep(s, "recheck", "commit")
  \/ \E from \in {"gate", "recheck"}:
       gate.inFlight > 0 /\ ReplaceStep(s, from, "defer")

\* markDeferred takes the lock anew, and the rollback comes after it.
Defers(s) ==
  /\ ScanAt(s, "defer")
  /\ gate' = [gate EXCEPT !.deferred = TRUE]
  /\ scans' = [scans EXCEPT ![s].at = "return", ![s].writes = NoWrites]
  /\ UNCHANGED <<queueVars, hub, watchVars, requests, budget>>

Selects(s) ==
  /\ ScanAt(s, "select")
  /\ scans' = [scans EXCEPT ![s].at = "upsert", ![s].todo = scans[s].found,
                            ![s].existing = {i \in Ids: Live(i)}]
  /\ UNCHANGED <<queueVars, hub, watchVars, requestVars, budget>>

\* Mutant: the id is not recorded as one to keep.
UpsertedOnly(s, p, i, w) ==
  /\ scans' = [scans EXCEPT ![s].todo = scans[s].todo \ {p},
                            ![s].writes = [scans[s].writes EXCEPT ![i] = w]]
  /\ UNCHANGED <<queueVars, hub, watchVars, requestVars, budget>>

\* The statement for path p leaves row i behind, written as w.
Upserted(s, p, i, w) ==
  /\ scans' = [scans EXCEPT ![s].todo = scans[s].todo \ {p},
                            ![s].kept = scans[s].kept \union {i},
                            ![s].writes = [scans[s].writes EXCEPT ![i] = w]]
  /\ UNCHANGED <<queueVars, hub, watchVars, requestVars, budget>>

\* The walk of the folders meets the paths in order.
Turn(s, p) ==
  ScanAt(s, "upsert") /\ p \in scans[s].todo /\ \A q \in scans[s].todo: p <= q
Known(s, p) == {i \in scans[s].existing: rows[i].path = p}

\* UPDATE ... WHERE id, of the row that was live at p when it was read.
Updates(s, p) ==
  /\ Turn(s, p)
  /\ \E i \in Known(s, p):
       /\ ~LockedFor(s, i)
       /\ \/ ~Exists(i) /\ Upserted(s, p, i, Unwritten)
          \/ /\ Exists(i) /\ ~Refused(s, i, p) /\ ~Waits(s, i, p)
             /\ Upserted(s, p, i, WithStatus(i, "live"))

Inserts(s, p) ==
  /\ Turn(s, p) /\ Known(s, p) = {}
  /\ \E i \in Ids: /\ NextId(i) /\ ~Refused(s, i, p) /\ ~Waits(s, i, p)
                   /\ Upserted(s, p, i, LiveRow(p))

\* The unique index refuses the statement: the transaction is rolled back.
RollsBack(s) ==
  /\ scans' = [scans EXCEPT ![s].at = "return", ![s].writes = NoWrites]
  /\ UNCHANGED <<queueVars, hub, watchVars, requestVars, budget>>

IsRefused(s, p) ==
  /\ Turn(s, p)
  /\ \/ Known(s, p) = {} /\ \E i \in Ids: NextId(i) /\ Refused(s, i, p)
     \/ \E i \in Known(s, p): Exists(i) /\ ~LockedFor(s, i) /\ Refused(s, i, p)
  /\ RollsBack(s)

\* Mutant: a scan that found nothing deletes nothing.
FindsOrphansOfSome(s) ==
  /\ ScanAt(s, "upsert") /\ scans[s].todo = {}
  /\ scans' = [scans EXCEPT ![s].at = "delete",
                            ![s].orphans = IF scans[s].kept = {} THEN {}
                                           ELSE {i \in Ids: Live(i)} \ scans[s].kept]
  /\ UNCHANGED <<queueVars, hub, watchVars, requestVars, budget>>

\* DELETE of the live rows that were not upserted: those it sees ...
FindsOrphans(s) ==
  /\ ScanAt(s, "upsert") /\ scans[s].todo = {}
  /\ scans' = [scans EXCEPT ![s].at = "delete",
                            ![s].orphans = {i \in Ids: Live(i)} \ scans[s].kept]
  /\ UNCHANGED <<queueVars, hub, watchVars, requestVars, budget>>

\* ... and of each, once no one else is writing it, if it is still live.
TurnToDelete(s, i) ==
  ScanAt(s, "delete") /\ i \in scans[s].orphans /\ \A j \in scans[s].orphans: i <= j

Deletes(s, i) ==
  /\ TurnToDelete(s, i) /\ ~LockedFor(s, i)
  /\ scans' = [scans EXCEPT ![s].orphans = scans[s].orphans \ {i},
                            ![s].writes =
                              IF Live(i)
                              THEN [scans[s].writes EXCEPT ![i] = WithStatus(i, "deleted")]
                              ELSE scans[s].writes]
  /\ UNCHANGED <<queueVars, hub, watchVars, requestVars, budget>>

HasDeleted(s) == scans[s].orphans = {} /\ ReplaceStep(s, "delete", "recheck")

\* Mutant: the deferred rollback ends the transaction.
EndsWithRollback(s) ==
  /\ ScanAt(s, "commit")
  /\ scans' = [scans EXCEPT ![s].at = "return", ![s].writes = NoWrites]
  /\ UNCHANGED <<queueVars, hub, watchVars, requestVars, budget>>

Commits(s) ==
  /\ ScanAt(s, "commit")
  /\ rows' = [i \in Ids |-> IF LockedBy(s, i) THEN scans[s].writes[i] ELSE rows[i]]
  /\ scans' = [scans EXCEPT ![s].at = "return", ![s].writes = NoWrites]
  /\ UNCHANGED <<inbox, hub, watchVars, requestVars, budget>>

\* Two transactions wait for each other: the server rolls one back.
WaitsFor(s, t) ==
  \/ \E p \in Paths: Turn(s, p) /\ \E j \in Ids:
       /\ LockedBy(t, j)
       /\ \/ j \in Known(s, p)
          \/ /\ \A i \in Known(s, p): rows[i].status # "moved"
             /\ scans[t].writes[j] = LiveRow(p) \/ j \in LiveAt(p)
  \/ \E i \in Ids: TurnToDelete(s, i) /\ LockedBy(t, i)

DeadlockVictim(s) ==
  /\ \E t \in Scans \ {s}: WaitsFor(s, t) /\ WaitsFor(t, s)
  /\ RollsBack(s)

\* scanFromWatcher reports its scan done on the way out.
Returns(s) ==
  /\ ScanAt(s, "return")
  /\ scans' = [scans EXCEPT ![s] = IdleScan]
  /\ hub' = (hub /\ s \notin WatchScans)
  /\ UNCHANGED <<queueVars, watchVars, requestVars, budget>>

-----------------------------------------------------------------------------
(* Requests *)

At(r, at) == requests[r].at = at
Goes(r, at) == requests' = [requests EXCEPT ![r].at = at]
Leaves(r) == requests' = [requests EXCEPT ![r] = IdleRequest]

\* What the browser shows it may ask for: the page may be old when it is sent.
Click(r, kind, items) ==
  /\ At(r, "idle") /\ kind \in Kinds /\ items # {} /\ budget.requests > 0
  /\ \A i \in items: IF kind = "undo" THEN rows[i].status = "applied" ELSE Live(i)
  /\ kind \notin {"batch", "delete"} => \A i, j \in items: i = j
  /\ budget' = [budget EXCEPT !.requests = budget.requests - 1]
  /\ requests' = [requests EXCEPT ![r].kind = kind, ![r].items = items,
                    ![r].at = IF kind \in {"batch", "delete"} THEN "peek" ELSE "get"]
  /\ UNCHANGED <<queueVars, scanVars, watchVars, gate>>

\* The row must exist; only an undo, a re-pick and a move look at its status.
Eligible(kind, i) ==
  /\ Exists(i)
  /\ kind = "undo" => rows[i].status = "applied"
  /\ kind \in {"repick", "move"} => Live(i)

Gets(r, i) ==
  /\ At(r, "get") /\ i \in requests[r].items
  /\ IF Eligible(requests[r].kind, i)
     THEN requests' = [requests EXCEPT
            ![r].id = i, ![r].path = rows[i].path, ![r].items = {},
            ![r].at = IF requests[r].kind \in {"apply", "undo"} THEN "begin" ELSE "write"]
     ELSE Leaves(r)
  /\ UNCHANGED <<queueVars, scanVars, watchVars, gate, budget>>

\* A batch takes the gate of its first item before the loop, if it finds it.
Peeks(r, i) ==
  /\ At(r, "peek") /\ i \in requests[r].items
  /\ Goes(r, IF Exists(i) THEN "begin" ELSE "item")
  /\ UNCHANGED <<queueVars, scanVars, watchVars, gate, budget>>

AfterBegin(r) ==
  CASE requests[r].at = "begin item" -> "act"
    [] requests[r].kind = "apply" -> "act"
    [] requests[r].kind = "undo" -> "check"
    [] OTHER -> "item"

\* Mutant: an undo ends what it did not begin.
BeginApplyNoUndo(r) ==
  /\ requests[r].at \in {"begin", "begin item"}
  /\ gate' = [gate EXCEPT !.inFlight =
                 gate.inFlight + IF requests[r].kind = "undo" THEN 0 ELSE 1]
  /\ requests' = [requests EXCEPT ![r].at = AfterBegin(r), ![r].holds = TRUE]
  /\ UNCHANGED <<queueVars, scanVars, watchVars, budget>>

BeginApply(r) ==
  /\ requests[r].at \in {"begin", "begin item"}
  /\ gate' = [gate EXCEPT !.inFlight = gate.inFlight + 1]
  /\ requests' = [requests EXCEPT ![r].at = AfterBegin(r), ![r].holds = TRUE]
  /\ UNCHANGED <<queueVars, scanVars, watchVars, budget>>

\* By id, or else the live row at the path the browser sent along.
Resolved(r, i) ==
  IF Exists(i) THEN {i} ELSE IF requests[r].holds THEN LiveAt(rows[i].path) ELSE {}

\* Where a request goes when it is done with a row.
Onward(items) == IF items = {} THEN "end" ELSE "item"

ResolvesItem(r, i) ==
  /\ At(r, "item") /\ i \in requests[r].items
  /\ LET items == requests[r].items \ {i} IN
     \/ /\ \A j \in Resolved(r, i): requests[r].kind = "delete" /\ ~Live(j)
        /\ requests' = [requests EXCEPT ![r].items = items, ![r].at = Onward(items)]
     \/ \E j \in Resolved(r, i):
          /\ requests[r].kind = "delete" => Live(j)
          /\ requests' = [requests EXCEPT
               ![r].items = items, ![r].id = j, ![r].path = rows[j].path,
               ![r].at = IF requests[r].holds THEN "act" ELSE "begin item"]
  /\ UNCHANGED <<queueVars, scanVars, watchVars, gate, budget>>

\* The file is moved into the library, where that may be an event, or removed.
\* To apply a file that is gone is an error.
Acts(r) ==
  /\ At(r, "act")
  /\ \/ /\ requests[r].kind = "delete" \/ requests[r].path \in inbox
        /\ inbox' = inbox \ {requests[r].path}
        /\ Goes(r, IF requests[r].kind = "delete" THEN "remove" ELSE "mark")
        /\ \E on \in {FALSE, watch.on}: EventAt(on)
     \/ /\ requests[r].kind # "delete" /\ requests[r].path \notin inbox
        /\ Goes(r, Onward(requests[r].items))
        /\ UNCHANGED <<inbox, watch>>
  /\ UNCHANGED <<rows, scanVars, launched, gate, budget>>

\* markAppliedResilient: by id, else the live row of the path, else not at all.
MarksApplied(r) ==
  /\ requests[r].at \in {"mark", "mark found"} /\ ~Locked(requests[r].id)
  /\ IF Exists(requests[r].id)
     THEN /\ SetStatus(requests[r].id, "applied")
          /\ requests' = [requests EXCEPT ![r].at = Onward(requests[r].items),
                            ![r].done = requests[r].done \union {requests[r].id}]
     ELSE /\ Goes(r, IF At(r, "mark") THEN "look up" ELSE Onward(requests[r].items))
          /\ UNCHANGED rows
  /\ UNCHANGED <<inbox, scanVars, watchVars, gate, budget>>

LooksUp(r) ==
  /\ At(r, "look up")
  /\ \/ /\ LiveAt(requests[r].path) = {}
        /\ Goes(r, Onward(requests[r].items))
     \/ \E j \in LiveAt(requests[r].path):
          requests' = [requests EXCEPT ![r].id = j, ![r].at = "mark found"]
  /\ UNCHANGED <<queueVars, scanVars, watchVars, gate, budget>>

RemovesRow(r) ==
  /\ At(r, "remove") /\ ~Locked(requests[r].id)
  /\ IF Exists(requests[r].id) THEN SetStatus(requests[r].id, "deleted") ELSE UNCHANGED rows
  /\ Goes(r, Onward(requests[r].items))
  /\ UNCHANGED <<inbox, scanVars, watchVars, gate, budget>>

\* An undo looks for a live row at the path before it moves the file back.
ChecksConflict(r) ==
  /\ At(r, "check")
  /\ Goes(r, IF LiveAt(requests[r].path) \ {requests[r].id} = {} THEN "put back" ELSE "end")
  /\ UNCHANGED <<queueVars, scanVars, watchVars, gate, budget>>

PutsBack(r) ==
  /\ At(r, "put back")
  /\ inbox' = inbox \union {requests[r].path}
  /\ Goes(r, "restore")
  /\ \E on \in {FALSE, watch.on}: EventAt(on)
  /\ UNCHANGED <<rows, scanVars, launched, gate, budget>>

\* One statement that makes a row live again: it may wait, and be refused.
SetsLive(i) ==
  /\ ~Locked(i) /\ ~Waits("request", i, rows[i].path)
  /\ IF Exists(i) /\ ~Refused("request", i, rows[i].path)
     THEN SetStatus(i, "live") ELSE UNCHANGED rows

Restores(r) ==
  /\ At(r, "restore") /\ SetsLive(requests[r].id)
  /\ Goes(r, "end")
  /\ UNCHANGED <<inbox, scanVars, watchVars, gate, budget>>

\* Dismiss, Repick and MoveMode are one statement on the row, whatever it has
\* become, with no gate; the target mode of a move may refuse it.
DecidesRow(r) ==
  /\ At(r, "write")
  /\ LET i == requests[r].id IN
     \/ requests[r].kind = "dismiss" /\ ~Locked(i)
        /\ IF Exists(i) THEN SetStatus(i, "dismissed") ELSE UNCHANGED rows
     \/ requests[r].kind = "repick" /\ SetsLive(i)
     \/ requests[r].kind = "move" /\ ~Locked(i)
        /\ \/ Exists(i) /\ SetStatus(i, "moved")
           \/ UNCHANGED rows
  /\ Leaves(r)
  /\ UNCHANGED <<inbox, scanVars, watchVars, gate, budget>>

\* The last apply in flight starts the scans that were deferred.
EndApply(r) ==
  /\ At(r, "end") /\ requests[r].holds
  /\ LET last == gate.inFlight = 1 IN
     /\ gate' = [inFlight |-> gate.inFlight - 1, deferred |-> gate.deferred /\ ~last]
     /\ launched' = IF last /\ gate.deferred THEN launched \union {"idle hook"}
                                             ELSE launched
  /\ Leaves(r)
  /\ UNCHANGED <<queueVars, scanVars, watch, budget>>

EndsWithoutGate(r) ==
  /\ At(r, "end") /\ ~requests[r].holds
  /\ Leaves(r)
  /\ UNCHANGED <<queueVars, scanVars, watchVars, gate, budget>>

\* The process stops: open transactions are rolled back, all else is memory.
\* A kids folder without rows is scanned at boot.
Restart ==
  /\ budget.restarts > 0
  /\ budget' = [budget EXCEPT !.restarts = budget.restarts - 1]
  /\ scans' = [s \in Scans |-> IdleScan] /\ hub' = FALSE
  /\ watch' = [on |-> FALSE, timer |-> FALSE]
  /\ \E cause \in {{}, {"saved"}}: launched' = cause
  /\ gate' = [inFlight |-> 0, deferred |-> FALSE]
  /\ requests' = [r \in Requests |-> IdleRequest]
  /\ UNCHANGED queueVars

-----------------------------------------------------------------------------

ScanGoesOn(s) ==
  \/ ReadsDisk(s) \/ ChecksGate(s) \/ Defers(s) \/ Selects(s)
  \/ \E p \in Paths: Updates(s, p) \/ Inserts(s, p) \/ IsRefused(s, p)
  \/ FindsOrphans(s) \/ (\E i \in Ids: Deletes(s, i)) \/ HasDeleted(s)
  \/ Commits(s) \/ DeadlockVictim(s) \/ Returns(s)

RequestGoesOn(r) ==
  \/ \E i \in Ids: Gets(r, i) \/ Peeks(r, i) \/ ResolvesItem(r, i)
  \/ BeginApply(r) \/ Acts(r) \/ MarksApplied(r) \/ LooksUp(r) \/ RemovesRow(r)
  \/ ChecksConflict(r) \/ PutsBack(r) \/ Restores(r) \/ DecidesRow(r)
  \/ EndApply(r) \/ EndsWithoutGate(r)

Causes == {"timer", "saved", "idle hook"}
Launch == \E cause \in Causes:
  WatchScanGivesUp(cause) \/ \E s \in WatchScans: WatchScanStarts(s, cause)

Next ==
  \/ \E p \in Paths: FileArrives(p)
  \/ TimerFires \/ WatcherStops \/ WatcherStarts \/ FolderSaved
  \/ Launch
  \/ \E s \in ManualScans: ManualScanStarts(s)
  \/ \E s \in ScheduledScans: ScheduledScanStarts(s)
  \/ \E s \in Scans: Progresses(s) \/ ScanGoesOn(s)
  \/ \E r \in Requests:
       \/ \E kind \in Kinds, items \in SUBSET Ids: Click(r, kind, items)
       \/ RequestGoesOn(r)
  \/ Restart

Spec == Init /\ [][Next]_vars

\* Goroutines run, timers fire, the scheduler ticks.  No one has to press a
\* button or to keep the folders watched.
Fairness ==
  /\ \A s \in Scans: WF_vars(ScanGoesOn(s))
  /\ \A r \in Requests: WF_vars(RequestGoesOn(r))
  /\ WF_vars(Launch) /\ WF_vars(TimerFires)
  /\ \A s \in ScheduledScans: WF_vars(ScheduledScanStarts(s))

FairSpec == Spec /\ Fairness

-----------------------------------------------------------------------------
(* Properties *)

ScanState ==
  [at: ScanSteps, found: SUBSET Paths, existing: SUBSET Ids, todo: SUBSET Paths,
   kept: SUBSET Ids, orphans: SUBSET Ids, writes: [Ids -> Row \union {Unwritten}]]
RequestState ==
  [at: RequestSteps, kind: Kinds \union {"none"}, items: SUBSET Ids,
   id: Ids \union {0}, path: Paths \union {NoPath}, holds: BOOLEAN, done: SUBSET Ids]

TypeOK ==
  /\ inbox \subseteq Paths
  /\ rows \in [Ids -> Row]
  /\ scans \in [Scans -> ScanState]
  /\ hub \in BOOLEAN
  /\ watch \in [on: BOOLEAN, timer: BOOLEAN]
  /\ launched \subseteq Causes
  /\ gate \in [inFlight: Nat, deferred: BOOLEAN]
  /\ requests \in [Requests -> RequestState]
  /\ budget \in [arrivals: Nat, requests: Nat, restarts: Nat]

\* A commit leaves alone what a request that still holds the gate has applied
\* (applygate.go; the second check of ReplacePending and the row locks).
CommitSparesResults ==
  [][\A s \in Scans: Commits(s) =>
       \A r \in Requests: \A i \in requests[r].done: rows'[i] = rows[i]]_vars

\* A scan deletes no row that it found live in the table and whose file it saw
\* on disk, whatever the row has become since (proposals.go, "Upsert preserves
\* IDs"): a request that has the row in hand still finds it when it marks it.
SeenRowsKeepTheirId ==
  [][\A s \in Scans: Commits(s) =>
       \A i \in scans[s].existing:
         Exists(i) /\ rows[i].path \in scans[s].found => rows'[i].status # "deleted"]_vars

\* A file is proposed in the end, or taken (scanschedule.go, watchfolders.go).
FileIsProposed == \A p \in Paths: p \in inbox ~> (p \notin inbox \/ LiveAt(p) # {})

\* A live row whose file is gone does not stay (the orphan delete).
PhantomGoes == \A p \in Paths: (p \notin inbox /\ LiveAt(p) # {})
                                ~> (p \in inbox \/ LiveAt(p) = {})

\* ReplacePending: "Applied and Dismissed rows are untouched".
DecisionsKept ==
  [][\A i \in Ids: rows[i].status \in {"applied", "dismissed"} => rows'[i] = rows[i]]_vars

\* ErrReplaceDeferred: "a catch-up scan fires automatically".
DeferredScanIsMadeUp ==
  (\E s \in Scans: ScanAt(s, "defer")) ~> (\E s \in Scans: ScanAt(s, "scan"))
=============================================================================
