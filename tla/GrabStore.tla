----------------------------- MODULE GrabStore -----------------------------
(***************************************************************************)
(* The grabs table of internal/grabs: one row per request, and every SQL    *)
(* statement that writes or selects a row, each as an operator on one row.  *)
(* A statement with a WHERE condition on the row's state returns the row    *)
(* unchanged when the condition does not hold (zero rows affected).         *)
(*                                                                         *)
(* Time is abstract.  A timestamp column is "none" (the empty string),      *)
(* "later" (still ahead of the clock) or "due" (the clock has reached it);  *)
(* hold_until may also be "never", the far-future sentinel of a film with   *)
(* no known release date.                                                   *)
(* retry_count is left out: every rung of the days ladder is a wait.        *)
(***************************************************************************)
EXTENDS Naturals

CONSTANTS
  Gids,                 \* GIDs the usenet engine may mint
  NoGid,                \* the empty download_gid
  MaxTransportRetries   \* rungs of the short transport ladder

ASSUME NoGidAssumption == NoGid \notin Gids
ASSUME MaxTransportRetriesAssumption == MaxTransportRetries \in Nat \ {0}

Status == {"absent", "queued", "pending_retry", "imported", "failed"}
Stamp == {"none", "later", "due"}
HoldStamp == Stamp \union {"never"}

Row == [status: Status, gid: Gids \union {NoGid}, retryAfter: Stamp,
        hold: HoldStamp, transport: Nat, tried: BOOLEAN, url: BOOLEAN,
        pick: BOOLEAN]

\* A row that has not been inserted yet.
NoRow == [status |-> "absent", gid |-> NoGid, retryAfter |-> "none",
          hold |-> "none", transport |-> 0, tried |-> FALSE, url |-> FALSE,
          pick |-> FALSE]

-----------------------------------------------------------------------------
(* INSERT *)

\* A dispatched grab: queued, its URL known, its GID recorded by a later write.
CreateQueued == [NoRow EXCEPT !.status = "queued", !.url = TRUE]

\* A request nothing could be found for: parked on the first rung.
CreatePendingRetry ==
  [NoRow EXCEPT !.status = "pending_retry", !.retryAfter = "later"]

\* A Calendar request for an unreleased film: held, on no retry schedule.
CreateHeld(until) ==
  [NoRow EXCEPT !.status = "pending_retry", !.hold = until]

-----------------------------------------------------------------------------
(* UPDATE ... WHERE id = ? *)

UpdateStatus(row, status) == [row EXCEPT !.status = status]

MarkImportedIfNot(row) == [row EXCEPT !.status = "imported"]

\* Mutant: the GID of the download just started is not recorded.
ForgetDownloadGID(row, gid) == row
SetDownloadGID(row, gid) == [row EXCEPT !.gid = gid]

\* origin = "search-pick": the release was clicked in the search results.
SetOrigin(row) == [row EXCEPT !.pick = TRUE]

\* Mutant: a park that leaves retry_after empty.
ParkUnscheduled(row) ==
  [row EXCEPT !.status = "pending_retry", !.gid = NoGid, !.transport = 0,
              !.tried = FALSE]

\* ParkWithBackoff: the days ladder.  The download attempt is dead, so the GID
\* goes, and the transport and alternate-release episodes end with it.
SetPendingRetry(row) ==
  [row EXCEPT !.status = "pending_retry", !.retryAfter = "later",
              !.gid = NoGid, !.transport = 0, !.tried = FALSE]

\* Mutant: the alternate-release park keeps the dead GID.
ParkForAlternateKeepingGid(row) ==
  [row EXCEPT !.status = "pending_retry", !.retryAfter = "due",
              !.transport = 0, !.tried = TRUE]

\* Park due at once for a different release of the same title.
ParkForAlternateRelease(row) ==
  [row EXCEPT !.status = "pending_retry", !.retryAfter = "due",
              !.gid = NoGid, !.transport = 0, !.tried = TRUE]

\* Mutant: the counter runs the wrong way.
ParkForTransportCountdown(row) ==
  [row EXCEPT !.status = "pending_retry", !.retryAfter = "later",
              !.transport = @ - 1]

\* Short park after a dropped connection; the GID names the staging directory.
ParkForTransportResume(row) ==
  [row EXCEPT !.status = "pending_retry", !.retryAfter = "later",
              !.transport = @ + 1]

\* The same after a shutdown: due at once, no rung consumed.
ParkForShutdownResume(row) ==
  [row EXCEPT !.status = "pending_retry", !.retryAfter = "due"]

SetRetryAfter(row, after) == [row EXCEPT !.retryAfter = after]

SetHoldUntil(row, until) == [row EXCEPT !.hold = until]

\* Mutant: every re-dispatch starts the transport ladder over.
RelaunchFromFirstRung(row, gid) ==
  [row EXCEPT !.status = "queued", !.retryAfter = "none", !.url = TRUE,
              !.transport = 0, !.gid = gid]

\* Re-arm a row onto the release just dispatched.  The transport counter
\* survives when the row resumes the very GID it was parked with.
Relaunch(row, gid) ==
  [row EXCEPT !.status = "queued", !.retryAfter = "none", !.url = TRUE,
              !.transport = IF row.gid = gid THEN row.transport ELSE 0,
              !.gid = gid]

-----------------------------------------------------------------------------
(* UPDATE ... WHERE id = ? AND the row is in a given state *)

\* The operator's Promote: rejoin the front of the retry schedule.
PromoteToFront(row) ==
  IF row.status \in {"pending_retry", "queued"}
  THEN [row EXCEPT !.status = "pending_retry", !.retryAfter = "due",
                   !.gid = NoGid,
                   !.hold = IF @ \in {"later", "never"} THEN "due" ELSE @]
  ELSE row

\* Resurrect a failed Calendar request into a fresh held one.
RearmHeldRequest(row, until) ==
  IF row.status = "failed" /\ row.hold # "none"
  THEN [row EXCEPT !.status = "pending_retry", !.gid = NoGid,
                   !.retryAfter = "none", !.hold = until]
  ELSE row

\* Move a parked row from the retry track to the release track.
HoldForRelease(row, until) ==
  IF row.status = "pending_retry"
  THEN [row EXCEPT !.hold = until, !.retryAfter = "none"]
  ELSE row

-----------------------------------------------------------------------------
(* SELECT *)

DueForRetry(row) ==
  /\ row.status = "pending_retry"
  /\ row.gid = NoGid
  /\ row.retryAfter = "due"
  /\ row.hold \in {"none", "due"}

\* Mutant: the resume query does not compare retry_after with the clock.
ParkedForResume(row) ==
  /\ row.status = "pending_retry"
  /\ row.gid # NoGid
  /\ row.retryAfter # "none"
  /\ row.hold \in {"none", "due"}

DueForResume(row) ==
  /\ row.status = "pending_retry"
  /\ row.gid # NoGid
  /\ row.retryAfter = "due"
  /\ row.hold \in {"none", "due"}

DueForRelease(row) ==
  /\ row.status = "pending_retry"
  /\ row.gid = NoGid
  /\ row.retryAfter = "none"
  /\ row.hold = "due"

\* Mutant: rows whose download has ended are still taken to be in flight.
HasDownload(row) == row.gid # NoGid

\* In flight: the filter reconcile and the failure sweep apply to List.
InFlight(row) == row.status = "queued" /\ row.gid # NoGid

\* Every held request, due or not (DueForRelease at the far-future sentinel).
Held(row) ==
  /\ row.status = "pending_retry"
  /\ row.gid = NoGid
  /\ row.retryAfter = "none"
  /\ row.hold # "none"
=============================================================================
