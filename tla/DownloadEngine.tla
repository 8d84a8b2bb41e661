--------------------------- MODULE DownloadEngine ---------------------------
(***************************************************************************)
(* What the grab pipeline may rely on from the download engine, GID by GID: *)
(* the state FindByGID reports, whether the staging directory exists, and   *)
(* the outcomes fired through SetOnError and SetOnComplete that no callback *)
(* has looked at yet.                                                      *)
(*                                                                         *)
(* UsenetEngine implements this specification; GrabLifecycle, which uses an *)
(* engine, takes no step with it that this specification does not allow.    *)
(***************************************************************************)

CONSTANT Gids

VARIABLES
  job,      \* what FindByGID reports of a GID
  staging,  \* the staging directories that exist
  owed      \* the outcomes fired for a GID and not yet looked at

vars == <<job, staging, owed>>

Live == {"precheck", "active"}
JobState == {"none", "complete", "failed"} \union Live
Outcome == {"error", "complete"}

TypeOK ==
  /\ job \in [Gids -> JobState]
  /\ staging \in [Gids -> BOOLEAN]
  /\ owed \in [Gids -> SUBSET Outcome]

\* Directories outlive the process, downloads do not.
Init ==
  /\ job = [h \in Gids |-> "none"]
  /\ staging \in [Gids -> BOOLEAN]
  /\ owed = [h \in Gids |-> {}]

Becomes(h, state) == job' = [job EXCEPT ![h] = state]
Owes(h, outcome) == owed' = [owed EXCEPT ![h] = @ \union {outcome}]
Clear(h) == staging' = [staging EXCEPT ![h] = FALSE]

\* AddNZB or RelaunchNZB: never under a GID whose download is live.
Launch(h) ==
  /\ job[h] \notin Live
  /\ Becomes(h, "precheck")
  /\ staging' = [staging EXCEPT ![h] = TRUE]
  /\ UNCHANGED owed

Start(h) == job[h] = "precheck" /\ Becomes(h, "active") /\ UNCHANGED <<staging, owed>>

\* Only a download that ran fails, and it fails once.  The callback may stay
\* away (fireOnError on a cancelled context), so someone has to look.
Fail(h) ==
  /\ job[h] = "active"
  /\ Becomes(h, "failed")
  /\ Owes(h, "error") \/ UNCHANGED owed
  /\ UNCHANGED staging

\* A download completes over its directory, and says so.
Complete(h) ==
  /\ job[h] = "active" /\ staging[h]
  /\ Becomes(h, "complete") /\ Owes(h, "complete")
  /\ UNCHANGED staging

\* Forget, the dismissal of a completed download, Cancel, or a rejected
\* precheck: the entry goes by its GID, whatever the download does by then.
Drop(h) ==
  /\ job[h] # "none"
  /\ Becomes(h, "none")
  /\ Clear(h) \/ UNCHANGED staging
  /\ UNCHANGED owed

\* Cancel with the goroutine under way, which may still announce a completion.
Abandon(h) ==
  /\ job[h] \in Live
  /\ Becomes(h, "none") /\ Owes(h, "complete")
  /\ Clear(h) \/ UNCHANGED staging

\* The directory is imported, swept, or removed by hand.
Wipe(h) == Clear(h) /\ UNCHANGED <<job, owed>>

\* A callback starts, or a cancelled download ends without one.
Take(h) ==
  /\ \E outcome \in owed[h]: owed' = [owed EXCEPT ![h] = @ \ {outcome}]
  /\ Clear(h) \/ UNCHANGED staging
  /\ UNCHANGED job

\* The process stops: the directories stay.
Stop ==
  /\ job' = [h \in Gids |-> "none"]
  /\ owed' = [h \in Gids |-> {}]
  /\ UNCHANGED staging

Next ==
  \/ \E h \in Gids: \/ Launch(h) \/ Start(h) \/ Fail(h) \/ Complete(h)
                    \/ Drop(h) \/ Abandon(h) \/ Wipe(h) \/ Take(h)
  \/ Stop

Spec == Init /\ [][Next]_vars

=============================================================================
