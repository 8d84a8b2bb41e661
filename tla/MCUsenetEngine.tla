--------------------------- MODULE MCUsenetEngine ---------------------------
(* Instances of UsenetEngine for TLC. *)
EXTENDS UsenetEngine, TLC

CONSTANTS h1, h2, j1, j2, c1

MCGids == {h1, h2}
MCJobs == {j1, j2}
MCCallers == {c1}

Identical == Permutations(MCGids) \union Permutations(MCJobs)

\* What can still be seen of a job.  Once the table has lost it, the stall
\* detection does not look at it; once its goroutine has gone, only its status
\* counts, and how often it told; and once no one holds it, only the latter.
Running(dl) ==
  IF dl.status = "removed"
  THEN [dl EXCEPT !.quiet = "never", !.staleAbort = FALSE, !.again = @ /\ dl.at = "precheck"]
  ELSE [dl EXCEPT !.again = @ /\ dl.at = "precheck"]
Seen(j) ==
  IF Alive(j) \/ Called(j) THEN Running(jobs[j])
  ELSE IF InTable(j) THEN <<jobs[j].status, jobs[j].phase, jobs[j].held, jobs[j].told>>
  ELSE jobs[j].told > 1
VisibleState == <<downloads, [j \in Jobs |-> Seen(j)], slots, staging, owed, calls>>
=============================================================================
