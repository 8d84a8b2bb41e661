------------------------ MODULE UsenetContract_proofs -------------------------
(***************************************************************************)
(* Where calls, pauses and relaunches do not cross (Races = {}), the        *)
(* download engine of UsenetEngine implements DownloadEngine, and ends,     *)
(* tells and watches its downloads as it should, for any GIDs, jobs,        *)
(* callers, slots and articles.                                             *)
(*                                                                         *)
(* The invariant says who holds a GID (BusyInv: at most one job, whether    *)
(* its goroutine runs, the table lists it, or a call is in it), what a call *)
(* finds of its job (CallsInv), and what a job in each status and at each   *)
(* step looks like (JobsInv).                                               *)
(***************************************************************************)
EXTENDS UsenetEngine_proofs

Busy(j) == Alive(j) \/ Called(j) \/ InTable(j)
In(j, at) == \E c \in Callers: calls[c].job = j /\ calls[c].at = at

\* Where a goroutine may be while its download is paused or in error.
Held == Fetching \union {"assembled"}

TableInv ==
  \A h \in Gids, j \in Jobs: downloads[h] = j =>
    jobs[j].gid = h /\ jobs[j].at # "unused" /\ jobs[j].status # "removed"

BusyInv ==
  \A i, j \in Jobs: Busy(i) /\ Busy(j) /\ jobs[i].gid = jobs[j].gid => i = j

CallInv(c) ==
  LET j == calls[c].job  at == calls[c].at IN
  /\ at = "idle" <=> j = NoJob
  /\ j \in Jobs => jobs[j].at # "unused"
  /\ \A d \in Callers: j \in Jobs /\ calls[d].job = j => d = c
  /\ at \in {"closing", "reviving", "losing"} => jobs[j].status = "paused" /\ InTable(j)
  /\ at \in {"reviving", "losing", "opening", "waking"} => jobs[j].shut
  /\ at \in {"cancelling", "removing"} => jobs[j].status = "removed"
  /\ at = "waking" => jobs[j].status = "error"
  /\ at = "opening" => jobs[j].status # "paused"

JobInv(j) ==
  LET dl == jobs[j] IN
  /\ dl.at # "unused" => dl.gid \in Gids
  /\ Alive(j) => dl.status # "complete"
  /\ Alive(j) /\ dl.status \in {"active", "paused"} => InTable(j)
  /\ Alive(j) /\ dl.status \notin {"active", "removed"} => dl.at \in Held
  /\ dl.status = "active" /\ (dl.phase = "downloading" \/ dl.cancelled) =>
       dl.at \in Held \union {"ended"}
  /\ dl.status = "active" /\ dl.at \in Fetching => dl.phase = "downloading"
  /\ dl.status = "paused" => dl.held /\ (dl.shut \/ In(j, "closing"))
  /\ dl.status = "error" /\ Alive(j) => dl.cancelled \/ (dl.shut /\ In(j, "waking"))
  /\ dl.status = "removed" /\ Alive(j) => dl.cancelled \/ In(j, "cancelling")
  /\ dl.staleAbort => dl.cancelled
  /\ dl.told \in {0, 1}
  /\ dl.told = 1 => dl.status \in {"error", "complete", "removed"} /\ ~In(j, "waking")
  /\ dl.told = 1 /\ Alive(j) => dl.cancelled /\ dl.at \in Held
  /\ InTable(j) /\ dl.status = "active" /\ ~dl.held => Alive(j)

CallsInv == \A c \in Callers: CallInv(c)
JobsInv == \A j \in Jobs: JobInv(j)

Orderly == TableInv /\ BusyInv /\ CallsInv /\ JobsInv
Inv == SlotsInv /\ Orderly

-----------------------------------------------------------------------------
(* One job changes *)

\* What the invariant sees of a job.
Looks(r, q) ==
  /\ r.gid = q.gid /\ r.at = q.at /\ r.status = q.status /\ r.phase = q.phase
  /\ r.shut = q.shut /\ r.cancelled = q.cancelled /\ r.staleAbort = q.staleAbort
  /\ r.held = q.held /\ r.told = q.told

\* Only job j changes, and stands for the same GID; the table may lose it; only
\* calls on it change.
Only(j) ==
  /\ \A i \in Jobs \ {j}: Looks(jobs'[i], jobs[i])
  /\ jobs'[j].gid = jobs[j].gid
  /\ \A h \in Gids: downloads'[h] = downloads[h] \/ (downloads[h] = j /\ downloads'[h] = NoJob)
  /\ \A c \in Callers: calls'[c] = calls[c] \/ {calls[c].job, calls'[c].job} \subseteq {j, NoJob}

LEMMA OnlyOne ==
  ASSUME Inv, SlotsInv', NEW j \in Jobs, Busy(j), Only(j), JobInv(j)',
         \A c \in Callers: calls'[c] # calls[c] \/ calls[c].job = j => CallInv(c)',
         InTable(j)' => jobs'[j].status # "removed" /\ jobs'[j].at # "unused"
  PROVE  Inv'
<1>1. /\ calls \in [Callers -> [at: CallStep, job: Jobs \union {NoJob}]]
      /\ calls' \in [Callers -> [at: CallStep, job: Jobs \union {NoJob}]]
      /\ downloads \in [Gids -> Jobs \union {NoJob}]
      /\ downloads' \in [Gids -> Jobs \union {NoJob}]
  BY DEF Inv, SlotsInv, TypeOK
<1>2. ASSUME NEW i \in Jobs \ {j}
      PROVE  /\ Looks(jobs'[i], jobs[i])
             /\ Alive(i)' = Alive(i) /\ Called(i)' = Called(i)
             /\ \A at: In(i, at)' = In(i, at)
  BY <1>1, NoJobAssumption DEF Only, Looks, Alive, Called, In
<1>3. ASSUME NEW i \in Jobs \ {j} PROVE InTable(i)' = InTable(i) /\ Busy(i)' = Busy(i)
  <2>1. InTable(i)' = InTable(i)
    BY <1>1, NoJobAssumption DEF Only, InTable
  <2> QED BY <1>2, <2>1 DEF Busy
<1>4. TableInv'
  <2> SUFFICES ASSUME NEW h \in Gids, NEW i \in Jobs, downloads'[h] = i
               PROVE  jobs'[i].gid = h /\ jobs'[i].at # "unused" /\ jobs'[i].status # "removed"
    BY DEF TableInv
  <2>1. downloads[h] = i
    BY NoJobAssumption DEF Only
  <2>2. CASE i = j
    BY <2>1, <2>2 DEF Inv, Orderly, TableInv, Only, InTable
  <2>3. CASE i # j
    BY <1>2, <2>1, <2>3 DEF Inv, Orderly, TableInv, Looks
  <2> QED BY <2>2, <2>3
<1>5. BusyInv'
  <2> SUFFICES ASSUME NEW i \in Jobs, NEW k \in Jobs, Busy(i)', Busy(k)',
                      jobs'[i].gid = jobs'[k].gid
               PROVE  i = k
    BY DEF BusyInv
  <2>1. Busy(i) /\ Busy(k)
    BY <1>3
  <2>2. jobs[i].gid = jobs[k].gid
    BY <1>2 DEF Only, Looks
  <2> QED BY <2>1, <2>2 DEF Inv, Orderly, BusyInv
<1>6. CallsInv'
  <2> SUFFICES ASSUME NEW c \in Callers, calls'[c] = calls[c], calls[c].job # j
               PROVE  CallInv(c)'
    BY DEF CallsInv
  <2> DEFINE i == calls[c].job
  <2>1. CallInv(c) /\ i \in (Jobs \ {j}) \union {NoJob}
    BY <1>1 DEF Inv, Orderly, CallsInv
  <2>2. CASE i = NoJob
    BY <1>1, <2>1, <2>2, NoJobAssumption DEF CallInv, CallStep
  <2>3. CASE i \in Jobs \ {j}
    <3>1. /\ Looks(jobs'[i], jobs[i]) /\ InTable(i)' = InTable(i)
      BY <1>2, <1>3, <2>3
    <3>2. \A d \in Callers: calls'[d].job = i => calls[d].job = i
      BY <1>1, <2>3, NoJobAssumption DEF Only
    <3> QED BY <2>1, <2>3, <3>1, <3>2, NoJobAssumption DEF CallInv, Looks
  <2> QED BY <2>1, <2>2, <2>3
<1>7. JobsInv'
  <2> SUFFICES ASSUME NEW i \in Jobs \ {j} PROVE JobInv(i)'
    BY DEF JobsInv
  <2>1. JobInv(i) BY DEF Inv, Orderly, JobsInv
  <2> QED BY <1>2, <1>3, <2>1 DEF JobInv, Looks
<1> QED BY <1>4, <1>5, <1>6, <1>7 DEF Inv, Orderly

-----------------------------------------------------------------------------
(* What each step makes of its job *)

\* Job j becomes q, as far as the invariant looks, and no other job changes.
Into(j, q) ==
  /\ \A i \in Jobs \ {j}: Looks(jobs'[i], jobs[i])
  /\ Looks(jobs'[j], q)

LEMMA JobsTyped ==
  ASSUME Inv
  PROVE  /\ jobs \in [Jobs -> Job]
         /\ owed \in [Gids -> SUBSET {"error", "complete"}]
         /\ calls \in [Callers -> [at: CallStep, job: Jobs \union {NoJob}]]
         /\ downloads \in [Gids -> Jobs \union {NoJob}]
         /\ staging \in [Gids -> BOOLEAN]
         /\ \A j \in Jobs: JobInv(j)
         /\ \A c \in Callers: CallInv(c)
BY DEF Inv, SlotsInv, TypeOK, Orderly, CallsInv, JobsInv

LEMMA SetJobInto ==
  ASSUME jobs \in [Jobs -> Job], NEW j \in Jobs, NEW q, SetJob(j, q)
  PROVE  Into(j, q)
BY DEF SetJob, Into, Looks

\* While j runs, the table has no other job under its GID.
LEMMA FoundAlone ==
  ASSUME Inv, NEW j \in Jobs, Busy(j), NEW status
  PROVE  /\ \A i \in Found(jobs[j].gid, status): i = j
         /\ j \in Found(jobs[j].gid, status) <=> InTable(j) /\ jobs[j].status = status
<1>1. ASSUME NEW i \in Jobs, downloads[jobs[j].gid] = i, jobs[j].gid \in Gids PROVE i = j
  BY <1>1 DEF Inv, Orderly, TableInv, BusyInv, Busy, InTable
<1>2. jobs[j].gid \in Gids
  BY JobsTyped DEF Busy, Alive, Called, InTable, JobInv, CallInv, Inv, Orderly, TableInv
<1>3. downloads[jobs[j].gid] = j <=> InTable(j)
  BY <1>2 DEF InTable, Inv, Orderly, TableInv
<1> QED BY <1>1, <1>2, <1>3 DEF Found

LEMMA ShowsInto ==
  ASSUME Inv, NEW j \in Jobs, Alive(j), NEW at \in At, NEW phase \in Phase,
         NEW quiet \in Quiet, Shows(j, at, phase, quiet)
  PROVE  Into(j, [jobs[j] EXCEPT !.at = at,
                    !.phase = IF InTable(j) /\ jobs[j].status = "active" THEN phase ELSE @])
<1>1. Busy(j) BY DEF Busy
<1>2. /\ \A i \in Jobs \ {j}: i \notin Found(jobs[j].gid, "active")
      /\ j \in Found(jobs[j].gid, "active") <=> InTable(j) /\ jobs[j].status = "active"
  BY <1>1, FoundAlone
<1>3. \A i \in Jobs \ {j}: Looks(jobs'[i], jobs[i])
  BY <1>2, ShowsFields, JobsTyped DEF Looks
<1> DEFINE shown == IF InTable(j) /\ jobs[j].status = "active" THEN phase ELSE jobs[j].phase
           q == [jobs[j] EXCEPT !.at = at, !.phase = shown]
<1>4. jobs'[j].phase = shown
  BY <1>2, ShowsFields, JobsTyped
<1> HIDE DEF shown
<1>5. Looks(jobs'[j], q)
  BY <1>4, ShowsFields, JobsTyped DEF Looks, Job
<1> QED BY <1>3, <1>5 DEF Into, shown

LEMMA ArrivesInto ==
  ASSUME Inv, NEW j \in Jobs, ArticleArrives(j)
  PROVE  Into(j, [jobs[j] EXCEPT !.at = IF jobs[j].left = 1 THEN "assembled" ELSE "article"])
<1>1. jobs[j].left > 0
  BY DEF Inv, SlotsInv, LeftInv, Unfetched, Fetching, ArticleArrives
<1>2. \A i \in Jobs \ {j}: Looks(jobs'[i], jobs[i])
  BY <1>1, ArrivesFields, JobsTyped DEF Looks
<1> DEFINE step == IF jobs[j].left = 1 THEN "assembled" ELSE "article"
<1>3. jobs'[j].at = step
  BY <1>1, ArrivesFields, JobsTyped
<1> HIDE DEF step
<1>4. Looks(jobs'[j], [jobs[j] EXCEPT !.at = step])
  BY <1>1, <1>3, ArrivesFields, JobsTyped DEF Looks, Job
<1> QED BY <1>2, <1>4 DEF Into, step

LEMMA FailsInto ==
  ASSUME Inv, NEW j \in Jobs, NEW cause, NEW spared, Fails(j, cause, spared)
  PROVE  \E q \in Job:
           /\ Into(j, q)
           /\ q.at = "ended" /\ q.gid = jobs[j].gid /\ q.shut = jobs[j].shut
           /\ q.cancelled = jobs[j].cancelled /\ q.held = jobs[j].held
           /\ q.staleAbort = jobs[j].staleAbort
           /\ \/ /\ jobs[j].status \in spared
                 /\ q.status = jobs[j].status /\ q.phase = jobs[j].phase
                 /\ q.told = jobs[j].told /\ UNCHANGED owed
              \/ /\ jobs[j].status \notin spared
                 /\ q.status = "error" /\ q.phase = "none"
                 /\ \/ q.told = jobs[j].told + 1 /\ Fire(jobs[j].gid, "error")
                    \/ q.told = jobs[j].told /\ UNCHANGED owed
<1>1. \A q: jobs' = [jobs EXCEPT ![j] = q] => Into(j, q)
  BY SetJobInto, JobsTyped DEF SetJob
<1> QED BY <1>1, FailsFields, JobsTyped

-----------------------------------------------------------------------------
(* The goroutine's steps keep the invariant *)

\* A step of j's goroutine: no call changes, and the table is as it was or has
\* lost j.
LEMMA GoroutineKeeps ==
  ASSUME Inv, SlotsInv', NEW j \in Jobs, NEW q, Alive(j), Into(j, q), q.gid = jobs[j].gid,
         UNCHANGED <<downloads, calls>>, JobInv(j)',
         \A c \in Callers: calls[c].job = j => CallInv(c)',
         InTable(j) => q.status # "removed" /\ q.at # "unused"
  PROVE  Inv'
<1>1. Only(j) BY DEF Only, Into, Looks
<1>2. Busy(j) BY DEF Busy
<1>3. InTable(j)' => jobs'[j].status # "removed" /\ jobs'[j].at # "unused"
  BY DEF InTable, Into, Looks
<1> QED BY <1>1, <1>2, <1>3, OnlyOne

\* A step that takes the goroutine further, and at most changes the phase shown.
Advances(j, at, phase) ==
  /\ Alive(j) /\ UNCHANGED <<downloads, calls>>
  /\ Into(j, [jobs[j] EXCEPT !.at = at, !.phase = phase])

\* Where it may lead.
MayAdvance(j, at, phase) ==
  /\ at \notin {"unused", "ended"}
  /\ jobs[j].status \notin {"active", "removed"} => at \in Held
  /\ jobs[j].status = "active" /\ (phase = "downloading" \/ jobs[j].cancelled) => at \in Held
  /\ jobs[j].status = "active" /\ at \in Fetching => phase = "downloading"
  /\ jobs[j].told = 1 => at \in Held

LEMMA AdvanceKeeps ==
  ASSUME Inv, SlotsInv', NEW j \in Jobs, NEW at, NEW phase,
         Advances(j, at, phase), MayAdvance(j, at, phase)
  PROVE  Inv'
<1> DEFINE q == [jobs[j] EXCEPT !.at = at, !.phase = phase]
<1>1. Into(j, q) BY DEF Advances
<1>2. /\ q.gid = jobs[j].gid /\ q.at = at /\ q.status = jobs[j].status
      /\ q.phase = phase /\ q.shut = jobs[j].shut /\ q.cancelled = jobs[j].cancelled
      /\ q.staleAbort = jobs[j].staleAbort /\ q.held = jobs[j].held /\ q.told = jobs[j].told
  BY JobsTyped DEF Job
<1> HIDE DEF q
<1>3. JobInv(j) BY JobsTyped
<1>4. JobInv(j)'
  BY <1>1, <1>2, <1>3 DEF JobInv, Into, Looks, Alive, InTable, In, Advances, MayAdvance
<1>5. ASSUME NEW c \in Callers, calls[c].job = j PROVE CallInv(c)'
  BY <1>1, <1>2, <1>5, JobsTyped
  DEF CallInv, Into, Looks, InTable, Advances, MayAdvance
<1>6. InTable(j) => q.status # "removed"
  BY <1>2 DEF InTable, Inv, Orderly, TableInv
<1> QED
  BY <1>1, <1>2, <1>4, <1>5, <1>6, GoroutineKeeps DEF Advances, MayAdvance

LEMMA SetJobAdvances ==
  ASSUME Inv, NEW j \in Jobs, NEW at, NEW phase, Alive(j), UNCHANGED <<downloads, calls>>,
         SetJob(j, [jobs[j] EXCEPT !.at = at, !.phase = phase])
  PROVE  Advances(j, at, phase)
BY SetJobInto, JobsTyped DEF Advances

LEMMA AdvancesOf ==
  ASSUME Inv, NEW j \in Jobs
  PROVE  /\ PrecheckPasses(j) => Advances(j, "acquire", jobs[j].phase)
         /\ TakesSlot(j) =>
              Advances(j, "article", IF InTable(j) /\ jobs[j].status = "active"
                                     THEN "downloading" ELSE jobs[j].phase)
         /\ FindsNoSlot(j) =>
              Advances(j, "blocked", IF InTable(j) /\ jobs[j].status = "active"
                                     THEN "waiting" ELSE jobs[j].phase)
         /\ BeginsArticle(j) => Advances(j, "fetching", jobs[j].phase)
         /\ ArticleArrives(j) =>
              Advances(j, IF jobs[j].left = 1 THEN "assembled" ELSE "article", jobs[j].phase)
         /\ RepairBegins(j) =>
              Advances(j, "repairing", IF jobs[j].status = "active" THEN "repairing"
                                       ELSE jobs[j].phase)
         /\ UnpackBegins(j) =>
              Advances(j, "unpacking", IF jobs[j].status = "active" THEN "unpacking"
                                       ELSE jobs[j].phase)
         /\ TimePasses(j) => Advances(j, jobs[j].at, jobs[j].phase)
<1>1. /\ jobs[j] \in Job
      /\ \A at: [jobs[j] EXCEPT !.at = at, !.phase = jobs[j].phase]
                  = [jobs[j] EXCEPT !.at = at]
  BY JobsTyped DEF Job
<1>2. PrecheckPasses(j) \/ BeginsArticle(j) => Alive(j)
  BY DEF PrecheckPasses, BeginsArticle, Alive
<1>3. PrecheckPasses(j) => Advances(j, "acquire", jobs[j].phase)
  BY <1>1, <1>2, SetJobAdvances DEF PrecheckPasses
<1>4. BeginsArticle(j) => Advances(j, "fetching", jobs[j].phase)
  BY <1>1, <1>2, SetJobAdvances DEF BeginsArticle
<1>5. ASSUME TakesSlot(j)
      PROVE  Advances(j, "article", IF InTable(j) /\ jobs[j].status = "active"
                                    THEN "downloading" ELSE jobs[j].phase)
  BY <1>5, ShowsInto DEF TakesSlot, Advances, Alive, At, Fetching, Phase, Quiet
<1>6. ASSUME FindsNoSlot(j)
      PROVE  Advances(j, "blocked", IF InTable(j) /\ jobs[j].status = "active"
                                    THEN "waiting" ELSE jobs[j].phase)
  <2>1. jobs[j].quiet \in Quiet BY <1>1 DEF Job
  <2> QED BY <1>6, <2>1, ShowsInto DEF FindsNoSlot, Advances, Alive, At, Phase
<1>7. ASSUME ArticleArrives(j)
      PROVE  Advances(j, IF jobs[j].left = 1 THEN "assembled" ELSE "article", jobs[j].phase)
  BY <1>1, <1>7, ArrivesInto DEF ArticleArrives, Advances, Alive
<1>8. ASSUME RepairBegins(j)
      PROVE  Advances(j, "repairing", IF jobs[j].status = "active" THEN "repairing"
                                      ELSE jobs[j].phase)
  BY <1>8, SetJobAdvances DEF RepairBegins, Alive
<1>9. ASSUME UnpackBegins(j)
      PROVE  Advances(j, "unpacking", IF jobs[j].status = "active" THEN "unpacking"
                                      ELSE jobs[j].phase)
  BY <1>9, SetJobAdvances DEF UnpackBegins, Alive
<1>10. ASSUME TimePasses(j) PROVE Advances(j, jobs[j].at, jobs[j].phase)
  <2> DEFINE q == [jobs[j] EXCEPT !.quiet = "long"]
  <2>1. Into(j, q) BY <1>10, SetJobInto, JobsTyped DEF TimePasses
  <2>2. Looks(q, [jobs[j] EXCEPT !.at = jobs[j].at, !.phase = jobs[j].phase])
    BY <1>1 DEF Looks, Job
  <2> HIDE DEF q
  <2>3. Into(j, [jobs[j] EXCEPT !.at = jobs[j].at, !.phase = jobs[j].phase])
    BY <2>1, <2>2 DEF Into, Looks
  <2> QED BY <1>10, <2>3 DEF TimePasses, Advances
<1> QED BY <1>3, <1>4, <1>5, <1>6, <1>7, <1>8, <1>9, <1>10

\* The gate lets nobody through whose download is paused or ended by a call.
LEMMA PassesOnlyUnheld ==
  ASSUME Inv, Races = {}, NEW j \in Jobs, Alive(j), Passes(j)
  PROVE  ~jobs[j].cancelled /\ jobs[j].status \in {"active", "removed"}
<1>1. JobInv(j) /\ jobs[j] \in Job BY JobsTyped
<1>2. jobs[j].status \notin {"paused", "error", "complete"}
  BY <1>1 DEF Passes, JobInv, In
<1> QED BY <1>1, <1>2 DEF Passes, Job, JobStatus

LEMMA AdvancesKeep ==
  ASSUME Inv, SlotsInv', Races = {}, NEW j \in Jobs,
         \/ PrecheckPasses(j) \/ TakesSlot(j) \/ FindsNoSlot(j) \/ BeginsArticle(j)
         \/ ArticleArrives(j) \/ RepairBegins(j) \/ UnpackBegins(j) \/ TimePasses(j)
  PROVE  Inv'
<1>1. JobInv(j) BY JobsTyped
<1>2. CASE PrecheckPasses(j)
  <2>1. Advances(j, "acquire",
                 jobs[j].phase)
    BY <1>2, AdvancesOf
  <2>2. MayAdvance(j, "acquire",
                   jobs[j].phase)
    BY <1>1, <1>2 DEF PrecheckPasses, MayAdvance, JobInv, Alive, Held, Fetching
  <2> QED BY <2>1, <2>2, AdvanceKeeps
<1>3. CASE TakesSlot(j)
  <2>1. Advances(j, "article",
                 IF InTable(j) /\ jobs[j].status = "active" THEN "downloading" ELSE jobs[j].phase)
    BY <1>3, AdvancesOf
  <2>2. MayAdvance(j, "article",
                   IF InTable(j) /\ jobs[j].status = "active" THEN "downloading" ELSE jobs[j].phase)
    BY <1>1, <1>3 DEF TakesSlot, MayAdvance, JobInv, Alive, Held, Fetching
  <2> QED BY <2>1, <2>2, AdvanceKeeps
<1>4. CASE FindsNoSlot(j)
  <2>1. Advances(j, "blocked",
                 IF InTable(j) /\ jobs[j].status = "active" THEN "waiting" ELSE jobs[j].phase)
    BY <1>4, AdvancesOf
  <2>2. MayAdvance(j, "blocked",
                   IF InTable(j) /\ jobs[j].status = "active" THEN "waiting" ELSE jobs[j].phase)
    BY <1>1, <1>4 DEF FindsNoSlot, MayAdvance, JobInv, Alive, Held, Fetching
  <2> QED BY <2>1, <2>2, AdvanceKeeps
<1>5. CASE BeginsArticle(j)
  <2>1. Advances(j, "fetching",
                 jobs[j].phase)
    BY <1>5, AdvancesOf
  <2>2. MayAdvance(j, "fetching",
                   jobs[j].phase)
    BY <1>1, <1>5 DEF BeginsArticle, MayAdvance, JobInv, Alive, Held, Fetching
  <2> QED BY <2>1, <2>2, AdvanceKeeps
<1>6. CASE ArticleArrives(j)
  <2>1. Advances(j, IF jobs[j].left = 1 THEN "assembled" ELSE "article",
                 jobs[j].phase)
    BY <1>6, AdvancesOf
  <2>2. MayAdvance(j, IF jobs[j].left = 1 THEN "assembled" ELSE "article",
                   jobs[j].phase)
    BY <1>1, <1>6 DEF ArticleArrives, MayAdvance, JobInv, Alive, Held, Fetching
  <2> QED BY <2>1, <2>2, AdvanceKeeps
<1>7. CASE RepairBegins(j)
  <2>1. Advances(j, "repairing",
                 IF jobs[j].status = "active" THEN "repairing" ELSE jobs[j].phase)
    BY <1>7, AdvancesOf
  <2>2. MayAdvance(j, "repairing",
                   IF jobs[j].status = "active" THEN "repairing" ELSE jobs[j].phase)
    BY <1>1, <1>7, PassesOnlyUnheld DEF RepairBegins, MayAdvance, JobInv, Alive, Held, Fetching
  <2> QED BY <2>1, <2>2, AdvanceKeeps
<1>8. CASE UnpackBegins(j)
  <2>1. Advances(j, "unpacking",
                 IF jobs[j].status = "active" THEN "unpacking" ELSE jobs[j].phase)
    BY <1>8, AdvancesOf
  <2>2. MayAdvance(j, "unpacking",
                   IF jobs[j].status = "active" THEN "unpacking" ELSE jobs[j].phase)
    BY <1>1, <1>8, PassesOnlyUnheld DEF UnpackBegins, MayAdvance, JobInv, Alive, Held, Fetching
  <2> QED BY <2>1, <2>2, AdvanceKeeps
<1>9. CASE TimePasses(j)
  <2>1. Advances(j, jobs[j].at,
                 jobs[j].phase)
    BY <1>9, AdvancesOf
  <2>2. MayAdvance(j, jobs[j].at,
                   jobs[j].phase)
    BY <1>1, <1>9 DEF TimePasses, MayAdvance, JobInv, Alive, Held, Fetching
  <2> QED BY <2>1, <2>2, AdvanceKeeps
<1> QED BY <1>2, <1>3, <1>4, <1>5, <1>6, <1>7, <1>8, <1>9

\* A step that ends the goroutine.
Ends(j, q) ==
  /\ Alive(j) /\ Into(j, q)
  /\ UNCHANGED <<downloads, calls>>
  /\ q.at = "ended" /\ q.gid = jobs[j].gid /\ q.shut = jobs[j].shut
  /\ q.cancelled = jobs[j].cancelled /\ q.held = jobs[j].held
  /\ q.staleAbort = jobs[j].staleAbort
  /\ q.told \in {0, 1}
  /\ \/ /\ q.status = jobs[j].status /\ q.status \in {"removed", "paused", "error"}
        /\ q.told = jobs[j].told \/ q.status = "removed"
     \/ jobs[j].status = "active" /\ q.status \in {"error", "complete"}

LEMMA EndKeeps ==
  ASSUME Inv, SlotsInv', NEW j \in Jobs, NEW q, Ends(j, q)
  PROVE  Inv'
<1>1. JobInv(j) BY JobsTyped
<1>2. In(j, "waking") => jobs[j].status = "error"
  BY JobsTyped DEF In, CallInv
<1>3. JobInv(j)'
  BY <1>1, <1>2 DEF Ends, JobInv, Into, Looks, Alive, InTable, In
<1>4. ASSUME NEW c \in Callers, calls[c].job = j PROVE CallInv(c)'
  BY <1>4, JobsTyped DEF CallInv, Ends, Into, Looks, InTable
<1>5. InTable(j) => q.status # "removed"
  BY DEF Ends, InTable, Inv, Orderly, TableInv
<1> QED BY <1>3, <1>4, <1>5, GoroutineKeeps DEF Ends

\* A download that fails while nobody holds it was active.
LEMMA FailsEnds ==
  ASSUME Inv, NEW j \in Jobs, Alive(j), NEW cause, NEW spared,
         Fails(j, cause, spared), {"removed", "paused"} \subseteq spared,
         "error" \in spared \/ jobs[j].at = "unpacking",
         spared \subseteq {"removed", "paused", "error"},
         UNCHANGED <<downloads, calls>>
  PROVE  \E q \in Job:
           /\ Ends(j, q)
           /\ \/ q.status = jobs[j].status /\ q.status # "active" /\ UNCHANGED owed
              \/ /\ jobs[j].status = "active" /\ q.status = "error"
                 /\ UNCHANGED owed \/ Fire(jobs[j].gid, "error")
<1>1. JobInv(j) /\ jobs[j] \in Job BY JobsTyped
<1>2. PICK q \in Job:
           /\ Into(j, q)
           /\ q.at = "ended" /\ q.gid = jobs[j].gid /\ q.shut = jobs[j].shut
           /\ q.cancelled = jobs[j].cancelled /\ q.held = jobs[j].held
           /\ q.staleAbort = jobs[j].staleAbort
           /\ \/ /\ jobs[j].status \in spared
                 /\ q.status = jobs[j].status /\ q.phase = jobs[j].phase
                 /\ q.told = jobs[j].told /\ UNCHANGED owed
              \/ /\ jobs[j].status \notin spared
                 /\ q.status = "error" /\ q.phase = "none"
                 /\ \/ q.told = jobs[j].told + 1 /\ Fire(jobs[j].gid, "error")
                    \/ q.told = jobs[j].told /\ UNCHANGED owed
  BY FailsInto
<1>3. jobs[j].status \notin spared => jobs[j].status = "active" /\ jobs[j].told = 0
  BY <1>1 DEF JobInv, Job, JobStatus, Held, Fetching
<1>4. Ends(j, q)
  <2>1. jobs[j].told \in {0, 1} BY <1>1 DEF JobInv
  <2>2. CASE jobs[j].status \in spared
    BY <1>2, <2>1, <2>2 DEF Ends
  <2>3. CASE jobs[j].status \notin spared
    <3>1. q.status = "error" /\ q.told \in {0, 1}
      BY <1>2, <1>3, <2>3
    <3> QED BY <1>2, <1>3, <2>3, <3>1 DEF Ends
  <2> QED BY <2>2, <2>3
<1>5. \/ q.status = jobs[j].status /\ q.status # "active" /\ UNCHANGED owed
      \/ /\ jobs[j].status = "active" /\ q.status = "error"
         /\ UNCHANGED owed \/ Fire(jobs[j].gid, "error")
  BY <1>2, <1>3
<1> QED BY <1>2, <1>4, <1>5

LEMMA GivesUpEnds ==
  ASSUME Inv, NEW j \in Jobs, GivesUp(j)
  PROVE  \E q \in Job: Ends(j, q) /\ q.status = "removed" /\ jobs[j].status = "removed"
<1>1. JobInv(j) /\ jobs[j] \in Job /\ Alive(j) BY JobsTyped DEF GivesUp, Alive
<1> DEFINE q == [jobs[j] EXCEPT !.at = "ended"]
<1>2. /\ q \in Job /\ q.at = "ended" /\ q.gid = jobs[j].gid /\ q.shut = jobs[j].shut
      /\ q.cancelled = jobs[j].cancelled /\ q.held = jobs[j].held
      /\ q.staleAbort = jobs[j].staleAbort /\ q.status = jobs[j].status
      /\ q.told = jobs[j].told
  BY <1>1 DEF Job, At
<1>3. Into(j, q) BY SetJobInto, JobsTyped DEF GivesUp
<1> HIDE DEF q
<1>4. jobs[j].status = "removed"
  BY <1>1 DEF GivesUp, JobInv, Held, Fetching, Job, JobStatus
<1>5. Ends(j, q)
  BY <1>1, <1>2, <1>3, <1>4 DEF Ends, GivesUp, JobInv
<1> QED BY <1>2, <1>4, <1>5

LEMMA SucceedsEnds ==
  ASSUME Inv, NEW j \in Jobs, UnpackSucceeds(j)
  PROVE  \E q \in Job:
           /\ Ends(j, q)
           /\ \/ jobs[j].status = "removed" /\ q.status = "removed"
              \/ jobs[j].status = "active" /\ q.status = "complete"
<1>1. JobInv(j) /\ jobs[j] \in Job /\ Alive(j) BY JobsTyped DEF UnpackSucceeds, Alive
<1>2. jobs[j].status \in {"active", "removed"} /\ jobs[j].told = 0
  BY <1>1 DEF UnpackSucceeds, JobInv, Held, Fetching, Job
<1> DEFINE told == jobs[j].told + 1
           e == [jobs[j] EXCEPT !.at = "ended", !.told = told]
           q == IF jobs[j].status \in {"removed", "paused"} THEN e
                ELSE SetStatus(e, "complete", "none")
<1>3. Into(j, q)
  BY SetJobInto, JobsTyped DEF UnpackSucceeds
<1>4. told = 1 BY <1>2
<1> HIDE DEF told
<1>5. /\ e \in Job /\ e.at = "ended" /\ e.gid = jobs[j].gid /\ e.shut = jobs[j].shut
      /\ e.cancelled = jobs[j].cancelled /\ e.held = jobs[j].held
      /\ e.staleAbort = jobs[j].staleAbort /\ e.status = jobs[j].status /\ e.told = 1
  BY <1>1, <1>4 DEF Job, At
<1> HIDE DEF e
<1>6. /\ q \in Job /\ q.at = "ended" /\ q.gid = jobs[j].gid /\ q.shut = jobs[j].shut
      /\ q.cancelled = jobs[j].cancelled /\ q.held = jobs[j].held
      /\ q.staleAbort = jobs[j].staleAbort /\ q.told = 1
      /\ q.status = IF jobs[j].status = "removed" THEN "removed" ELSE "complete"
  BY <1>2, <1>5, StatusKeepsType DEF JobStatus, Phase
<1> HIDE DEF q
<1>7. Ends(j, q)
  BY <1>1, <1>2, <1>3, <1>6 DEF Ends, UnpackSucceeds
<1> QED BY <1>2, <1>6, <1>7

LEMMA FailuresEnd ==
  ASSUME Inv, NEW j \in Jobs, FetchFails(j) \/ AbortsAtGate(j) \/ UnpackFails(j)
  PROVE  \E q \in Job:
           /\ Ends(j, q)
           /\ \/ q.status = jobs[j].status /\ q.status # "active" /\ UNCHANGED owed
              \/ /\ jobs[j].status = "active" /\ q.status = "error"
                 /\ UNCHANGED owed \/ Fire(jobs[j].gid, "error")
<1>1. CASE FetchFails(j)
  <2>1. PICK cause, given: Fails(j, cause, {"removed", "paused", "error"})
    BY <1>1 DEF FetchFails
  <2> QED
    BY <1>1, <2>1, FailsEnds DEF FetchFails, Alive, Fetching
<1>2. CASE AbortsAtGate(j)
  <2>1. Fails(j, "canceled", {"removed", "paused", "error"})
    BY <1>2 DEF AbortsAtGate
  <2> QED
    BY <1>2, <2>1, FailsEnds DEF AbortsAtGate, Alive
<1>3. CASE UnpackFails(j)
  <2>1. Fails(j, "content", {"removed", "paused"})
    BY <1>3 DEF UnpackFails
  <2> QED
    BY <1>3, <2>1, FailsEnds DEF UnpackFails, Alive
<1> QED BY <1>1, <1>2, <1>3

LEMMA EndsKeep ==
  ASSUME Inv, SlotsInv', NEW j \in Jobs,
         \/ GivesUp(j) \/ FetchFails(j) \/ AbortsAtGate(j) \/ UnpackFails(j)
         \/ UnpackSucceeds(j)
  PROVE  Inv'
BY GivesUpEnds, FailuresEnd, SucceedsEnds, EndKeeps

LEMMA RejectsInto ==
  ASSUME Inv, NEW j \in Jobs, PrecheckRejects(j)
  PROVE  Into(j, [jobs[j] EXCEPT !.at = "ended", !.cancelled = TRUE])
BY SetJobInto, JobsTyped DEF PrecheckRejects

LEMMA RejectsKeeps ==
  ASSUME Inv, SlotsInv', NEW j \in Jobs, PrecheckRejects(j)
  PROVE  Inv'
<1> DEFINE q == [jobs[j] EXCEPT !.at = "ended", !.cancelled = TRUE]
<1>1. JobInv(j) /\ jobs[j] \in Job /\ Alive(j) /\ Busy(j)
  BY JobsTyped DEF PrecheckRejects, Alive, Busy
<1>2. Into(j, q) BY RejectsInto
<1>3. /\ q.gid = jobs[j].gid /\ q.at = "ended" /\ q.status = jobs[j].status
      /\ q.phase = jobs[j].phase /\ q.shut = jobs[j].shut /\ q.cancelled = TRUE
      /\ q.held = jobs[j].held /\ q.told = jobs[j].told
  BY <1>1 DEF Job
<1> HIDE DEF q
<1>4. jobs[j].gid \in Gids /\ \A h \in Gids: downloads[h] = j => h = jobs[j].gid
  BY <1>1 DEF JobInv, Alive, Inv, Orderly, TableInv
<1>5. ~InTable(j)'
  BY <1>4, JobsTyped, NoJobAssumption DEF PrecheckRejects, InTable
<1>6. downloads[jobs[j].gid] \in {j, NoJob}
  BY <1>1, <1>4, JobsTyped DEF Inv, Orderly, TableInv, BusyInv, Busy, InTable
<1>7. Only(j)
  BY <1>2, <1>3, <1>4, <1>6, JobsTyped DEF Only, Into, Looks, PrecheckRejects
<1>8. jobs[j].status \in {"active", "removed"}
  BY <1>1 DEF PrecheckRejects, JobInv, Held, Fetching, Job, JobStatus
<1>9. JobInv(j)'
  <2>1. /\ jobs'[j].at = "ended" /\ jobs'[j].gid = jobs[j].gid
        /\ jobs'[j].status \in {"active", "removed"} /\ jobs'[j].cancelled = TRUE
        /\ jobs'[j].told = jobs[j].told
    BY <1>2, <1>3, <1>8 DEF Into, Looks
  <2>2. jobs[j].told = 0
    BY <1>1 DEF PrecheckRejects, JobInv, Held, Fetching
  <2> QED BY <1>4, <1>5, <2>1, <2>2 DEF JobInv, Alive, Held, Fetching
<1>10. ASSUME NEW c \in Callers, calls[c].job = j PROVE CallInv(c)'
  BY <1>2, <1>3, <1>8, <1>10, JobsTyped DEF CallInv, PrecheckRejects, Into, Looks
<1> QED BY <1>1, <1>5, <1>7, <1>9, <1>10, OnlyOne DEF PrecheckRejects

-----------------------------------------------------------------------------
(* So do the other steps *)

LEMMA EnlistKeeps ==
  ASSUME Inv, SlotsInv', NEW j \in Jobs, NEW h \in Gids, NEW again,
         Enlist(j, h, again), Settled(h)
  PROVE  Inv'
<1>1. /\ ~Busy(j) /\ downloads[h] = NoJob /\ downloads' = [downloads EXCEPT ![h] = j]
      /\ UNCHANGED calls
  BY DEF Enlist, Busy
<1>2. \A i \in Jobs \ {j}: jobs'[i] = jobs[i]
  BY JobsTyped DEF Enlist, SetJob
<1>3. /\ jobs'[j].gid = h /\ jobs'[j].at = "precheck" /\ jobs'[j].status = "active"
      /\ jobs'[j].phase = "precheck" /\ jobs'[j].cancelled = FALSE
      /\ jobs'[j].staleAbort = FALSE /\ jobs'[j].told = 0
  BY JobsTyped DEF Enlist, SetJob, Unused
<1>4. \A g \in Gids: downloads'[g] = IF g = h THEN j ELSE downloads[g]
  BY <1>1, JobsTyped
<1>5. InTable(j)' /\ \A i \in Jobs \ {j}: InTable(i)' = InTable(i)
  BY <1>1, <1>4, NoJobAssumption DEF InTable
<1>6. \A i \in Jobs \ {j}: Busy(i)' = Busy(i) /\ Alive(i)' = Alive(i)
  BY <1>1, <1>2, <1>5 DEF Busy, Alive, Called
<1>7. \A i \in Jobs: Busy(i) => jobs[i].gid # h
  BY <1>1, JobsTyped, NoJobAssumption DEF Busy, Settled, InTable, Inv, Orderly, TableInv
<1>8. TableInv'
  BY <1>1, <1>2, <1>3, <1>4 DEF TableInv, Inv, Orderly, Busy, InTable
<1>9. BusyInv'
  BY <1>2, <1>3, <1>6, <1>7 DEF BusyInv, Inv, Orderly
<1>10. CallsInv'
  <2> SUFFICES ASSUME NEW c \in Callers PROVE CallInv(c)'
    BY DEF CallsInv
  <2>1. calls[c].job \in (Jobs \ {j}) \union {NoJob} /\ CallInv(c)
    BY <1>1, JobsTyped DEF Busy, Called
  <2>2. CASE calls[c].job = NoJob
    BY <1>1, <2>1, <2>2, NoJobAssumption DEF CallInv
  <2>3. CASE calls[c].job \in Jobs \ {j}
    BY <1>1, <1>2, <1>5, <2>1, <2>3 DEF CallInv
  <2> QED BY <2>1, <2>2, <2>3
<1>11. JobsInv'
  <2> SUFFICES ASSUME NEW i \in Jobs PROVE JobInv(i)'
    BY DEF JobsInv
  <2>1. CASE i = j
    BY <1>3, <1>5, <2>1 DEF JobInv, Alive, Held, Fetching
  <2>2. CASE i # j
    <3>1. JobInv(i) BY JobsTyped
    <3>2. \A at: In(i, at)' = In(i, at) BY <1>1 DEF In
    <3> QED BY <1>2, <1>5, <1>6, <2>2, <3>1, <3>2 DEF JobInv
  <2> QED BY <2>1, <2>2
<1> QED BY <1>8, <1>9, <1>10, <1>11 DEF Inv, Orderly

\* The table loses the entry of GID h, which is j's.
LEMMA LosesEntry ==
  ASSUME Inv, NEW j \in Jobs, NEW h \in Gids, downloads[h] = j,
         downloads' = [downloads EXCEPT ![h] = NoJob]
  PROVE  /\ InTable(j) /\ ~InTable(j)' /\ jobs[j].gid = h
         /\ \A g \in Gids: \/ downloads'[g] = downloads[g]
                           \/ downloads[g] = j /\ downloads'[g] = NoJob
<1>1. InTable(j) /\ jobs[j].gid = h /\ \A g \in Gids: downloads[g] = j => g = h
  BY DEF InTable, Inv, Orderly, TableInv
<1>2. \A g \in Gids: downloads'[g] = IF g = h THEN NoJob ELSE downloads[g]
  BY JobsTyped
<1>3. ~InTable(j)'
  BY <1>1, <1>2, NoJobAssumption DEF InTable
<1> QED BY <1>1, <1>2, <1>3

LEMMA ForgetKeeps ==
  ASSUME Inv, SlotsInv', NEW h \in Gids, Forget(h) \/ DismissComplete(h)
  PROVE  Inv'
<1>1. PICK j \in Jobs: downloads[h] = j /\ jobs[j].status \in {"error", "complete"}
  BY DEF Forget, DismissComplete, Found
<1>2. downloads' = [downloads EXCEPT ![h] = NoJob] /\ UNCHANGED <<jobs, calls>>
  BY DEF Forget, DismissComplete
<1>3. Busy(j) /\ Only(j) /\ ~InTable(j)'
  BY <1>1, <1>2, LosesEntry DEF Busy, Only, Looks
<1>4. JobInv(j)'
  <2>1. JobInv(j) BY JobsTyped
  <2> QED BY <1>1, <1>2, <1>3, <2>1 DEF JobInv, In, Alive
<1>5. ASSUME NEW c \in Callers, calls[c].job = j PROVE CallInv(c)'
  BY <1>1, <1>2, <1>5, JobsTyped DEF CallInv
<1> QED BY <1>2, <1>3, <1>4, <1>5, OnlyOne

\* What the stall detection does to a job.
LEMMA StaleInto ==
  ASSUME Inv, NEW j \in Jobs,
         \/ SetJob(j, [jobs[j] EXCEPT !.quiet = "lately"])
         \/ SetJob(j, [jobs[j] EXCEPT !.staleAbort = TRUE, !.cancelled = TRUE])
  PROVE  /\ \A i \in Jobs \ {j}: jobs'[i] = jobs[i]
         /\ jobs'[j].gid = jobs[j].gid /\ jobs'[j].at = jobs[j].at
         /\ jobs'[j].status = jobs[j].status /\ jobs'[j].phase = jobs[j].phase
         /\ jobs'[j].shut = jobs[j].shut /\ jobs'[j].held = jobs[j].held
         /\ jobs'[j].told = jobs[j].told
         /\ \/ jobs'[j].cancelled = jobs[j].cancelled /\ jobs'[j].staleAbort = jobs[j].staleAbort
            \/ jobs'[j].cancelled = TRUE /\ jobs'[j].staleAbort = TRUE
<1>0. jobs[j] \in Job BY JobsTyped
<1>1. CASE SetJob(j, [jobs[j] EXCEPT !.quiet = "lately"])
  <2> DEFINE q == [jobs[j] EXCEPT !.quiet = "lately"]
  <2>1. /\ q.gid = jobs[j].gid /\ q.at = jobs[j].at
        /\ q.status = jobs[j].status /\ q.phase = jobs[j].phase
        /\ q.shut = jobs[j].shut /\ q.held = jobs[j].held /\ q.told = jobs[j].told
        /\ q.cancelled = jobs[j].cancelled /\ q.staleAbort = jobs[j].staleAbort
    BY <1>0 DEF Job
  <2>2. jobs' = [jobs EXCEPT ![j] = q] BY <1>1 DEF SetJob
  <2> HIDE DEF q
  <2> QED BY <2>1, <2>2, JobsTyped
<1>2. CASE SetJob(j, [jobs[j] EXCEPT !.staleAbort = TRUE, !.cancelled = TRUE])
  <2> DEFINE q == [jobs[j] EXCEPT !.staleAbort = TRUE, !.cancelled = TRUE]
  <2>1. /\ q.gid = jobs[j].gid /\ q.at = jobs[j].at
        /\ q.status = jobs[j].status /\ q.phase = jobs[j].phase
        /\ q.shut = jobs[j].shut /\ q.held = jobs[j].held /\ q.told = jobs[j].told
        /\ q.cancelled = TRUE /\ q.staleAbort = TRUE
    BY <1>0 DEF Job
  <2>2. jobs' = [jobs EXCEPT ![j] = q] BY <1>2 DEF SetJob
  <2> HIDE DEF q
  <2> QED BY <2>1, <2>2, JobsTyped
<1> QED BY <1>1, <1>2

LEMMA AbortStaleKeeps ==
  ASSUME Inv, SlotsInv', NEW h \in Gids, AbortStale(h)
  PROVE  Inv'
<1>1. PICK j \in Jobs:
        /\ downloads[h] = j /\ Stalled(jobs[j])
        /\ \/ SetJob(j, [jobs[j] EXCEPT !.quiet = "lately"])
           \/ SetJob(j, [jobs[j] EXCEPT !.staleAbort = TRUE, !.cancelled = TRUE])
        /\ UNCHANGED <<downloads, calls>>
  BY DEF AbortStale
<1>2. /\ jobs[j] \in Job /\ JobInv(j) /\ InTable(j) /\ Busy(j)
      /\ jobs[j].status = "active" /\ jobs[j].phase = "downloading"
  BY <1>1, JobsTyped DEF InTable, Busy, Stalled
<1>3. \A i \in Jobs \ {j}: jobs'[i] = jobs[i]
  BY <1>1, StaleInto
<1>4. /\ jobs'[j].gid = jobs[j].gid /\ jobs'[j].at = jobs[j].at
      /\ jobs'[j].status = jobs[j].status /\ jobs'[j].phase = jobs[j].phase
      /\ jobs'[j].shut = jobs[j].shut /\ jobs'[j].held = jobs[j].held
      /\ jobs'[j].told = jobs[j].told
      /\ \/ jobs'[j].cancelled = jobs[j].cancelled /\ jobs'[j].staleAbort = jobs[j].staleAbort
         \/ jobs'[j].cancelled = TRUE /\ jobs'[j].staleAbort = TRUE
  BY <1>1, StaleInto
<1>5. Only(j) BY <1>1, <1>3, <1>4 DEF Only, Looks
<1>6. InTable(j)' = InTable(j) BY <1>1 DEF InTable
<1>7. JobInv(j)'
  BY <1>1, <1>2, <1>4, <1>6 DEF JobInv, Alive, In
<1>8. ASSUME NEW c \in Callers, calls[c].job = j PROVE CallInv(c)'
  BY <1>1, <1>4, <1>6, <1>8, JobsTyped DEF CallInv
<1>9. jobs'[j].at # "unused"
  BY <1>1, <1>4 DEF Inv, Orderly, TableInv
<1> QED BY <1>1, <1>2, <1>4, <1>5, <1>7, <1>8, <1>9, OnlyOne

LEMMA AroundKeeps ==
  ASSUME Inv, SlotsInv', UNCHANGED <<downloads, jobs, calls>>
  PROVE  Inv'
BY DEF Inv, Orderly, TableInv, BusyInv, CallsInv, JobsInv, CallInv, JobInv, Busy, InTable,
       Called, Alive, In

LEMMA EmptyIsOrderly ==
  ASSUME jobs = [j \in Jobs |-> Unused], downloads = [h \in Gids |-> NoJob],
         calls = [c \in Callers |-> IdleCall], SlotsInv
  PROVE  Inv
<1>1. \A j \in Jobs: /\ jobs[j].at = "unused" /\ jobs[j].status = "removed"
                     /\ jobs[j].staleAbort = FALSE /\ jobs[j].told = 0
  BY DEF Unused
<1>2. \A j \in Jobs: ~Alive(j) /\ ~Called(j) /\ ~InTable(j)
  BY <1>1, NoJobAssumption DEF Alive, Called, InTable, IdleCall
<1>3. TableInv BY NoJobAssumption DEF TableInv
<1>4. BusyInv BY <1>2 DEF BusyInv, Busy
<1>5. CallsInv BY NoJobAssumption DEF CallsInv, CallInv, IdleCall
<1>6. JobsInv BY <1>1, <1>2 DEF JobsInv, JobInv
<1> QED BY <1>3, <1>4, <1>5, <1>6 DEF Inv, Orderly

-----------------------------------------------------------------------------
(* Calls: one on a job at a time *)

\* Caller c alone has business with job j, before the step and after it, and its
\* step is k then.
CallStepOn(c, j, k) ==
  /\ \A d \in Callers \ {c}: calls'[d] = calls[d] /\ calls[d].job # j
  /\ calls[c].job \in {j, NoJob}
  /\ calls'[c] \in {[at |-> k, job |-> j], IdleCall}
  /\ calls'[c] = IdleCall <=> k = "idle"

LEMMA CallStepKeeps ==
  ASSUME Inv, SlotsInv', NEW c \in Callers, NEW j \in Jobs, NEW k, Busy(j),
         CallStepOn(c, j, k),
         \A i \in Jobs \ {j}: Looks(jobs'[i], jobs[i]),
         jobs'[j].gid = jobs[j].gid,
         \A h \in Gids: downloads'[h] = downloads[h] \/ (downloads[h] = j /\ downloads'[h] = NoJob),
         JobInv(j)',
         jobs'[j].at # "unused",
         InTable(j)' => jobs'[j].status # "removed",
         k \in {"closing", "reviving", "losing"} => jobs'[j].status = "paused" /\ InTable(j)',
         k \in {"reviving", "losing", "opening", "waking"} => jobs'[j].shut,
         k \in {"cancelling", "removing"} => jobs'[j].status = "removed",
         k = "waking" => jobs'[j].status = "error",
         k = "opening" => jobs'[j].status # "paused"
  PROVE  Inv'
<1>1. Only(j)
  BY DEF Only, CallStepOn, IdleCall
<1>2. CallInv(c)'
  <2>1. CASE k = "idle"
    BY <2>1, NoJobAssumption DEF CallStepOn, CallInv, IdleCall
  <2>2. CASE k # "idle"
    <3>1. calls'[c].at = k /\ calls'[c].job = j
      BY <2>2 DEF CallStepOn
    <3>2. \A d \in Callers: calls'[d].job = j => d = c
      BY DEF CallStepOn
    <3> QED BY <2>2, <3>1, <3>2, NoJobAssumption DEF CallInv
  <2> QED BY <2>1, <2>2
<1>3. ASSUME NEW d \in Callers, calls'[d] # calls[d] \/ calls[d].job = j
      PROVE  CallInv(d)'
  BY <1>2, <1>3 DEF CallStepOn
<1> QED BY <1>1, <1>3, OnlyOne

\* After the step, j's caller is at k.
LEMMA CallerIn ==
  ASSUME NEW c \in Callers, NEW j \in Jobs, NEW k, CallStepOn(c, j, k)
  PROVE  \A at: at # "idle" => (In(j, at)' <=> at = k)
BY NoJobAssumption DEF CallStepOn, In, IdleCall

LEMMA CallBeginsAlone ==
  ASSUME Inv, Races = {}, NEW c \in Callers, NEW h \in Gids, NEW j \in Jobs,
         NEW operator, Calls(c, operator, h, j), NEW k \in CallStep \ {"idle"}, Goes(c, k, j)
  PROVE  CallStepOn(c, j, k) /\ Busy(j) /\ InTable(j) /\ jobs[j].gid = h /\ ~Called(j)
<1>1. InTable(j) /\ jobs[j].gid = h
  BY DEF Calls, InTable, Inv, Orderly, TableInv
<1>2. \A d \in Callers: calls[d].job # j
  BY <1>1, NoJobAssumption DEF Calls, IdleCall
<1>3. calls' = [calls EXCEPT ![c] = [at |-> k, job |-> j]] /\ calls[c] = IdleCall
  BY DEF Goes, Calls
<1>4. CallStepOn(c, j, k)
  BY <1>2, <1>3, JobsTyped, NoJobAssumption DEF CallStepOn, IdleCall
<1> QED BY <1>1, <1>2, <1>4 DEF Busy, Called

LEMMA CancelMarksKeeps ==
  ASSUME Inv, SlotsInv', Races = {}, NEW c \in Callers, NEW h \in Gids, CancelMarks(c, h)
  PROVE  Inv'
<1>1. PICK j \in Jobs: /\ Calls(c, "cancel", h, j)
                       /\ Goes(c, "cancelling", j)
                       /\ SetJob(j, SetStatus(jobs[j], "removed", "none"))
                       /\ downloads' = [downloads EXCEPT ![h] = NoJob]
  BY DEF CancelMarks
<1>2. /\ CallStepOn(c, j, "cancelling") /\ Busy(j) /\ ~Called(j)
  BY <1>1, CallBeginsAlone DEF CallStep
<1>3. /\ ~InTable(j)'
      /\ \A g \in Gids: downloads'[g] = downloads[g] \/ (downloads[g] = j /\ downloads'[g] = NoJob)
  BY <1>1, LosesEntry DEF Calls
<1>4. JobInv(j) /\ jobs[j].at # "unused"
  BY <1>1, JobsTyped DEF Calls, Inv, Orderly, TableInv
<1> DEFINE q == SetStatus(jobs[j], "removed", "none")
<1>5. jobs' = [jobs EXCEPT ![j] = q] BY <1>1 DEF SetJob
<1>6. /\ q.gid = jobs[j].gid /\ q.at = jobs[j].at /\ q.status = "removed"
      /\ q.cancelled = jobs[j].cancelled /\ q.staleAbort = jobs[j].staleAbort
      /\ q.told = jobs[j].told
  BY StatusKeepsType, JobsTyped DEF JobStatus, Phase
<1> HIDE DEF q
<1>7. jobs'[j] = q /\ \A i \in Jobs \ {j}: jobs'[i] = jobs[i]
  BY <1>5, JobsTyped
<1>8. In(j, "cancelling")' /\ ~In(j, "waking")'
  BY <1>2, CallerIn
<1>9. JobInv(j)'
  BY <1>3, <1>4, <1>6, <1>7, <1>8 DEF JobInv, Alive
<1> QED BY <1>2, <1>3, <1>4, <1>6, <1>7, <1>9, CallStepKeeps DEF Looks

LEMMA PauseMarksKeeps ==
  ASSUME Inv, SlotsInv', Races = {}, NEW c \in Callers, NEW h \in Gids, PauseMarks(c, h)
  PROVE  Inv'
<1>1. PICK j \in Jobs:
        /\ Calls(c, "pause", h, j)
        /\ jobs[j].status = "active" /\ jobs[j].phase = "downloading"
        /\ Goes(c, "closing", j)
        /\ SetJob(j, [SetStatus(jobs[j], "paused", "none") EXCEPT !.held = TRUE])
        /\ UNCHANGED downloads
  BY DEF PauseMarks
<1>2. /\ CallStepOn(c, j, "closing") /\ Busy(j) /\ InTable(j) /\ ~Called(j)
  BY <1>1, CallBeginsAlone DEF CallStep
<1>3. InTable(j)' BY <1>1, <1>2 DEF InTable
<1>4. JobInv(j) /\ jobs[j].at # "unused"
  BY <1>1, JobsTyped DEF Calls, Inv, Orderly, TableInv
<1> DEFINE r == SetStatus(jobs[j], "paused", "none")
           q == [r EXCEPT !.held = TRUE]
<1>5. jobs' = [jobs EXCEPT ![j] = q] BY <1>1 DEF SetJob
<1>6. /\ r \in Job /\ r.gid = jobs[j].gid /\ r.at = jobs[j].at /\ r.status = "paused"
      /\ r.cancelled = jobs[j].cancelled /\ r.staleAbort = jobs[j].staleAbort
      /\ r.told = jobs[j].told
  BY StatusKeepsType, JobsTyped DEF JobStatus, Phase
<1> HIDE DEF r
<1>7. /\ q.gid = jobs[j].gid /\ q.at = jobs[j].at /\ q.status = "paused" /\ q.held = TRUE
      /\ q.cancelled = jobs[j].cancelled /\ q.staleAbort = jobs[j].staleAbort
      /\ q.told = jobs[j].told
  BY <1>6 DEF Job
<1> HIDE DEF q
<1>8. jobs'[j] = q /\ \A i \in Jobs \ {j}: jobs'[i] = jobs[i]
  BY <1>5, JobsTyped
<1>9. In(j, "closing")' /\ ~In(j, "waking")'
  BY <1>2, CallerIn
<1>10. JobInv(j)'
  BY <1>1, <1>3, <1>4, <1>7, <1>8, <1>9 DEF JobInv, Alive, Held, Fetching
<1> QED
  BY <1>1, <1>2, <1>3, <1>4, <1>7, <1>8, <1>10, CallStepKeeps DEF Looks

LEMMA ResumeBeginsKeeps ==
  ASSUME Inv, SlotsInv', Races = {}, NEW c \in Callers, NEW h \in Gids, ResumeBegins(c, h)
  PROVE  Inv'
<1>1. PICK j \in Jobs, k \in {"reviving", "losing"}:
        /\ Calls(c, "pause", h, j) /\ jobs[j].status = "paused"
        /\ Goes(c, k, j) /\ UNCHANGED <<downloads, jobs>>
  BY DEF ResumeBegins
<1>2. /\ CallStepOn(c, j, k) /\ Busy(j) /\ InTable(j) /\ ~Called(j)
  BY <1>1, CallBeginsAlone DEF CallStep
<1>3. InTable(j)' BY <1>1, <1>2 DEF InTable
<1>4. JobInv(j) /\ jobs[j].at # "unused"
  BY <1>1, JobsTyped DEF Calls, Inv, Orderly, TableInv
<1>5. jobs[j].shut /\ ~In(j, "closing") /\ ~In(j, "waking") /\ ~In(j, "cancelling")
  BY <1>1, <1>2, <1>4 DEF JobInv, In, Called
<1>6. ~In(j, "waking")'
  BY <1>1, <1>2, CallerIn
<1>7. JobInv(j)'
  BY <1>1, <1>3, <1>4, <1>5, <1>6 DEF JobInv, Alive, InTable
<1> QED
  BY <1>1, <1>2, <1>3, <1>4, <1>5, <1>7, CallStepKeeps DEF Looks

LEMMA CallGoesOn ==
  ASSUME Inv, NEW c \in Callers, NEW j, j = calls[c].job, calls[c].at # "idle",
         NEW k \in CallStep,
         \/ k # "idle" /\ Goes(c, k, j)
         \/ k = "idle" /\ Returns(c)
  PROVE  /\ j \in Jobs /\ calls[c].at \in CallStep
         /\ CallStepOn(c, j, k) /\ Busy(j)
         /\ CallInv(c) /\ JobInv(j) /\ jobs[j] \in Job
         /\ jobs[j].gid \in Gids /\ jobs[j].at # "unused"
         /\ \A at: In(j, at) <=> calls[c].at = at
<1>1. CallInv(c) /\ calls[c] \in [at: CallStep, job: Jobs \union {NoJob}]
  BY JobsTyped
<1>2. j \in Jobs BY <1>1 DEF CallInv
<1>3. \A d \in Callers \ {c}: calls[d].job # j
  BY <1>1, <1>2 DEF CallInv
<1>4. ASSUME k # "idle" PROVE CallStepOn(c, j, k)
  <2>1. calls' = [calls EXCEPT ![c] = [at |-> k, job |-> j]] BY <1>4 DEF Goes
  <2> QED BY <1>2, <1>3, <1>4, <2>1, JobsTyped, NoJobAssumption DEF CallStepOn, IdleCall
<1>5. ASSUME k = "idle" PROVE CallStepOn(c, j, k)
  <2>1. calls' = [calls EXCEPT ![c] = IdleCall] BY <1>5 DEF Returns
  <2> QED BY <1>2, <1>3, <1>5, <2>1, JobsTyped, NoJobAssumption DEF CallStepOn, IdleCall
<1>6. \A at: In(j, at) <=> calls[c].at = at
  BY <1>2, <1>3 DEF In
<1>7. Busy(j) BY DEF Busy, Called
<1>8. JobInv(j) /\ jobs[j] \in Job BY <1>2, JobsTyped
<1>9. jobs[j].gid \in Gids /\ jobs[j].at # "unused"
  BY <1>1, <1>2, <1>8 DEF CallInv, JobInv
<1> QED BY <1>1, <1>2, <1>4, <1>5, <1>6, <1>7, <1>8, <1>9

LEMMA CancelStopsKeeps ==
  ASSUME Inv, SlotsInv', NEW c \in Callers, CancelStops(c)
  PROVE  Inv'
<1>0. PICK j: j = calls[c].job OBVIOUS
<1> USE <1>0
<1> DEFINE q == [jobs[j] EXCEPT !.cancelled = TRUE]
<1>1. /\ calls[c].at = "cancelling" /\ Goes(c, "removing", j)
      /\ jobs' = [jobs EXCEPT ![j] = q] /\ UNCHANGED downloads
  BY DEF CancelStops, SetJob
<1>2. /\ j \in Jobs /\ CallStepOn(c, j, "removing") /\ Busy(j) /\ CallInv(c) /\ JobInv(j)
      /\ jobs[j] \in Job /\ jobs[j].at # "unused"
  BY <1>1, CallGoesOn DEF CallStep
<1>3. /\ q.gid = jobs[j].gid /\ q.at = jobs[j].at /\ q.status = jobs[j].status
      /\ q.phase = jobs[j].phase /\ q.cancelled = TRUE /\ q.told = jobs[j].told
  BY <1>2 DEF Job
<1> HIDE DEF q
<1>4. jobs'[j] = q /\ \A i \in Jobs \ {j}: jobs'[i] = jobs[i]
  BY <1>1, <1>2, JobsTyped
<1>5. jobs[j].status = "removed" /\ ~InTable(j) /\ ~InTable(j)'
  BY <1>1, <1>2, JobsTyped DEF CallInv, InTable, Inv, Orderly, TableInv
<1>6. ~In(j, "waking")' BY <1>2, CallerIn
<1>7. JobInv(j)'
  BY <1>2, <1>3, <1>4, <1>5, <1>6 DEF JobInv, Alive
<1> QED BY <1>1, <1>2, <1>3, <1>4, <1>5, <1>7, CallStepKeeps DEF Looks

LEMMA CancelRemovesKeeps ==
  ASSUME Inv, SlotsInv', NEW c \in Callers, CancelRemoves(c)
  PROVE  Inv'
<1>0. PICK j: j = calls[c].job OBVIOUS
<1> USE <1>0
<1>1. calls[c].at = "removing" /\ Returns(c) /\ UNCHANGED <<jobs, downloads>>
  BY DEF CancelRemoves
<1>2. /\ j \in Jobs /\ CallStepOn(c, j, "idle") /\ Busy(j) /\ CallInv(c) /\ JobInv(j)
      /\ jobs[j].at # "unused" /\ \A at: In(j, at) <=> calls[c].at = at
  BY <1>1, CallGoesOn DEF CallStep
<1>3. jobs[j].status = "removed" BY <1>1, <1>2 DEF CallInv
<1>4. ~InTable(j) /\ ~InTable(j)'
  BY <1>1, <1>2, <1>3 DEF InTable, Inv, Orderly, TableInv
<1>5. ~In(j, "waking")' BY <1>2 DEF CallStepOn, In, IdleCall
<1>6. JobInv(j)'
  BY <1>1, <1>2, <1>3, <1>4, <1>5 DEF JobInv, Alive
<1> QED BY <1>1, <1>2, <1>4, <1>6, CallStepKeeps DEF Looks

LEMMA PauseClosesKeeps ==
  ASSUME Inv, SlotsInv', NEW c \in Callers, PauseCloses(c)
  PROVE  Inv'
<1>0. PICK j: j = calls[c].job OBVIOUS
<1> USE <1>0
<1> DEFINE q == [jobs[j] EXCEPT !.shut = TRUE]
<1>1. /\ calls[c].at = "closing" /\ Returns(c)
      /\ jobs' = [jobs EXCEPT ![j] = q] /\ UNCHANGED downloads
  BY DEF PauseCloses, SetJob
<1>2. /\ j \in Jobs /\ CallStepOn(c, j, "idle") /\ Busy(j) /\ CallInv(c) /\ JobInv(j)
      /\ jobs[j] \in Job /\ jobs[j].at # "unused" /\ \A at: In(j, at) <=> calls[c].at = at
  BY <1>1, CallGoesOn DEF CallStep
<1>3. jobs[j].status = "paused" BY <1>1, <1>2 DEF CallInv
<1>4. /\ q.gid = jobs[j].gid /\ q.at = jobs[j].at /\ q.status = jobs[j].status
      /\ q.phase = jobs[j].phase /\ q.shut = TRUE /\ q.cancelled = jobs[j].cancelled
      /\ q.staleAbort = jobs[j].staleAbort /\ q.held = jobs[j].held /\ q.told = jobs[j].told
  BY <1>2 DEF Job
<1> HIDE DEF q
<1>5. jobs'[j] = q /\ \A i \in Jobs \ {j}: jobs'[i] = jobs[i]
  BY <1>1, <1>2, JobsTyped
<1>6. InTable(j)' = InTable(j) BY <1>1 DEF InTable
<1>7. ~In(j, "waking")' BY <1>2 DEF CallStepOn, In, IdleCall
<1>8. JobInv(j)'
  BY <1>2, <1>3, <1>4, <1>5, <1>6, <1>7 DEF JobInv, Alive
<1> QED BY <1>1, <1>2, <1>3, <1>4, <1>5, <1>8, CallStepKeeps DEF Looks

LEMMA ResumeOpensKeeps ==
  ASSUME Inv, SlotsInv', NEW c \in Callers, ResumeOpens(c)
  PROVE  Inv'
<1>0. PICK j: j = calls[c].job OBVIOUS
<1> USE <1>0
<1> DEFINE q == [jobs[j] EXCEPT !.shut = FALSE]
<1>1. /\ calls[c].at = "opening" /\ Returns(c)
      /\ jobs' = [jobs EXCEPT ![j] = q] /\ UNCHANGED downloads
  BY DEF ResumeOpens, SetJob
<1>2. /\ j \in Jobs /\ CallStepOn(c, j, "idle") /\ Busy(j) /\ CallInv(c) /\ JobInv(j)
      /\ jobs[j] \in Job /\ jobs[j].at # "unused" /\ \A at: In(j, at) <=> calls[c].at = at
  BY <1>1, CallGoesOn DEF CallStep
<1>3. jobs[j].status # "paused" BY <1>1, <1>2 DEF CallInv
<1>4. /\ q.gid = jobs[j].gid /\ q.at = jobs[j].at /\ q.status = jobs[j].status
      /\ q.phase = jobs[j].phase /\ q.cancelled = jobs[j].cancelled
      /\ q.staleAbort = jobs[j].staleAbort /\ q.held = jobs[j].held /\ q.told = jobs[j].told
  BY <1>2 DEF Job
<1> HIDE DEF q
<1>5. jobs'[j] = q /\ \A i \in Jobs \ {j}: jobs'[i] = jobs[i]
  BY <1>1, <1>2, JobsTyped
<1>6. InTable(j)' = InTable(j) BY <1>1 DEF InTable
<1>7. ~In(j, "waking")' BY <1>2 DEF CallStepOn, In, IdleCall
<1>8. ~In(j, "waking") /\ ~In(j, "cancelling") BY <1>1, <1>2
<1>9. JobInv(j)'
  BY <1>2, <1>3, <1>4, <1>5, <1>6, <1>7, <1>8 DEF JobInv, Alive
<1>10. InTable(j)' => jobs'[j].status # "removed"
  BY <1>2, <1>4, <1>5, <1>6 DEF InTable, Inv, Orderly, TableInv
<1> QED BY <1>1, <1>2, <1>3, <1>4, <1>5, <1>9, <1>10, CallStepKeeps DEF Looks

\* A Resume comes back for the job it found paused, and finds it still so.
LEMMA RevisitsInto ==
  ASSUME Inv, NEW c \in Callers, NEW j, j = calls[c].job,
         calls[c].at \in {"reviving", "losing"},
         NEW status \in JobStatus, NEW phase \in Phase,
         Revisits(jobs[j].gid, status, phase)
  PROVE  /\ \A i \in Jobs \ {j}: Looks(jobs'[i], jobs[i])
         /\ jobs'[j].status = status /\ jobs'[j].phase = phase
         /\ jobs'[j].gid = jobs[j].gid /\ jobs'[j].at = jobs[j].at
         /\ jobs'[j].shut = jobs[j].shut /\ jobs'[j].cancelled = jobs[j].cancelled
         /\ jobs'[j].staleAbort = jobs[j].staleAbort /\ jobs'[j].held = jobs[j].held
         /\ jobs'[j].told = jobs[j].told
<1>1. /\ j \in Jobs /\ Busy(j) /\ CallInv(c)
  BY JobsTyped DEF CallInv, Busy, Called
<1>2. jobs[j].status = "paused" /\ InTable(j) BY <1>1 DEF CallInv
<1>3. \A i \in Jobs: i \in Found(jobs[j].gid, "paused") <=> i = j
  <2>1. j \in Found(jobs[j].gid, "paused") <=> InTable(j) /\ jobs[j].status = "paused"
    BY <1>1, FoundAlone
  <2>2. \A i \in Found(jobs[j].gid, "paused"): i = j
    BY <1>1, FoundAlone
  <2> QED BY <1>2, <2>1, <2>2
<1>4. \A i \in Jobs:
        LET was == jobs[i]  now == jobs'[i] IN
        /\ now.gid = was.gid /\ now.at = was.at /\ now.shut = was.shut
        /\ now.cancelled = was.cancelled /\ now.staleAbort = was.staleAbort
        /\ now.left = was.left /\ now.held = was.held /\ now.told = was.told
        /\ now.status = IF i = j THEN status ELSE was.status
        /\ now.phase = IF i = j THEN phase ELSE was.phase
  BY <1>3, RevisitsFields, JobsTyped
<1> QED BY <1>1, <1>4 DEF Looks

LEMMA ResumeRevisitsKeeps ==
  ASSUME Inv, SlotsInv', NEW c \in Callers, ResumeRevives(c) \/ ResumeLoses(c)
  PROVE  Inv'
<1>0. PICK j: j = calls[c].job OBVIOUS
<1> USE <1>0
<1>1. PICK k \in {"opening", "waking"}:
        /\ calls[c].at \in {"reviving", "losing"} /\ Goes(c, k, j)
        /\ IF k = "opening" THEN Revisits(jobs[j].gid, "active", "downloading")
                            ELSE Revisits(jobs[j].gid, "error", "none")
        /\ UNCHANGED downloads
  BY DEF ResumeRevives, ResumeLoses
<1>2. /\ j \in Jobs /\ CallStepOn(c, j, k) /\ Busy(j) /\ CallInv(c) /\ JobInv(j)
      /\ jobs[j].at # "unused" /\ \A at: In(j, at) <=> calls[c].at = at
  BY <1>1, CallGoesOn DEF CallStep
<1>3. jobs[j].status = "paused" /\ InTable(j) /\ jobs[j].shut
  BY <1>1, <1>2 DEF CallInv
<1>4. /\ \A i \in Jobs \ {j}: Looks(jobs'[i], jobs[i])
      /\ \/ k = "opening" /\ jobs'[j].status = "active" /\ jobs'[j].phase = "downloading"
         \/ k = "waking" /\ jobs'[j].status = "error" /\ jobs'[j].phase = "none"
      /\ jobs'[j].gid = jobs[j].gid /\ jobs'[j].at = jobs[j].at
      /\ jobs'[j].shut = jobs[j].shut /\ jobs'[j].cancelled = jobs[j].cancelled
      /\ jobs'[j].staleAbort = jobs[j].staleAbort /\ jobs'[j].held = jobs[j].held
      /\ jobs'[j].told = jobs[j].told
  BY <1>1, RevisitsInto DEF JobStatus, Phase
<1>5. InTable(j)' BY <1>1, <1>3 DEF InTable
<1>6. In(j, "waking")' <=> k = "waking" BY <1>1, <1>2, CallerIn
<1>7. JobInv(j)'
  BY <1>2, <1>3, <1>4, <1>5, <1>6 DEF JobInv, Alive, Held, Fetching
<1> QED BY <1>1, <1>2, <1>3, <1>4, <1>5, <1>7, CallStepKeeps

LEMMA ResumeWakesKeeps ==
  ASSUME Inv, SlotsInv', NEW c \in Callers, ResumeWakes(c)
  PROVE  Inv'
<1>0. PICK j: j = calls[c].job OBVIOUS
<1> USE <1>0
<1> DEFINE q == [jobs[j] EXCEPT !.cancelled = TRUE, !.shut = FALSE, !.told = @ + 1]
<1>1. /\ calls[c].at = "waking" /\ Returns(c)
      /\ jobs' = [jobs EXCEPT ![j] = q] /\ UNCHANGED downloads
  BY DEF ResumeWakes, SetJob
<1>2. /\ j \in Jobs /\ CallStepOn(c, j, "idle") /\ Busy(j) /\ CallInv(c) /\ JobInv(j)
      /\ jobs[j] \in Job /\ jobs[j].at # "unused" /\ \A at: In(j, at) <=> calls[c].at = at
  BY <1>1, CallGoesOn DEF CallStep
<1>3. jobs[j].status = "error" BY <1>1, <1>2 DEF CallInv
<1>4. jobs[j].told = 0 BY <1>1, <1>2 DEF JobInv
<1>5. /\ q.gid = jobs[j].gid /\ q.at = jobs[j].at /\ q.status = jobs[j].status
      /\ q.phase = jobs[j].phase /\ q.cancelled = TRUE
      /\ q.staleAbort = jobs[j].staleAbort /\ q.held = jobs[j].held /\ q.told = 1
  BY <1>2, <1>4 DEF Job
<1> HIDE DEF q
<1>6. jobs'[j] = q /\ \A i \in Jobs \ {j}: jobs'[i] = jobs[i]
  BY <1>1, <1>2, JobsTyped
<1>7. InTable(j)' = InTable(j) BY <1>1 DEF InTable
<1>8. ~In(j, "waking")' BY <1>2 DEF CallStepOn, In, IdleCall
<1>9. JobInv(j)'
  BY <1>2, <1>3, <1>5, <1>6, <1>7, <1>8 DEF JobInv, Alive
<1> QED BY <1>1, <1>2, <1>3, <1>5, <1>6, <1>9, CallStepKeeps DEF Looks

-----------------------------------------------------------------------------

LEMMA NextKeepsInv ==
  ASSUME Races = {}, Inv, [Next]_vars
  PROVE  Inv'
<1>1. SlotsInv'
  BY NextKeepsSlots DEF Inv
<1>2. ASSUME NEW j \in Jobs, Goroutine(j) \/ TimePasses(j) PROVE Inv'
  BY <1>1, <1>2, AdvancesKeep, EndsKeep, RejectsKeeps DEF Goroutine
<1>3. ASSUME NEW j \in Jobs, NEW h \in Gids, AddNZB(j, h) \/ RelaunchNZB(j, h) PROVE Inv'
  BY <1>1, <1>3, EnlistKeeps DEF AddNZB, RelaunchNZB
<1>4. ASSUME NEW h \in Gids,
             Forget(h) \/ DismissComplete(h) \/ AbortStale(h) \/ Wipe(h) \/ Take(h)
      PROVE  Inv'
  BY <1>1, <1>4, ForgetKeeps, AbortStaleKeeps, AroundKeeps DEF Wipe, Take
<1>5. ASSUME NEW c \in Callers, CallEnds(c) PROVE Inv'
  BY <1>1, <1>5, CancelStopsKeeps, CancelRemovesKeeps, PauseClosesKeeps, ResumeOpensKeeps,
     ResumeRevisitsKeeps, ResumeWakesKeeps DEF CallEnds
<1>6. ASSUME NEW c \in Callers, NEW h \in Gids, CallBegins(c, h) PROVE Inv'
  BY <1>1, <1>6, CancelMarksKeeps, PauseMarksKeeps, ResumeBeginsKeeps DEF CallBegins
<1>7. CASE Restart
  <2>1. /\ jobs' = [j \in Jobs |-> Unused] /\ downloads' = [h \in Gids |-> NoJob]
        /\ calls' = [c \in Callers |-> IdleCall]
    BY <1>7 DEF Restart
  <2>2. \A j \in Jobs: /\ jobs'[j].at = "unused" /\ jobs'[j].status = "removed"
                       /\ jobs'[j].staleAbort = FALSE /\ jobs'[j].told = 0
    BY <2>1 DEF Unused
  <2>3. \A j \in Jobs: ~Alive(j)' /\ ~Called(j)' /\ ~InTable(j)'
    BY <2>1, <2>2, NoJobAssumption DEF Alive, Called, InTable, IdleCall
  <2>4. TableInv' /\ BusyInv' /\ CallsInv'
    BY <2>1, <2>3, NoJobAssumption DEF TableInv, BusyInv, Busy, CallsInv, CallInv, IdleCall
  <2>5. JobsInv' BY <2>2, <2>3 DEF JobsInv, JobInv
  <2> QED BY <1>1, <2>4, <2>5 DEF Inv, Orderly
<1>8. CASE UNCHANGED vars
  BY <1>1, <1>8, AroundKeeps DEF vars
<1> QED BY <1>2, <1>3, <1>4, <1>5, <1>6, <1>7, <1>8 DEF Next

LEMMA InitInv == Init => Inv
BY InitSlots, EmptyIsOrderly DEF Init

LEMMA InvHolds == ASSUME Races = {} PROVE Spec => []Inv
BY InitInv, NextKeepsInv, PTL DEF Spec

\* No outcome is announced twice, as long as calls, pauses and relaunches do not
\* cross.
THEOREM OutcomeToldOnce == ASSUME Races = {} PROVE Spec => []ToldOnce
<1>1. Inv => ToldOnce
  BY DEF Inv, Orderly, JobsInv, JobInv, ToldOnce
<1> QED BY <1>1, InvHolds, PTL

\* A download that was never paused is not left "active" without a goroutine.
THEOREM UnpausedRuns == ASSUME Races = {} PROVE Spec => []UnpausedJobRuns
<1>1. Inv => UnpausedJobRuns
  BY DEF Inv, Orderly, JobsInv, JobInv, UnpausedJobRuns
<1> QED BY <1>1, InvHolds, PTL

\* A download that holds a slot is paused, being ended, or watched for silence.
THEOREM SilenceWatched == ASSUME Races = {} PROVE Spec => []SilenceIsNoticed
<1>1. ASSUME Inv PROVE SilenceIsNoticed
  <2> SUFFICES ASSUME NEW j \in Jobs, jobs[j].at \in Fetching,
                      ~jobs[j].shut, ~jobs[j].cancelled, ~Called(j)
               PROVE  downloads[jobs[j].gid] = j /\ Stalled(jobs[j])
    BY DEF SilenceIsNoticed
  <2>1. JobInv(j) /\ Alive(j) /\ jobs[j].status \in JobStatus
    BY <1>1, JobsTyped DEF Alive, Fetching, Job
  <2>2. \A at: ~In(j, at) BY DEF In, Called
  <2>3. jobs[j].status = "active" /\ jobs[j].phase = "downloading" /\ ~jobs[j].staleAbort
    BY <2>1, <2>2 DEF JobInv, JobStatus
  <2>4. InTable(j) BY <2>1, <2>3 DEF JobInv
  <2>5. downloads[jobs[j].gid] = j
    BY <1>1, <2>4 DEF InTable, Inv, Orderly, TableInv
  <2> QED BY <2>3, <2>5 DEF Stalled
<1> QED BY <1>1, InvHolds, PTL

-----------------------------------------------------------------------------
(* How a step appears in the contract *)

ContractStep == [Contract!Next]_<<reported, staging, due>>

\* What the GID of a busy job shows of it, and what is still to come of it.
View(j) ==
  IF ~InTable(j) THEN "none"
  ELSE CASE jobs[j].status \in {"active", "paused"} ->
              IF jobs[j].at = "precheck" THEN "precheck" ELSE "active"
         [] jobs[j].status = "complete" -> "complete"
         [] OTHER -> "failed"

Coming(j) == {o \in {"error"}: In(j, "waking")} \union {o \in {"complete"}: MayComplete(j)}

\* A GID shows its busy job, and owes what that job still owes.
LEMMA BusyAppears ==
  ASSUME Inv, NEW j \in Jobs, Busy(j)
  PROVE  LET h == jobs[j].gid IN
         h \in Gids /\ Reported(h) = View(j) /\ Due(h) = owed[h] \union Coming(j)
<1> DEFINE h == jobs[j].gid
<1>1. h \in Gids
  BY JobsTyped DEF Busy, Alive, Called, InTable, JobInv, CallInv, Inv, Orderly, TableInv
<1>2. \A i \in Jobs: Busy(i) /\ jobs[i].gid = h => i = j
  BY DEF Inv, Orderly, BusyInv
<1>3. Reported(h) = View(j)
  <2>1. downloads[h] \in Jobs => downloads[h] = j
    BY <1>1, <1>2 DEF Inv, Orderly, TableInv, Busy, InTable
  <2>2. InTable(j) <=> downloads[h] = j
    BY <1>1 DEF InTable, Inv, Orderly, TableInv
  <2>3. downloads[h] \in {j, NoJob}
    BY <1>1, <2>1, JobsTyped
  <2> QED BY <2>2, <2>3, NoJobAssumption DEF Reported, View
<1>4. (\E c \in Callers: calls[c].at = "waking" /\ jobs[calls[c].job].gid = h)
        <=> In(j, "waking")
  <2>1. ASSUME NEW c \in Callers, calls[c].at = "waking", jobs[calls[c].job].gid = h
        PROVE  calls[c].job = j
    <3>1. calls[c].job \in Jobs BY <2>1, JobsTyped DEF CallInv
    <3> QED BY <1>2, <2>1, <3>1 DEF Busy, Called
  <2> QED BY <2>1 DEF In
<1>5. (\E i \in Jobs: MayComplete(i) /\ jobs[i].gid = h) <=> MayComplete(j)
  BY <1>2 DEF MayComplete, Busy
<1>6. Due(h) = owed[h] \union Coming(j)
  BY <1>4, <1>5 DEF Due, Coming
<1> QED BY <1>1, <1>3, <1>6

LEMMA StepAppears ==
  ASSUME Inv, Inv', NEW j \in Jobs, Busy(j), Only(j),
         \A g \in Gids \ {jobs[j].gid}: owed'[g] = owed[g]
  PROVE  LET h == jobs[j].gid IN
         /\ h \in Gids
         /\ reported[h] = View(j) /\ reported' = [reported EXCEPT ![h] = View(j)']
         /\ due[h] = owed[h] \union Coming(j)
         /\ due' = [due EXCEPT ![h] = owed'[h] \union Coming(j)']
<1>0. PICK h: h = jobs[j].gid OBVIOUS
<1> USE <1>0
<1>1. h \in Gids /\ Reported(h) = View(j) /\ Due(h) = owed[h] \union Coming(j)
  BY BusyAppears
<1>2. ASSUME NEW i \in Jobs \ {j}
      PROVE  /\ Looks(jobs'[i], jobs[i])
             /\ MayComplete(i)' = MayComplete(i)
  BY <1>2 DEF Only, Looks, MayComplete, Alive
<1>3. ASSUME NEW g \in Gids \ {h}
      PROVE  Reported(g)' = Reported(g) /\ Due(g)' = Due(g)
  <2>1. downloads'[g] = downloads[g] /\ downloads[g] # j
    BY DEF Only, Inv, Orderly, TableInv
  <2>2. Reported(g)' = Reported(g)
    BY <1>2, <2>1, JobsTyped DEF Reported, Looks
  <2>3. ASSUME NEW c \in Callers
        PROVE  calls'[c].at = "waking" /\ jobs'[calls'[c].job].gid = g
                 <=> calls[c].at = "waking" /\ jobs[calls[c].job].gid = g
    <3>1. CASE calls'[c] = calls[c]
      <4>1. CASE calls[c].job = NoJob
        BY <3>1, <4>1, JobsTyped DEF CallInv
      <4>2. CASE calls[c].job = j
        BY <3>1, <4>2 DEF Only
      <4>3. CASE calls[c].job \in Jobs \ {j}
        BY <1>2, <3>1, <4>3 DEF Looks
      <4> QED BY <4>1, <4>2, <4>3, JobsTyped
    <3>2. CASE {calls[c].job, calls'[c].job} \subseteq {j, NoJob}
      <4>1. calls[c].job = NoJob => calls[c].at = "idle"
        BY JobsTyped DEF CallInv
      <4>2. calls'[c].job = NoJob => calls'[c].at = "idle"
        BY DEF Inv, Orderly, CallsInv, CallInv
      <4> QED BY <3>2, <4>1, <4>2 DEF Only
    <3> QED BY <3>1, <3>2 DEF Only
  <2>4. ASSUME NEW i \in Jobs
        PROVE  (MayComplete(i)' /\ jobs'[i].gid = g) <=> (MayComplete(i) /\ jobs[i].gid = g)
    BY <1>2 DEF Only, Looks
  <2>5. Due(g)' = Due(g)
    BY <2>3, <2>4 DEF Due
  <2> QED BY <2>2, <2>5
<1>4. Reported(h)' = View(j)' /\ Due(h)' = owed'[h] \union Coming(j)'
  <2>1. \A i \in Jobs: (Alive(i)' \/ Called(i)' \/ InTable(i)') /\ jobs'[i].gid = h => i = j
    <3> SUFFICES ASSUME NEW i \in Jobs \ {j}, Alive(i)' \/ Called(i)' \/ InTable(i)',
                        jobs'[i].gid = h
                 PROVE  FALSE
      OBVIOUS
    <3>1. Busy(i)
      <4>1. Alive(i)' => Alive(i) BY <1>2 DEF Alive, Looks
      <4>2. Called(i)' => Called(i) BY NoJobAssumption DEF Called, Only
      <4>3. InTable(i)' => InTable(i) BY NoJobAssumption DEF InTable, Only
      <4> QED BY <4>1, <4>2, <4>3 DEF Busy
    <3> QED BY <1>2, <3>1 DEF Looks, Inv, Orderly, BusyInv
  <2>2. downloads'[h] \in Jobs => downloads'[h] = j
    BY <1>1, <2>1 DEF Inv, Orderly, TableInv, InTable
  <2>3. InTable(j)' <=> downloads'[h] = j
    BY <1>1 DEF InTable, Only, Inv, Orderly, TableInv
  <2>4. downloads'[h] \in {j, NoJob}
    BY <1>1, <2>2 DEF Inv, SlotsInv, TypeOK
  <2>5. Reported(h)' = View(j)'
    BY <2>3, <2>4, NoJobAssumption DEF Reported, View
  <2>6. (\E c \in Callers: calls'[c].at = "waking" /\ jobs'[calls'[c].job].gid = h)
          <=> In(j, "waking")'
    <3>1. ASSUME NEW c \in Callers, calls'[c].at = "waking", jobs'[calls'[c].job].gid = h
          PROVE  calls'[c].job = j
      <4>1. calls'[c].job \in Jobs
        BY <3>1 DEF Inv, SlotsInv, TypeOK, Orderly, CallsInv, CallInv
      <4> QED BY <2>1, <3>1, <4>1 DEF Called
    <3> QED BY <3>1 DEF In, Only
  <2>7. (\E i \in Jobs: MayComplete(i)' /\ jobs'[i].gid = h) <=> MayComplete(j)'
    BY <2>1 DEF MayComplete, Only
  <2>8. Due(h)' = owed'[h] \union Coming(j)'
    BY <2>6, <2>7 DEF Due, Coming
  <2> QED BY <2>5, <2>8
<1> QED BY <1>1, <1>3, <1>4 DEF reported, due

\* What a step of job j may look like: nothing, the end of a download the table
\* has lost, a failure, or a completion.
LEMMA BusyStep ==
  ASSUME Inv, Inv', NEW j \in Jobs, Busy(j), Only(j),
         \A g \in Gids \ {jobs[j].gid}: owed'[g] = owed[g],
         UNCHANGED staging
  PROVE  LET h == jobs[j].gid
             was == owed[h] \union Coming(j)
             is == owed'[h] \union Coming(j)' IN
         /\ View(j)' = View(j) /\ is = was => ContractStep
         /\ View(j)' = View(j) /\ is \union {"complete"} = was => ContractStep
         /\ /\ View(j) = "active" /\ View(j)' = "failed"
            /\ is = was \/ is = was \union {"error"}
            => ContractStep
         /\ /\ View(j) = "active" /\ View(j)' = "complete" /\ staging[h]
            /\ is = was \union {"complete"}
            => ContractStep
         /\ View(j) = "precheck" /\ View(j)' = "active" /\ is = was => ContractStep
         /\ View(j) # "none" /\ View(j)' = "none" /\ is = was => ContractStep
         /\ /\ View(j) \in {"precheck", "active"} /\ View(j)' = "none"
            /\ is = was \union {"complete"}
            => ContractStep
<1> DEFINE h == jobs[j].gid
           was == owed[h] \union Coming(j)
           is == owed'[h] \union Coming(j)'
<1>1. /\ h \in Gids
      /\ reported[h] = View(j) /\ reported' = [reported EXCEPT ![h] = View(j)']
      /\ due[h] = was /\ due' = [due EXCEPT ![h] = is]
  BY StepAppears
<1>2. is = was => due' = due
  BY <1>1 DEF due
<1>3. View(j)' = View(j) => reported' = reported
  BY <1>1 DEF reported
<1> HIDE DEF h, was, is
<1>4. View(j)' = View(j) /\ is = was => ContractStep
  BY <1>2, <1>3 DEF ContractStep
<1>5. ASSUME View(j)' = View(j), is \union {"complete"} = was PROVE ContractStep
  <2>1. CASE "complete" \in is
    BY <1>4, <1>5, <2>1
  <2>2. CASE "complete" \notin is
    <3>1. "complete" \in due[h] /\ due' = [due EXCEPT ![h] = @ \ {"complete"}]
      BY <1>1, <1>5, <2>2
    <3>2. Contract!Take(h)
      BY <1>3, <1>5, <3>1 DEF Contract!Take
    <3> QED BY <1>1, <3>2 DEF Contract!Next, ContractStep
  <2> QED BY <2>1, <2>2
<1>6. ASSUME View(j) = "active", View(j)' = "failed", is = was \/ is = was \union {"error"}
      PROVE  ContractStep
  <2>1. UNCHANGED due \/ due' = [due EXCEPT ![h] = @ \union {"error"}]
    BY <1>1, <1>2, <1>6
  <2>2. Contract!Fail(h)
    BY <1>1, <1>6, <2>1 DEF Contract!Fail, Contract!Becomes, Contract!Owes
  <2> QED BY <1>1, <2>2 DEF Contract!Next, ContractStep
<1>7. ASSUME View(j) = "active", View(j)' = "complete", staging[h],
             is = was \union {"complete"}
      PROVE  ContractStep
  <2>1. due' = [due EXCEPT ![h] = @ \union {"complete"}]
    BY <1>1, <1>7
  <2>2. Contract!Complete(h)
    BY <1>1, <1>7, <2>1 DEF Contract!Complete, Contract!Becomes, Contract!Owes
  <2> QED BY <1>1, <2>2 DEF Contract!Next, ContractStep
<1>8. ASSUME View(j) = "precheck", View(j)' = "active", is = was PROVE ContractStep
  <2>1. Contract!Start(h)
    BY <1>1, <1>2, <1>8 DEF Contract!Start, Contract!Becomes
  <2> QED BY <1>1, <2>1 DEF Contract!Next, ContractStep
<1>9. ASSUME View(j) # "none", View(j)' = "none", is = was PROVE ContractStep
  <2>1. Contract!Drop(h)
    BY <1>1, <1>2, <1>9 DEF Contract!Drop, Contract!Becomes
  <2> QED BY <1>1, <2>1 DEF Contract!Next, ContractStep
<1>10. ASSUME View(j) \in {"precheck", "active"}, View(j)' = "none",
              is = was \union {"complete"}
       PROVE  ContractStep
  <2>1. due' = [due EXCEPT ![h] = @ \union {"complete"}]
    BY <1>1, <1>10
  <2>2. Contract!Abandon(h)
    BY <1>1, <1>10, <2>1
    DEF Contract!Abandon, Contract!Becomes, Contract!Owes, Contract!Live
  <2> QED BY <1>1, <2>2 DEF Contract!Next, ContractStep
<1> QED BY <1>4, <1>5, <1>6, <1>7, <1>8, <1>9, <1>10 DEF h, was, is

LEMMA AdvanceIsAllowed ==
  ASSUME Inv, Inv', NEW j \in Jobs, NEW at, NEW phase, Advances(j, at, phase),
         at \notin {"unused", "ended"}, at = "precheck" => jobs[j].at = "precheck",
         jobs[j].cancelled => (at = "unpacking" <=> jobs[j].at = "unpacking"),
         UNCHANGED <<staging, owed>>
  PROVE  ContractStep
<1>1. /\ Into(j, [jobs[j] EXCEPT !.at = at, !.phase = phase])
      /\ Alive(j) /\ UNCHANGED <<downloads, calls>> /\ jobs[j] \in Job /\ JobInv(j)
  BY JobsTyped DEF Advances
<1>2. /\ jobs'[j].gid = jobs[j].gid /\ jobs'[j].at = at
      /\ jobs'[j].status = jobs[j].status /\ jobs'[j].cancelled = jobs[j].cancelled
  BY <1>1 DEF Into, Looks, Job
<1>3. Only(j) /\ Busy(j) BY <1>1, <1>2 DEF Only, Into, Busy
<1>4. Coming(j)' = Coming(j)
  <2>1. MayComplete(j)' = MayComplete(j) BY <1>1, <1>2 DEF MayComplete, Alive
  <2>2. In(j, "waking")' = In(j, "waking") BY <1>1 DEF In
  <2> QED BY <2>1, <2>2 DEF Coming
<1>5. InTable(j)' = InTable(j) BY <1>1 DEF InTable
<1>6. View(j)' = View(j) \/ (View(j) = "precheck" /\ View(j)' = "active")
  BY <1>2, <1>5 DEF View
<1> QED BY <1>3, <1>4, <1>6, BusyStep

LEMMA AdvancesAllowed ==
  ASSUME Inv, Inv', Races = {}, NEW j \in Jobs,
         \/ PrecheckPasses(j) \/ TakesSlot(j) \/ FindsNoSlot(j) \/ BeginsArticle(j)
         \/ ArticleArrives(j) \/ RepairBegins(j) \/ UnpackBegins(j) \/ TimePasses(j)
  PROVE  ContractStep
<1>1. CASE PrecheckPasses(j)
  BY <1>1, AdvancesOf, AdvanceIsAllowed DEF PrecheckPasses
<1>2. CASE TakesSlot(j)
  BY <1>2, AdvancesOf, AdvanceIsAllowed DEF TakesSlot
<1>3. CASE FindsNoSlot(j)
  BY <1>3, AdvancesOf, AdvanceIsAllowed DEF FindsNoSlot
<1>4. CASE BeginsArticle(j)
  BY <1>4, AdvancesOf, AdvanceIsAllowed DEF BeginsArticle
<1>5. CASE ArticleArrives(j)
  <2>1. PICK at \in {"assembled", "article"}: Advances(j, at, jobs[j].phase)
    BY <1>5, AdvancesOf
  <2> QED BY <1>5, <2>1, AdvanceIsAllowed DEF ArticleArrives
<1>6. CASE RepairBegins(j)
  <2>1. PICK phase: Advances(j, "repairing", phase)
    BY <1>6, AdvancesOf
  <2> QED BY <1>6, <2>1, AdvanceIsAllowed DEF RepairBegins
<1>7. CASE UnpackBegins(j)
  BY <1>7, AdvancesOf, AdvanceIsAllowed DEF UnpackBegins, Passes
<1>8. CASE TimePasses(j)
  BY <1>8, AdvancesOf, AdvanceIsAllowed DEF TimePasses, Alive
<1> QED BY <1>1, <1>2, <1>3, <1>4, <1>5, <1>6, <1>7, <1>8

LEMMA EndShows ==
  ASSUME Inv, NEW j \in Jobs, NEW q, Ends(j, q)
  PROVE  /\ Only(j) /\ Busy(j) /\ InTable(j)' = InTable(j) /\ JobInv(j)
         /\ jobs'[j].at = "ended" /\ jobs'[j].status = q.status
         /\ ~MayComplete(j)' /\ In(j, "waking")' = In(j, "waking")
         /\ InTable(j) => jobs[j].status # "removed"
<1>1. /\ jobs'[j].gid = jobs[j].gid /\ jobs'[j].at = "ended" /\ jobs'[j].status = q.status
      /\ UNCHANGED <<downloads, calls>> /\ Alive(j)
      /\ \A i \in Jobs \ {j}: Looks(jobs'[i], jobs[i])
  BY DEF Ends, Into, Looks
<1>2. Only(j) /\ Busy(j) BY <1>1 DEF Only, Busy
<1>3. InTable(j)' = InTable(j) /\ In(j, "waking")' = In(j, "waking")
  BY <1>1 DEF InTable, In
<1>4. ~MayComplete(j)' BY <1>1 DEF MayComplete, Alive
<1>5. InTable(j) => jobs[j].status # "removed" BY DEF InTable, Inv, Orderly, TableInv
<1> QED BY <1>1, <1>2, <1>3, <1>4, <1>5, JobsTyped

LEMMA FailuresAllowed ==
  ASSUME Inv, Inv', NEW j \in Jobs,
         GivesUp(j) \/ FetchFails(j) \/ AbortsAtGate(j) \/ UnpackFails(j)
  PROVE  ContractStep
<1>1. UNCHANGED staging /\ jobs[j].at \notin {"precheck", "unused", "ended"}
  BY DEF GivesUp, FetchFails, AbortsAtGate, UnpackFails, Fetching
<1>2. PICK q \in Job:
        /\ Ends(j, q)
        /\ \/ q.status = jobs[j].status /\ q.status # "active" /\ UNCHANGED owed
           \/ /\ jobs[j].status = "active" /\ q.status = "error"
              /\ UNCHANGED owed \/ Fire(jobs[j].gid, "error")
  BY GivesUpEnds, FailuresEnd DEF GivesUp
<1>3. /\ Only(j) /\ Busy(j) /\ InTable(j)' = InTable(j) /\ JobInv(j)
      /\ jobs'[j].at = "ended" /\ jobs'[j].status = q.status
      /\ ~MayComplete(j)' /\ In(j, "waking")' = In(j, "waking")
      /\ InTable(j) => jobs[j].status # "removed"
  BY <1>2, EndShows
<1>4. jobs[j].gid \in Gids BY <1>1, <1>3 DEF JobInv
<1>5. CASE q.status = jobs[j].status /\ q.status # "active" /\ UNCHANGED owed
  <2>1. View(j)' = View(j) BY <1>1, <1>3, <1>5 DEF View
  <2>2. \/ Coming(j)' = Coming(j)
        \/ Coming(j)' \union {"complete"} = Coming(j)
    BY <1>3 DEF Coming
  <2> QED BY <1>1, <1>3, <1>5, <2>1, <2>2, BusyStep
<1>6. CASE /\ jobs[j].status = "active" /\ q.status = "error"
           /\ UNCHANGED owed \/ Fire(jobs[j].gid, "error")
  <2>1. InTable(j) BY <1>1, <1>3, <1>6 DEF JobInv, Alive
  <2>2. View(j) = "active" /\ View(j)' = "failed"
    BY <1>1, <1>3, <1>6, <2>1 DEF View
  <2>3. Coming(j)' = Coming(j)
    BY <1>3, <1>6 DEF Coming, MayComplete
  <2>4. /\ owed'[jobs[j].gid] \in {owed[jobs[j].gid], owed[jobs[j].gid] \union {"error"}}
        /\ \A g \in Gids \ {jobs[j].gid}: owed'[g] = owed[g]
    BY <1>4, <1>6, JobsTyped DEF Fire
  <2> QED BY <1>1, <1>3, <2>2, <2>3, <2>4, BusyStep
<1> QED BY <1>2, <1>5, <1>6

LEMMA SuccessAllowed ==
  ASSUME Inv, Inv', NEW j \in Jobs, UnpackSucceeds(j)
  PROVE  ContractStep
<1> DEFINE h == jobs[j].gid
<1>1. UNCHANGED staging /\ staging[h] /\ jobs[j].at = "unpacking" /\ Fire(h, "complete")
  BY DEF UnpackSucceeds
<1>2. PICK q \in Job: /\ Ends(j, q)
                      /\ \/ jobs[j].status = "removed" /\ q.status = "removed"
                         \/ jobs[j].status = "active" /\ q.status = "complete"
  BY SucceedsEnds
<1>3. /\ Only(j) /\ Busy(j) /\ InTable(j)' = InTable(j) /\ JobInv(j)
      /\ jobs'[j].at = "ended" /\ jobs'[j].status = q.status
      /\ ~MayComplete(j)' /\ In(j, "waking")' = In(j, "waking")
      /\ InTable(j) => jobs[j].status # "removed"
  BY <1>2, EndShows
<1>4. h \in Gids BY <1>1, <1>3 DEF JobInv
<1>5. /\ owed'[h] = owed[h] \union {"complete"}
      /\ \A g \in Gids \ {h}: owed'[g] = owed[g]
  BY <1>1, <1>4, JobsTyped DEF Fire
<1>6. CASE jobs[j].status = "removed" /\ q.status = "removed"
  <2>1. View(j)' = View(j) BY <1>3, <1>6 DEF View
  <2>2. MayComplete(j) BY <1>1, <1>6 DEF MayComplete, Alive
  <2>3. owed'[h] \union Coming(j)' = owed[h] \union Coming(j)
    BY <1>3, <1>5, <2>2 DEF Coming
  <2> HIDE DEF h
  <2> QED BY <1>1, <1>3, <1>5, <2>1, <2>3, BusyStep DEF h
<1>7. CASE jobs[j].status = "active" /\ q.status = "complete"
  <2>1. InTable(j) BY <1>1, <1>3, <1>7 DEF JobInv, Alive
  <2>2. View(j) = "active" /\ View(j)' = "complete"
    BY <1>1, <1>3, <1>7, <2>1 DEF View
  <2>3. owed'[h] \union Coming(j)' = (owed[h] \union Coming(j)) \union {"complete"}
    BY <1>3, <1>5, <1>7 DEF Coming, MayComplete
  <2> QED BY <1>1, <1>3, <1>5, <2>2, <2>3, BusyStep
<1> QED BY <1>2, <1>6, <1>7

LEMMA RejectsAllowed ==
  ASSUME Inv, Inv', NEW j \in Jobs, PrecheckRejects(j)
  PROVE  ContractStep
<1> DEFINE h == jobs[j].gid
           q == [jobs[j] EXCEPT !.at = "ended", !.cancelled = TRUE]
<1>1. /\ JobInv(j) /\ jobs[j] \in Job /\ Alive(j) /\ Busy(j) /\ jobs[j].at = "precheck"
      /\ downloads' = [downloads EXCEPT ![h] = NoJob] /\ UNCHANGED <<owed, calls>>
  BY JobsTyped DEF PrecheckRejects, Alive, Busy
<1>2. Into(j, q) BY RejectsInto
<1>3. q.gid = h /\ q.at = "ended"
  BY <1>1 DEF Job
<1> HIDE DEF q
<1>4. h \in Gids /\ \A g \in Gids: downloads[g] = j => g = h
  BY <1>1 DEF JobInv, Alive, Inv, Orderly, TableInv
<1>5. downloads[h] \in {j, NoJob}
  BY <1>1, <1>4, JobsTyped DEF Inv, Orderly, TableInv, BusyInv, Busy, InTable
<1>6. Only(j)
  BY <1>1, <1>2, <1>3, <1>4, <1>5, JobsTyped DEF Only, Into, Looks
<1>7. ~InTable(j)'
  BY <1>1, <1>4, JobsTyped, NoJobAssumption DEF InTable
<1>8. /\ h \in Gids
      /\ reported[h] = View(j) /\ reported' = [reported EXCEPT ![h] = View(j)']
      /\ due[h] = owed[h] \union Coming(j)
      /\ due' = [due EXCEPT ![h] = owed'[h] \union Coming(j)']
  BY <1>1, <1>6, StepAppears
<1>9. View(j)' = "none" BY <1>7 DEF View
<1>10. /\ Coming(j)' = Coming(j) \/ Coming(j)' = Coming(j) \ {"complete"}
       /\ jobs[j].status = "active" => Coming(j)' = Coming(j)
  <2>1. ~MayComplete(j)' BY <1>2, <1>3 DEF MayComplete, Alive, Into, Looks
  <2>2. In(j, "waking")' = In(j, "waking") BY <1>1 DEF In
  <2>3. jobs[j].status = "active" => ~MayComplete(j) BY DEF MayComplete
  <2> QED BY <2>1, <2>2, <2>3 DEF Coming
<1>11. UNCHANGED staging \/ staging' = [staging EXCEPT ![h] = FALSE]
  BY <1>4, JobsTyped DEF PrecheckRejects
<1>12. jobs[j].status \in {"active", "removed"}
  BY <1>1 DEF JobInv, Held, Fetching, Job, JobStatus
<1> HIDE DEF h
<1>13. CASE InTable(j)
  <2>1. jobs[j].status = "active"
    BY <1>12, <1>13 DEF InTable, Inv, Orderly, TableInv
  <2>2. View(j) # "none" BY <1>1, <1>13, <2>1 DEF View
  <2>3. UNCHANGED due
    BY <1>1, <1>8, <1>10, <2>1 DEF due
  <2>4. Contract!Drop(h)
    BY <1>8, <1>9, <1>11, <2>2, <2>3 DEF Contract!Drop, Contract!Becomes, Contract!Clear
  <2> QED BY <1>8, <2>4 DEF Contract!Next, ContractStep
<1>14. CASE ~InTable(j)
  <2>1. UNCHANGED reported
    BY <1>8, <1>9, <1>14 DEF View, reported
  <2>2. CASE due'[h] = due[h]
    <3>1. UNCHANGED due BY <1>8, <2>2 DEF due
    <3>2. CASE UNCHANGED staging
      BY <2>1, <3>1, <3>2 DEF ContractStep
    <3>3. CASE staging' = [staging EXCEPT ![h] = FALSE]
      <4>1. Contract!Wipe(h)
        BY <2>1, <3>1, <3>3 DEF Contract!Wipe, Contract!Clear
      <4> QED BY <1>8, <4>1 DEF Contract!Next, ContractStep
    <3> QED BY <1>11, <3>2, <3>3
  <2>3. CASE due'[h] # due[h]
    <3>1. "complete" \in due[h] /\ due' = [due EXCEPT ![h] = @ \ {"complete"}]
      <4>1. due'[h] = owed[h] \union Coming(j)'
        BY <1>1, <1>8 DEF due
      <4>2. Coming(j)' = Coming(j) \ {"complete"} /\ "complete" \in Coming(j)
        BY <1>8, <1>10, <2>3, <4>1
      <4>3. "complete" \notin owed[h]
        BY <1>8, <2>3, <4>1, <4>2
      <4>4. due'[h] = due[h] \ {"complete"} /\ "complete" \in due[h]
        BY <1>8, <4>1, <4>2, <4>3
      <4> QED BY <1>1, <1>8, <4>1, <4>4
    <3>2. Contract!Take(h)
      BY <1>11, <2>1, <3>1 DEF Contract!Take, Contract!Clear
    <3> QED BY <1>8, <3>2 DEF Contract!Next, ContractStep
  <2> QED BY <2>2, <2>3
<1> QED BY <1>13, <1>14

LEMMA EnlistAllowed ==
  ASSUME Inv, NEW j \in Jobs, NEW h \in Gids, NEW again, Enlist(j, h, again)
  PROVE  ContractStep
<1>1. /\ ~Busy(j) /\ downloads[h] = NoJob /\ downloads' = [downloads EXCEPT ![h] = j]
      /\ UNCHANGED <<calls, owed>> /\ staging' = [staging EXCEPT ![h] = TRUE]
  BY DEF Enlist, Busy
<1>2. \A i \in Jobs \ {j}: jobs'[i] = jobs[i]
  BY JobsTyped DEF Enlist, SetJob
<1>3. jobs'[j].at = "precheck" /\ jobs'[j].status = "active"
  BY JobsTyped DEF Enlist, SetJob, Unused
<1>4. ASSUME NEW g \in Gids \ {h} PROVE Reported(g)' = Reported(g)
  <2>1. downloads'[g] = downloads[g] /\ downloads[g] \in (Jobs \ {j}) \union {NoJob}
    BY <1>1, JobsTyped DEF Busy, InTable
  <2> QED BY <1>2, <2>1 DEF Reported
<1>5. Reported(h) = "none" BY <1>1 DEF Reported
<1>6. Reported(h)' = "precheck"
  BY <1>1, <1>3, JobsTyped, NoJobAssumption DEF Reported
<1>7. ASSUME NEW g \in Gids PROVE Due(g)' = Due(g)
  <2>1. \A c \in Callers: calls'[c].at = "waking" /\ jobs'[calls'[c].job].gid = g
                            <=> calls[c].at = "waking" /\ jobs[calls[c].job].gid = g
    <3> SUFFICES ASSUME NEW c \in Callers, calls[c].at = "waking"
                 PROVE  jobs'[calls[c].job] = jobs[calls[c].job]
      BY <1>1
    <3>1. calls[c].job \in Jobs \ {j} BY <1>1, JobsTyped DEF CallInv, Busy, Called
    <3> QED BY <1>2, <3>1
  <2>2. ~MayComplete(j)' /\ ~MayComplete(j)
    BY <1>1, <1>3 DEF MayComplete, Busy
  <2>3. \A i \in Jobs: (MayComplete(i)' /\ jobs'[i].gid = g) <=> (MayComplete(i) /\ jobs[i].gid = g)
    BY <1>2, <2>2 DEF MayComplete, Alive
  <2> QED BY <1>1, <2>1, <2>3 DEF Due
<1>8. /\ reported[h] = "none" /\ reported' = [reported EXCEPT ![h] = "precheck"]
      /\ UNCHANGED due
  BY <1>4, <1>5, <1>6, <1>7 DEF reported, due
<1>9. Contract!Launch(h)
  BY <1>1, <1>8 DEF Contract!Launch, Contract!Becomes, Contract!Live
<1> QED BY <1>9 DEF Contract!Next, ContractStep

LEMMA ForgetAllowed ==
  ASSUME Inv, Inv', NEW h \in Gids, Forget(h) \/ DismissComplete(h)
  PROVE  ContractStep
<1>1. PICK j \in Jobs: downloads[h] = j /\ jobs[j].status \in {"error", "complete"}
  BY DEF Forget, DismissComplete, Found
<1>2. /\ downloads' = [downloads EXCEPT ![h] = NoJob]
      /\ UNCHANGED <<jobs, calls, owed, staging>>
  BY DEF Forget, DismissComplete
<1>3. Busy(j) /\ Only(j) /\ ~InTable(j)' /\ InTable(j)
  BY <1>1, <1>2, LosesEntry DEF Busy, Only, Looks
<1>4. View(j) # "none" /\ View(j)' = "none" BY <1>1, <1>3 DEF View
<1>5. Coming(j)' = Coming(j)
  BY <1>2 DEF Coming, MayComplete, Alive, In
<1> QED BY <1>2, <1>3, <1>4, <1>5, BusyStep

LEMMA AbortStaleAllowed ==
  ASSUME Inv, Inv', NEW h \in Gids, AbortStale(h)
  PROVE  ContractStep
<1>1. PICK j \in Jobs:
        /\ downloads[h] = j /\ Stalled(jobs[j])
        /\ \/ SetJob(j, [jobs[j] EXCEPT !.quiet = "lately"])
           \/ SetJob(j, [jobs[j] EXCEPT !.staleAbort = TRUE, !.cancelled = TRUE])
        /\ UNCHANGED <<downloads, calls, staging, owed>>
  BY DEF AbortStale
<1>2. /\ jobs[j] \in Job /\ InTable(j) /\ Busy(j) /\ jobs[j].status = "active"
  BY <1>1, JobsTyped DEF InTable, Busy, Stalled
<1>3. \A i \in Jobs \ {j}: jobs'[i] = jobs[i]
  BY <1>1, StaleInto
<1>4. /\ jobs'[j].gid = jobs[j].gid /\ jobs'[j].at = jobs[j].at
      /\ jobs'[j].status = jobs[j].status
  BY <1>1, StaleInto
<1>5. Only(j) BY <1>1, <1>3, <1>4 DEF Only, Looks
<1>6. View(j)' = View(j) BY <1>1, <1>4 DEF View, InTable
<1>7. Coming(j)' = Coming(j)
  BY <1>1, <1>2, <1>4 DEF Coming, MayComplete, In
<1> QED BY <1>1, <1>2, <1>5, <1>6, <1>7, BusyStep

LEMMA AroundAllowed ==
  ASSUME Inv, NEW h \in Gids, Wipe(h) \/ Take(h)
  PROVE  ContractStep
<1>1. UNCHANGED <<downloads, jobs, calls>>
  BY DEF Wipe, Take
<1>2. UNCHANGED reported
  BY <1>1 DEF reported, Reported
<1>3. CASE Wipe(h)
  <2>1. UNCHANGED due
    BY <1>1, <1>3 DEF Wipe, due, Due, MayComplete, Alive
  <2>2. Contract!Wipe(h)
    BY <1>2, <1>3, <2>1 DEF Wipe, Contract!Wipe, Contract!Clear
  <2> QED BY <2>2 DEF Contract!Next, ContractStep
<1>4. CASE Take(h)
  <2> DEFINE coming(g) == {o \in {"error"}: \E c \in Callers: calls[c].at = "waking"
                                               /\ jobs[calls[c].job].gid = g}
                  \union {o \in {"complete"}: \E j \in Jobs: MayComplete(j) /\ jobs[j].gid = g}
  <2>1. PICK o \in owed[h]: owed' = [owed EXCEPT ![h] = @ \ {o}] /\ UNCHANGED staging
    BY <1>4 DEF Take
  <2>2. \A g \in Gids: Due(g) = owed[g] \union coming(g) /\ Due(g)' = owed'[g] \union coming(g)
    BY <1>1 DEF Due, MayComplete, Alive
  <2> HIDE DEF coming
  <2>3. \A g \in Gids \ {h}: Due(g)' = Due(g)
    BY <2>1, <2>2, JobsTyped
  <2>4. owed'[h] = owed[h] \ {o}
    BY <2>1, JobsTyped
  <2>5. CASE o \in coming(h)
    <3>1. Due(h)' = Due(h) BY <2>1, <2>2, <2>4, <2>5
    <3>2. UNCHANGED due BY <2>3, <3>1 DEF due
    <3> QED BY <1>2, <2>1, <3>2 DEF ContractStep
  <2>6. CASE o \notin coming(h)
    <3>1. Due(h)' = Due(h) \ {o} /\ o \in Due(h) BY <2>1, <2>2, <2>4, <2>6
    <3>2. o \in due[h] /\ due' = [due EXCEPT ![h] = @ \ {o}]
      BY <2>3, <3>1 DEF due
    <3>3. Contract!Take(h)
      BY <1>2, <2>1, <3>2 DEF Contract!Take
    <3> QED BY <3>3 DEF Contract!Next, ContractStep
  <2> QED BY <2>5, <2>6
<1> QED BY <1>3, <1>4

\* The contract's variables in an engine without downloads.
LEMMA EmptyAppears ==
  ASSUME jobs = [j \in Jobs |-> Unused], downloads = [h \in Gids |-> NoJob],
         calls = [c \in Callers |-> IdleCall], owed = [h \in Gids |-> {}]
  PROVE  reported = [h \in Gids |-> "none"] /\ due = [h \in Gids |-> {}]
<1>1. \A h \in Gids: Reported(h) = "none"
  BY DEF Reported
<1>2. \A c \in Callers: calls[c].at # "waking" BY DEF IdleCall
<1>3. \A j \in Jobs: ~MayComplete(j) BY DEF MayComplete, Alive, Unused
<1>4. \A h \in Gids: Due(h) = {} BY <1>2, <1>3 DEF Due
<1> QED BY <1>1, <1>4 DEF reported, due

LEMMA RestartAllowed ==
  ASSUME Restart
  PROVE  ContractStep
<1>1. /\ jobs' = [j \in Jobs |-> Unused] /\ downloads' = [h \in Gids |-> NoJob]
      /\ calls' = [c \in Callers |-> IdleCall] /\ owed' = [h \in Gids |-> {}]
      /\ UNCHANGED staging
  BY DEF Restart
<1>2. \A h \in Gids: Reported(h)' = "none"
  BY <1>1 DEF Reported
<1>3. \A c \in Callers: calls'[c].at # "waking" BY <1>1 DEF IdleCall
<1>4. \A j \in Jobs: ~MayComplete(j)' BY <1>1 DEF MayComplete, Alive, Unused
<1>5. \A h \in Gids: Due(h)' = {} BY <1>1, <1>3, <1>4 DEF Due
<1>6. reported' = [h \in Gids |-> "none"] /\ due' = [h \in Gids |-> {}]
  BY <1>2, <1>5 DEF reported, due
<1> QED BY <1>1, <1>6 DEF Contract!Stop, Contract!Next, ContractStep

\* A step of caller c on job j that leaves the outcomes and the directories alone.
LEMMA CallAllowed ==
  ASSUME Inv, Inv', NEW c \in Callers, NEW j \in Jobs, NEW k \in CallStep, Busy(j),
         CallStepOn(c, j, k),
         \A i \in Jobs \ {j}: Looks(jobs'[i], jobs[i]),
         jobs'[j].gid = jobs[j].gid,
         \A h \in Gids: downloads'[h] = downloads[h] \/ (downloads[h] = j /\ downloads'[h] = NoJob)
  PROVE  /\ Only(j) /\ jobs[j].gid \in Gids
         /\ In(j, "waking")' <=> k = "waking"
<1>1. Only(j) BY DEF Only, CallStepOn, IdleCall
<1>2. jobs[j].gid \in Gids BY BusyAppears
<1>3. In(j, "waking")' <=> k = "waking" BY CallerIn
<1> QED BY <1>1, <1>2, <1>3

LEMMA CancelAllowed ==
  ASSUME Inv, Inv', Races = {}, NEW c \in Callers, NEW h \in Gids, CancelMarks(c, h)
  PROVE  ContractStep
<1>1. PICK j \in Jobs: /\ Calls(c, "cancel", h, j)
                       /\ Goes(c, "cancelling", j)
                       /\ SetJob(j, SetStatus(jobs[j], "removed", "none"))
                       /\ downloads' = [downloads EXCEPT ![h] = NoJob]
                       /\ UNCHANGED <<staging, owed>>
  BY DEF CancelMarks
<1>2. /\ CallStepOn(c, j, "cancelling") /\ Busy(j) /\ ~Called(j) /\ InTable(j)
  BY <1>1, CallBeginsAlone DEF CallStep
<1>3. /\ ~InTable(j)'
      /\ \A g \in Gids: downloads'[g] = downloads[g] \/ (downloads[g] = j /\ downloads'[g] = NoJob)
  BY <1>1, LosesEntry DEF Calls
<1>4. JobInv(j) /\ jobs[j] \in Job BY JobsTyped
<1> DEFINE q == SetStatus(jobs[j], "removed", "none")
<1>5. jobs' = [jobs EXCEPT ![j] = q] BY <1>1 DEF SetJob
<1>6. q.gid = jobs[j].gid /\ q.at = jobs[j].at /\ q.status = "removed"
      /\ q.cancelled = jobs[j].cancelled
  BY <1>4, StatusKeepsType DEF JobStatus, Phase
<1> HIDE DEF q
<1>7. jobs'[j] = q /\ \A i \in Jobs \ {j}: jobs'[i] = jobs[i]
  BY <1>5, JobsTyped
<1>8. Only(j) /\ ~In(j, "waking")'
  BY <1>2, <1>3, <1>6, <1>7, CallAllowed DEF CallStep, Looks
<1>9. ~In(j, "waking") BY <1>2 DEF In, Called
<1>10. jobs[j].status # "removed"
  BY <1>2 DEF InTable, Inv, Orderly, TableInv
<1>11. View(j)' = "none" /\ View(j) # "none"
  BY <1>2, <1>3 DEF View
<1>12. CASE MayComplete(j)'
  <2>1. Coming(j)' = Coming(j) \union {"complete"}
    BY <1>8, <1>9, <1>10, <1>12 DEF Coming, MayComplete
  <2>2. Alive(j) /\ (jobs[j].cancelled => jobs[j].at = "unpacking")
    BY <1>6, <1>7, <1>12 DEF MayComplete, Alive
  <2>3. jobs[j].status \in {"active", "paused"}
    BY <1>4, <1>9, <1>10, <2>2 DEF JobInv, Job, JobStatus, Held, Fetching
  <2>4. View(j) \in {"precheck", "active"}
    BY <1>2, <2>3 DEF View
  <2> QED BY <1>1, <1>2, <1>8, <1>11, <2>1, <2>4, BusyStep
<1>13. CASE ~MayComplete(j)'
  <2>1. Coming(j)' = Coming(j)
    BY <1>8, <1>9, <1>10, <1>13 DEF Coming, MayComplete
  <2> QED BY <1>1, <1>2, <1>8, <1>11, <2>1, BusyStep
<1> QED BY <1>12, <1>13

LEMMA HoldsAllowed ==
  ASSUME Inv, Inv', Races = {}, NEW c \in Callers, NEW h \in Gids,
         PauseMarks(c, h) \/ ResumeBegins(c, h)
  PROVE  ContractStep
<1>1. PICK j \in Jobs, k \in CallStep \ {"idle", "waking"}:
        /\ Calls(c, "pause", h, j) /\ jobs[j].status \in {"active", "paused"}
        /\ Goes(c, k, j)
        /\ \/ SetJob(j, [SetStatus(jobs[j], "paused", "none") EXCEPT !.held = TRUE])
           \/ UNCHANGED jobs
        /\ UNCHANGED <<downloads, staging, owed>>
  BY DEF PauseMarks, ResumeBegins, CallStep
<1>2. /\ CallStepOn(c, j, k) /\ Busy(j) /\ ~Called(j) /\ InTable(j)
  BY <1>1, CallBeginsAlone DEF CallStep
<1>3. jobs'[j].gid = jobs[j].gid /\ jobs'[j].at = jobs[j].at
      /\ jobs'[j].status \in {"active", "paused"}
      /\ \A i \in Jobs \ {j}: jobs'[i] = jobs[i]
  <2>1. CASE UNCHANGED jobs BY <1>1, <2>1
  <2>2. CASE SetJob(j, [SetStatus(jobs[j], "paused", "none") EXCEPT !.held = TRUE])
    <3> DEFINE r == SetStatus(jobs[j], "paused", "none")
               q == [r EXCEPT !.held = TRUE]
    <3>1. /\ r \in Job /\ r.gid = jobs[j].gid /\ r.at = jobs[j].at /\ r.status = "paused"
      BY StatusKeepsType, JobsTyped DEF JobStatus, Phase
    <3> HIDE DEF r
    <3>2. q.gid = jobs[j].gid /\ q.at = jobs[j].at /\ q.status = "paused"
      BY <3>1 DEF Job
    <3>3. jobs' = [jobs EXCEPT ![j] = q] BY <2>2 DEF SetJob, r
    <3> HIDE DEF q
    <3> QED BY <3>2, <3>3, JobsTyped
  <2> QED BY <1>1, <2>1, <2>2
<1>4. Only(j) /\ ~In(j, "waking")'
  BY <1>1, <1>2, <1>3, CallAllowed DEF Looks
<1>5. ~In(j, "waking") BY <1>2 DEF In, Called
<1>6. Coming(j)' = Coming(j)
  BY <1>1, <1>3, <1>4, <1>5 DEF Coming, MayComplete
<1>7. InTable(j)' BY <1>1, <1>2 DEF InTable
<1>8. View(j)' = View(j) BY <1>1, <1>2, <1>3, <1>7 DEF View
<1> QED BY <1>1, <1>2, <1>4, <1>6, <1>8, BusyStep

LEMMA CallEndsAllowed ==
  ASSUME Inv, Inv', NEW c \in Callers,
         CancelStops(c) \/ PauseCloses(c) \/ ResumeOpens(c)
  PROVE  ContractStep
<1>0. PICK j: j = calls[c].job OBVIOUS
<1> USE <1>0
<1>1. PICK k \in {"removing", "idle"}:
        /\ calls[c].at \in {"cancelling", "closing", "opening"}
        /\ \/ k # "idle" /\ Goes(c, k, j)
           \/ k = "idle" /\ Returns(c)
        /\ UNCHANGED <<downloads, staging, owed>>
  BY DEF CancelStops, PauseCloses, ResumeOpens
<1>2. /\ j \in Jobs /\ CallStepOn(c, j, k) /\ Busy(j) /\ CallInv(c)
      /\ jobs[j] \in Job /\ \A at: In(j, at) <=> calls[c].at = at
  BY <1>1, CallGoesOn DEF CallStep
<1>3. \/ \E shut \in BOOLEAN: SetJob(j, [jobs[j] EXCEPT !.shut = shut])
      \/ /\ SetJob(j, [jobs[j] EXCEPT !.cancelled = TRUE])
         /\ jobs[j].status = "removed"
  BY <1>2 DEF CancelStops, PauseCloses, ResumeOpens, CallInv
<1>4. /\ jobs'[j].gid = jobs[j].gid /\ jobs'[j].at = jobs[j].at
      /\ jobs'[j].status = jobs[j].status
      /\ \/ jobs'[j].cancelled = jobs[j].cancelled
         \/ jobs'[j].cancelled = TRUE /\ jobs[j].status = "removed"
      /\ \A i \in Jobs \ {j}: jobs'[i] = jobs[i]
  <2>1. ASSUME SetJob(j, [jobs[j] EXCEPT !.cancelled = TRUE])
        PROVE  /\ jobs'[j].gid = jobs[j].gid /\ jobs'[j].at = jobs[j].at
               /\ jobs'[j].status = jobs[j].status
               /\ jobs'[j].cancelled = TRUE
               /\ \A i \in Jobs \ {j}: jobs'[i] = jobs[i]
    BY <1>2, <2>1, JobsTyped DEF SetJob, Job
  <2>2. CASE \E shut \in BOOLEAN: SetJob(j, [jobs[j] EXCEPT !.shut = shut])
    <3>1. PICK shut \in BOOLEAN: SetJob(j, [jobs[j] EXCEPT !.shut = shut])
      BY <2>2
    <3>2. /\ jobs'[j].gid = jobs[j].gid /\ jobs'[j].at = jobs[j].at
          /\ jobs'[j].status = jobs[j].status
          /\ jobs'[j].cancelled = jobs[j].cancelled
          /\ \A i \in Jobs \ {j}: jobs'[i] = jobs[i]
      BY <1>2, <3>1, JobsTyped DEF SetJob, Job
    <3> QED BY <3>2
  <2>3. CASE SetJob(j, [jobs[j] EXCEPT !.cancelled = TRUE]) /\ jobs[j].status = "removed"
    BY <2>1, <2>3
  <2> QED BY <1>3, <2>2, <2>3
<1>5. Only(j) /\ ~In(j, "waking")' /\ ~In(j, "waking")
  BY <1>1, <1>2, <1>4, CallAllowed DEF Looks, CallStep
<1>6. View(j)' = View(j) BY <1>1, <1>4 DEF View, InTable
<1>7. MayComplete(j)' => MayComplete(j)
  BY <1>4 DEF MayComplete, Alive
<1>8. Coming(j)' = Coming(j) \/ Coming(j)' \union {"complete"} = Coming(j)
  BY <1>5, <1>7 DEF Coming
<1> QED BY <1>1, <1>2, <1>5, <1>6, <1>8, BusyStep

LEMMA CancelRemovesAllowed ==
  ASSUME Inv, Inv', NEW c \in Callers, CancelRemoves(c)
  PROVE  ContractStep
<1>0. PICK j: j = calls[c].job OBVIOUS
<1> USE <1>0
<1>00. PICK h: h = jobs[j].gid OBVIOUS
<1> USE <1>00
<1>1. /\ calls[c].at = "removing" /\ Returns(c)
      /\ staging' = [staging EXCEPT ![h] = FALSE]
      /\ UNCHANGED <<downloads, jobs, owed>>
  BY DEF CancelRemoves
<1>2. /\ j \in Jobs /\ CallStepOn(c, j, "idle") /\ Busy(j)
      /\ \A at: In(j, at) <=> calls[c].at = at
  BY <1>1, CallGoesOn DEF CallStep
<1>3. Only(j) /\ ~In(j, "waking")' /\ ~In(j, "waking")
  BY <1>1, <1>2, CallAllowed DEF Looks, CallStep
<1>4. View(j)' = View(j) BY <1>1 DEF View, InTable
<1>5. Coming(j)' = Coming(j)
  BY <1>1, <1>3 DEF Coming, MayComplete, Alive
<1>6. /\ h \in Gids
      /\ reported[h] = View(j) /\ reported' = [reported EXCEPT ![h] = View(j)']
      /\ due[h] = owed[h] \union Coming(j)
      /\ due' = [due EXCEPT ![h] = owed'[h] \union Coming(j)']
  BY <1>1, <1>2, <1>3, StepAppears
<1>7. UNCHANGED <<reported, due>>
  <2>1. reported' = [reported EXCEPT ![h] = reported[h]]
    BY <1>4, <1>6
  <2>2. due' = [due EXCEPT ![h] = due[h]]
    BY <1>1, <1>5, <1>6
  <2>3. reported' = reported BY <2>1 DEF reported
  <2>4. due' = due BY <2>2 DEF due
  <2> QED BY <2>3, <2>4
<1>8. Contract!Wipe(h)
  BY <1>1, <1>7 DEF Contract!Wipe, Contract!Clear
<1> QED BY <1>6, <1>8 DEF Contract!Next, ContractStep

LEMMA RevisitsAllowed ==
  ASSUME Inv, Inv', NEW c \in Callers, ResumeRevives(c) \/ ResumeLoses(c)
  PROVE  ContractStep
<1>0. PICK j: j = calls[c].job OBVIOUS
<1> USE <1>0
<1>1. PICK k \in {"opening", "waking"}:
        /\ calls[c].at \in {"reviving", "losing"} /\ Goes(c, k, j)
        /\ IF k = "opening" THEN Revisits(jobs[j].gid, "active", "downloading")
                            ELSE Revisits(jobs[j].gid, "error", "none")
        /\ UNCHANGED <<downloads, staging, owed>>
  BY DEF ResumeRevives, ResumeLoses
<1>2. /\ j \in Jobs /\ CallStepOn(c, j, k) /\ Busy(j) /\ CallInv(c) /\ JobInv(j)
      /\ jobs[j].at # "unused" /\ \A at: In(j, at) <=> calls[c].at = at
  BY <1>1, CallGoesOn DEF CallStep
<1>3. jobs[j].status = "paused" /\ InTable(j) /\ ~In(j, "waking")
  BY <1>1, <1>2 DEF CallInv
<1>4. /\ \A i \in Jobs \ {j}: Looks(jobs'[i], jobs[i])
      /\ \/ k = "opening" /\ jobs'[j].status = "active"
         \/ k = "waking" /\ jobs'[j].status = "error"
      /\ jobs'[j].gid = jobs[j].gid /\ jobs'[j].at = jobs[j].at
  BY <1>1, RevisitsInto DEF JobStatus, Phase
<1>5. InTable(j)' BY <1>1, <1>3 DEF InTable
<1>6. Only(j) /\ (In(j, "waking")' <=> k = "waking")
  BY <1>1, <1>2, <1>4, CallAllowed DEF CallStep
<1>7. ~MayComplete(j)' /\ ~MayComplete(j)
  BY <1>3, <1>4 DEF MayComplete
<1>8. jobs[j].at # "precheck"
  BY <1>2, <1>3 DEF JobInv, Alive, Held, Fetching
<1>9. CASE k = "opening"
  <2>1. View(j)' = View(j) BY <1>3, <1>4, <1>5, <1>9 DEF View
  <2>2. Coming(j)' = Coming(j) BY <1>3, <1>6, <1>7, <1>9 DEF Coming
  <2> QED BY <1>1, <1>2, <1>6, <2>1, <2>2, BusyStep
<1>10. CASE k = "waking"
  <2>1. View(j) = "active" /\ View(j)' = "failed"
    BY <1>3, <1>4, <1>5, <1>8, <1>10 DEF View
  <2>2. Coming(j)' = Coming(j) \union {"error"}
    BY <1>3, <1>6, <1>7, <1>10 DEF Coming
  <2> QED BY <1>1, <1>2, <1>6, <2>1, <2>2, BusyStep
<1> QED BY <1>9, <1>10

LEMMA ResumeWakesAllowed ==
  ASSUME Inv, Inv', NEW c \in Callers, ResumeWakes(c)
  PROVE  ContractStep
<1>0. PICK j: j = calls[c].job OBVIOUS
<1> USE <1>0
<1> DEFINE h == jobs[j].gid
           q == [jobs[j] EXCEPT !.cancelled = TRUE, !.shut = FALSE, !.told = @ + 1]
<1>1. /\ calls[c].at = "waking" /\ Returns(c)
      /\ jobs' = [jobs EXCEPT ![j] = q] /\ Fire(h, "error")
      /\ UNCHANGED <<downloads, staging>>
  BY DEF ResumeWakes, SetJob
<1>2. /\ j \in Jobs /\ CallStepOn(c, j, "idle") /\ Busy(j) /\ CallInv(c)
      /\ jobs[j] \in Job /\ \A at: In(j, at) <=> calls[c].at = at
  BY <1>1, CallGoesOn DEF CallStep
<1>3. jobs[j].status = "error" BY <1>1, <1>2 DEF CallInv
<1>4. q.gid = jobs[j].gid /\ q.at = jobs[j].at /\ q.status = jobs[j].status
  BY <1>2 DEF Job
<1> HIDE DEF q
<1>5. jobs'[j] = q /\ \A i \in Jobs \ {j}: jobs'[i] = jobs[i]
  BY <1>1, <1>2, JobsTyped
<1>6. Only(j) /\ h \in Gids /\ ~In(j, "waking")' /\ In(j, "waking")
  <2>1. /\ \A i \in Jobs \ {j}: Looks(jobs'[i], jobs[i])
        /\ jobs'[j].gid = jobs[j].gid /\ jobs'[j].at = jobs[j].at
    BY <1>4, <1>5 DEF Looks
  <2>2. "idle" \in CallStep BY DEF CallStep
  <2> QED BY <1>1, <1>2, <2>1, <2>2, CallAllowed
<1>7. View(j)' = View(j) BY <1>1, <1>4, <1>5 DEF View, InTable
<1>8. Coming(j) = {"error"} /\ Coming(j)' = {}
  <2>1. ~MayComplete(j) /\ ~MayComplete(j)'
    BY <1>3, <1>4, <1>5 DEF MayComplete
  <2> QED BY <1>6, <2>1 DEF Coming
<1>9. /\ owed'[h] = owed[h] \union {"error"}
      /\ \A g \in Gids \ {h}: owed'[g] = owed[g]
  BY <1>1, <1>6, JobsTyped DEF Fire
<1>10. owed'[h] \union Coming(j)' = owed[h] \union Coming(j)
  BY <1>8, <1>9
<1> QED BY <1>1, <1>2, <1>6, <1>7, <1>9, <1>10, BusyStep

-----------------------------------------------------------------------------

LEMMA NextAllowed ==
  ASSUME Races = {}, Inv, Inv', [Next]_vars
  PROVE  ContractStep
<1>1. ASSUME NEW j \in Jobs, Goroutine(j) \/ TimePasses(j) PROVE ContractStep
  BY <1>1, AdvancesAllowed, FailuresAllowed, SuccessAllowed, RejectsAllowed DEF Goroutine
<1>2. ASSUME NEW j \in Jobs, NEW h \in Gids, AddNZB(j, h) \/ RelaunchNZB(j, h)
      PROVE  ContractStep
  BY <1>2, EnlistAllowed DEF AddNZB, RelaunchNZB
<1>3. ASSUME NEW h \in Gids,
             Forget(h) \/ DismissComplete(h) \/ AbortStale(h) \/ Wipe(h) \/ Take(h)
      PROVE  ContractStep
  BY <1>3, ForgetAllowed, AbortStaleAllowed, AroundAllowed
<1>4. ASSUME NEW c \in Callers, CallEnds(c) PROVE ContractStep
  BY <1>4, CallEndsAllowed, CancelRemovesAllowed, RevisitsAllowed, ResumeWakesAllowed
  DEF CallEnds
<1>5. ASSUME NEW c \in Callers, NEW h \in Gids, CallBegins(c, h) PROVE ContractStep
  BY <1>5, CancelAllowed, HoldsAllowed DEF CallBegins
<1>6. CASE UNCHANGED vars
  BY <1>6 DEF vars, ContractStep, reported, due, Reported, Due, MayComplete, Alive
<1> QED BY <1>1, <1>2, <1>3, <1>4, <1>5, <1>6, RestartAllowed DEF Next

LEMMA InitAllowed == Init => Contract!Init
BY EmptyAppears DEF Init, Contract!Init

\* The engine does what DownloadEngine promises of it, GID by GID: as long as
\* calls, pauses and relaunches do not cross, a GID has one live download, every
\* download ends in one outcome at most, and none is announced that never ran.
THEOREM EngineKeepsContract == ASSUME Races = {} PROVE Spec => ContractKept
<1>1. Inv /\ Inv' /\ [Next]_vars => [Contract!Next]_<<reported, staging, due>>
  BY NextAllowed DEF ContractStep
<1> QED
  BY <1>1, InitAllowed, InvHolds, PTL
  DEF Spec, ContractKept, Contract!Spec, Contract!vars

=============================================================================
