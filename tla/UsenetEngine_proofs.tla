-------------------------- MODULE UsenetEngine_proofs --------------------------
(***************************************************************************)
(* Proofs about UsenetEngine, for any GIDs, jobs, callers, slots and        *)
(* articles.  The type invariant and the slot count hold whatever races are *)
(* let in; the rest, up to the engine's contract, where calls, pauses and   *)
(* relaunches do not cross (Races = {}).                                    *)
(***************************************************************************)
EXTENDS UsenetEngine, TLAPS, FiniteSetTheorems

\* A job that has not fetched everything yet has an article left.
Unfetched == {"precheck", "acquire", "blocked"} \union Fetching
LeftInv == \A j \in Jobs: jobs[j].at \in Unfetched => jobs[j].left > 0

Holders == {j \in Jobs: jobs[j].at \in Fetching}

SlotsInv == TypeOK /\ LeftInv /\ SlotsAreHeld

-----------------------------------------------------------------------------
(* Slots *)

LEMMA HoldersFinite == IsFiniteSet(Holders) /\ Cardinality(Holders) \in Nat
BY JobsAssumption, FS_Subset, FS_CardinalityType DEF Holders

LEMMA UnusedIsJob == Unused \in Job
BY ArticlesAssumption DEF Unused, Job, At, JobStatus, Phase, Quiet

\* Any number of jobs change, none with regard to the slots.
LEMMA SameHolders ==
  ASSUME SlotsAreHeld,
         \A i \in Jobs: /\ jobs'[i].at \in Fetching <=> jobs[i].at \in Fetching
                        /\ jobs'[i].at \in Unfetched => jobs'[i].left > 0,
         UNCHANGED slots
  PROVE  LeftInv' /\ SlotsAreHeld'
<1>1. Holders' = Holders BY DEF Holders
<1> QED BY <1>1 DEF LeftInv, SlotsAreHeld, Holders

\* One job becomes q, which holds a slot if it did.
LEMMA JobBecomes ==
  ASSUME SlotsInv, NEW j \in Jobs, NEW q \in Job, jobs' = [jobs EXCEPT ![j] = q],
         q.at \in Fetching <=> jobs[j].at \in Fetching,
         q.at \in Unfetched => q.left > 0,
         UNCHANGED slots
  PROVE  jobs' \in [Jobs -> Job] /\ LeftInv' /\ SlotsAreHeld'
<1>1. jobs' \in [Jobs -> Job] /\ \A i \in Jobs: jobs'[i] = IF i = j THEN q ELSE jobs[i]
  BY DEF SlotsInv, TypeOK
<1>2. LeftInv' /\ SlotsAreHeld'
  BY <1>1, SameHolders DEF SlotsInv, LeftInv
<1> QED BY <1>1, <1>2

LEMMA SlotTaken ==
  ASSUME SlotsInv, NEW j \in Jobs, jobs[j].at \notin Fetching,
         slots < MaxConcurrentDownloads, slots' = slots + 1,
         jobs'[j].at \in Fetching, jobs'[j].left > 0,
         \A i \in Jobs \ {j}: jobs'[i].at = jobs[i].at /\ jobs'[i].left = jobs[i].left
  PROVE  LeftInv' /\ SlotsAreHeld'
<1>1. Holders' = Holders \union {j} /\ j \notin Holders BY DEF Holders
<1>2. Cardinality(Holders') = Cardinality(Holders) + 1
  BY <1>1, HoldersFinite, FS_AddElement
<1>3. SlotsAreHeld'
  BY <1>2, SlotsAssumption DEF SlotsInv, SlotsAreHeld, Holders, TypeOK
<1> QED BY <1>3 DEF LeftInv, SlotsInv

LEMMA SlotFreed ==
  ASSUME SlotsInv, NEW j \in Jobs, jobs[j].at \in Fetching, slots' = slots - 1,
         jobs'[j].at \notin Unfetched,
         \A i \in Jobs \ {j}: jobs'[i].at = jobs[i].at /\ jobs'[i].left = jobs[i].left
  PROVE  LeftInv' /\ SlotsAreHeld' /\ slots' \in Nat
<1>1. Holders' = Holders \ {j} /\ j \in Holders BY DEF Holders, Unfetched
<1>2. Cardinality(Holders') = Cardinality(Holders) - 1
  BY <1>1, HoldersFinite, FS_RemoveElement
<1>3. Cardinality(Holders') \in Nat
  BY <1>1, HoldersFinite, FS_RemoveElement, FS_CardinalityType, FS_Subset
<1>4. SlotsAreHeld' /\ slots' \in Nat
  BY <1>2, <1>3, SlotsAssumption DEF SlotsInv, SlotsAreHeld, Holders, TypeOK
<1> QED BY <1>4 DEF LeftInv, SlotsInv

-----------------------------------------------------------------------------
(* Each step and the slots *)

\* One job becomes q, and it matters to no slot.
JobStep(j, q) ==
  /\ jobs' = [jobs EXCEPT ![j] = q]
  /\ q \in Job
  /\ q.at \in Fetching <=> jobs[j].at \in Fetching
  /\ q.at \in Unfetched => q.left > 0

RestOK ==
  /\ downloads \in [Gids -> Jobs \union {NoJob}]
  /\ staging \in [Gids -> BOOLEAN]
  /\ owed \in [Gids -> SUBSET {"error", "complete"}]
  /\ calls \in [Callers -> [at: CallStep, job: Jobs \union {NoJob}]]

LEMMA RestHolds == SlotsInv => RestOK
BY DEF SlotsInv, TypeOK, RestOK

LEMMA StepKeepsSlots ==
  ASSUME SlotsInv, NEW j \in Jobs, NEW q, JobStep(j, q), UNCHANGED slots, RestOK'
  PROVE  SlotsInv'
<1>1. jobs' \in [Jobs -> Job] /\ LeftInv' /\ SlotsAreHeld'
  BY JobBecomes DEF JobStep
<1> QED BY <1>1 DEF SlotsInv, TypeOK, RestOK

LEMMA SameJobsKeepSlots ==
  ASSUME SlotsInv, UNCHANGED <<jobs, slots>>, RestOK'
  PROVE  SlotsInv'
BY DEF SlotsInv, TypeOK, RestOK, LeftInv, SlotsAreHeld

LEMMA StartKeepsSlots ==
  ASSUME SlotsInv, NEW j \in Jobs, NEW h \in Gids, NEW again \in BOOLEAN, Enlist(j, h, again)
  PROVE  SlotsInv'
<1> DEFINE q == [Unused EXCEPT !.gid = h, !.at = "precheck", !.status = "active",
                               !.phase = "precheck", !.again = again]
<1>1. q \in Job
  BY UnusedIsJob DEF Job, At, JobStatus, Phase
<1>0. q.at = "precheck" /\ q.left > 0
  BY ArticlesAssumption DEF Unused
<1>2. jobs[j].at \notin Fetching
  BY DEF Enlist, Alive, Fetching
<1>3. jobs' = [jobs EXCEPT ![j] = q]
  BY DEF Enlist, SetJob
<1> HIDE DEF q
<1>4. JobStep(j, q)
  BY <1>0, <1>1, <1>2, <1>3 DEF JobStep, Fetching
<1>5. RestOK'
  BY RestHolds DEF RestOK, Enlist
<1> QED BY <1>4, <1>5, StepKeepsSlots DEF Enlist

LEMMA PrecheckKeepsSlots ==
  ASSUME SlotsInv, NEW j \in Jobs, PrecheckPasses(j) \/ PrecheckRejects(j)
  PROVE  SlotsInv'
<1>1. jobs[j] \in Job /\ jobs[j].at = "precheck" /\ jobs[j].left > 0
  BY DEF SlotsInv, TypeOK, LeftInv, PrecheckPasses, PrecheckRejects, Unfetched
<1>2. CASE PrecheckPasses(j)
  <2> DEFINE q == [jobs[j] EXCEPT !.at = "acquire"]
  <2>1. q \in Job /\ q.at = "acquire" /\ q.left > 0
    BY <1>1 DEF Job, At
  <2>2. jobs' = [jobs EXCEPT ![j] = q]
    BY <1>2 DEF PrecheckPasses, SetJob
  <2> HIDE DEF q
  <2>3. JobStep(j, q) BY <1>1, <2>1, <2>2 DEF JobStep, Fetching
  <2>4. RestOK' BY <1>2, RestHolds DEF RestOK, PrecheckPasses
  <2> QED BY <1>2, <2>3, <2>4, StepKeepsSlots DEF PrecheckPasses
<1>3. CASE PrecheckRejects(j)
  <2> DEFINE q == [jobs[j] EXCEPT !.at = "ended", !.cancelled = TRUE]
  <2>1. q \in Job /\ q.at = "ended"
    BY <1>1 DEF Job, At
  <2>2. jobs' = [jobs EXCEPT ![j] = q]
    BY <1>3 DEF PrecheckRejects, SetJob
  <2> HIDE DEF q
  <2>3. JobStep(j, q)
    BY <1>1, <2>1, <2>2 DEF JobStep, Fetching, Unfetched
  <2>4. RestOK'
    BY <1>1, <1>3, RestHolds DEF RestOK, PrecheckRejects, Job
  <2> QED BY <1>3, <2>3, <2>4, StepKeepsSlots DEF PrecheckRejects
<1> QED BY <1>2, <1>3

LEMMA StatusKeepsType ==
  ASSUME NEW dl \in Job, NEW status \in JobStatus, NEW phase \in Phase
  PROVE  LET q == SetStatus(dl, status, phase) IN
         /\ q \in Job /\ q.status = status /\ q.phase = phase /\ q.at = dl.at
         /\ q.left = dl.left /\ q.gid = dl.gid /\ q.shut = dl.shut
         /\ q.cancelled = dl.cancelled /\ q.staleAbort = dl.staleAbort
         /\ q.held = dl.held /\ q.told = dl.told
BY DEF SetStatus, Job

\* What Shows does to each job, field by field.
LEMMA ShowsFields ==
  ASSUME jobs \in [Jobs -> Job], NEW j \in Jobs, NEW at \in At, NEW phase \in Phase,
         NEW quiet \in Quiet, Shows(j, at, phase, quiet)
  PROVE  /\ jobs' \in [Jobs -> Job]
         /\ \A i \in Jobs:
              LET was == jobs[i]  now == jobs'[i] IN
              /\ now.gid = was.gid /\ now.status = was.status /\ now.shut = was.shut
              /\ now.cancelled = was.cancelled /\ now.staleAbort = was.staleAbort
              /\ now.left = was.left /\ now.held = was.held /\ now.told = was.told
              /\ now.at = IF i = j THEN at ELSE was.at
              /\ now.phase = IF i \in Found(jobs[j].gid, "active") THEN phase ELSE was.phase
<1> DEFINE shown == Found(jobs[j].gid, "active")
           moved(i) == IF i = j THEN [jobs[i] EXCEPT !.at = at] ELSE jobs[i]
           now(i) == IF i \in shown THEN [moved(i) EXCEPT !.phase = phase, !.quiet = quiet]
                     ELSE moved(i)
<1>1. jobs' = [i \in Jobs |-> now(i)]
  BY DEF Shows
<1> HIDE DEF shown
<1>2. ASSUME NEW i \in Jobs PROVE moved(i) \in Job /\ now(i) \in Job
  BY DEF Job
<1>3. \A i \in Jobs: jobs'[i] = now(i)
  BY <1>1
<1>4. jobs' \in [Jobs -> Job]
  BY <1>1, <1>2
<1>5. ASSUME NEW i \in Jobs
      PROVE  /\ now(i).gid = jobs[i].gid /\ now(i).status = jobs[i].status
             /\ now(i).shut = jobs[i].shut /\ now(i).cancelled = jobs[i].cancelled
             /\ now(i).staleAbort = jobs[i].staleAbort /\ now(i).left = jobs[i].left
             /\ now(i).held = jobs[i].held /\ now(i).told = jobs[i].told
             /\ now(i).at = IF i = j THEN at ELSE jobs[i].at
             /\ now(i).phase = IF i \in shown THEN phase ELSE jobs[i].phase
  BY DEF Job
<1> HIDE DEF now
<1> QED BY <1>3, <1>4, <1>5 DEF shown

LEMMA AcquireKeepsSlots ==
  ASSUME SlotsInv, NEW j \in Jobs, TakesSlot(j) \/ FindsNoSlot(j) \/ GivesUp(j)
  PROVE  SlotsInv'
<1>1. /\ jobs \in [Jobs -> Job] /\ jobs[j] \in Job /\ jobs[j].left > 0
      /\ jobs[j].at \in {"acquire", "blocked"}
  BY DEF SlotsInv, TypeOK, LeftInv, TakesSlot, FindsNoSlot, GivesUp, Unfetched
<1>2. RestOK'
  BY RestHolds DEF RestOK, TakesSlot, FindsNoSlot, GivesUp
<1>3. CASE TakesSlot(j)
  <2>1. Shows(j, "article", "downloading", "lately")
    BY <1>3 DEF TakesSlot
  <2>2. /\ jobs' \in [Jobs -> Job]
        /\ \A i \in Jobs: jobs'[i].left = jobs[i].left
        /\ \A i \in Jobs: jobs'[i].at = IF i = j THEN "article" ELSE jobs[i].at
    <3>1. "article" \in At /\ "downloading" \in Phase /\ "lately" \in Quiet
      BY DEF At, Fetching, Phase, Quiet
    <3> QED BY <1>1, <2>1, <3>1, ShowsFields
  <2>3. LeftInv' /\ SlotsAreHeld'
    BY <1>1, <1>3, <2>2, SlotTaken DEF TakesSlot, Fetching
  <2>4. slots' \in Nat
    BY <1>3 DEF TakesSlot, SlotsInv, TypeOK
  <2> QED BY <1>2, <2>2, <2>3, <2>4 DEF SlotsInv, TypeOK, RestOK
<1>4. CASE FindsNoSlot(j)
  <2>1. Shows(j, "blocked", "waiting", jobs[j].quiet) /\ UNCHANGED slots
    BY <1>4 DEF FindsNoSlot
  <2>2. /\ jobs' \in [Jobs -> Job]
        /\ \A i \in Jobs: jobs'[i].left = jobs[i].left
        /\ \A i \in Jobs: jobs'[i].at = IF i = j THEN "blocked" ELSE jobs[i].at
    BY <1>1, <2>1, ShowsFields DEF At, Job, Phase
  <2>3. LeftInv' /\ SlotsAreHeld'
    BY <1>1, <2>1, <2>2, SameHolders DEF Fetching, Unfetched, SlotsInv, LeftInv
  <2> QED BY <1>2, <2>1, <2>2, <2>3 DEF SlotsInv, TypeOK, RestOK
<1>5. CASE GivesUp(j)
  <2> DEFINE q == [jobs[j] EXCEPT !.at = "ended"]
  <2>1. q \in Job /\ q.at = "ended"
    BY <1>1 DEF Job, At
  <2>2. jobs' = [jobs EXCEPT ![j] = q]
    BY <1>5 DEF GivesUp, SetJob
  <2> HIDE DEF q
  <2>3. JobStep(j, q)
    BY <1>1, <2>1, <2>2 DEF JobStep, Fetching, Unfetched
  <2> QED BY <1>2, <1>5, <2>3, StepKeepsSlots DEF GivesUp
<1> QED BY <1>3, <1>4, <1>5

\* How a download ends that fails.
LEMMA FailsFields ==
  ASSUME jobs \in [Jobs -> Job], owed \in [Gids -> SUBSET {"error", "complete"}],
         NEW j \in Jobs, NEW cause, NEW spared, Fails(j, cause, spared)
  PROVE  /\ owed' \in [Gids -> SUBSET {"error", "complete"}]
         /\ \E q \in Job:
              /\ jobs' = [jobs EXCEPT ![j] = q]
              /\ q.at = "ended" /\ q.gid = jobs[j].gid /\ q.shut = jobs[j].shut
              /\ q.cancelled = jobs[j].cancelled /\ q.held = jobs[j].held
              /\ q.staleAbort = jobs[j].staleAbort
              /\ \/ /\ jobs[j].status \in spared
                    /\ q.status = jobs[j].status /\ q.phase = jobs[j].phase
                    /\ q.told = jobs[j].told /\ UNCHANGED owed
                 \/ /\ jobs[j].status \notin spared
                    /\ q.status = "error" /\ q.phase = "none"
                    /\ \/ q.told = jobs[j].told + 1 /\ Fire(jobs[j].gid, "error")
                       \/ q.told = jobs[j].told /\ UNCHANGED owed
<1>1. jobs[j] \in Job OBVIOUS
<1>2. CASE jobs[j].status \in spared
  <2> DEFINE q == [jobs[j] EXCEPT !.at = "ended"]
  <2>1. jobs' = [jobs EXCEPT ![j] = q] /\ UNCHANGED owed
    BY <1>2 DEF Fails, SetJob
  <2>2. /\ q \in Job /\ q.at = "ended" /\ q.gid = jobs[j].gid /\ q.shut = jobs[j].shut
        /\ q.cancelled = jobs[j].cancelled /\ q.held = jobs[j].held
        /\ q.staleAbort = jobs[j].staleAbort
        /\ q.status = jobs[j].status /\ q.phase = jobs[j].phase /\ q.told = jobs[j].told
    BY <1>1 DEF Job, At
  <2> HIDE DEF q
  <2> QED BY <1>2, <2>1, <2>2
<1>3. CASE jobs[j].status \notin spared
  <2> DEFINE tells == Tells(jobs[j], cause)
             r == SetStatus(jobs[j], "error", "none")
             told == IF tells THEN r.told + 1 ELSE r.told
             q == [r EXCEPT !.at = "ended", !.told = told]
  <2>1. /\ jobs' = [jobs EXCEPT ![j] = q]
        /\ IF tells THEN Fire(jobs[j].gid, "error") ELSE UNCHANGED owed
    BY <1>3 DEF Fails, SetJob
  <2>4. /\ r \in Job /\ r.gid = jobs[j].gid /\ r.shut = jobs[j].shut
        /\ r.cancelled = jobs[j].cancelled /\ r.held = jobs[j].held
        /\ r.staleAbort = jobs[j].staleAbort /\ r.told = jobs[j].told
        /\ r.status = "error" /\ r.phase = "none"
    BY <1>1 DEF Job, JobStatus, Phase, SetStatus
  <2> HIDE DEF r
  <2>5. told \in Nat /\ told = IF tells THEN jobs[j].told + 1 ELSE jobs[j].told
    BY <2>4 DEF Job
  <2> HIDE DEF tells, told
  <2>2. /\ q \in Job /\ q.at = "ended" /\ q.gid = jobs[j].gid /\ q.shut = jobs[j].shut
        /\ q.cancelled = jobs[j].cancelled /\ q.held = jobs[j].held
        /\ q.staleAbort = jobs[j].staleAbort
        /\ q.status = "error" /\ q.phase = "none"
        /\ q.told = told
    BY <2>4, <2>5 DEF Job, At
  <2> HIDE DEF q
  <2>3. owed' \in [Gids -> SUBSET {"error", "complete"}]
    BY <2>1 DEF Fire
  <2> QED BY <1>3, <2>1, <2>2, <2>3, <2>5
<1> QED BY <1>2, <1>3

\* What an article that arrives does to each job.
LEMMA ArrivesFields ==
  ASSUME jobs \in [Jobs -> Job], NEW j \in Jobs, ArticleArrives(j), jobs[j].left > 0
  PROVE  /\ jobs' \in [Jobs -> Job]
         /\ \A i \in Jobs:
              LET was == jobs[i]  now == jobs'[i] IN
              /\ now.gid = was.gid /\ now.status = was.status /\ now.shut = was.shut
              /\ now.cancelled = was.cancelled /\ now.staleAbort = was.staleAbort
              /\ now.held = was.held /\ now.told = was.told /\ now.phase = was.phase
              /\ now.at = IF i # j THEN was.at
                          ELSE IF jobs[j].left = 1 THEN "assembled" ELSE "article"
              /\ now.left = IF i = j THEN was.left - 1 ELSE was.left
<1> DEFINE step == IF jobs[j].left = 1 THEN "assembled" ELSE "article"
           less == jobs[j].left - 1
           half == [jobs EXCEPT ![j].at = step, ![j].left = @ - 1]
           moved(i) == IF i = j THEN [jobs[j] EXCEPT !.at = step, !.left = less] ELSE jobs[i]
           now(i) == IF downloads[jobs[j].gid] = i THEN [moved(i) EXCEPT !.quiet = "lately"]
                     ELSE moved(i)
<1>0. jobs[j].left \in 0..Articles
  BY DEF Job
<1>1. step \in At /\ less \in 0..Articles
  BY <1>0, ArticlesAssumption DEF At, Fetching
<1>2. jobs' = [i \in Jobs |-> IF downloads[jobs[j].gid] = i
                              THEN [half[i] EXCEPT !.quiet = "lately"] ELSE half[i]]
  BY DEF ArticleArrives
<1>3. ASSUME NEW i \in Jobs PROVE half[i] = moved(i)
  OBVIOUS
<1> HIDE DEF half
<1>4. jobs' = [i \in Jobs |-> now(i)]
  BY <1>2, <1>3
<1> HIDE DEF step, less
<1>5. ASSUME NEW i \in Jobs
      PROVE  /\ moved(i) \in Job
             /\ moved(i).gid = jobs[i].gid /\ moved(i).status = jobs[i].status
             /\ moved(i).shut = jobs[i].shut /\ moved(i).cancelled = jobs[i].cancelled
             /\ moved(i).staleAbort = jobs[i].staleAbort /\ moved(i).phase = jobs[i].phase
             /\ moved(i).held = jobs[i].held /\ moved(i).told = jobs[i].told
             /\ moved(i).at = IF i # j THEN jobs[i].at ELSE step
             /\ moved(i).left = IF i = j THEN less ELSE jobs[i].left
  BY <1>1 DEF Job
<1>6. \A i \in Jobs: jobs'[i] = now(i)
  BY <1>4
<1> HIDE DEF moved
<1>8. ASSUME NEW i \in Jobs
      PROVE  /\ now(i).gid = jobs[i].gid /\ now(i).status = jobs[i].status
             /\ now(i).shut = jobs[i].shut /\ now(i).cancelled = jobs[i].cancelled
             /\ now(i).staleAbort = jobs[i].staleAbort /\ now(i).phase = jobs[i].phase
             /\ now(i).held = jobs[i].held /\ now(i).told = jobs[i].told
             /\ now(i).at = IF i # j THEN jobs[i].at ELSE step
             /\ now(i).left = IF i = j THEN less ELSE jobs[i].left
             /\ now(i) \in Job
  BY <1>5 DEF Job, Quiet
<1>7. jobs' \in [Jobs -> Job]
  BY <1>4, <1>8
<1> HIDE DEF now
<1> QED BY <1>6, <1>7, <1>8 DEF step, less

LEMMA FetchKeepsSlots ==
  ASSUME SlotsInv, NEW j \in Jobs, BeginsArticle(j) \/ ArticleArrives(j) \/ FetchFails(j)
  PROVE  SlotsInv'
<1>1. /\ jobs \in [Jobs -> Job] /\ jobs[j] \in Job /\ jobs[j].left > 0
      /\ jobs[j].at \in Fetching
  BY DEF SlotsInv, TypeOK, LeftInv, BeginsArticle, ArticleArrives, FetchFails,
         Unfetched, Fetching
<1>2. CASE BeginsArticle(j)
  <2> DEFINE q == [jobs[j] EXCEPT !.at = "fetching"]
  <2>1. q \in Job /\ q.at = "fetching" /\ q.left = jobs[j].left
    BY <1>1 DEF Job, At, Fetching
  <2>2. jobs' = [jobs EXCEPT ![j] = q]
    BY <1>2 DEF BeginsArticle, SetJob
  <2> HIDE DEF q
  <2>3. JobStep(j, q) BY <1>1, <2>1, <2>2 DEF JobStep, Fetching
  <2>4. RestOK' BY <1>2, RestHolds DEF RestOK, BeginsArticle
  <2> QED BY <1>2, <2>3, <2>4, StepKeepsSlots DEF BeginsArticle
<1>3. CASE ArticleArrives(j)
  <2>1. /\ jobs' \in [Jobs -> Job]
        /\ \A i \in Jobs \ {j}: jobs'[i].at = jobs[i].at /\ jobs'[i].left = jobs[i].left
        /\ jobs'[j].at = IF jobs[j].left = 1 THEN "assembled" ELSE "article"
        /\ jobs'[j].left = jobs[j].left - 1
    BY <1>1, <1>3, ArrivesFields
  <2>2. LeftInv' /\ SlotsAreHeld' /\ slots' \in Nat
    <3>1. CASE jobs[j].left = 1
      BY <1>1, <1>3, <2>1, <3>1, SlotFreed DEF ArticleArrives, Unfetched, Fetching
    <3>2. CASE jobs[j].left # 1
      <4>1. jobs[j].left - 1 > 0
        BY <1>1, <3>2, ArticlesAssumption DEF Job
      <4>2. \A i \in Jobs: /\ jobs'[i].at \in Fetching <=> jobs[i].at \in Fetching
                           /\ jobs'[i].at \in Unfetched => jobs'[i].left > 0
        BY <1>1, <2>1, <3>2, <4>1 DEF Fetching, SlotsInv, LeftInv
      <4> QED
        BY <1>3, <3>2, <4>2, SameHolders DEF ArticleArrives, SlotsInv, TypeOK
    <3> QED BY <3>1, <3>2
  <2>3. RestOK' BY <1>3, RestHolds DEF RestOK, ArticleArrives
  <2> QED BY <2>1, <2>2, <2>3 DEF SlotsInv, TypeOK, RestOK
<1>4. CASE FetchFails(j)
  <2>1. PICK cause, given: Fails(j, cause, {"removed", "paused", "error"})
    BY <1>4 DEF FetchFails
  <2>2. PICK q \in Job: jobs' = [jobs EXCEPT ![j] = q] /\ q.at = "ended"
    BY <1>1, <2>1, FailsFields DEF SlotsInv, TypeOK
  <2>3. owed' \in [Gids -> SUBSET {"error", "complete"}]
    BY <1>1, <2>1, FailsFields DEF SlotsInv, TypeOK
  <2>4. /\ jobs' \in [Jobs -> Job] /\ jobs'[j].at \notin Unfetched
        /\ \A i \in Jobs \ {j}: jobs'[i].at = jobs[i].at /\ jobs'[i].left = jobs[i].left
    BY <1>1, <2>2 DEF Unfetched, Fetching
  <2>5. LeftInv' /\ SlotsAreHeld' /\ slots' \in Nat
    BY <1>1, <1>4, <2>4, SlotFreed DEF FetchFails
  <2>6. RestOK' BY <1>4, <2>3, RestHolds DEF RestOK, FetchFails
  <2> QED BY <2>4, <2>5, <2>6 DEF SlotsInv, TypeOK, RestOK
<1> QED BY <1>2, <1>3, <1>4

\* A step in which a download outside the fetching fails.
LEMMA FailingKeepsSlots ==
  ASSUME SlotsInv, NEW j \in Jobs, NEW cause, NEW spared, Fails(j, cause, spared),
         jobs[j].at \notin Fetching, UNCHANGED <<downloads, slots, staging, calls>>
  PROVE  SlotsInv'
<1>1. PICK q \in Job: jobs' = [jobs EXCEPT ![j] = q] /\ q.at = "ended"
  BY FailsFields DEF SlotsInv, TypeOK
<1>2. owed' \in [Gids -> SUBSET {"error", "complete"}]
  BY FailsFields DEF SlotsInv, TypeOK
<1>3. JobStep(j, q) BY <1>1 DEF JobStep, Fetching, Unfetched
<1>4. RestOK' BY <1>2, RestHolds DEF RestOK
<1> QED BY <1>3, <1>4, StepKeepsSlots

LEMMA FinalizeKeepsSlots ==
  ASSUME SlotsInv, NEW j \in Jobs,
         \/ RepairBegins(j) \/ UnpackBegins(j) \/ AbortsAtGate(j)
         \/ UnpackFails(j) \/ UnpackSucceeds(j)
  PROVE  SlotsInv'
<1>1. jobs[j] \in Job /\ jobs[j].at \in {"assembled", "repairing", "unpacking"}
  BY DEF SlotsInv, TypeOK, RepairBegins, UnpackBegins, AbortsAtGate, UnpackFails,
         UnpackSucceeds
<1>2. CASE RepairBegins(j) \/ UnpackBegins(j)
  <2> DEFINE rep == IF jobs[j].status = "active" THEN "repairing" ELSE jobs[j].phase
             unp == IF jobs[j].status = "active" THEN "unpacking" ELSE jobs[j].phase
             q == IF RepairBegins(j)
                  THEN [jobs[j] EXCEPT !.at = "repairing", !.phase = rep]
                  ELSE [jobs[j] EXCEPT !.at = "unpacking", !.phase = unp]
  <2>1. rep \in Phase /\ unp \in Phase
    BY <1>1 DEF Job, Phase
  <2>2. jobs' = [jobs EXCEPT ![j] = q]
    BY <1>2 DEF RepairBegins, UnpackBegins, SetJob
  <2> HIDE DEF rep, unp
  <2>3. q \in Job /\ q.at \in {"repairing", "unpacking"}
    BY <1>1, <2>1 DEF Job, At
  <2> HIDE DEF q
  <2>4. JobStep(j, q) BY <1>1, <2>2, <2>3 DEF JobStep, Fetching, Unfetched
  <2>5. RestOK' BY <1>2, RestHolds DEF RestOK, RepairBegins, UnpackBegins
  <2> QED BY <1>2, <2>4, <2>5, StepKeepsSlots DEF RepairBegins, UnpackBegins
<1>3. CASE AbortsAtGate(j) \/ UnpackFails(j)
  BY <1>1, <1>3, FailingKeepsSlots DEF AbortsAtGate, UnpackFails, Fetching
<1>4. CASE UnpackSucceeds(j)
  <2> DEFINE told == jobs[j].told + 1
             e == [jobs[j] EXCEPT !.at = "ended", !.told = told]
             q == IF jobs[j].status \in {"removed", "paused"} THEN e
                  ELSE SetStatus(e, "complete", "none")
  <2>1. jobs' = [jobs EXCEPT ![j] = q]
    BY <1>4 DEF UnpackSucceeds, SetJob
  <2>6. told \in Nat
    BY <1>1 DEF Job
  <2> HIDE DEF told
  <2>2. e \in Job /\ e.at = "ended"
    BY <1>1, <2>6 DEF Job, At
  <2> HIDE DEF e
  <2>3. q \in Job /\ q.at = "ended"
    BY <2>2, StatusKeepsType DEF JobStatus, Phase
  <2> HIDE DEF q
  <2>4. JobStep(j, q) BY <1>1, <2>1, <2>3 DEF JobStep, Fetching, Unfetched
  <2>5. RestOK' BY <1>4, RestHolds DEF RestOK, UnpackSucceeds, Fire
  <2> QED BY <1>4, <2>4, <2>5, StepKeepsSlots DEF UnpackSucceeds
<1> QED BY <1>2, <1>3, <1>4

LEMMA TableKeepsSlots ==
  ASSUME SlotsInv, NEW h \in Gids,
         Forget(h) \/ DismissComplete(h) \/ Wipe(h) \/ Take(h)
  PROVE  SlotsInv'
<1>1. RestOK'
  BY RestHolds DEF RestOK, Forget, DismissComplete, Wipe, Take
<1> QED BY <1>1, SameJobsKeepSlots DEF Forget, DismissComplete, Wipe, Take

\* A step that changes what the slots do not depend on in one job.
LEMMA TouchKeepsSlots ==
  ASSUME SlotsInv, NEW j \in Jobs \union {NoJob}, NEW q,
         jobs' = [jobs EXCEPT ![j] = q],
         j \in Jobs => q \in Job /\ q.at = jobs[j].at /\ q.left = jobs[j].left,
         UNCHANGED slots, RestOK'
  PROVE  SlotsInv'
<1>1. CASE j \in Jobs
  <2>1. JobStep(j, q)
    BY <1>1 DEF JobStep, SlotsInv, LeftInv
  <2> QED BY <1>1, <2>1, StepKeepsSlots
<1>2. CASE j = NoJob
  <2>1. UNCHANGED jobs
    BY <1>2, NoJobAssumption DEF SlotsInv, TypeOK
  <2> QED BY <2>1, SameJobsKeepSlots
<1> QED BY <1>1, <1>2

LEMMA AbortStaleKeepsSlots ==
  ASSUME SlotsInv, NEW h \in Gids, AbortStale(h)
  PROVE  SlotsInv'
<1>1. RestOK'
  BY RestHolds DEF RestOK, AbortStale
<1>2. ASSUME NEW i \in Jobs, UNCHANGED slots,
             SetJob(i, [jobs[i] EXCEPT !.quiet = "lately"])
      PROVE  SlotsInv'
  <2> DEFINE q == [jobs[i] EXCEPT !.quiet = "lately"]
  <2>1. q \in Job /\ q.at = jobs[i].at /\ q.left = jobs[i].left
    BY DEF SlotsInv, TypeOK, Job, Quiet
  <2>2. jobs' = [jobs EXCEPT ![i] = q] BY <1>2 DEF SetJob
  <2> HIDE DEF q
  <2> QED BY <1>1, <1>2, <2>1, <2>2, TouchKeepsSlots
<1>3. ASSUME NEW i \in Jobs, UNCHANGED slots,
             SetJob(i, [jobs[i] EXCEPT !.staleAbort = TRUE, !.cancelled = TRUE])
      PROVE  SlotsInv'
  <2> DEFINE q == [jobs[i] EXCEPT !.staleAbort = TRUE, !.cancelled = TRUE]
  <2>0. jobs[i] \in Job BY DEF SlotsInv, TypeOK
  <2>1. q \in Job /\ q.at = jobs[i].at /\ q.left = jobs[i].left
    BY <2>0 DEF Job
  <2>2. jobs' = [jobs EXCEPT ![i] = q] BY <1>3 DEF SetJob
  <2> HIDE DEF q
  <2> QED BY <1>1, <1>3, <2>1, <2>2, TouchKeepsSlots
<1> QED BY <1>2, <1>3 DEF AbortStale

LEMMA GoesKeepsType ==
  ASSUME calls \in [Callers -> [at: CallStep, job: Jobs \union {NoJob}]],
         NEW c, NEW at \in CallStep, NEW j \in Jobs \union {NoJob},
         Goes(c, at, j) \/ Returns(c)
  PROVE  calls' \in [Callers -> [at: CallStep, job: Jobs \union {NoJob}]]
<1>1. IdleCall \in [at: CallStep, job: Jobs \union {NoJob}]
  BY DEF IdleCall, CallStep
<1>2. [at |-> at, job |-> j] \in [at: CallStep, job: Jobs \union {NoJob}]
  OBVIOUS
<1> QED BY <1>1, <1>2 DEF Goes, Returns

LEMMA CallBeginsKeepsSlots ==
  ASSUME SlotsInv, NEW c \in Callers, NEW h \in Gids, CallBegins(c, h)
  PROVE  SlotsInv'
<1>1. CASE CancelMarks(c, h)
  <2>1. PICK j \in Jobs: /\ Goes(c, "cancelling", j)
                         /\ SetJob(j, SetStatus(jobs[j], "removed", "none"))
                         /\ downloads' = [downloads EXCEPT ![h] = NoJob]
                         /\ UNCHANGED <<slots, staging, owed>>
    BY <1>1 DEF CancelMarks
  <2>2. RestOK'
    BY <2>1, RestHolds, GoesKeepsType DEF RestOK, CallStep
  <2> DEFINE q == SetStatus(jobs[j], "removed", "none")
  <2>3. q \in Job /\ q.at = jobs[j].at /\ q.left = jobs[j].left
    BY StatusKeepsType DEF SlotsInv, TypeOK, JobStatus, Phase
  <2>4. jobs' = [jobs EXCEPT ![j] = q] BY <2>1 DEF SetJob
  <2> HIDE DEF q
  <2> QED BY <2>1, <2>2, <2>3, <2>4, TouchKeepsSlots
<1>2. CASE PauseMarks(c, h)
  <2>1. PICK j \in Jobs:
          /\ Goes(c, "closing", j)
          /\ SetJob(j, [SetStatus(jobs[j], "paused", "none") EXCEPT !.held = TRUE])
          /\ UNCHANGED <<downloads, slots, staging, owed>>
    BY <1>2 DEF PauseMarks
  <2>2. RestOK'
    BY <2>1, RestHolds, GoesKeepsType DEF RestOK, CallStep
  <2> DEFINE r == SetStatus(jobs[j], "paused", "none")
             q == [r EXCEPT !.held = TRUE]
  <2>3. jobs' = [jobs EXCEPT ![j] = q] BY <2>1 DEF SetJob
  <2>4. r \in Job /\ r.at = jobs[j].at /\ r.left = jobs[j].left
    BY StatusKeepsType DEF SlotsInv, TypeOK, JobStatus, Phase
  <2> HIDE DEF r
  <2>5. q \in Job /\ q.at = jobs[j].at /\ q.left = jobs[j].left
    BY <2>4 DEF Job
  <2> HIDE DEF q
  <2> QED BY <2>1, <2>2, <2>3, <2>5, TouchKeepsSlots
<1>3. CASE ResumeBegins(c, h)
  <2>1. PICK j \in Jobs: /\ Goes(c, IF staging[h] THEN "reviving" ELSE "losing", j)
                         /\ UNCHANGED <<downloads, jobs, slots, staging, owed>>
    BY <1>3 DEF ResumeBegins
  <2>2. RestOK'
    BY <2>1, RestHolds, GoesKeepsType DEF RestOK, CallStep
  <2> QED BY <2>1, <2>2, SameJobsKeepSlots
<1> QED BY <1>1, <1>2, <1>3 DEF CallBegins

\* What a Resume that looks the GID up again does to each job.
LEMMA RevisitsFields ==
  ASSUME jobs \in [Jobs -> Job], NEW h, NEW status \in JobStatus, NEW phase \in Phase,
         Revisits(h, status, phase)
  PROVE  /\ jobs' \in [Jobs -> Job]
         /\ \A i \in Jobs:
              LET was == jobs[i]  now == jobs'[i] IN
              /\ now.gid = was.gid /\ now.at = was.at /\ now.shut = was.shut
              /\ now.cancelled = was.cancelled /\ now.staleAbort = was.staleAbort
              /\ now.left = was.left /\ now.held = was.held /\ now.told = was.told
              /\ now.status = IF i \in Found(h, "paused") THEN status ELSE was.status
              /\ now.phase = IF i \in Found(h, "paused") THEN phase ELSE was.phase
<1>1. \A i \in Jobs: jobs'[i] = IF i \in Found(h, "paused")
                                THEN SetStatus(jobs[i], status, phase) ELSE jobs[i]
  BY DEF Revisits
<1>2. jobs' \in [Jobs -> Job]
  BY StatusKeepsType DEF Revisits
<1> QED BY <1>1, <1>2, StatusKeepsType

LEMMA CallEndsKeepsSlots ==
  ASSUME SlotsInv, NEW c \in Callers, CallEnds(c)
  PROVE  SlotsInv'
<1> DEFINE j == calls[c].job
<1>1. j \in Jobs \union {NoJob} /\ (j \in Jobs => jobs[j] \in Job)
  BY DEF SlotsInv, TypeOK
<1> HIDE DEF j
<1>2. RestOK'
  <2>1. calls' \in [Callers -> [at: CallStep, job: Jobs \union {NoJob}]]
    BY <1>1, GoesKeepsType
    DEF j, CallEnds, CancelStops, CancelRemoves, PauseCloses, ResumeRevives, ResumeOpens,
        ResumeLoses, ResumeWakes, CallStep, SlotsInv, TypeOK
  <2>2. owed' \in [Gids -> SUBSET {"error", "complete"}]
    <3>1. CASE ResumeWakes(c)
      BY <3>1 DEF ResumeWakes, Fire, SlotsInv, TypeOK
    <3>2. CASE ~ResumeWakes(c)
      BY <3>2 DEF CallEnds, CancelStops, CancelRemoves, PauseCloses, ResumeRevives,
                  ResumeOpens, ResumeLoses, SlotsInv, TypeOK
    <3> QED BY <3>1, <3>2
  <2>3. downloads' = downloads /\ staging' \in [Gids -> BOOLEAN]
    <3>1. CASE CancelRemoves(c)
      BY <3>1 DEF CancelRemoves, SlotsInv, TypeOK
    <3>2. CASE ~CancelRemoves(c)
      BY <3>2 DEF CallEnds, CancelStops, PauseCloses, ResumeRevives, ResumeOpens,
                  ResumeLoses, ResumeWakes, SlotsInv, TypeOK
    <3> QED BY <3>1, <3>2
  <2> QED
    BY <2>1, <2>2, <2>3, RestHolds DEF RestOK
<1>3. CASE CancelStops(c) \/ PauseCloses(c) \/ ResumeOpens(c) \/ ResumeWakes(c)
  <2> DEFINE told == jobs[j].told + 1
             q == IF CancelStops(c) THEN [jobs[j] EXCEPT !.cancelled = TRUE]
                  ELSE IF PauseCloses(c) THEN [jobs[j] EXCEPT !.shut = TRUE]
                  ELSE IF ResumeOpens(c) THEN [jobs[j] EXCEPT !.shut = FALSE]
                  ELSE [jobs[j] EXCEPT !.cancelled = TRUE, !.shut = FALSE, !.told = told]
  <2>1. jobs' = [jobs EXCEPT ![j] = q] /\ UNCHANGED slots
    BY <1>3 DEF j, CancelStops, PauseCloses, ResumeOpens, ResumeWakes, SetJob
  <2>2. j \in Jobs => told \in Nat
    BY <1>1 DEF Job
  <2> HIDE DEF told
  <2>3. j \in Jobs => q \in Job /\ q.at = jobs[j].at /\ q.left = jobs[j].left
    BY <1>1, <2>2 DEF Job
  <2> HIDE DEF q
  <2> QED BY <1>1, <1>2, <2>1, <2>3, TouchKeepsSlots
<1>4. CASE ResumeRevives(c) \/ ResumeLoses(c)
  <2>1. /\ jobs' \in [Jobs -> Job]
        /\ \A i \in Jobs: jobs'[i].at = jobs[i].at /\ jobs'[i].left = jobs[i].left
    <3>1. jobs \in [Jobs -> Job] BY DEF SlotsInv, TypeOK
    <3>2. CASE ResumeRevives(c)
      <4>1. Revisits(jobs[j].gid, "active", "downloading") BY <3>2 DEF ResumeRevives, j
      <4>2. "active" \in JobStatus /\ "downloading" \in Phase BY DEF JobStatus, Phase
      <4> QED BY <3>1, <4>1, <4>2, RevisitsFields
    <3>3. CASE ResumeLoses(c)
      <4>1. Revisits(jobs[j].gid, "error", "none") BY <3>3 DEF ResumeLoses, j
      <4>2. "error" \in JobStatus /\ "none" \in Phase BY DEF JobStatus, Phase
      <4> QED BY <3>1, <4>1, <4>2, RevisitsFields
    <3> QED BY <1>4, <3>2, <3>3
  <2>2. LeftInv' /\ SlotsAreHeld' /\ UNCHANGED slots
    BY <1>4, <2>1, SameHolders DEF ResumeRevives, ResumeLoses, SlotsInv, LeftInv
  <2> QED BY <1>2, <2>1, <2>2 DEF SlotsInv, TypeOK, RestOK
<1>5. CASE CancelRemoves(c)
  BY <1>2, <1>5, SameJobsKeepSlots DEF CancelRemoves
<1> QED BY <1>3, <1>4, <1>5 DEF CallEnds

LEMMA EmptyKeepsSlots ==
  ASSUME jobs = [j \in Jobs |-> Unused], slots = 0, RestOK
  PROVE  SlotsInv
<1>1. jobs \in [Jobs -> Job] BY UnusedIsJob
<1>2. \A j \in Jobs: jobs[j].at = "unused" BY DEF Unused
<1>3. Holders = {} BY <1>2 DEF Holders, Fetching
<1>4. SlotsAreHeld
  BY <1>3, FS_EmptySet, SlotsAssumption DEF SlotsAreHeld, Holders
<1> QED BY <1>1, <1>2, <1>4 DEF SlotsInv, TypeOK, LeftInv, RestOK, Unfetched, Fetching

LEMMA InitSlots == Init => SlotsInv
<1> SUFFICES ASSUME Init PROVE SlotsInv OBVIOUS
<1>1. RestOK BY DEF Init, RestOK, IdleCall, CallStep
<1> QED BY <1>1, EmptyKeepsSlots DEF Init

LEMMA NextKeepsSlots == SlotsInv /\ [Next]_vars => SlotsInv'
<1> SUFFICES ASSUME SlotsInv, [Next]_vars PROVE SlotsInv' OBVIOUS
<1>1. ASSUME NEW j \in Jobs, Goroutine(j) PROVE SlotsInv'
  BY <1>1, PrecheckKeepsSlots, AcquireKeepsSlots, FetchKeepsSlots, FinalizeKeepsSlots
  DEF Goroutine
<1>2. ASSUME NEW j \in Jobs, NEW h \in Gids, AddNZB(j, h) \/ RelaunchNZB(j, h)
      PROVE  SlotsInv'
  BY <1>2, StartKeepsSlots DEF AddNZB, RelaunchNZB
<1>3. ASSUME NEW j \in Jobs, TimePasses(j) PROVE SlotsInv'
  <2>1. RestOK'
    BY <1>3, RestHolds DEF RestOK, TimePasses
  <2> DEFINE q == [jobs[j] EXCEPT !.quiet = "long"]
  <2>2. q \in Job /\ q.at = jobs[j].at /\ q.left = jobs[j].left
    BY DEF SlotsInv, TypeOK, Job, Quiet
  <2>3. jobs' = [jobs EXCEPT ![j] = q] BY <1>3 DEF TimePasses, SetJob
  <2> HIDE DEF q
  <2> QED BY <1>3, <2>1, <2>2, <2>3, TouchKeepsSlots DEF TimePasses
<1>5. CASE Restart
  <2>1. RestOK' BY <1>5, RestHolds DEF RestOK, Restart, IdleCall, CallStep
  <2>2. (jobs = [j \in Jobs |-> Unused])' /\ (slots = 0)' BY <1>5 DEF Restart
  <2> QED BY <2>1, <2>2, EmptyKeepsSlots, PTL
<1>6. CASE UNCHANGED vars
  BY <1>6, RestHolds, SameJobsKeepSlots DEF vars, RestOK
<1> QED
  BY <1>1, <1>2, <1>3, <1>5, <1>6, TableKeepsSlots, AbortStaleKeepsSlots,
     CallEndsKeepsSlots, CallBeginsKeepsSlots DEF Next

LEMMA SlotsInvHolds == Spec => []SlotsInv
BY InitSlots, NextKeepsSlots, PTL DEF Spec

\* Table, jobs, slots, directories, outcomes and calls are well formed, whatever
\* races the bounds let in.
THEOREM TypeCorrect == Spec => []TypeOK
BY SlotsInvHolds, PTL DEF SlotsInv

\* The semaphore is never more taken than it has slots, and each slot taken
\* belongs to a goroutine that fetches, whatever races the bounds let in.
THEOREM SlotsHeld == Spec => []SlotsAreHeld
BY SlotsInvHolds, PTL DEF SlotsInv

=============================================================================
