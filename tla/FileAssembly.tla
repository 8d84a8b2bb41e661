---------------------------- MODULE FileAssembly ----------------------------
(***************************************************************************)
(* How one file of an NZB is put together, assembleFile and fetchSegmentAny *)
(* in internal/usenet/manager.go: a goroutine per article fetches its body  *)
(* through the connections of NntpPool, the writer takes the bodies in      *)
(* order, and both wait on one condition variable, so that no fetch runs    *)
(* more than a window ahead of the writer.                                  *)
(*                                                                         *)
(* gotMu is held between the check of a condition and the enlisting as one  *)
(* who waits on it ("dozing"): Broadcast does not take gotMu, and wakes     *)
(* only those enlisted.                                                    *)
(***************************************************************************)
EXTENDS NntpPool, Sequences

CONSTANTS
  Segments,   \* articles of the file
  MaxConc,    \* concurrencyBudget: connections of all servers
  Attempts,   \* maxSegmentAttemptsPerServer
  Races       \* bound lifted: "wakeup", a Broadcast between check and wait

ASSUME SegmentsAssumption == Segments \in Nat \ {0} /\ Users = 1..Segments
ASSUME MaxConcAssumption == MaxConc \in Nat \ {0}
ASSUME AttemptsAssumption == Attempts \in Nat \ {0}

VARIABLES
  number,     \* the number attribute of each article, in the order of segs
  covered,    \* the articles the resume sidecar has
  fetch,      \* the fetching goroutine of each article
  tries,      \* its attempts on this server
  got,        \* by number, the article whose body was fetched
  writer,     \* the assembling goroutine
  nextWrite,
  written,    \* the articles whose body is in the file
  groupErr,   \* the first error of the errgroup
  writeErr,
  waker,      \* the goroutine that broadcasts when the group is cancelled
  cancelled,  \* the context of the download
  shut        \* the pause gate

setup == <<number, covered>>
vars == <<poolVars, setup, fetch, tries, got, writer, nextWrite, written, groupErr,
          writeErr, waker, cancelled, shut>>

NoArticle == 0
FetchState == {"ready", "window", "dozing", "waiting", "gate", "fetching", "elsewhere",
               "arrived", "done"}
WriterState == {"seeding", "check", "dozing", "waiting", "writing", "failing", "rousing",
                "joining", "ended"}
Errors == {"none", "canceled", "failed"}

\* segs is sorted by number, and nothing makes the numbers distinct. A gap between
\* two numbers changes nothing.
Sorted == {n \in [Users -> Users]:
             n[1] = 1 /\ \A i \in Users \ {1}: n[i] \in {n[i - 1], n[i - 1] + 1}}

Init ==
  /\ PoolInit
  /\ number \in Sorted
  /\ covered \in SUBSET Users
  /\ 1 \in covered \/ \A i \in covered: number[i] # number[1]
  /\ fetch = [i \in Users |-> "ready"]
  /\ tries = [i \in Users |-> 0]
  /\ got = [n \in Users |-> NoArticle]
  /\ writer = "seeding" /\ nextWrite = 0 /\ written = {}
  /\ groupErr = "none" /\ writeErr = "none"
  /\ waker = "armed" /\ cancelled = FALSE /\ shut \in BOOLEAN

-----------------------------------------------------------------------------

Locked == writer = "dozing" \/ \E i \in Users: fetch[i] = "dozing"
FetchCancelled == writeErr # "none" /\ writer \in {"rousing", "joining", "ended"}
\* gctx
Done == cancelled \/ groupErr # "none" \/ FetchCancelled

\* Those enlisted look at their conditions again.
Woken(f) == [i \in Users |-> IF f[i] = "waiting" THEN "window" ELSE f[i]]
WokenWriter == IF writer = "waiting" THEN "check" ELSE writer

\* A Broadcast of one who does not hold gotMu.
MayFallBetween == "wakeup" \in Races \/ ~Locked

Moves(i, state) == fetch' = [fetch EXCEPT ![i] = state]

-----------------------------------------------------------------------------
(* The fetching goroutines *)

\* Mutant: one article more than the window is fetched.
InWindowInclusive(i) == i <= nextWrite + MaxConc + 1

\* Only an index the writer gets to within a window is fetched.
InWindow(i) == i <= nextWrite + MaxConc

\* The goroutine returns an error: the group keeps the first.
Returns(i, cause) ==
  /\ Moves(i, "done")
  /\ groupErr' = IF groupErr = "none" THEN cause ELSE groupErr

LooksAtWindow(i) ==
  /\ fetch[i] = "window" /\ ~Locked
  /\ IF Done THEN Returns(i, "canceled")
     ELSE Moves(i, IF InWindow(i) THEN "gate" ELSE "dozing") /\ UNCHANGED groupErr
  /\ UNCHANGED <<poolVars, setup, tries, got, writer, nextWrite, written, writeErr, waker,
                 cancelled, shut>>

FetcherWaits(i) ==
  /\ fetch[i] = "dozing"
  /\ Moves(i, "waiting")
  /\ UNCHANGED <<poolVars, setup, tries, got, writer, nextWrite, written, groupErr, writeErr,
                 waker, cancelled, shut>>

PassesGate(i) ==
  /\ fetch[i] = "gate" /\ ~shut /\ ~Done
  /\ Moves(i, "fetching")
  /\ UNCHANGED <<poolVars, setup, tries, got, writer, nextWrite, written, groupErr, writeErr,
                 waker, cancelled, shut>>

\* The context is looked at at the gate, before every attempt and while waiting.
Aborts(i) ==
  /\ Done
  /\ \/ fetch[i] \in {"gate", "elsewhere"} /\ UNCHANGED poolVars
     \/ /\ fetch[i] = "fetching"
        /\ \/ conn[i] = "none" /\ UNCHANGED poolVars
           \/ StopsAsking(i) \/ DialFails(i)
  /\ Returns(i, "canceled")
  /\ UNCHANGED <<setup, tries, got, writer, nextWrite, written, writeErr, waker, cancelled,
                 shut>>

\* A pool closed meanwhile is as good as a server that does not answer.
Attempt(i) ==
  /\ fetch[i] = "fetching" /\ conn[i] = "none" /\ ~Done
  /\ \/ Asks(i) /\ tries' = [tries EXCEPT ![i] = @ + 1] /\ UNCHANGED fetch
     \/ closed /\ Moves(i, "elsewhere") /\ UNCHANGED <<poolVars, tries>>
  /\ UNCHANGED <<setup, got, writer, nextWrite, written, groupErr, writeErr, waker, cancelled,
                 shut>>

GetsConnection(i) ==
  /\ TakesIdle(i) \/ TakesToken(i) \/ Connects(i)
  /\ UNCHANGED <<setup, fetch, tries, got, writer, nextWrite, written, groupErr, writeErr,
                 waker, cancelled, shut>>

\* Mutant: retried for ever.
BreaksForEver(i) ==
  /\ DialFails(i) \/ PutsBroken(i)
  /\ UNCHANGED fetch
  /\ UNCHANGED <<setup, tries, got, writer, nextWrite, written, groupErr, writeErr, waker,
                 cancelled, shut>>

\* A transport failure is retried on this server while attempts are left; a login
\* refused is not, nor is anything once the context is done.
Breaks(i) ==
  /\ DialFails(i) \/ PutsBroken(i)
  /\ \/ tries[i] < Attempts /\ ~Done /\ UNCHANGED fetch
     \/ (tries[i] = Attempts \/ Done \/ conn[i] = "dials") /\ Moves(i, "elsewhere")
  /\ UNCHANGED <<setup, tries, got, writer, nextWrite, written, groupErr, writeErr, waker,
                 cancelled, shut>>

\* The server does not have the article; the connection goes all the same.
IsMissing(i) ==
  /\ Puts(i, FALSE)
  /\ Moves(i, "elsewhere")
  /\ UNCHANGED <<setup, tries, got, writer, nextWrite, written, groupErr, writeErr, waker,
                 cancelled, shut>>

\* The body is read to its end whatever the context; WaitN may then notice.
BodyArrives(i) ==
  /\ Puts(i, TRUE)
  /\ \/ Moves(i, "arrived") /\ UNCHANGED groupErr
     \/ Done /\ Returns(i, "canceled")
  /\ UNCHANGED <<setup, tries, got, writer, nextWrite, written, writeErr, waker, cancelled,
                 shut>>

\* The servers that follow have it or have not.
OthersAnswer(i) ==
  /\ fetch[i] = "elsewhere"
  /\ \/ Moves(i, "arrived") /\ UNCHANGED groupErr
     \/ Returns(i, "failed")
  /\ UNCHANGED <<poolVars, setup, tries, got, writer, nextWrite, written, writeErr, waker,
                 cancelled, shut>>

\* Mutant: the writer is not told that a body has come.
StoresSilently(i) ==
  /\ fetch[i] = "arrived" /\ ~Locked
  /\ got' = [got EXCEPT ![number[i]] = i]
  /\ Moves(i, "done")
  /\ UNCHANGED <<poolVars, setup, tries, writer, nextWrite, written, groupErr, writeErr, waker,
                 cancelled, shut>>

\* got[seg.Number] = body, then Broadcast: whoever locks in between sees it.
Stores(i) ==
  /\ fetch[i] = "arrived" /\ ~Locked
  /\ got' = [got EXCEPT ![number[i]] = i]
  /\ fetch' = Woken([fetch EXCEPT ![i] = "done"])
  /\ writer' = WokenWriter
  /\ UNCHANGED <<poolVars, setup, tries, nextWrite, written, groupErr, writeErr, waker,
                 cancelled, shut>>

-----------------------------------------------------------------------------
(* The writer *)

\* The first article names the file, unless the sidecar does, and is not fetched
\* again; nor is any other of its number.
Spawns ==
  LET seed == 1 \notin covered
      skips(i) == i \in covered \/ (seed /\ number[i] = number[1]) IN
  /\ writer = "seeding" /\ ~shut
  /\ fetch' = [i \in Users |-> IF skips(i) THEN "done" ELSE "window"]
  /\ got' = IF seed THEN [got EXCEPT ![number[1]] = 1] ELSE got
  /\ writer' = "check"
  /\ UNCHANGED <<poolVars, setup, tries, nextWrite, written, groupErr, writeErr, waker,
                 cancelled, shut>>

\* Without the first article, or a file to write to, there is nothing to spawn.
SeedFails ==
  /\ writer = "seeding"
  /\ \/ cancelled /\ writeErr' = "canceled"
     \/ ~shut /\ writeErr' = "failed"
  /\ writer' = "ended" /\ fetch' = [i \in Users |-> "done"] /\ waker' = "gone"
  /\ UNCHANGED <<poolVars, setup, tries, got, nextWrite, written, groupErr, cancelled, shut>>

Current == nextWrite + 1
HasBody == got[number[Current]] # NoArticle
Checking == writer = "check" /\ ~Locked /\ nextWrite < Segments

\* An article of the sidecar, whose length is not missing.
Skips ==
  /\ Checking /\ Current \in covered
  /\ nextWrite' = Current /\ written' = written \union {Current}
  /\ fetch' = Woken(fetch)
  /\ UNCHANGED <<poolVars, setup, tries, got, writer, groupErr, writeErr, waker, cancelled, shut>>

\* Mutant: the body stays in the map.
TakesCopy ==
  /\ Checking /\ Current \notin covered /\ HasBody
  /\ nextWrite' = Current /\ written' = written \union {got[number[Current]]}
  /\ fetch' = Woken(fetch)
  /\ writer' = "writing"
  /\ UNCHANGED <<poolVars, setup, tries, got, groupErr, writeErr, waker, cancelled, shut>>

\* The body is taken, the window moves on, then comes WriteAt, at the offset the
\* body names.
Takes ==
  /\ Checking /\ Current \notin covered /\ HasBody
  /\ nextWrite' = Current /\ written' = written \union {got[number[Current]]}
  /\ got' = [got EXCEPT ![number[Current]] = NoArticle]
  /\ fetch' = Woken(fetch)
  /\ writer' = "writing"
  /\ UNCHANGED <<poolVars, setup, tries, groupErr, writeErr, waker, cancelled, shut>>

Writes ==
  /\ writer = "writing"
  /\ \/ writer' = "check" /\ UNCHANGED writeErr
     \/ writer' = "failing" /\ writeErr' = "failed"
  /\ UNCHANGED <<poolVars, setup, fetch, tries, got, nextWrite, written, groupErr, waker,
                 cancelled, shut>>

\* Of a body and a cancellation, the writer takes the body.
Misses ==
  /\ Checking /\ Current \notin covered /\ ~HasBody
  /\ IF Done THEN writer' = "failing" /\ writeErr' = "canceled"
             ELSE writer' = "dozing" /\ UNCHANGED writeErr
  /\ UNCHANGED <<poolVars, setup, fetch, tries, got, nextWrite, written, groupErr, waker,
                 cancelled, shut>>

WriterWaits ==
  /\ writer = "dozing"
  /\ writer' = "waiting"
  /\ UNCHANGED <<poolVars, setup, fetch, tries, got, nextWrite, written, groupErr, writeErr,
                 waker, cancelled, shut>>

\* An article of the sidecar with no length.
HasNoLength ==
  /\ Checking /\ Current \in covered
  /\ writer' = "failing" /\ writeErr' = "failed"
  /\ UNCHANGED <<poolVars, setup, fetch, tries, got, nextWrite, written, groupErr, waker,
                 cancelled, shut>>

\* fetchCancel
CancelsFetches ==
  /\ writer = "failing"
  /\ writer' = "rousing"
  /\ UNCHANGED <<poolVars, setup, fetch, tries, got, nextWrite, written, groupErr, writeErr,
                 waker, cancelled, shut>>

Rouses ==
  /\ writer = "rousing" /\ MayFallBetween
  /\ writer' = "joining"
  /\ fetch' = Woken(fetch)
  /\ UNCHANGED <<poolVars, setup, tries, got, nextWrite, written, groupErr, writeErr, waker,
                 cancelled, shut>>

\* The loop is over; g.Wait.
HasWritten ==
  /\ writer = "check" /\ nextWrite = Segments
  /\ writer' = "joining"
  /\ UNCHANGED <<poolVars, setup, fetch, tries, got, nextWrite, written, groupErr, writeErr,
                 waker, cancelled, shut>>

\* Mutant: the writer's error is reported, though it only masks another.
OutcomeMasked == IF writeErr # "none" THEN writeErr ELSE groupErr

\* What assembleFile returns.
Outcome ==
  IF writeErr = "none" \/ (writeErr = "canceled" /\ groupErr = "failed")
  THEN groupErr ELSE writeErr

\* g.Wait returns, and the file is cut to its size, which may fail.
Joins ==
  /\ writer = "joining" /\ \A i \in Users: fetch[i] = "done"
  /\ writer' = "ended" /\ waker' = "gone"
  /\ \/ UNCHANGED writeErr
     \/ Outcome = "none" /\ writeErr' = "failed"
  /\ UNCHANGED <<poolVars, setup, fetch, tries, got, nextWrite, written, groupErr, cancelled,
                 shut>>

-----------------------------------------------------------------------------
(* Around them *)

\* Mutant: the goroutine ends without a Broadcast.
WakerSleeps ==
  /\ waker = "armed" /\ writer \notin {"seeding", "ended"} /\ Done /\ MayFallBetween
  /\ waker' = "gone"
  /\ UNCHANGED <<poolVars, setup, fetch, tries, got, writer, nextWrite, written, groupErr,
                 writeErr, cancelled, shut>>

\* Once, when gctx is done.
Wakes ==
  /\ waker = "armed" /\ writer \notin {"seeding", "ended"} /\ Done /\ MayFallBetween
  /\ waker' = "gone"
  /\ fetch' = Woken(fetch) /\ writer' = WokenWriter
  /\ UNCHANGED <<poolVars, setup, tries, got, nextWrite, written, groupErr, writeErr,
                 cancelled, shut>>

\* Cancel, a stop of the process, or the stall detection.
Cancel ==
  /\ ~cancelled
  /\ cancelled' = TRUE
  /\ UNCHANGED <<poolVars, setup, fetch, tries, got, writer, nextWrite, written, groupErr,
                 writeErr, waker, shut>>

PauseOrResume ==
  /\ shut' = ~shut
  /\ UNCHANGED <<poolVars, setup, fetch, tries, got, writer, nextWrite, written, groupErr,
                 writeErr, waker, cancelled>>

PoolCloses ==
  /\ Close
  /\ UNCHANGED <<setup, fetch, tries, got, writer, nextWrite, written, groupErr, writeErr,
                 waker, cancelled, shut>>

-----------------------------------------------------------------------------

Fetcher(i) ==
  \/ LooksAtWindow(i) \/ FetcherWaits(i) \/ PassesGate(i) \/ Aborts(i) \/ Attempt(i)
  \/ GetsConnection(i) \/ Breaks(i) \/ IsMissing(i) \/ BodyArrives(i) \/ OthersAnswer(i)
  \/ Stores(i)

Writer ==
  \/ Spawns \/ SeedFails \/ Skips \/ Takes \/ Writes \/ Misses \/ WriterWaits \/ HasNoLength
  \/ CancelsFetches \/ Rouses \/ HasWritten \/ Joins

Next ==
  \/ \E i \in Users: Fetcher(i)
  \/ Writer \/ Wakes \/ Cancel \/ PauseOrResume \/ PoolCloses

\* Goroutines are scheduled, and dials and reads have deadlines; no one has to
\* cancel, pause or resume.
Fairness ==
  /\ \A i \in Users: WF_vars(Fetcher(i))
  /\ WF_vars(Writer) /\ WF_vars(Wakes)

Spec == Init /\ [][Next]_vars /\ Fairness

-----------------------------------------------------------------------------
(* Properties *)

\* Every variable has the values its declaration promises.
TypeOK ==
  /\ PoolTyped
  /\ number \in [Users -> Users] /\ covered \in SUBSET Users
  /\ fetch \in [Users -> FetchState] /\ tries \in [Users -> 0..Attempts]
  /\ got \in [Users -> 0..Segments]
  /\ writer \in WriterState /\ nextWrite \in 0..Segments /\ written \in SUBSET Users
  /\ groupErr \in Errors /\ writeErr \in Errors
  /\ waker \in {"armed", "gone"} /\ cancelled \in BOOLEAN /\ shut \in BOOLEAN

Distinct == \A i, k \in Users: number[i] = number[k] => i = k

\* Articles let through the window whose body has not come, or not been stored.
OnTheWay == {i \in Users: fetch[i] \in {"gate", "fetching", "elsewhere", "arrived"}}

Buffered == {i \in Users: got[number[i]] = i}

\* The body the writer has taken from the map and not yet written: the window has
\* moved past it.
InHand == IF writer = "writing" THEN {nextWrite} ELSE {}

\* Bodies in memory and fetches under way are never more than the window, and one
\* more while the writer is at WriteAt or markSegment: a slow disk or one late
\* article does not let the rest of the file pile up.
BodiesAreBounded ==
  Distinct =>
    Cardinality(OnTheWay \union Buffered \union InHand) <= MaxConc + Cardinality(InHand)

\* assembleFile: "the writer frees it after WriteAt+markSegment so peak buffered
\* bodies <= maxConc".
PeakIsWindow == Distinct => Cardinality(Buffered \union InHand) <= MaxConc

\* A file is reported whole only if every article is in it, in whatever order the
\* bodies came, whatever was resumed, even if numbers repeat.
OkIsWhole == writer = "ended" /\ Outcome = "none" => written = Users

\* "canceled" means that the download was cancelled, never that one article's
\* failure cancelled the rest: the pipeline resumes the first at once, and looks
\* for another release after the second.
CauseSurvives == writer = "ended" /\ Outcome = "canceled" => cancelled

\* abortStaleDownloads: "Cancel unblocks assembleFile (gotCond waits on gctx.Done)".
CancelUnblocks == cancelled ~> writer = "ended"

\* No one waits for ever: a cancelled assembly returns, and one that is not paused
\* for good returns, unless two articles share a number.
AssemblyEnds ==
  /\ cancelled ~> writer = "ended"
  /\ Distinct /\ <>[](~shut) => <>(writer = "ended")

=============================================================================
