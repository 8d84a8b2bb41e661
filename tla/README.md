# Verification of SAK Media Server

TLA+ models of SAK Media Server (`src/`, a Go program with an embedded web front
end), the TLC runs that check them and the TLAPS proofs about them.

The program takes requests for films, series and scenes, searches usenet and
torrent indexers, downloads what it finds, imports it, and renames the files of
a library. What makes it hard is not any one algorithm. It is that many
goroutines work on the same few tables, each from a list it read earlier, that
every change of state is several SQL statements and file operations one after
the other, and that the process may stop between any two of them. The models are
of that:

- `GrabLifecycle`: a request and its downloads, from the click to the import;
- `UsenetEngine`: the downloads themselves, and `DownloadEngine`, what the
  engine promises to the pipeline, which ties the two together;
- `FileAssembly` over `NntpPool`: how one file of a download is fetched;
- `ProposalQueue`: the queue of proposed renames, between scans and clicks;
- `MovieRename`: a file and its place in the library, applied and undone.

`PROJECT.json` holds the lists a tool can use: components, runs, the mutant of
the code each property catches, the source lines of every definition, the
findings, the hazards and the theorems.

## Inventory

Paths are under `src/`. The last column names what is modelled where.

| Component | State | Operations | Made correct by | Modelled |
|---|---|---|---|---|
| grabs store, `internal/grabs` | table `grabs`: status, download_gid, retry_after, hold_until, transport_retry_count, tried_release_keys, origin | inserts; UPDATEs by id, most without a condition on the old status; the due queries | a parked row is read by exactly one due query; counters and GIDs are cleared together | `GrabStore` |
| usenet retry loop, `internal/api/usenetretry.go`, `usenettransport.go`, `usenetcontent.go`, `useneterror.go`, `downloadreconcile.go` | the list of the pass | a daily cycle: reconcile, resume, failure sweep, retry, hold refresh, release, hygiene; the error callback | no download lost, doubled or wiped; each failure costs one rung; what is final stays | `GrabLifecycle` |
| auto-grab drain, `internal/api/autograbdrain.go`, `autograb_shared.go`, `autograb_slots.go` | the list of the pass, slots | a minute cycle: clicked releases, resumes, alternates; `RunAutoGrab` | as above, and due rows are served | `GrabLifecycle` |
| pre-release holds, `internal/api/prerelease.go`, `calendar_prerelease.go`, `moviereleasegate.go` | hold_until and its far-future sentinel | gate, refresh, release, superseding, the Calendar click | a held row comes back | `GrabLifecycle` |
| requests, `internal/api/search.go`, `requests_promote.go`, monitors, `downloads.go` | – | create, Promote, Cancel, un-monitor | a request is not lost | `GrabLifecycle` |
| import, `internal/api/import.go` | – | the completion callback | imported once, terminal | `GrabLifecycle` (outcomes) |
| park hygiene, `internal/api/parkhygiene.go` | – | transport rows overdue by six hours; census | rows nobody reads are repaired | `GrabLifecycle` (partly) |
| usenet engine, `internal/usenet/manager.go`, `pause.go` | jobs in memory, staging directories, body slots, pause gates | AddNZB, RelaunchNZB, precheck, start, fail, complete, dismiss, Forget, Cancel, Pause, Resume, stall watchdog | GIDs unique; an outcome told once; no slot lost; silence noticed | `UsenetEngine`, `DownloadEngine` |
| fetch and assembly, `internal/usenet/manager.go` (`assembleFile`, `fetchSegmentAny`), `pool.go` | bodies by number, the writer's position, an errgroup, a condition variable; idle connections and tokens | window, gate, fetch, retry, write, fail, cancel; get, dial, put, close | the file is whole; memory and sockets bounded; nobody waits for ever | `FileAssembly`, `NntpPool` |
| startup, `cmd/sakms/main.go` | – | server first, then reconcile, resume, hygiene, then the loops | boot undoes nothing | `GrabLifecycle` |
| proposals and apply gate, `internal/proposals` | table `proposals`, gate counter, deferred mark | ReplacePending, apply, dismiss, repick, move, delete, restore, the gate's hook | one live row per path; nothing applied is deleted; a deferred scan is made up for | `ProposalQueue` |
| proposal handlers, watch folders, scan handlers, `internal/api` | timers, single-flight hub | apply, batch, dismiss, repick, undo, scans, debounce, poll | an event leads to a scan | `ProposalQueue` |
| movie rename, `internal/rename`, `internal/place` | disk | scan, catalogue, apply, fold-in, promotion | no file lost; disk and library agree | `MovieRename` |
| rename undo, `internal/rename/undo_*.go`, `internal/api/rename_undo.go` | table `rename_undo_archive` | archive, evict, undo | takes back its own apply only | `MovieRename` |
| library, `internal/library` | `library_items`, `library_item_files` | upsert, primary file, restore, delete, known paths | a title has its file | `MovieRename` (one film) |
| scan scheduling, `internal/scanschedule` | running flag | tick, run now | a scan comes again | `ProposalQueue` (the rename scan) |
| resume sidecar, precheck, par2 and unrar, `internal/usenet` | files beside the download | – | – | as outcomes |
| dedup, purge | – | delete duplicates | never the last copy | no: heuristics over the same queue |
| nodes, `internal/nodes`, `cmd/sakms-node` | sessions, job table | dispatch, results, pairing | a job ends once | no |
| section lock, `internal/sectionlock` | PIN, lockout counters, tickets | try, lock out, expire | counters bound the tries | no |
| other periodic scans, `dedupscan`, `netscan`, `recheck`, `discoverrefresh` | running flags | tick, stop | one at a time | no |
| torrents, `internal/downloader` | aria2's jobs | RPC | as usenet | no: state is aria2's |
| playback, throttling, identification, discovery and feeds, settings and webhooks, authentication, database, front end | – | – | – | no: I/O, text heuristics, or no state that concurrent actors share |

How they interact. An HTTP request, a monitor or a loop searches and calls
AddNZB; the download runs a precheck and starts; only then is the GID written to
the row. The engine calls back on the end of a download, and the callback looks
the row up by GID. The loops list rows and act on them one at a time, minutes
later. Reconcile repairs rows whose GID the engine does not know, which after a
restart is all of them, since jobs live in memory. Inside the engine one
goroutine per download takes a slot, assembles the files one article per
goroutine, repairs and unpacks, while API calls and the stall watchdog change
the same job. On the other side, a scan reads disk and library over minutes and
then replaces the queue of proposals unless an apply holds the gate; an apply
renames files, writes the library, archives itself for undo and marks its
proposal, with nothing that makes these one transaction, and the gate is shared:
two applies hold it at once.

Where it is hard: lists acted on when stale; two loops that select the same row;
statements that other goroutines get between; UPDATEs by id that overwrite a
final state; callbacks that arrive before the row they belong to; a call that
meets a goroutine in a phase it did not expect; a condition variable woken
without its lock; a process that stops between two statements; a destination
checked and then used; queue replacement against applies; undo of an apply that
later ones built on. The list with line numbers is `hazards` in `PROJECT.json`.

## Modules

```
GrabStore <- GrabLifecycle            refines  DownloadEngine   (EngineContractKept)
             UsenetEngine             refines  DownloadEngine   (ContractKept)
NntpPool  <- FileAssembly             the inside of UsenetEngine's "fetching"
             ProposalQueue            the inside of MovieRename's Scan
             MovieRename
```

An arrow is EXTENDS. The two other relations of a module to the one it looks
into are not refinements: `FileAssembly` justifies that an assembly ends in a
body, a failure or a cancellation; `ProposalQueue` justifies, as far as its
properties go, the atomic replacement of the queue in `MovieRename`.

`GrabStore` – one operator per SQL statement, on one row. Timestamps are `none`,
`later`, `due`, and for hold_until `never` (the sentinel). A WHERE condition
that fails returns the row unchanged.

`GrabLifecycle` (extends `GrabStore`) – the actors. Each worker has the pass it
is in, the list `todo` of snapshots the pass read, the snapshot `cur` in hand
and the step `at`. Rows are written through the store's operators applied to the
row **now**, decided on by the snapshot read **then**, as in the code.

| Variable | Code |
|---|---|
| `rows` | the table |
| `job` | `Manager.jobs`: precheck, active, complete, the kind of a failure, or unknown |
| `staging` | the directory a GID names: none, partial, ready |
| `callback` | the goroutine that runs onError / onComplete: before its lookup, before its write |
| `workers` | `RunUsenetRetry`, `RunAutoGrabDrain`, the boot passes, a request, the operator |
| `owner` | history: the row a GID was minted for |

The passes run in the order `Cycle` gives, from `usenetretry.go`,
`autograbdrain.go` and `main.go`. `Reconcile`, `Resume`, `Sweep`, `AutoGrab`,
`Schedule`, `NewRequest`, `RequestGoesOn`, `Engine`, `Callback`, the operator's
actions, `Tick` (a wait runs out) and `Restart` (stop or kill) are the
next-state relation.

`DownloadEngine` – the contract. Per GID it has what FindByGID reports, whether
the directory exists, and the outcomes fired that no callback has looked at.
Launching needs a GID whose download is not live; only a download that ran
fails, once, and may keep its callback to itself; it completes only over its
directory; Cancel may leave a completion behind; a restart forgets jobs and
callbacks and keeps directories.

`UsenetEngine` – the engine statement by statement.

| Variable | Code |
|---|---|
| `downloads` | `Manager.downloads`, GID to `*dlState` |
| `jobs` | each `dlState` and its goroutine: step `at`, status, phase, gate (`shut`), context (`cancelled`), staleAbort, age of lastProgressAt (`quiet`), articles left; history: `held`, `told` |
| `slots` | the semaphore of concurrent downloads |
| `staging` | the directories |
| `owed` | callbacks fired and not yet run |
| `calls` | the Cancel, Pause or Resume under way, at which statement |

What the code does by pointer is done to the job; what it does by GID is done to
whatever the table holds by then. `Reported` and `Due` map the state onto the
contract.

`NntpPool` – tokens and idle connections of one server, and how far each fetch
is with its connection. `FileAssembly` extends it with `assembleFile`: one
fetcher per article (`fetch`, `tries`), bodies by number (`got`), the `writer`
with `nextWrite`, the errgroup's first error, writeErr, the `waker` goroutine,
the pause gate. The step called "dozing" lies between a goroutine's check of its
condition and its enlisting as a waiter, during which it holds gotMu; it matters
because Broadcast takes no lock.

`ProposalQueue` – one mode's queue. `rows` are the committed rows; a scan has
what it found on disk, what its SELECT saw and what its open transaction has
written (`writes`), and a statement waits for a row another transaction has
written, as at READ COMMITTED. `gate` is the counter of applies and the deferred
mark; `hub`, `watch` and `launched` are the single-flight flag, the watcher with
its debounce timer, and launches that have not begun; `requests` are apply,
batch, delete, dismiss, repick, undo and move, at named steps.

`MovieRename` – one film. A path is a name and the number `UniquePath` appended.
`disk` maps paths to files; `item` and `files` are the film's rows; `queue` the
proposals; `archive` the undoable applies; `workers` the HTTP requests, each at
a named step with what it has read; `scan` the scan under way. Every `os.Rename`
and every statement is a step.

`MCGrabLifecycle`, `MCMovieRename`, `MCProposalQueue`, `MCUsenetEngine`,
`MCFileAssembly` – definitions for TLC. `View` in the first forgets what job,
staging and owner say of a GID that nothing refers to: `Fresh` lets such a GID
be minted again, standing for a new random one, and AddNZB overwrites all three,
so those values are never read. `VisibleState` in `MCUsenetEngine` does the same
for jobs nobody can reach. GIDs, and jobs, are interchangeable, hence the
symmetry. None of this is used in a liveness run.

`GrabLifecycle_proofs`, `GrabContract_proofs`, `GrabDrain_proofs`,
`UsenetEngine_proofs`, `UsenetContract_proofs`, `FileAssembly_proofs`,
`ProposalQueue_proofs`, `MovieRename_proofs` – the theorems.

## Runs

Passing runs:

| Run | Instance | Distinct states | Question |
|---|---|---|---|
| `drain` | 2 titles (a clicked release, a film), 2 GIDs, minute loop, all failures, Cancel, Calendar | 197,000 | nothing downloaded twice, lost or wiped; a parked row is on a schedule; the engine used within its contract |
| `crash` | the same, 2 restarts at any points, 2 transport rungs, un-monitoring | 1,610,000 | restarts undo nothing; rungs and GIDs go together |
| `live` | 1 film, daily loop, Promote, 1 restart, fair | 50,000 | recorded downloads end, due rows are served |
| `engine` | 2 GIDs, 2 jobs, 1 slot, 1 caller, restart | 398,000 | slots, outcomes and silence accounted for; the contract implemented |
| `assembly` | 3 articles, window 2, 2 connections, 2 attempts, fair | 437,000 | whole file, bounded memory and sockets, no endless wait |
| `queue` | 2 paths, watcher's scans, 1 request at a time, all kinds, 1 restart | 366,000 | commits spare results; a row found live whose file was seen keeps its id |
| `queue_live` | 2 paths, all three kinds of scan at once with a request, fair | 231,000 | files are proposed, phantoms go |
| `rename_fold` | 3 files of one film, 2 under one name, 1 request at a time, scans between requests | 12,200 | disk and library agree; the best copy is primary |
| `rename_undo` | 2 files that arrive under one name, applies and undos, 1 break-off | 1,160,000 | an undo takes back its own apply |
| `rename_live` | 2 files, 2 requests at once, 1 break-off, fair | 136,000 | scans catalogue what a broken-off apply left |

Runs that TLC must find violated, each against a sentence of the repository
(quoted in `findings`):

| Run | Property | What happens |
|---|---|---|
| `double_dispatch` | `OneLiveDownloadPerGrab` | the daily retry and the minute drain list one row and both download it |
| `lost_wakeup` | `CancelUnblocks` | the writer finds the context alive while it holds gotMu; Cancel ends the context and the waker broadcasts, without gotMu, to nobody; the writer waits for ever with its slot |

### Bounds, and why they are enough

Two rows and two GIDs are the fewest with which one title can take another's
download; two GIDs for one row the fewest for a double download. One rung (two
in `crash`) suffices to reach the end of the ladder with a failure left over.
One restart puts a crash at every point of every loop, the second at every point
of the boot passes that follow the first. Three files give a primary, an
alternate, and a promotion over either; two under one name give every collision
of `UniquePath`. Two jobs for one slot make one wait; with two GIDs a job and
its successor under the same GID also meet. Three articles with a window of two
give a full window, a gap in it and an article beyond it; their numbers may
repeat in any way and the sidecar may cover any subset of them. Two paths let a
transaction lock rows in the order of the walk while a batch takes them in
another. `MaxId`, `MaxItems`, `MaxFailures`, `MaxRestarts`, `Depth` and
`Budgets` (arrivals, clicks and stops of `ProposalQueue`) are constants.
Deadlock checking is off: with bounded restarts, ids and budgets the system may
really stop with nothing left to do.

`ScansOverlap` says whether a scan may look at disk and library while a request
runs, as it may. It is FALSE in `rename_fold` only: there a scan that looks
between the rename of a promoted copy and the statement that records it breaks
`TitleHasItsFile` (see below), and what the run asks is what applies do to the
library by themselves. Reaching that needs `MaxId` 5, so the run has it.

`EarlyRequests` says whether requests arrive while startup runs, as the server
listens before the boot passes (`main.go:555` against `:641`). It is FALSE in
`crash` only: there a request that overlaps boot runs into boot's old list (see
below), and what the run asks is what boot does to the rows it finds.

`Races` lifts bounds of two modules. In `UsenetEngine` it is empty in the run
and in `UsenetContract_proofs`, which then means: a GID is relaunched only when
the goroutine and the call of its last download are over; Pause meets only a job
in phase "downloading", and no goroutine runs between Pause's two statements;
there is one call per GID at a time. `Wipe`, a directory removed from outside,
comes only while no goroutine writes to it. What each race does is below. In
`FileAssembly`, `Races = {"wakeup"}` lets the Broadcast fall between check and
wait; the run `assembly` excludes it, `lost_wakeup` admits it, and the proofs
hold either way.

The grab instances separate the loops on purpose. With both loops on one row,
the races of the findings break most other properties too; what each property
says is then checked where those races do not occur, and the races are shown by
their own run and told below. So `drain` and `crash` state what the minute loop
and the restart guarantee **by themselves**; they do not claim the same for a
configuration in which the daily pass overlaps it.

### Fairness

`GrabLifecycle`: weak fairness of each goroutine's own steps, of the clock and
of a download's end: goroutines are scheduled, tickers fire, and every fetch,
par2 and unrar has a timeout. Requests, the operator and restarts are never
required. `TransientFailuresEnd` is strong fairness of the successful outcome of
attempts the code repeats without limit (fetching the NZB again, moving into the
library): without it the row rightly stays in flight, as the code retries for
ever. `MovieRename`: a request's own steps and scans, since the scheduled rename
scan is on by default; pressing Apply or Undo is never required.
`ProposalQueue`: scans and requests under way, launches, the debounce timer and
the scheduled scan; nobody has to click or to keep the folder watched.
`FileAssembly`: each fetcher, the writer and the waker, since dials and reads
have deadlines; cancelling and resuming are never required, and `AssemblyEnds`
asks for an end only if the pause does not last for ever and numbers are
distinct (or the download is cancelled, and then always). `UsenetEngine` states
no fairness and has no liveness property; the stall watchdog's duty is the
invariant `SilenceIsNoticed`.

## The contract between pipeline and engine

`GrabLifecycle` was written with an engine of its own, a job per GID that may
fail, complete, vanish. `DownloadEngine` makes that assumption explicit, and
both sides are tied to it. `PipelineKeepsContract` proves that the pipeline
together with its engine takes only steps of the contract: it launches a GID
only when its download is dead, looks at an outcome at most as often as it was
fired, and expects no completion without a directory. `EngineKeepsContract`
proves that the engine's statements, with `Races = {}`, implement the contract.

The two together do not make `GrabLifecycle` a model over `UsenetEngine`: the
contract allows more than `GrabLifecycle`'s engine does. The known difference is
a download cancelled while it unpacks, which still announces its completion
(`Abandon`). `GrabLifecycle` has no such late callback; the row of a cancelled
download stays in flight under the same GID, so a late completion would import
it.

## More that the models reach

These are also interleavings of the code, found with other constants or with
properties that are defined and in no run (`InFlightEnds`, `TitleIsReconciled`,
`DeferredScanIsMadeUp`, `QueuedJobRuns`, `DecisionsKept`, `PeakIsWindow`), each
violated as told here. They stand here and not in the runs because they say the same kind of
thing as one that does, because the behaviour is documented, or to keep the runs
few.

Grabs:

- `ParkedRowIsScheduled` with both loops: one loop's gate holds a row without a
  date, the other parks it from its own list (`autograb_shared.go:383`); no
  query reads the row again. Also with the daily loop and the Calendar: the
  first click's row is released and parked for retry, and a second click moves
  its hold_until to the sentinel (`calendar_prerelease.go:177`); and with
  un-monitoring of a row held without a date and a stop between its two writes.
- `InFlightEnds` with a restart: the process stops between the INSERT
  (`autograb_shared.go:691`) and the statement that records the GID. The row
  stays queued without a GID, which reconcile skips (`downloadreconcile.go:31`).
- `RungsFollowTheDownload` with the daily loop and no restart: the failure sweep
  (`usenetretry.go`) and the error callback (`useneterror.go:55`) both see one
  failed job and both park it, taking two rungs for one failure.
- `FinishedStaysFinished` with the daily loop: reconcile's list predates a 451
  takedown; its park takes the failed row back (`downloadreconcile.go:273`). The
  same stale list takes back an imported row, and breaks `LiveDownloadKept`,
  `LiveStagingKept` and `ResumableHasStaging`; and an imported row is taken back
  in the instance of `crash` with `EarlyRequests` TRUE: boot's reconcile lists a
  row just requested, whose download is imported and dismissed before its turn.
- `OneLiveDownloadPerGrab` with Promote: promoting a queued row clears the GID
  of a running download (`grabs.go:720`). `docs/requests-grab-promote.md:47`
  describes it. A Promote before a request has written its GID also lets that
  write overwrite the GID of the download dispatched since.

Proposals:

- `DecisionsKept`: ReplacePending reads the live rows, a user dismisses one, and
  the UPDATE by id, which has no condition on the status, makes it live again
  (`proposals.go:307`, against the comment at `:205`).
- The gate is checked twice, before and after the statements, and an apply may
  still begin between the second check and the commit (`proposals.go:384-392`).
  The row locks are what saves a row already marked (`CommitSparesResults`). A
  row whose file has moved but which is not yet marked is safe if the scan found
  it live at its SELECT and its file on disk (`SeenRowsKeepTheirId`). One that
  became live after the SELECT is an orphan to the scan and is deleted: a row of
  a path is applied and another of the same path is live at the SELECT; that one
  is deleted or moved, the first is undone, and an apply of it begins after the
  second check of the gate and is about to mark it when the scan commits.
- `DeferredScanIsMadeUp`: the catch-up scan of a deferred replacement is lost if
  the hook runs while the old scan still counts as running
  (`watchfolders.go:248`), or if the mark is set after the apply has ended
  (`applygate.go:69` against `:29-32`).
- Two scans that overlap: the unique index refuses the second's insert and the
  path's proposal is lost until another scan (against
  `scanschedule.go:281-284`). After an undo the same refusal leaves no deferred
  mark.
- The watcher's poll stops a pending debounce timer; the event waits for the
  scheduled scan. The scans of dedup and purge have no idle hook at all.
- An undo checks for a live proposal of the path before it moves the file back,
  and inserts after it (`rename_undo.go:107`): a proposal that appears between
  makes the last step fail with the file already back (`UndoCanFinish` with two
  requests).

Renames:

- `NoFileLost` with two requests: both look for a free name with Stat and take
  it with a rename that replaces (`rename_alternates.go:182`, `place.go:64`);
  the second rename replaces the first file.
- `TitleIsReconciled`: undoing a promotion restores the title's row and moves no
  file (`undo_apply.go:352` against `:244`). If the promoted file had another
  extension the restored path holds nothing, and no scan changes that.
- `TitleHasItsFile` when files already carry a TMDB id before being applied
  (`Tagged` includes the inbox): one scan catalogues the file and proposes it
  (`rename.go:257`), and the apply meets the file as its own primary.
- `LibraryFileTracked` with two requests: both find no title; the second insert
  overwrites the first one's path (`rename.go:618`, `:667`).
- `TitleHasItsFile` with undo: a copy is folded in as an alternate and then the
  apply of the primary is undone. Its file moves back to where it came from, the
  row stays because it is shared (`undo_apply.go:314`), and still names the path
  the file has left. The guard's comment (`:286`) has the promotion in mind, in
  which the file stays.
- `TitleHasItsFile` with `ScansOverlap` (and `MaxId` 5): a scan looks when a
  promoted copy has been renamed and its path is not yet in the library. Only
  the replacement of the queue is deferred while the gate is held
  (`proposals.go:207`), not the look, so after the apply the scan proposes the
  title's own file. Applying that folds it in as an alternate of itself and
  leaves the title at a path with no file (`rename.go:192`, `:197`, against
  `rename_alternates.go:37`, "Equal probed tier keeps the existing primary
  (orphan becomes alternate)").
- `AppliedFileTracked` with two requests that break off: an undo that has deleted
  the title stops before it consumes its entry; the file is applied again and
  that stops after the rename. The entry is still active, its file is back in
  its place, and no row has it.

Engine. With 1 GID, 2 jobs and 2 callers, `SlotsAreHeld` survives every race
(and is proved for all of them); the others do not:

| `Races` | Violated |
|---|---|
| `"relaunch"` | `ToldOnce`, `UnpausedJobRuns`, `SilenceIsNoticed`, `ContractKept` |
| `"pause"` | `ToldOnce`, `ContractKept` |
| `"calls"` | `ToldOnce`, `SilenceIsNoticed`, `ContractKept` |

- "relaunch": Cancel's RemoveAll comes after the entry is gone and may wipe the
  directory of a download relaunched under the GID; a failed precheck deletes
  the entry by GID, which may be a newer download's.
- "pause": a job paused while it unpacks fires onComplete and stays paused
  (`manager.go:1273`); a later Resume finds no directory and tells a second
  outcome. Unpacking also overwrites a status "error".
- "calls": Pause and Resume move the gate outside the lock, so the two may
  cross: active with a shut gate, or paused with an open one.

And, with none of the races:

- `QueuedJobRuns`: a paused job whose article in flight fails ends without a
  word and stays paused (against `api/downloads.go:765`, "true-pause keeps the
  goroutine alive"). Resume makes it active: a job without a goroutine, which
  still counts against the free slots the drain sees.
- Resume leaves lastProgressAt alone: after a pause of more than two minutes the
  next tick of the watchdog aborts the download it resumed.
- Resume sets the phase "downloading" whatever the goroutine does: a job paused
  while it waited for a slot is then aborted by the watchdog, and ends silently,
  for a blocked job tells nobody.
- onComplete fires for a job cancelled while it unpacked.
- An article's own failure is preferred over the abort that follows it
  (`CauseSurvives`), and on the context the watchdog has cancelled by then it is
  told to nobody. An abort that comes after the last article is told as a
  cancellation, not as a transport failure.

Fetching:

- `PeakIsWindow` in the instance of `assembly`: the comment before `assembleFile`
  (`manager.go:2003-2004`) says that the writer frees a slot after WriteAt and
  markSegment, "so peak buffered bodies ≤ maxConc". The writer takes the body out
  of the map, moves the window on and broadcasts first (`:2244-2248`) and writes
  then (`:2253`). While a slow WriteAt holds the body of article 1, the window of
  two lets articles 2 and 3 in, and three bodies are in memory. The bound the
  code keeps is one more than the window, and that only while a body is being
  written: `BodiesAreBounded`.
- Articles that repeat a number: a body is replaced or never fetched again, and
  the writer waits until the stall watchdog ends the download. `OkIsWhole` holds
  all the same.
- A dial that is given up returns its token at once while it goes on
  (`pool.go:299`), so there may be more sockets than MaxConns for a while,
  against the comment at `pool.go:127`.
- A fetch that meets a retired pool gets "pool is closed" (`pool.go:141`), which
  is not a transport failure, so the download counts as a bad release.
- `transport.go:25` tells of a download that hung for forty minutes with every
  thread waiting and no socket open. Repeated numbers are one way to get there;
  `lost_wakeup` is a way in which the watchdog added since does not help.

## Proofs

All are checked by TLAPS for every value of the constants allowed by the named
assumptions (`NoGidAssumption`, `FilesAssumption`, ...), which say that
sentinels are not members, bounds are numbers, and files, paths, jobs, requests
and users of a pool are finitely many.

`GrabLifecycle_proofs!TypeCorrect`, `Spec => []TypeOK`. The substance is that
the statements of the store keep a row a row (`Store*` lemmas), that lists and
callbacks hold rows as they were, and that a worker in the middle of a step has
a row in hand.

`GrabLifecycle_proofs!GidsNotShared`, `Spec => []OneGrabPerDownload`: for any
number of rows, GIDs, loops and restarts a GID is in one row. It is not
inductive: a step writes a GID that no row has yet, out of a list or a worker's
hand. `Inv` adds that every row, every list entry and every worker that names a
GID does so for the row it was minted for (`owner`), and that is inductive since
AddNZB takes a GID nothing refers to. Every write is shown to put into its row
no GID but none, the old one, or the one in hand (`Keeping`).

`GrabContract_proofs!PipelineKeepsContract`, `Spec => EngineContractKept`: the
first of the two refinements. Each action is a step of the contract for one GID,
or leaves job, directory and callbacks as they are; `Inv` above supplies types.

`UsenetEngine_proofs!TypeCorrect` and `SlotsHeld`: `TypeOK` and `SlotsAreHeld`
for any `Races`. `SlotsInv` adds that a job that has not fetched everything has
an article left, so that the release after the last article happens once.

`UsenetContract_proofs`, with `Races = {}`: `OutcomeToldOnce`, `UnpausedRuns`,
`SilenceWatched` and `EngineKeepsContract`, all from one invariant, `Orderly`.
No part of it is inductive alone. `TableInv`: a job in the table bears the GID
it is under and is not removed. `BusyInv`: at most one job is busy (running,
listed or in a call) under a GID; this is what the races break. `CallInv`: what
a call in each of its statements finds of its job. `JobInv`: what a job in each
status and at each step looks like, e.g. that an error with its goroutine still
running has a cancelled context, so that it will not tell again. The refinement
is proved by a lemma for each action, most of them from the change of one job
(`OnlyOne`); a Resume that finds the directory gone has marked the job failed
before it calls back, so `Due` counts that callback as owed already.

`FileAssembly_proofs`, for any file, numbering, sidecar and `Races`:
`TypeCorrect`; `PoolAccounts` (tokens are the sockets parked, dialled or in
use); `BodiesBounded`; `WholeFiles`; `CausesSurvive`. `WholeFiles` needs that
bodies are not written twice: `BodyInv` keeps a body in one of three places, on
its way, in the map, or written, and has as many bodies written as the writer's
position says, whence at the end all of them. `BodiesBounded` needs that a fetch
which passed the window stays inside it while the writer moves on (`WindowInv`),
and that what is inside it is never the body in the writer's hand, which lies
just before it: that one is the one above the window.
`CausesSurvive` needs who may be first to report a cancellation (`CauseInv`):
only someone who saw a failure reported before, or the download's own.

`GrabDrain_proofs`: what the runs `drain` and `crash` ask of the minute loop,
for any number of titles, GIDs and rungs. All nine theorems assume `DrainAlone`
and follow from one invariant, `OneWriter`. `DrainAlone` says that the daily
loop does not run, nobody promotes, and requests arrive during startup only if
nothing restarts; without each of these some of the properties fail, as told
above (both loops dispatch one row, Promote takes the GID off a row in flight, a
request meets boot's old list). `OneWriter` is what is left then: at any moment
a row is written by one party only. It says what a row in each status looks like
(a download of its own, a date on exactly one schedule), that the rows in the
loop's list and in a worker's hand are still as they were read, that a request,
the loop and a callback never have the same row in hand, and what stands between
an error callback's two writes. `DrainDispatchesOnce`, `RungsBounded`,
`FinishedRowsStay`, `RungsFollow`, `LiveDownloadsKept` and `LiveDirectoriesKept`
need nothing more. `QueuedRowsAttended` adds `MaxRestarts = 0`, as a stop
between the INSERT and the GID leaves a row unattended; `ParkedRowsScheduled`
adds that nobody un-monitors, which is two writes; `ResumablesStocked` that
nobody cancels, which removes the directory of a row that stays.

`ProposalQueue_proofs!TypeCorrect` and `ResultsSpared` (`Spec => [][...]` of
`CommitSparesResults`): the gate's counter is the number of requests that hold
it (`GateInv`), so a commit's second check fails while a request that has
applied something is under way; and a scan past that check has locked what it
wrote, so what a request applies afterwards waits (`CommitInv`). Deletions of
orphans are locks too.

`ProposalQueue_proofs!SeenRowsKept`, `SeenRowsKeepTheirId` for any number of
scans and requests of every kind: a scan deletes no row of a path it found
unless another row of the path is live, so what has to be shown is that the row
it selected is the live one. `IndexInv` is the unique index at READ COMMITTED:
one live row per path among the committed rows, none beside an uncommitted
insert, at most one uncommitted insert per path, and no row changes its path.
`KeepsSeen` follows a selected row through the statements of its scan.

`MovieRename_proofs!TypeCorrect`, `Spec => []TypeOK`, for any number of requests
at once. `Inv` adds `Learned`: what a request has read by the step it is at, so
that a rename has real paths, an archive entry a real source. The undo archive
stays within `Depth` (`EvictionBounds`).

`MovieRename_proofs!OneRequestLosesNothing`: if there is at most one request at
a time, `Spec => []NoFileLost`, whatever the names, tiers and sizes, and
wherever a request breaks off. `NoFileLost` is not inductive; `DestinationFree`,
a request about to rename has its destination to itself or renames in place, is
what it needs, and the only place where the proof uses the premise is after a
rename: another request may be about to use the name just taken.

`MovieRename_proofs!OneUndoFinishes`, `OneUndoMovesOwnFile`: with one request at
a time, `UndoCanFinish` and `UndoMovesOwnFile`, whatever breaks off and whatever
scans look on. `Reserved`: the path an undo returns its proposal to stays its
own, since only a scan could propose it and scans defer while the gate is held.
`Returning`: an entry's size is that of the file its apply moved, so that, where
sizes differ, the size check of an undo identifies the file (the theorem assumes
that sizes differ; two files of one size are beyond what the code compares).

`MovieRename_proofs!OneUndoLeavesOthers`: `AppliedFileTracked`, with one request
at a time, none of which breaks off (`Unbroken`; two break-offs violate it, see
above), any scans, any depth of the archive, and any files whose alternate names
are not canonical ones (`naming.go:116-118` always adds a suffix). The guard of
an undo counts file rows, so the invariant, `Attached`, ties the archive to
them: the entry whose apply made the title is the oldest; every other one
implies a second file row (`Several`); the post of each has its row; hence an
undo that deletes the title has no other entry to harm.

`MovieRename_proofs!FoldingKeepsTitleFile`, `FoldingTracksEveryFile`,
`FoldingKeepsBestPrimary`: the three properties of `rename_fold`, for any files,
names, tiers and any number of applies, with one request at a time, under
`ApplyOnly`: nothing is undone or broken off, scans look between requests and
catalogue nothing, and files arrive outside the film's folder, under names that
are not the film's. Each of these is what the counterexamples above lack.
`Folding` says for each step which file on disk is not yet recorded and which
copy is about to become the primary.

Only model-checked: liveness (`RecordedDownloadEnds`, `DueRowIsServed`,
`TaggedFileIsCatalogued`, `FileIsProposed`, `PhantomGoes`, `AssemblyEnds`),
which is outside the prover's reach. Every invariant and action property of a
passing run is stated by a theorem. One theorem assumes more than its run: in
`rename_undo` a request may break off, and `AppliedFileTracked` holds there with
one break-off, while `OneUndoLeavesOthers` allows none.

## Not modelled

Grabs. Auto-grab is on. Every download is usenet: no torrent rows and none of
the statuses only they have. No paused jobs. `retry_count`, search scope and
which keys were tried are left out (every rung of the days ladder is a wait;
whether any release was tried is kept). Slots: a driver may find none free
whenever some download runs. The reconcile drain goroutine, search budget,
exclusions, `FindPendingRetry` and forced searches are not modelled. After a
precheck rejects a candidate, the next candidate is the same state with another
GID. The failure sweep reads and applies in one step. A GID has one callback at
a time. An import outlasts the instant between a download's start and the
statement that records it (`BeingRecorded`), and no wait of two minutes runs out
inside the two statements of an error callback (`Tick`). The Calendar does not
create the film a request is just creating.

Engine. `SetMaxConcurrentDownloads`, priorities, snapshots and their fan-out,
the direct unpacker, the STAT precheck's own steps and the sidecar's file
format. Setting a job's error and firing its callback are one step. Repair and
unpacking are outcomes. Forget and Dismiss are single statements.

Fetching. One server step by step; the others are one answer, of any kind
("elsewhere"). The fetch of the first article goes over the same pool and is one
step. Decoding is an outcome. A dial that goes on after it was given up is not
counted. Time is absent: a deadline is a failure that may come at any moment.

ProposalQueue. One mode (Movies) and one workflow. A scan that fails is left
out. Ids of inserts rolled back may be used again. The walk lists paths in one
order; a deadlock of two transactions makes one the victim, and cycles of three
are left out. Bulk dismissal and what a repick looks up are left out; of an
adult apply, its own EndApply too.

MovieRename. One film, its matching taken as given; series and adult follow the
same plan with more rows. Extension and quality labels are `Canonical` and
`Alternate`; tiers, and sizes, are of the file. UpsertFile's clear-and-insert,
SyncPrimaryFile's list-and-update, the catalogue of one scan, ReplacePending
with its gate check, and an undo's first checks are one step each. A copy across
file systems is a rename. Unmatched files, repick, dismiss, delete-source,
dedup, purge, manual import and a TMDB id of zero are left out. A download does
not land in the instant between a request's look at a path and its rename. Scans
do not overlap each other.

Whole components. About a third of the source is HTTP handlers and their types
(`internal/api`, `internal/apidto`), most of the rest clients of metadata
services, text heuristics that match names to titles, SQL listings, file I/O and
the front end. They have no states between which an order could be wrong, or
keep them in somebody else's process (aria2, ffmpeg). So the models cover a
small share of the lines and, it is hoped, a large one of the interleavings.
What would still repay a model, in this order: the node protocol
(`internal/nodes`: sessions, dispatch, results after a reconnect); the section
lock's lockout counters and tickets; and an abstract request (asked for,
downloading, waiting, given up) that `GrabLifecycle` would implement.
