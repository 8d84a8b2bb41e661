-------------------------- MODULE MovieRename_proofs --------------------------
(***************************************************************************)
(* Proofs about MovieRename, for any files, names, bounds and depth.        *)
(*                                                                         *)
(* For any number of requests: the type invariant, which needs that a live  *)
(* proposal and a request past its first step carry real paths (Inv).       *)
(*                                                                         *)
(* For one request at a time: no file is lost (DestinationFree: a request   *)
(* about to rename has its destination to itself); an undo finds its queue  *)
(* path free to the end (Reserved) and moves its own file (Returning). If   *)
(* none breaks off, an undo leaves the files of other applies in the title  *)
(* (Attached: what the archive says of the title's rows).                   *)
(*                                                                         *)
(* For one request at a time, nothing undone, and scans between requests:   *)
(* the title has its file, every file has its row and the primary is the    *)
(* best copy (Folding: what is placed and not yet recorded at each step).   *)
(***************************************************************************)
EXTENDS MovieRename, TLAPS, FiniteSetTheorems

DestSteps == {"move", "upsert", "sync", "record", "fold", "refresh", "alternate",
              "demote", "demoted", "promote", "retarget", "primary",
              "demoted row", "archive", "put back"}
ApplySteps == (DestSteps \ {"put back"}) \union {"got", "looked", "mark"}
UndoSteps == {"check", "put back", "revert", "delete", "restore", "snapshot",
              "consume"}

\* What a request has learned by the step it is at.
Learned(r, at) ==
  /\ at \in ApplySteps => r.id \in Ids /\ r.src \in Paths
  /\ at \in DestSteps => r.dest \in Paths
  /\ at \in UndoSteps => r.entry \in Entries

DiskInv == disk \in [Paths -> Files \union {NoFile}] /\ arrived \subseteq Files
LibraryInv == item \in Items /\ minted \in 0 .. MaxItems /\ files \in [Paths -> FileRow]
QueueInv ==
  /\ queue \in [Ids -> Proposals]
  /\ \A i \in Ids: Live(i) => queue[i].path \in Paths
ArchiveInv == archive \in Seq(Entries) /\ Len(archive) <= Depth
WorkersInv ==
  /\ workers \in [Workers -> Requests]
  /\ \A w \in Workers: Learned(workers[w], workers[w].at)
ScanInv == scan.at \in {"idle", "found"} /\ scan.found \subseteq Paths

Inv ==
  /\ DiskInv /\ LibraryInv /\ QueueInv /\ ArchiveInv /\ WorkersInv /\ ScanInv
  /\ failures \in 0 .. MaxFailures

-----------------------------------------------------------------------------
(* Requests move on *)

LEMMA IdleRequest == Idle \in Requests /\ Learned(Idle, "idle") /\ Idle.at = "idle"
<1>1. NoItem \in Items BY BoundsAssumption DEF NoItem, Items
<1>2. "idle" \in Steps BY DEF Steps
<1>3. Idle \in Requests BY <1>1, <1>2, BoundsAssumption DEF Idle, Requests
<1> QED BY <1>3 DEF Idle, Learned, ApplySteps, DestSteps, UndoSteps

\* A request whose record becomes r.
LEMMA WorkerMoves ==
  ASSUME WorkersInv, NEW w \in Workers, NEW r \in Requests, Learned(r, r.at),
         workers' = [workers EXCEPT ![w] = r]
  PROVE  WorkersInv'
BY DEF WorkersInv

LEMMA EndKeepsWorkers ==
  ASSUME WorkersInv, NEW w \in Workers, End(w)
  PROVE  WorkersInv'
BY WorkerMoves, IdleRequest DEF End

LEMMA GotoKeepsWorkers ==
  ASSUME WorkersInv, NEW w \in Workers, NEW at \in Steps, Goto(w, at),
         Learned(workers[w], at)
  PROVE  WorkersInv'
<1> DEFINE r == [workers[w] EXCEPT !.at = at]
<1>1. workers[w] \in Requests BY DEF WorkersInv
<1>2. r \in Requests BY <1>1 DEF Requests
<1>3. Learned(r, r.at) BY <1>1 DEF Requests, Learned
<1>4. workers' = [workers EXCEPT ![w] = r] BY DEF Goto, WorkersInv
<1> QED BY <1>2, <1>3, <1>4, WorkerMoves

LEMMA ChoosesKeepsWorkers ==
  ASSUME WorkersInv, NEW w \in Workers, NEW at \in MoveSteps, NEW from \in Paths,
         NEW target, Chooses(w, at, from, target),
         at \in ApplySteps => workers[w].id \in Ids /\ workers[w].src \in Paths,
         at \in UndoSteps => workers[w].entry \in Entries
  PROVE  WorkersInv'
<1>1. PICK d \in Paths:
        workers' = [workers EXCEPT ![w].at = at, ![w].from = from, ![w].dest = d]
  BY DEF Chooses
<1> DEFINE r == [workers[w] EXCEPT !.at = at, !.from = from, !.dest = d]
<1>2. workers[w] \in Requests BY DEF WorkersInv
<1>3. at \in Steps BY DEF MoveSteps, Steps
<1>4. r \in Requests BY <1>2, <1>3 DEF Requests
<1>5. Learned(r, r.at) BY <1>2 DEF Requests, Learned
<1>6. workers' = [workers EXCEPT ![w] = r] BY <1>1, <1>2 DEF WorkersInv
<1> QED BY <1>4, <1>5, <1>6, WorkerMoves

-----------------------------------------------------------------------------
(* Steps that only decide where a request goes *)

LEMMA OccupiedPath ==
  ASSUME DiskInv, NEW p, Exists(p)
  PROVE  p \in Paths /\ disk[p] \in Files
BY DEF DiskInv, Exists

LEMMA ProbedTierIsNat ==
  ASSUME DiskInv, NEW p, NEW fallback \in Nat
  PROVE  ProbedTier(p, fallback) \in Nat
BY OccupiedPath, QualityAssumption DEF ProbedTier

\* Everything but the requests stays as it is.
LEMMA OnlyWorkers ==
  ASSUME Inv, WorkersInv',
         UNCHANGED <<disk, arrived, library, queue, archive, scan, failures>>
  PROVE  Inv'
BY DEF Inv, DiskInv, LibraryInv, QueueInv, ArchiveInv, ScanInv, library, Live

LEMMA ApplyBeginsKeepsInv ==
  ASSUME Inv, NEW w \in Workers, NEW i \in Ids, ApplyBegins(w, i)
  PROVE  Inv'
<1> DEFINE r == [workers[w] EXCEPT !.at = "got", !.id = i, !.src = queue[i].path]
<1>1. workers[w] \in Requests BY DEF Inv, WorkersInv
<1>2. queue[i].path \in Paths BY DEF Inv, QueueInv, ApplyBegins
<1>3. r \in Requests
  <2>1. i \in 0 .. MaxId BY BoundsAssumption DEF Ids
  <2> QED BY <1>1, <1>2, <2>1 DEF Requests, Steps
<1>4. Learned(r, r.at)
  BY <1>1, <1>2 DEF Requests, Learned, ApplySteps, DestSteps, UndoSteps
<1>5. workers' = [workers EXCEPT ![w] = r] BY <1>1 DEF ApplyBegins, Inv, WorkersInv
<1>6. WorkersInv' BY <1>3, <1>4, <1>5, WorkerMoves DEF Inv
<1> QED BY <1>6, OnlyWorkers DEF ApplyBegins

LEMMA ApplyLooksUpKeepsInv ==
  ASSUME Inv, NEW w \in Workers, ApplyLooksUp(w)
  PROVE  Inv'
<1>1. CASE End(w)
  BY <1>1, EndKeepsWorkers, OnlyWorkers DEF ApplyLooksUp, Inv
<1>2. CASE workers' = [workers EXCEPT ![w].at = "looked", ![w].old = item,
                                      ![w].row = item.id]
  <2> DEFINE r == [workers[w] EXCEPT !.at = "looked", !.old = item, !.row = item.id]
  <2>1. workers[w] \in Requests /\ Learned(workers[w], "got")
    BY DEF Inv, WorkersInv, ApplyLooksUp, At
  <2>2. item \in Items /\ item.id \in 0 .. MaxItems
    BY DEF Inv, LibraryInv, Items
  <2>3. r \in Requests BY <2>1, <2>2 DEF Requests, Steps
  <2>4. Learned(r, r.at)
    BY <2>1 DEF Requests, Learned, ApplySteps, DestSteps, UndoSteps
  <2>5. workers' = [workers EXCEPT ![w] = r] BY <1>2, <2>1 DEF Inv, WorkersInv
  <2>6. WorkersInv' BY <2>3, <2>4, <2>5, WorkerMoves DEF Inv
  <2> QED BY <2>6, OnlyWorkers DEF ApplyLooksUp
<1> QED BY <1>1, <1>2 DEF ApplyLooksUp

LEMMA FindsNothingKeepsInv ==
  ASSUME Inv, NEW w \in Workers, FindsNothing(w)
  PROVE  Inv'
BY EndKeepsWorkers, OnlyWorkers DEF FindsNothing, Inv

\* A request at a step of an apply knows its proposal and where its file was.
LEMMA ApplyingRequest ==
  ASSUME Inv, NEW w \in Workers, workers[w].at \in ApplySteps
  PROVE  workers[w].id \in Ids /\ workers[w].src \in Paths
BY DEF Inv, WorkersInv, Learned

LEMMA RelocatesKeepsInv ==
  ASSUME Inv, NEW w \in Workers, Relocates(w)
  PROVE  Inv'
<1>1. workers[w].id \in Ids /\ workers[w].src \in Paths
  BY ApplyingRequest DEF Relocates, At, ApplySteps
<1>2. WorkersInv'
  BY <1>1, ChoosesKeepsWorkers DEF Relocates, Inv, MoveSteps, UndoSteps
<1> QED BY <1>2, OnlyWorkers DEF Relocates

LEMMA FoldsInKeepsInv ==
  ASSUME Inv, NEW w \in Workers, FoldsIn(w)
  PROVE  Inv'
<1>1. workers[w].id \in Ids /\ workers[w].src \in Paths
  BY ApplyingRequest DEF FoldsIn, At, ApplySteps
<1>2. WorkersInv'
  BY <1>1, ChoosesKeepsWorkers DEF FoldsIn, Inv, MoveSteps, UndoSteps
<1> QED BY <1>2, OnlyWorkers DEF FoldsIn

LEMMA PromotesKeepsInv ==
  ASSUME Inv, NEW w \in Workers, Promotes(w)
  PROVE  Inv'
<1>1. workers[w].id \in Ids /\ workers[w].src \in Paths
  BY ApplyingRequest DEF Promotes, At, ApplySteps, DestSteps
<1>2. CASE End(w)
  BY <1>2, EndKeepsWorkers, OnlyWorkers DEF Promotes, Inv
<1>3. CASE Chooses(w, "promote", workers[w].src, Plain(Canonical[disk[workers[w].src]]))
  <2>1. WorkersInv'
    BY <1>1, <1>3, ChoosesKeepsWorkers DEF Inv, MoveSteps, UndoSteps
  <2> QED BY <2>1, OnlyWorkers DEF Promotes
<1> QED BY <1>2, <1>3 DEF Promotes

LEMMA DemotesKeepsInv ==
  ASSUME Inv, NEW w \in Workers, Demotes(w)
  PROVE  Inv'
<1>1. CASE End(w)
  BY <1>1, EndKeepsWorkers, OnlyWorkers DEF Demotes, Inv
<1>2. CASE ~End(w)
  <2>1. PICK d \in Paths:
          workers' = [workers EXCEPT ![w].at = "demote", ![w].dest = d,
                        ![w].from = workers[w].old.path, ![w].demoted = d,
                        ![w].tier = Tier[disk[workers[w].src]]]
    BY <1>2 DEF Demotes
  <2> DEFINE r == [workers[w] EXCEPT !.at = "demote", !.dest = d,
                     !.from = workers[w].old.path, !.demoted = d,
                     !.tier = Tier[disk[workers[w].src]]]
  <2>2. workers[w] \in Requests /\ workers[w].id \in Ids /\ workers[w].src \in Paths
    BY ApplyingRequest DEF Inv, WorkersInv, Demotes, At, ApplySteps
  <2>3. workers[w].old.path \in Paths
    BY <1>2, OccupiedPath DEF Demotes, Inv
  <2>4. Tier[disk[workers[w].src]] \in Nat
    BY OccupiedPath, QualityAssumption DEF Demotes, Inv
  <2>5. r \in Requests BY <2>2, <2>3, <2>4 DEF Requests, Steps
  <2>6. Learned(r, r.at) BY <2>2 DEF Requests, Learned, UndoSteps
  <2>7. workers' = [workers EXCEPT ![w] = r] BY <2>1, <2>2 DEF Inv, WorkersInv
  <2>8. WorkersInv' BY <2>5, <2>6, <2>7, WorkerMoves DEF Inv
  <2> QED BY <2>8, OnlyWorkers DEF Demotes
<1> QED BY <1>1, <1>2

LEMMA UndoBeginsKeepsInv ==
  ASSUME Inv, NEW w \in Workers, NEW i \in Ids, UndoBegins(w, i)
  PROVE  Inv'
<1>1. PICK k \in DOMAIN archive:
        workers' = [workers EXCEPT ![w].at = "check", ![w].id = i,
                                   ![w].entry = archive[k]]
  BY DEF UndoBegins
<1> DEFINE r == [workers[w] EXCEPT !.at = "check", !.id = i, !.entry = archive[k]]
<1>2. workers[w] \in Requests BY DEF Inv, WorkersInv
<1>3. archive[k] \in Entries BY DEF Inv, ArchiveInv
<1>4. r \in Requests
  <2>1. i \in 0 .. MaxId BY BoundsAssumption DEF Ids
  <2> QED BY <1>2, <1>3, <2>1 DEF Requests, Steps
<1>5. Learned(r, r.at)
  BY <1>2, <1>3 DEF Requests, Learned, ApplySteps, DestSteps
<1>6. workers' = [workers EXCEPT ![w] = r] BY <1>1, <1>2 DEF Inv, WorkersInv
<1>7. WorkersInv' BY <1>4, <1>5, <1>6, WorkerMoves DEF Inv
<1> QED BY <1>7, OnlyWorkers DEF UndoBegins

\* A request at a step of an undo holds an entry.
LEMMA UndoingRequest ==
  ASSUME Inv, NEW w \in Workers, workers[w].at \in UndoSteps
  PROVE  /\ workers[w].entry \in Entries
         /\ \A at \in UndoSteps \ {"put back"}: at \in Steps /\ Learned(workers[w], at)
BY DEF Inv, WorkersInv, Learned, ApplySteps, DestSteps, UndoSteps, Steps

LEMMA UndoChecksFileKeepsInv ==
  ASSUME Inv, NEW w \in Workers, UndoChecksFile(w)
  PROVE  Inv'
<1> DEFINE e == workers[w].entry
<1>1. e \in Entries /\ "revert" \in Steps /\ Learned(workers[w], "revert")
  BY UndoingRequest DEF UndoChecksFile, At, UndoSteps
<1>2. e.post \in Paths BY <1>1 DEF Entries
<1>3. CASE Goto(w, "revert")
  BY <1>1, <1>3, GotoKeepsWorkers, OnlyWorkers DEF UndoChecksFile, Inv
<1>4. CASE Chooses(w, "put back", e.post, e.src)
  <2>1. WorkersInv'
    BY <1>1, <1>2, <1>4, ChoosesKeepsWorkers
    DEF Inv, MoveSteps, ApplySteps, DestSteps
  <2> QED BY <2>1, OnlyWorkers DEF UndoChecksFile
<1> QED BY <1>3, <1>4 DEF UndoChecksFile

LEMMA UndoRevertsKeepsInv ==
  ASSUME Inv, NEW w \in Workers, UndoReverts(w)
  PROVE  Inv'
<1>1. \A at \in {"restore", "snapshot", "delete"}:
        at \in Steps /\ Learned(workers[w], at)
  BY UndoingRequest DEF UndoReverts, At, UndoSteps
<1>2. PICK at \in {"restore", "snapshot", "delete"}: Goto(w, at)
  BY DEF UndoReverts
<1> QED BY <1>1, <1>2, GotoKeepsWorkers, OnlyWorkers DEF UndoReverts, Inv

-----------------------------------------------------------------------------
(* Steps that write the library *)

LEMMA OnlyLibrary ==
  ASSUME Inv, WorkersInv', LibraryInv',
         UNCHANGED <<disk, arrived, queue, archive, scan, failures>>
  PROVE  Inv'
BY DEF Inv, DiskInv, QueueInv, ArchiveInv, ScanInv, Live

\* The steps of an apply between its rename and its archive entry.
LEMMA PlacedRequest ==
  ASSUME Inv, NEW w \in Workers, workers[w].at \in DestSteps \ {"put back"}
  PROVE  /\ workers[w].dest \in Paths
         /\ \A at \in (DestSteps \ {"put back"}) \union {"mark"}:
              at \in Steps /\ Learned(workers[w], at)
<1>1. Learned(workers[w], workers[w].at)
  BY DEF Inv, WorkersInv
<1>2. DestSteps \ {"put back"} \subseteq ApplySteps /\ "mark" \in ApplySteps
  BY DEF ApplySteps
<1>4. DestSteps \ {"put back"} \subseteq Steps /\ "mark" \in Steps
  BY DEF DestSteps, Steps
<1>3. (DestSteps \ {"put back"}) \intersect UndoSteps = {} /\ "mark" \notin UndoSteps
  BY DEF DestSteps, UndoSteps
<1>5. workers[w].at \in DestSteps /\ workers[w].at \in ApplySteps
  BY <1>2
<1>6. "mark" \notin DestSteps
  BY DEF DestSteps
<1> QED BY <1>1, <1>2, <1>3, <1>4, <1>5, <1>6 DEF Learned

LEMMA UpsertsItemKeepsInv ==
  ASSUME Inv, NEW w \in Workers, UpsertsItem(w)
  PROVE  Inv'
<1> DEFINE tier == ProbedTier(workers[w].dest, 1)
           r == [workers[w] EXCEPT !.at = "sync", !.row = item'.id]
<1>1. /\ workers[w] \in Requests /\ workers[w].dest \in Paths
      /\ Learned(workers[w], "sync")
  BY PlacedRequest DEF UpsertsItem, At, DestSteps, Inv, WorkersInv
<1>2. tier \in Nat BY ProbedTierIsNat DEF Inv
<1>3. item \in Items /\ minted \in 0 .. MaxItems BY DEF Inv, LibraryInv
<1>4. item' \in Items /\ minted' \in 0 .. MaxItems
  <2>1. CASE item.id = 0
    <3>1. minted < MaxItems /\ minted' = minted + 1
      BY <2>1 DEF UpsertsItem
    <3>2. item' = [id |-> minted + 1, path |-> workers[w].dest, tier |-> tier]
      BY <2>1 DEF UpsertsItem
    <3>3. minted + 1 \in 0 .. MaxItems BY <3>1, <1>3, BoundsAssumption
    <3> QED BY <3>1, <3>2, <3>3, <1>1, <1>2 DEF Items
  <2>2. CASE item.id # 0
    <3>1. item' = [item EXCEPT !.path = workers[w].dest, !.tier = tier] /\ minted' = minted
      BY <2>2 DEF UpsertsItem
    <3> QED BY <3>1, <1>1, <1>2, <1>3 DEF Items
  <2> QED BY <2>1, <2>2
<1>5. item'.id \in 0 .. MaxItems BY <1>4 DEF Items
<1>6. r \in Requests BY <1>1, <1>5 DEF Requests, Steps
<1>7. Learned(r, r.at) BY <1>1 DEF Requests, Learned
<1>8. workers' = [workers EXCEPT ![w] = r] BY <1>1 DEF UpsertsItem, Inv, WorkersInv
<1>9. WorkersInv' BY <1>6, <1>7, <1>8, WorkerMoves DEF Inv
<1>10. LibraryInv' BY <1>4 DEF LibraryInv, UpsertsItem, Inv
<1> QED BY <1>9, <1>10, OnlyLibrary DEF UpsertsItem

LEMMA SyncsPrimaryKeepsInv ==
  ASSUME Inv, NEW w \in Workers, SyncsPrimary(w)
  PROVE  Inv'
<1>1. files' \in [Paths -> FileRow]
  BY DEF SyncsPrimary, Inv, LibraryInv, FileRow
<1>2. LibraryInv' BY <1>1 DEF LibraryInv, SyncsPrimary, Inv
<1>3. "record" \in Steps /\ Learned(workers[w], "record")
  BY PlacedRequest DEF SyncsPrimary, At, DestSteps
<1>4. WorkersInv'
  BY <1>3, GotoKeepsWorkers, EndKeepsWorkers DEF SyncsPrimary, Inv
<1> QED BY <1>2, <1>4, OnlyLibrary DEF SyncsPrimary

LEMMA UpsertFileRows ==
  ASSUME LibraryInv, NEW p
  PROVE  AsPrimary(p) \in [Paths -> FileRow] /\ AsAlternate(p) \in [Paths -> FileRow]
BY DEF LibraryInv, AsPrimary, AsAlternate, FileRow

LEMMA RecordsFileKeepsInv ==
  ASSUME Inv, NEW w \in Workers, NEW at \in DestSteps \ {"put back"},
         NEW rows \in [Paths -> FileRow],
         NEW next \in (DestSteps \ {"put back"}) \union {"mark"},
         RecordsFile(w, at, rows, next)
  PROVE  Inv'
<1>1. next \in Steps /\ Learned(workers[w], next)
  BY PlacedRequest DEF RecordsFile, At
<1>2. WorkersInv'
  BY <1>1, GotoKeepsWorkers, EndKeepsWorkers DEF RecordsFile, Inv
<1>3. LibraryInv' BY DEF LibraryInv, RecordsFile, Inv
<1> QED BY <1>2, <1>3, OnlyLibrary DEF RecordsFile

LEMMA RecordsKeepInv ==
  ASSUME Inv, NEW w \in Workers,
         \/ RecordsPrimary(w) \/ RefreshesPrimary(w) \/ RecordsAlternate(w)
         \/ RecordsPromoted(w) \/ RecordsDemoted(w)
  PROVE  Inv'
<1>1. \A p: AsPrimary(p) \in [Paths -> FileRow] /\ AsAlternate(p) \in [Paths -> FileRow]
  BY UpsertFileRows DEF Inv
<1>2. CASE RecordsPrimary(w)
  BY <1>1, <1>2, RecordsFileKeepsInv DEF RecordsPrimary, DestSteps
<1>3. CASE RefreshesPrimary(w)
  BY <1>1, <1>3, RecordsFileKeepsInv DEF RefreshesPrimary, DestSteps
<1>4. CASE RecordsAlternate(w)
  BY <1>1, <1>4, RecordsFileKeepsInv DEF RecordsAlternate, DestSteps
<1>5. CASE RecordsPromoted(w)
  BY <1>1, <1>5, RecordsFileKeepsInv DEF RecordsPromoted, DestSteps
<1>6. CASE RecordsDemoted(w)
  BY <1>1, <1>6, RecordsFileKeepsInv DEF RecordsDemoted, DestSteps
<1> QED BY <1>2, <1>3, <1>4, <1>5, <1>6

LEMMA RetargetsItemKeepsInv ==
  ASSUME Inv, NEW w \in Workers, RetargetsItem(w)
  PROVE  Inv'
<1>1. /\ workers[w].dest \in Paths
      /\ "primary" \in Steps /\ Learned(workers[w], "primary")
  BY PlacedRequest DEF RetargetsItem, At, DestSteps
<1>2. workers[w].tier \in Nat BY DEF Inv, WorkersInv, Requests
<1>3. item' \in Items
  BY <1>1, <1>2 DEF RetargetsItem, Inv, LibraryInv, Items, WithPrimary
<1>4. LibraryInv' BY <1>3 DEF LibraryInv, RetargetsItem, Inv
<1>5. WorkersInv' BY <1>1, GotoKeepsWorkers DEF RetargetsItem, Inv
<1> QED BY <1>4, <1>5, OnlyLibrary DEF RetargetsItem

LEMMA UndoDeletesItemKeepsInv ==
  ASSUME Inv, NEW w \in Workers, UndoDeletesItem(w)
  PROVE  Inv'
<1>1. "snapshot" \in Steps /\ Learned(workers[w], "snapshot")
  BY UndoingRequest DEF UndoDeletesItem, At, UndoSteps
<1>2. NoItem \in Items /\ NoFiles \in [Paths -> FileRow]
  BY BoundsAssumption DEF NoItem, Items, NoFiles, FileRow
<1>3. LibraryInv' BY <1>2 DEF LibraryInv, UndoDeletesItem, Inv
<1>4. WorkersInv' BY <1>1, GotoKeepsWorkers DEF UndoDeletesItem, Inv
<1> QED BY <1>3, <1>4, OnlyLibrary DEF UndoDeletesItem

LEMMA UndoRestoresItemKeepsInv ==
  ASSUME Inv, NEW w \in Workers, UndoRestoresItem(w)
  PROVE  Inv'
<1>1. /\ workers[w].entry \in Entries
      /\ "snapshot" \in Steps /\ Learned(workers[w], "snapshot")
  BY UndoingRequest DEF UndoRestoresItem, At, UndoSteps
<1>2. item' \in Items
  BY <1>1 DEF UndoRestoresItem, Inv, LibraryInv, Entries
<1>3. LibraryInv' BY <1>2 DEF LibraryInv, UndoRestoresItem, Inv
<1>4. WorkersInv' BY <1>1, GotoKeepsWorkers DEF UndoRestoresItem, Inv
<1> QED BY <1>3, <1>4, OnlyLibrary DEF UndoRestoresItem

-----------------------------------------------------------------------------
(* Steps that write the disk, the archive or the queue *)

LEMMA MoveDestination ==
  ASSUME Inv, NEW w \in Workers, workers[w].at \in MoveSteps
  PROVE  /\ workers[w].dest \in Paths
         /\ AfterMove(workers[w].at) \in Steps
         /\ Learned(workers[w], AfterMove(workers[w].at))
<1>1. workers[w].dest \in Paths /\ Learned(workers[w], workers[w].at)
  BY DEF Inv, WorkersInv, Learned, MoveSteps, DestSteps
<1>2. CASE workers[w].at = "put back"
  BY <1>1, <1>2 DEF AfterMove, Steps, Learned, ApplySteps, DestSteps, UndoSteps
<1>3. CASE workers[w].at # "put back"
  BY <1>1, <1>3 DEF AfterMove, MoveSteps, Steps, Learned, ApplySteps, DestSteps, UndoSteps
<1> QED BY <1>1, <1>2, <1>3

LEMMA MovesKeepsInv ==
  ASSUME Inv, NEW w \in Workers, Moves(w)
  PROVE  Inv'
<1>1. /\ workers[w].at \in MoveSteps
      /\ workers[w].dest \in Paths
      /\ AfterMove(workers[w].at) \in Steps
      /\ Learned(workers[w], AfterMove(workers[w].at))
  BY MoveDestination DEF Moves
<1>2. AfterMove("put back") = "revert" BY DEF AfterMove
<1>3. WorkersInv'
  BY <1>1, <1>2, GotoKeepsWorkers, EndKeepsWorkers DEF Moves, Inv
<1>4. disk' \in [Paths -> Files \union {NoFile}]
  <2>1. CASE Exists(workers[w].from)
    BY <2>1, <1>1, OccupiedPath DEF Moves, Inv, DiskInv
  <2>2. CASE ~Exists(workers[w].from)
    BY <2>2 DEF Moves, Inv, DiskInv
  <2> QED BY <2>1, <2>2
<1> QED BY <1>3, <1>4
    DEF Inv, Moves, DiskInv, LibraryInv, QueueInv, ArchiveInv, ScanInv, library, Live

LEMMA EvictionBounds ==
  ASSUME ArchiveInv, NEW e \in Entries
  PROVE  LET kept == Evict(Append(archive, e)) IN
         kept \in Seq(Entries) /\ Len(kept) <= Depth
<1> DEFINE all == Append(archive, e)
<1>1. all \in Seq(Entries) /\ Len(all) = Len(archive) + 1 /\ all # <<>>
  BY DEF ArchiveInv
<1>2. Tail(all) \in Seq(Entries) /\ Len(Tail(all)) = Len(all) - 1
  BY <1>1
<1>3. Len(archive) \in Nat /\ Len(archive) <= Depth BY DEF ArchiveInv
<1> QED BY <1>1, <1>2, <1>3, BoundsAssumption DEF Evict

LEMMA ArchivesKeepsInv ==
  ASSUME Inv, NEW w \in Workers, Archives(w)
  PROVE  Inv'
<1> DEFINE r == workers[w]
           size == IF Exists(r.dest) THEN Size[disk[r.dest]] ELSE 0
           e == [id |-> r.id, src |-> r.src, post |-> r.dest, size |-> size,
                 fold |-> r.demoted # NoPath, old |-> r.old, item |-> r.row,
                 file |-> disk[r.dest]]
<1>1. r \in Requests /\ r.id \in Ids /\ r.src \in Paths
  BY ApplyingRequest DEF Archives, At, ApplySteps, DestSteps, Inv, WorkersInv
<1>2. r.dest \in Paths /\ "mark" \in Steps /\ Learned(r, "mark")
  BY PlacedRequest DEF Archives, At, DestSteps
<1>3. size \in Nat BY OccupiedPath, QualityAssumption DEF Inv
<1>4. disk[r.dest] \in Files \union {NoFile} BY <1>2 DEF Inv, DiskInv
<1>5. r.old \in Items /\ r.row \in 0 .. MaxItems BY <1>1 DEF Requests
<1>6. e \in Entries BY <1>1, <1>2, <1>3, <1>4, <1>5 DEF Entries
<1>7. archive' = Evict(Append(archive, e)) BY DEF Archives
<1>8. ArchiveInv' BY <1>6, <1>7, EvictionBounds DEF ArchiveInv, Inv
<1>9. WorkersInv' BY <1>2, GotoKeepsWorkers DEF Archives, Inv
<1> QED BY <1>8, <1>9
    DEF Inv, Archives, DiskInv, LibraryInv, QueueInv, ScanInv, library, Live

LEMMA UndoConsumesKeepsInv ==
  ASSUME Inv, NEW w \in Workers, UndoConsumes(w)
  PROVE  Inv'
<1>1. ArchiveInv'
  <2>1. CASE archive' = archive BY <2>1 DEF Inv, ArchiveInv
  <2>2. CASE archive' # archive
    <3>1. PICK k \in DOMAIN archive:
            archive' = SubSeq(archive, 1, k - 1) \o SubSeq(archive, k + 1, Len(archive))
      BY <2>2 DEF UndoConsumes
    <3> DEFINE before == SubSeq(archive, 1, k - 1)
               after == SubSeq(archive, k + 1, Len(archive))
    <3>2. archive \in Seq(Entries) /\ Len(archive) <= Depth
      BY DEF Inv, ArchiveInv
    <3>3. k \in 1 .. Len(archive) /\ Len(archive) \in Nat BY <3>2
    <3>4. before \in Seq(Entries) /\ Len(before) = k - 1
      BY <3>2, <3>3
    <3>5. after \in Seq(Entries) /\ Len(after) = Len(archive) - k
      BY <3>2, <3>3
    <3>6. before \o after \in Seq(Entries) /\ Len(before \o after) = Len(before) + Len(after)
      BY <3>4, <3>5
    <3>7. Len(before \o after) <= Depth
      BY <3>2, <3>3, <3>4, <3>5, <3>6, BoundsAssumption
    <3> QED BY <3>1, <3>6, <3>7 DEF ArchiveInv
  <2> QED BY <2>1, <2>2
<1>2. WorkersInv' BY EndKeepsWorkers DEF UndoConsumes, Inv
<1> QED BY <1>1, <1>2
    DEF Inv, UndoConsumes, DiskInv, LibraryInv, QueueInv, ScanInv, library, Live

LEMMA OnlyQueue ==
  ASSUME Inv, WorkersInv', QueueInv',
         UNCHANGED <<disk, arrived, library, archive, scan, failures>>
  PROVE  Inv'
BY DEF Inv, DiskInv, LibraryInv, ArchiveInv, ScanInv, library

LEMMA MarksKeepsInv ==
  ASSUME Inv, NEW w \in Workers, Marks(w)
  PROVE  Inv'
<1>1. PICK rows: queue' = [i \in Ids |-> IF i \in rows
                                        THEN [queue[i] EXCEPT !.status = "applied"]
                                        ELSE queue[i]]
  BY DEF Marks
<1>2. QueueInv' BY <1>1 DEF QueueInv, Inv, Proposals, Live
<1>3. WorkersInv' BY EndKeepsWorkers DEF Marks, Inv
<1> QED BY <1>2, <1>3, OnlyQueue DEF Marks

LEMMA UndoRestoresProposalKeepsInv ==
  ASSUME Inv, NEW w \in Workers, UndoRestoresProposal(w)
  PROVE  Inv'
<1> DEFINE e == workers[w].entry
<1>1. e \in Entries /\ "consume" \in Steps /\ Learned(workers[w], "consume")
  BY UndoingRequest DEF UndoRestoresProposal, At, UndoSteps
<1>2. e.id \in Ids /\ e.src \in Paths BY <1>1 DEF Entries
<1>3. QueueInv'
  BY <1>2 DEF UndoRestoresProposal, Inv, QueueInv, Proposals, Live
<1>4. WorkersInv'
  BY <1>1, GotoKeepsWorkers, EndKeepsWorkers DEF UndoRestoresProposal, Inv
<1> QED BY <1>3, <1>4, OnlyQueue DEF UndoRestoresProposal

-----------------------------------------------------------------------------
(* Scans, arrivals and failures *)

LEMMA ScanReadsKeepsInv ==
  ASSUME Inv, ScanReads
  PROVE  Inv'
<1> DEFINE found == {p \in Paths: Entry(p)}
           catalogued == {p \in found: p[1] \in Tagged}
<1>1. ScanInv' BY DEF ScanReads, ScanInv
<1>2. LibraryInv'
  <2>1. CASE UNCHANGED library
    BY <2>1 DEF Inv, LibraryInv, library
  <2>2. CASE ~UNCHANGED library
    <3>1. PICK first \in catalogued:
            /\ item.id = 0 => minted < MaxItems
            /\ minted' = IF item.id = 0 THEN minted + 1 ELSE minted
            /\ Catalog(catalogued, first)
      BY <2>2 DEF ScanReads
    <3>2. first \in Paths OBVIOUS
    <3>3. item \in Items /\ minted \in 0 .. MaxItems /\ files \in [Paths -> FileRow]
      BY DEF Inv, LibraryInv
    <3>4. minted' \in 0 .. MaxItems /\ (item.id = 0 => minted + 1 \in 0 .. MaxItems)
      BY <3>1, <3>3, BoundsAssumption
    <3>5. item' \in Items BY <3>1, <3>2, <3>3, <3>4 DEF Catalog, Items
    <3>6. files' \in [Paths -> FileRow] BY <3>1, <3>3 DEF Catalog, FileRow
    <3> QED BY <3>4, <3>5, <3>6 DEF LibraryInv
  <2> QED BY <2>1, <2>2
<1> QED BY <1>1, <1>2 DEF Inv, ScanReads, DiskInv, QueueInv, ArchiveInv, WorkersInv, Live

LEMMA ScanReplacesKeepsInv ==
  ASSUME Inv, ScanReplaces
  PROVE  Inv'
<1> DEFINE new == {p \in scan.found: LiveAt(p) = {}}
           unused == {i \in Ids: queue[i].status = "none"}
<1>1. new \subseteq Paths BY DEF Inv, ScanInv
<1>2. PICK id \in [new -> unused]:
        queue' = [i \in Ids |->
          IF \E p \in new: id[p] = i
          THEN [status |-> "pending", path |-> CHOOSE p \in new: id[p] = i]
          ELSE IF Live(i) /\ queue[i].path \notin scan.found
          THEN [status |-> "deleted", path |-> queue[i].path]
          ELSE queue[i]]
  BY DEF ScanReplaces
<1>3. \A i \in Ids: (\E p \in new: id[p] = i) =>
        (CHOOSE p \in new: id[p] = i) \in Paths
  BY <1>1
<1>4. QueueInv'
  <2>1. queue \in [Ids -> Proposals] /\ \A i \in Ids: Live(i) => queue[i].path \in Paths
    BY DEF Inv, QueueInv
  <2>2. ASSUME NEW i \in Ids
        PROVE  queue'[i] \in Proposals /\ (queue'[i].status = "pending" => queue'[i].path \in Paths)
    BY <1>2, <1>3, <2>1 DEF Proposals, Live
  <2>3. queue' \in [Ids -> Proposals] BY <1>2, <2>2
  <2> QED BY <2>2, <2>3 DEF QueueInv, Live
<1>5. ScanInv' BY DEF ScanReplaces, ScanInv, NoScan
<1> QED BY <1>4, <1>5
    DEF Inv, ScanReplaces, DiskInv, LibraryInv, ArchiveInv, WorkersInv, library

LEMMA ScanDefersKeepsInv ==
  ASSUME Inv, ScanDefers
  PROVE  Inv'
BY DEF Inv, ScanDefers, ScanInv, NoScan, DiskInv, LibraryInv, QueueInv,
       ArchiveInv, WorkersInv, library, Live

LEMMA ArrivesKeepsInv ==
  ASSUME Inv, NEW f \in Files, Arrives(f)
  PROVE  Inv'
BY DEF Inv, Arrives, DiskInv, LibraryInv, QueueInv, ArchiveInv, WorkersInv,
       ScanInv, library, Live

LEMMA BreaksOffKeepsInv ==
  ASSUME Inv, NEW w \in Workers, BreaksOff(w)
  PROVE  Inv'
<1>1. WorkersInv' BY EndKeepsWorkers DEF BreaksOff, Inv
<1>2. failures' \in 0 .. MaxFailures BY BoundsAssumption DEF BreaksOff, Inv
<1> QED BY <1>1, <1>2
    DEF Inv, BreaksOff, DiskInv, LibraryInv, QueueInv, ArchiveInv, ScanInv, library, Live

-----------------------------------------------------------------------------
(* Type correctness *)

LEMMA InitInv == Init => Inv
<1> SUFFICES ASSUME Init PROVE Inv OBVIOUS
<1>1. DiskInv BY DEF Init, DiskInv
<1>2. LibraryInv
  BY BoundsAssumption DEF Init, LibraryInv, NoItem, Items, NoFiles, FileRow
<1>3. QueueInv BY DEF Init, QueueInv, Proposals, Live
<1>4. ArchiveInv BY BoundsAssumption DEF Init, ArchiveInv
<1>5. WorkersInv BY IdleRequest DEF Init, WorkersInv
<1>6. ScanInv BY DEF Init, ScanInv, NoScan
<1> QED BY <1>1, <1>2, <1>3, <1>4, <1>5, <1>6, BoundsAssumption DEF Init, Inv

LEMMA RequestKeepsInv ==
  ASSUME Inv, NEW w \in Workers, GoesOn(w)
  PROVE  Inv'
<1>1. CASE Moves(w) BY <1>1, MovesKeepsInv
<1>2. CASE Apply(w)
  BY <1>2, ApplyLooksUpKeepsInv, FindsNothingKeepsInv, RelocatesKeepsInv,
     UpsertsItemKeepsInv, SyncsPrimaryKeepsInv, RecordsKeepInv, FoldsInKeepsInv,
     DemotesKeepsInv, PromotesKeepsInv, RetargetsItemKeepsInv,
     ArchivesKeepsInv, MarksKeepsInv
  DEF Apply
<1>3. CASE Undo(w)
  BY <1>3, UndoChecksFileKeepsInv, UndoRevertsKeepsInv, UndoDeletesItemKeepsInv,
     UndoRestoresItemKeepsInv, UndoRestoresProposalKeepsInv, UndoConsumesKeepsInv
  DEF Undo
<1> QED BY <1>1, <1>2, <1>3 DEF GoesOn

LEMMA NextInv == Inv /\ [Next]_vars => Inv'
<1> SUFFICES ASSUME Inv, [Next]_vars PROVE Inv' OBVIOUS
<1>1. CASE \E f \in Files: Arrives(f) BY <1>1, ArrivesKeepsInv
<1>2. CASE Scan
  BY <1>2, ScanReadsKeepsInv, ScanReplacesKeepsInv, ScanDefersKeepsInv DEF Scan
<1>3. CASE \E w \in Workers, i \in Ids: ApplyBegins(w, i) \/ UndoBegins(w, i)
  BY <1>3, ApplyBeginsKeepsInv, UndoBeginsKeepsInv
<1>4. CASE \E w \in Workers: GoesOn(w) BY <1>4, RequestKeepsInv
<1>5. CASE \E w \in Workers: BreaksOff(w) BY <1>5, BreaksOffKeepsInv
<1>6. CASE UNCHANGED vars
  BY <1>6 DEF vars, Inv, DiskInv, LibraryInv, QueueInv, ArchiveInv, WorkersInv,
              ScanInv, library, Live
<1> QED BY <1>1, <1>2, <1>3, <1>4, <1>5, <1>6 DEF Next

LEMMA InvAlways == Spec => []Inv
BY InitInv, NextInv, PTL DEF Spec

\* Disk, library, queue, archive and requests stay well formed whatever number
\* of requests and scans interleave, and the archive never outgrows its depth.
THEOREM TypeCorrect == Spec => []TypeOK
<1>1. Inv => TypeOK
  BY DEF Inv, TypeOK, DiskInv, LibraryInv, QueueInv, ArchiveInv, WorkersInv, ScanInv
<1> QED BY <1>1, InvAlways, PTL

-----------------------------------------------------------------------------
(* No file is lost while requests come one at a time *)

\* A request about to rename has its destination to itself.
DestinationFree ==
  \A w \in Workers: workers[w].at \in MoveSteps =>
    workers[w].from = workers[w].dest \/ ~Exists(workers[w].dest)

LEMMA FreeWhileDiskStays ==
  ASSUME DestinationFree, NEW w \in Workers, UNCHANGED disk,
         \A v \in Workers \ {w}: workers'[v] = workers[v],
         workers'[w].at \in MoveSteps =>
           workers'[w].from = workers'[w].dest \/ ~Exists(workers'[w].dest)
  PROVE  DestinationFree'
BY DEF DestinationFree, Exists

LEMMA FreeAfterEnd ==
  ASSUME Inv, DestinationFree, NEW w \in Workers, UNCHANGED disk, End(w)
  PROVE  DestinationFree'
<1>1. workers' = [workers EXCEPT ![w] = Idle] /\ workers \in [Workers -> Requests]
  BY DEF End, Inv, WorkersInv
<1>2. workers'[w].at = "idle" BY <1>1 DEF Idle
<1>3. \A v \in Workers \ {w}: workers'[v] = workers[v] BY <1>1
<1> QED BY <1>2, <1>3, FreeWhileDiskStays DEF MoveSteps

LEMMA FreeAfterGoto ==
  ASSUME Inv, DestinationFree, NEW w \in Workers, UNCHANGED disk,
         NEW at, at \notin MoveSteps, Goto(w, at)
  PROVE  DestinationFree'
<1>1. workers' = [workers EXCEPT ![w].at = at] /\ workers \in [Workers -> Requests]
  BY DEF Goto, Inv, WorkersInv
<1>2. workers'[w].at = at BY <1>1 DEF Requests
<1>3. \A v \in Workers \ {w}: workers'[v] = workers[v] BY <1>1
<1> QED BY <1>2, <1>3, FreeWhileDiskStays

LEMMA FreeAfterChoice ==
  ASSUME Inv, DestinationFree, NEW w \in Workers, UNCHANGED disk,
         NEW at, NEW from, NEW target, Chooses(w, at, from, target)
  PROVE  DestinationFree'
<1>1. PICK d \in Paths:
        /\ Destination(from, target, d)
        /\ workers' = [workers EXCEPT ![w].at = at, ![w].from = from, ![w].dest = d]
  BY DEF Chooses
<1>2. workers \in [Workers -> Requests] BY DEF Inv, WorkersInv
<1>3. workers'[w].from = from /\ workers'[w].dest = d
  BY <1>1, <1>2 DEF Requests
<1>4. from = d \/ ~Exists(d) BY <1>1 DEF Destination, UniquePath
<1>5. \A v \in Workers \ {w}: workers'[v] = workers[v] BY <1>1, <1>2
<1> QED BY <1>3, <1>4, <1>5, FreeWhileDiskStays

LEMMA FreeAfterDemotes ==
  ASSUME Inv, DestinationFree, NEW w \in Workers, Demotes(w)
  PROVE  DestinationFree'
<1>1. UNCHANGED disk BY DEF Demotes
<1>2. CASE End(w) BY <1>1, <1>2, FreeAfterEnd
<1>3. CASE ~End(w)
  <2> DEFINE from == workers[w].old.path
  <2>1. PICK d \in Paths:
          /\ Destination(from, Plain(Alternate[disk[from]]), d)
          /\ workers' = [workers EXCEPT ![w].at = "demote", ![w].dest = d,
               ![w].from = from, ![w].demoted = d, ![w].tier = Tier[disk[workers[w].src]]]
    BY <1>3 DEF Demotes
  <2>2. workers \in [Workers -> Requests] BY DEF Inv, WorkersInv
  <2>3. workers'[w].from = from /\ workers'[w].dest = d
    BY <2>1, <2>2 DEF Requests
  <2>4. from = d \/ ~Exists(d) BY <2>1 DEF Destination, UniquePath
  <2>5. \A v \in Workers \ {w}: workers'[v] = workers[v] BY <2>1, <2>2
  <2> QED BY <1>1, <2>3, <2>4, <2>5, FreeWhileDiskStays
<1> QED BY <1>2, <1>3

LEMMA FreeAfterUpserts ==
  ASSUME Inv, DestinationFree, NEW w \in Workers, UpsertsItem(w)
  PROVE  DestinationFree'
<1>1. workers' = [workers EXCEPT ![w].at = "sync", ![w].row = item'.id]
      /\ workers \in [Workers -> Requests]
  BY DEF UpsertsItem, Inv, WorkersInv
<1>2. workers'[w].at = "sync" BY <1>1 DEF Requests
<1>3. \A v \in Workers \ {w}: workers'[v] = workers[v] BY <1>1
<1> QED BY <1>2, <1>3, FreeWhileDiskStays DEF UpsertsItem, MoveSteps

LEMMA FreeAfterLookup ==
  ASSUME Inv, DestinationFree, NEW w \in Workers, ApplyLooksUp(w)
  PROVE  DestinationFree'
<1>1. UNCHANGED disk BY DEF ApplyLooksUp
<1>2. CASE End(w) BY <1>1, <1>2, FreeAfterEnd
<1>3. CASE workers' = [workers EXCEPT ![w].at = "looked", ![w].old = item,
                                      ![w].row = item.id]
  <2>1. workers \in [Workers -> Requests] BY DEF Inv, WorkersInv
  <2>2. workers'[w].at = "looked" BY <1>3, <2>1 DEF Requests
  <2>3. \A v \in Workers \ {w}: workers'[v] = workers[v] BY <1>3, <2>1
  <2> QED BY <1>1, <2>2, <2>3, FreeWhileDiskStays DEF MoveSteps
<1> QED BY <1>2, <1>3 DEF ApplyLooksUp

LEMMA FreeAfterBegins ==
  ASSUME Inv, DestinationFree, NEW w \in Workers, NEW i \in Ids,
         ApplyBegins(w, i) \/ UndoBegins(w, i)
  PROVE  DestinationFree'
<1>1. workers \in [Workers -> Requests] BY DEF Inv, WorkersInv
<1>2. CASE ApplyBegins(w, i)
  <2>1. workers' = [workers EXCEPT ![w].at = "got", ![w].id = i,
                                   ![w].src = queue[i].path]
    BY <1>2 DEF ApplyBegins
  <2>2. workers'[w].at = "got" BY <1>1, <2>1 DEF Requests
  <2>3. \A v \in Workers \ {w}: workers'[v] = workers[v] BY <1>1, <2>1
  <2> QED BY <1>2, <2>2, <2>3, FreeWhileDiskStays DEF ApplyBegins, MoveSteps
<1>3. CASE UndoBegins(w, i)
  <2>1. PICK k \in DOMAIN archive:
          workers' = [workers EXCEPT ![w].at = "check", ![w].id = i,
                                     ![w].entry = archive[k]]
    BY <1>3 DEF UndoBegins
  <2>2. workers'[w].at = "check" BY <1>1, <2>1 DEF Requests
  <2>3. \A v \in Workers \ {w}: workers'[v] = workers[v] BY <1>1, <2>1
  <2> QED BY <1>3, <2>2, <2>3, FreeWhileDiskStays DEF UndoBegins, MoveSteps
<1> QED BY <1>2, <1>3

\* Every step of a request but its renames leaves the disk alone.
LEMMA FreeAfterApply ==
  ASSUME Inv, DestinationFree, NEW w \in Workers, Apply(w)
  PROVE  DestinationFree' /\ UNCHANGED <<disk, arrived>>
<1>1. UNCHANGED <<disk, arrived>>
  BY DEF Apply, ApplyLooksUp, FindsNothing, Relocates, UpsertsItem, SyncsPrimary,
         RecordsPrimary, RecordsFile, FoldsIn, RefreshesPrimary, RecordsAlternate,
         Demotes, Promotes, RetargetsItem, RecordsPromoted, RecordsDemoted,
         Archives, Marks
<1>2. CASE ApplyLooksUp(w) \/ UpsertsItem(w) \/ Demotes(w)
  BY <1>1, <1>2, FreeAfterLookup, FreeAfterUpserts, FreeAfterDemotes
<1>3. CASE FindsNothing(w) \/ Marks(w)
  BY <1>1, <1>3, FreeAfterEnd DEF FindsNothing, Marks
<1>4. CASE Relocates(w) \/ FoldsIn(w)
  BY <1>1, <1>4, FreeAfterChoice DEF Relocates, FoldsIn
<1>5. CASE Promotes(w)
  BY <1>1, <1>5, FreeAfterChoice, FreeAfterEnd DEF Promotes
<1>6. CASE SyncsPrimary(w)
  BY <1>1, <1>6, FreeAfterGoto, FreeAfterEnd DEF SyncsPrimary, MoveSteps
<1>7. CASE RecordsPrimary(w) \/ RefreshesPrimary(w) \/ RecordsAlternate(w)
           \/ RecordsPromoted(w) \/ RecordsDemoted(w)
  BY <1>1, <1>7, FreeAfterGoto, FreeAfterEnd
  DEF RecordsPrimary, RefreshesPrimary, RecordsAlternate, RecordsPromoted,
      RecordsDemoted, RecordsFile, MoveSteps
<1>8. CASE RetargetsItem(w) \/ Archives(w)
  BY <1>1, <1>8, FreeAfterGoto DEF RetargetsItem, Archives, MoveSteps
<1> QED BY <1>1, <1>2, <1>3, <1>4, <1>5, <1>6, <1>7, <1>8 DEF Apply

LEMMA FreeAfterUndo ==
  ASSUME Inv, DestinationFree, NEW w \in Workers, Undo(w)
  PROVE  DestinationFree' /\ UNCHANGED <<disk, arrived>>
<1>1. UNCHANGED <<disk, arrived>>
  BY DEF Undo, UndoChecksFile, UndoReverts, UndoDeletesItem, UndoRestoresItem,
         UndoRestoresProposal, UndoConsumes
<1>2. CASE UndoChecksFile(w)
  BY <1>1, <1>2, FreeAfterGoto, FreeAfterChoice DEF UndoChecksFile, MoveSteps
<1>3. CASE UndoReverts(w)
  BY <1>1, <1>3, FreeAfterGoto DEF UndoReverts, MoveSteps
<1>4. CASE UndoDeletesItem(w) \/ UndoRestoresItem(w)
  BY <1>1, <1>4, FreeAfterGoto DEF UndoDeletesItem, UndoRestoresItem, MoveSteps
<1>5. CASE UndoRestoresProposal(w)
  BY <1>1, <1>5, FreeAfterGoto, FreeAfterEnd DEF UndoRestoresProposal, MoveSteps
<1>6. CASE UndoConsumes(w)
  BY <1>1, <1>6, FreeAfterEnd DEF UndoConsumes
<1> QED BY <1>1, <1>2, <1>3, <1>4, <1>5, <1>6 DEF Undo

\* The one request there is has done its rename: nobody else is about to.
LEMMA FreeAfterMoves ==
  ASSUME Inv, NEW w \in Workers, \A v \in Workers: v = w, Moves(w)
  PROVE  DestinationFree'
<1>1. workers \in [Workers -> Requests] BY DEF Inv, WorkersInv
<1>2. CASE End(w)
  <2>1. workers'[w].at = "idle" BY <1>1, <1>2 DEF End, Idle
  <2> QED BY <2>1 DEF DestinationFree, MoveSteps
<1>3. CASE ~End(w)
  <2>1. workers[w].at \in MoveSteps BY DEF Moves
  <2>2. Goto(w, AfterMove(workers[w].at)) \/ Goto(w, "revert")
    BY <1>3 DEF Moves
  <2>3. workers'[w].at \in {AfterMove(workers[w].at), "revert"}
    BY <1>1, <2>2 DEF Goto, Requests
  <2>4. AfterMove(workers[w].at) \notin MoveSteps
    BY <2>1 DEF AfterMove, MoveSteps
  <2>5. workers'[w].at \notin MoveSteps BY <2>3, <2>4 DEF MoveSteps
  <2> QED BY <2>5 DEF DestinationFree
<1> QED BY <1>2, <1>3

\* A rename to a free path carries its file along and disturbs no other.
LEMMA RenameKeepsFiles ==
  ASSUME Inv, DestinationFree, NoFileLost, NEW w \in Workers, Moves(w)
  PROVE  NoFileLost'
<1> DEFINE from == workers[w].from
           dest == workers[w].dest
<1>1. disk \in [Paths -> Files \union {NoFile}] /\ arrived' = arrived
  BY DEF Inv, DiskInv, Moves
<1>2. CASE UNCHANGED disk BY <1>1, <1>2 DEF NoFileLost
<1>3. CASE ~UNCHANGED disk
  <2>1. /\ Exists(from) /\ from # dest
        /\ disk' = [disk EXCEPT ![from] = NoFile, ![dest] = disk[from]]
    BY <1>3 DEF Moves
  <2>2. from \in Paths /\ dest \in Paths
    BY <2>1, OccupiedPath, MoveDestination DEF Inv, Moves
  <2>3. disk[dest] = NoFile
    BY <2>1, <2>2 DEF DestinationFree, Moves, Exists
  <2>4. SUFFICES ASSUME NEW f \in arrived PROVE \E p \in Paths: disk'[p] = f
    BY <1>1 DEF NoFileLost
  <2>5. PICK p \in Paths: disk[p] = f BY DEF NoFileLost
  <2>6. f # NoFile BY FilesAssumption DEF Inv, DiskInv
  <2>7. CASE p = from
    <3>1. disk'[dest] = f BY <1>1, <2>1, <2>2, <2>5, <2>7
    <3> QED BY <3>1, <2>2
  <2>8. CASE p # from
    <3>1. p # dest BY <2>3, <2>5, <2>6
    <3>2. disk'[p] = f BY <1>1, <2>1, <2>5, <2>8, <3>1
    <3> QED BY <3>2
  <2> QED BY <2>7, <2>8
<1> QED BY <1>2, <1>3

LEMMA ArrivalKeepsFiles ==
  ASSUME Inv, DestinationFree, NoFileLost, NEW f \in Files, Arrives(f)
  PROVE  DestinationFree' /\ NoFileLost'
<1> DEFINE new == Plain(Source[f])
<1>1. /\ disk \in [Paths -> Files \union {NoFile}] /\ arrived \subseteq Files
      /\ disk' = [disk EXCEPT ![new] = f] /\ arrived' = arrived \union {f}
      /\ ~Exists(new) /\ workers' = workers
      /\ \A w \in Workers: workers[w].dest # new
  BY DEF Inv, DiskInv, Arrives
<1>2. new \in Paths
  <2>1. Cardinality(Files) \in Nat /\ Cardinality(Files) # 0
    BY FilesAssumption, FS_CardinalityType, FS_EmptySet
  <2>2. Source[f] \in Names BY NamesAssumption
  <2> QED BY <2>1, <2>2 DEF Paths, Plain
<1>3. DestinationFree'
  BY <1>1 DEF DestinationFree, Exists
<1>4. ASSUME NEW g \in arrived' PROVE \E p \in Paths: disk'[p] = g
  <2>1. CASE g = f
    <3>1. disk'[new] = f BY <1>1, <1>2
    <3> QED BY <2>1, <3>1, <1>2
  <2>2. CASE g # f
    <3>1. PICK p \in Paths: disk[p] = g BY <1>1, <2>2 DEF NoFileLost
    <3>2. g # NoFile BY <1>1, <2>2, FilesAssumption
    <3>3. p # new BY <1>1, <3>1, <3>2 DEF Exists
    <3>4. disk'[p] = g BY <1>1, <3>1, <3>3
    <3> QED BY <3>4
  <2> QED BY <2>1, <2>2
<1> QED BY <1>3, <1>4 DEF NoFileLost

LEMMA NextKeepsFiles ==
  ASSUME \A v, w \in Workers: v = w,
         Inv, DestinationFree, NoFileLost, [Next]_vars
  PROVE  DestinationFree' /\ NoFileLost'
<1>0. ASSUME UNCHANGED <<disk, arrived>> PROVE NoFileLost'
  BY <1>0 DEF NoFileLost
<1>1. CASE \E f \in Files: Arrives(f) BY <1>1, ArrivalKeepsFiles
<1>2. CASE Scan
  <2>1. UNCHANGED <<disk, arrived, workers>>
    BY <1>2 DEF Scan, ScanReads, ScanReplaces, ScanDefers
  <2> QED BY <1>0, <2>1 DEF DestinationFree, Exists
<1>3. CASE \E w \in Workers, i \in Ids: ApplyBegins(w, i) \/ UndoBegins(w, i)
  <2>1. UNCHANGED <<disk, arrived>> BY <1>3 DEF ApplyBegins, UndoBegins
  <2> QED BY <1>0, <1>3, <2>1, FreeAfterBegins
<1>4. CASE \E w \in Workers: GoesOn(w)
  <2>1. PICK w \in Workers: GoesOn(w) BY <1>4
  <2>2. CASE Moves(w)
    <3>1. \A v \in Workers: v = w OBVIOUS
    <3> QED BY <2>2, <3>1, FreeAfterMoves, RenameKeepsFiles
  <2>3. CASE Apply(w) BY <1>0, <2>3, FreeAfterApply
  <2>4. CASE Undo(w) BY <1>0, <2>4, FreeAfterUndo
  <2> QED BY <2>1, <2>2, <2>3, <2>4 DEF GoesOn
<1>5. CASE \E w \in Workers: BreaksOff(w)
  <2>1. PICK w \in Workers: BreaksOff(w) BY <1>5
  <2>2. UNCHANGED <<disk, arrived>> /\ End(w) BY <2>1 DEF BreaksOff
  <2> QED BY <1>0, <2>2, FreeAfterEnd
<1>6. CASE UNCHANGED vars
  BY <1>0, <1>6 DEF vars, DestinationFree, Exists
<1> QED BY <1>1, <1>2, <1>3, <1>4, <1>5, <1>6 DEF Next

\* When apply and undo requests come one at a time, no file that ever arrived
\* is lost: whatever names the films, tiers and copies have, and wherever a
\* request breaks off, no rename of moveUnique, RelocateMovie or an undo
\* replaces a file.  With two requests at once this does not hold.
THEOREM OneRequestLosesNothing ==
  ASSUME \A v, w \in Workers: v = w
  PROVE  Spec => []NoFileLost
<1>1. Init => DestinationFree /\ NoFileLost
  <2>1. SUFFICES ASSUME Init PROVE DestinationFree /\ NoFileLost OBVIOUS
  <2>2. \A w \in Workers: workers[w].at = "idle" BY <2>1 DEF Init, Idle
  <2>3. DestinationFree BY <2>2 DEF DestinationFree, MoveSteps
  <2>4. NoFileLost BY <2>1 DEF Init, NoFileLost
  <2> QED BY <2>3, <2>4
<1>2. Inv /\ (DestinationFree /\ NoFileLost) /\ [Next]_vars
        => (DestinationFree /\ NoFileLost)'
  BY NextKeepsFiles
<1> QED BY <1>1, <1>2, InvAlways, PTL DEF Spec

-----------------------------------------------------------------------------
(* What a step leaves of a request *)

LEMMA GotoLeads ==
  ASSUME Inv, NEW w \in Workers, NEW at, Goto(w, at)
  PROVE  /\ workers'[w].at = at /\ workers'[w].src = workers[w].src
         /\ workers'[w].dest = workers[w].dest /\ workers'[w].old = workers[w].old
         /\ workers'[w].row = workers[w].row /\ workers'[w].id = workers[w].id
         /\ workers'[w].demoted = workers[w].demoted
         /\ workers'[w].entry = workers[w].entry
<1>1. workers \in [Workers -> Requests] /\ workers[w] \in Requests
  BY DEF Inv, WorkersInv
<1>2. workers'[w] = [workers[w] EXCEPT !.at = at] BY <1>1 DEF Goto
<1> QED BY <1>1, <1>2 DEF Requests

LEMMA EndLeads ==
  ASSUME Inv, NEW w \in Workers, End(w)
  PROVE  workers'[w] = Idle
BY DEF End, Inv, WorkersInv

\* Request w has chosen to rename from to d.
Chose(w, at, from, target, d) ==
  /\ Destination(from, target, d)
  /\ workers'[w].at = at /\ workers'[w].from = from /\ workers'[w].dest = d
  /\ workers'[w].src = workers[w].src /\ workers'[w].old = workers[w].old
  /\ workers'[w].row = workers[w].row /\ workers'[w].id = workers[w].id
  /\ workers'[w].demoted = workers[w].demoted
  /\ workers'[w].entry = workers[w].entry

LEMMA Choice ==
  ASSUME Inv, NEW w \in Workers, NEW at, NEW from, NEW target,
         Chooses(w, at, from, target)
  PROVE  \E d \in Paths: Chose(w, at, from, target, d)
<1>1. workers \in [Workers -> Requests] /\ workers[w] \in Requests
  BY DEF Inv, WorkersInv
<1>2. PICK d \in Paths:
        /\ Destination(from, target, d)
        /\ workers' = [workers EXCEPT ![w].at = at, ![w].from = from, ![w].dest = d]
  BY DEF Chooses
<1>3. workers'[w] = [workers[w] EXCEPT !.at = at, !.from = from, !.dest = d]
  BY <1>1, <1>2
<1> QED BY <1>1, <1>2, <1>3 DEF Requests, Chose

-----------------------------------------------------------------------------
(* The undo of one apply, while requests come one at a time *)

\* No step of an apply leads into an undo.
LEMMA ApplyStaysApply ==
  ASSUME Inv, NEW w \in Workers,
         Apply(w) \/ (Moves(w) /\ ~At(w, "put back"))
           \/ BreaksOff(w) \/ \E i \in Ids: ApplyBegins(w, i)
  PROVE  workers'[w].at \notin UndoSteps
<1>0. workers \in [Workers -> Requests] BY DEF Inv, WorkersInv
<1>1. CASE End(w) BY <1>1, EndLeads, IdleRequest DEF UndoSteps
<1>2. CASE \E at: at \notin UndoSteps /\ Goto(w, at) BY <1>2, GotoLeads
<1>3. CASE \E at, from, target: at \notin UndoSteps /\ Chooses(w, at, from, target)
  BY <1>3, Choice DEF Chose
<1>4. CASE \E i \in Ids: ApplyBegins(w, i)
  <2>1. workers[w] \in Requests BY <1>0
  <2>2. PICK i, p: workers' = [workers EXCEPT ![w].at = "got", ![w].id = i, ![w].src = p]
    BY <1>4 DEF ApplyBegins
  <2>3. workers'[w] = [workers[w] EXCEPT !.at = "got", !.id = i, !.src = p]
    BY <1>0, <2>2
  <2> QED BY <2>1, <2>3 DEF Requests, UndoSteps
<1>5. CASE ApplyLooksUp(w) /\ ~End(w)
  <2>1. workers[w] \in Requests BY <1>0
  <2>2. workers'[w] = [workers[w] EXCEPT !.at = "looked", !.old = item, !.row = item.id]
    BY <1>0, <1>5 DEF ApplyLooksUp
  <2> QED BY <2>1, <2>2 DEF Requests, UndoSteps
<1>6. CASE UpsertsItem(w) BY <1>0, <1>6 DEF UpsertsItem, Requests, UndoSteps
<1>7. CASE Demotes(w) /\ ~End(w)
  <2>1. PICK d, from, t: workers' = [workers EXCEPT ![w].at = "demote", ![w].dest = d,
                                       ![w].from = from, ![w].demoted = d, ![w].tier = t]
    BY <1>7 DEF Demotes
  <2> QED BY <1>0, <2>1 DEF Requests, UndoSteps
<1>8. CASE Moves(w) /\ ~At(w, "put back") /\ ~End(w)
  BY <1>8, <1>2 DEF Moves, AfterMove, MoveSteps, At, UndoSteps
<1>9. CASE FindsNothing(w) \/ Marks(w) \/ BreaksOff(w)
  BY <1>9, <1>1 DEF FindsNothing, Marks, BreaksOff
<1>10. CASE Relocates(w) \/ FoldsIn(w) \/ Promotes(w)
  BY <1>10, <1>1, <1>3 DEF Relocates, FoldsIn, Promotes, UndoSteps
<1>11. CASE SyncsPrimary(w) \/ RetargetsItem(w) \/ Archives(w)
  BY <1>11, <1>1, <1>2 DEF SyncsPrimary, RetargetsItem, Archives, UndoSteps
<1>12. CASE RecordsPrimary(w) \/ RefreshesPrimary(w) \/ RecordsAlternate(w)
           \/ RecordsPromoted(w) \/ RecordsDemoted(w)
  BY <1>12, <1>1, <1>2
  DEF RecordsPrimary, RefreshesPrimary, RecordsAlternate, RecordsPromoted,
      RecordsDemoted, RecordsFile, UndoSteps
<1> QED
  BY <1>1, <1>4, <1>5, <1>6, <1>7, <1>8, <1>9, <1>10, <1>11, <1>12 DEF Apply

\* An undo keeps the entry it began with until it ends.
LEMMA UndoStaysUndo ==
  ASSUME Inv, NEW w \in Workers, Undo(w) \/ (Moves(w) /\ At(w, "put back"))
  PROVE  /\ workers[w].at \in UndoSteps
         /\ \/ End(w)
            \/ At(w, "snapshot") /\ Goto(w, "consume")
            \/ /\ workers'[w].entry = workers[w].entry /\ workers'[w].id = workers[w].id
               /\ workers[w].at # "consume" /\ UNCHANGED queue
<1>1. CASE UndoChecksFile(w)
  <2>1. CASE Goto(w, "revert")
    BY <1>1, <2>1, GotoLeads DEF UndoChecksFile, At, UndoSteps
  <2>2. CASE ~Goto(w, "revert")
    <3>1. Chooses(w, "put back", workers[w].entry.post, workers[w].entry.src)
      BY <1>1, <2>2 DEF UndoChecksFile
    <3> QED BY <1>1, <3>1, Choice DEF UndoChecksFile, Chose, At, UndoSteps
  <2> QED BY <2>1, <2>2
<1>2. CASE UndoReverts(w)
  BY <1>2, GotoLeads DEF UndoReverts, At, UndoSteps
<1>3. CASE UndoDeletesItem(w) \/ UndoRestoresItem(w)
  BY <1>3, GotoLeads DEF UndoDeletesItem, UndoRestoresItem, At, UndoSteps
<1>4. CASE UndoRestoresProposal(w)
  BY <1>4 DEF UndoRestoresProposal, At, UndoSteps
<1>5. CASE UndoConsumes(w) BY <1>5 DEF UndoConsumes, At, UndoSteps
<1>6. CASE Moves(w) /\ At(w, "put back")
  <2>1. Goto(w, "revert") BY <1>6 DEF Moves, At, AfterMove
  <2> QED BY <1>6, <2>1, GotoLeads DEF Moves, At, UndoSteps
<1> QED BY <1>1, <1>2, <1>3, <1>4, <1>5, <1>6 DEF Undo

\* From its check to its end an undo has the path its proposal returns to, to
\* itself: nothing else may go into the queue there.
Reserved(w) ==
  workers[w].at \in UndoSteps =>
    /\ workers[w].entry.id = workers[w].id
    /\ workers[w].at # "consume" => LiveAt(workers[w].entry.src) \subseteq {workers[w].id}

LEMMA BeginsReserved ==
  ASSUME Inv, NEW w \in Workers, NEW i \in Ids, UndoBegins(w, i)
  PROVE  Reserved(w)'
<1>1. PICK k \in DOMAIN archive:
        /\ archive[k].id = i /\ Restorable(archive[k])
        /\ workers' = [workers EXCEPT ![w].at = "check", ![w].id = i,
                                      ![w].entry = archive[k]]
  BY DEF UndoBegins
<1>2. workers'[w].entry = archive[k] /\ workers'[w].id = i
  BY <1>1 DEF Inv, WorkersInv, Requests
<1>3. \A p: LiveAt(p)' = LiveAt(p) BY DEF UndoBegins, LiveAt, Live
<1> QED BY <1>1, <1>2, <1>3 DEF Reserved, Restorable

LEMMA NextReserved ==
  ASSUME NEW w, Workers = {w}, Inv, Reserved(w), [Next]_vars
  PROVE  Reserved(w)'
<1>0. ASSUME workers'[w].at \notin UndoSteps PROVE Reserved(w)'
  BY <1>0 DEF Reserved
<1>1. ASSUME workers'[w] = workers[w], UNCHANGED queue PROVE Reserved(w)'
  BY <1>1 DEF Reserved, LiveAt, Live
<1>2. CASE \E f \in Files: Arrives(f) BY <1>1, <1>2 DEF Arrives
<1>3. CASE Scan
  <2>1. CASE ScanReads \/ ScanDefers BY <1>1, <2>1 DEF ScanReads, ScanDefers
  <2>2. CASE ScanReplaces
    <3>1. workers'[w].at \in {"idle", "got"} BY <2>2 DEF ScanReplaces, GateHeld
    <3> QED BY <1>0, <3>1 DEF UndoSteps
  <2> QED BY <1>3, <2>1, <2>2 DEF Scan
<1>4. CASE \E v \in Workers: \/ \E i \in Ids: ApplyBegins(v, i) \/ UndoBegins(v, i)
                             \/ GoesOn(v) \/ BreaksOff(v)
  <2>1. \/ \E i \in Ids: ApplyBegins(w, i) \/ UndoBegins(w, i)
        \/ GoesOn(w) \/ BreaksOff(w)
    BY <1>4
  <2>2. CASE \E i \in Ids: UndoBegins(w, i) BY <2>2, BeginsReserved
  <2>3. CASE Apply(w) \/ (Moves(w) /\ ~At(w, "put back"))
               \/ BreaksOff(w) \/ \E i \in Ids: ApplyBegins(w, i)
    <3>1. w \in Workers OBVIOUS
    <3> QED BY <1>0, <2>3, <3>1, ApplyStaysApply
  <2>4. CASE Undo(w) \/ (Moves(w) /\ At(w, "put back"))
    <3>1. w \in Workers OBVIOUS
    <3>2. CASE End(w) BY <1>0, <3>1, <3>2, EndLeads, IdleRequest DEF UndoSteps
    <3>3. CASE At(w, "snapshot") /\ Goto(w, "consume")
      BY <3>1, <3>3, GotoLeads DEF Reserved, At, UndoSteps
    <3>4. CASE /\ workers'[w].entry = workers[w].entry /\ workers'[w].id = workers[w].id
               /\ workers[w].at # "consume" /\ UNCHANGED queue
               /\ workers[w].at \in UndoSteps
      <4>1. \A p: LiveAt(p)' = LiveAt(p) BY <3>4 DEF LiveAt, Live
      <4> QED BY <3>4, <4>1 DEF Reserved
    <3> QED BY <2>4, <3>1, <3>2, <3>3, <3>4, UndoStaysUndo
  <2> QED BY <2>1, <2>2, <2>3, <2>4 DEF GoesOn
<1>5. CASE UNCHANGED vars BY <1>1, <1>5 DEF vars
<1> QED BY <1>2, <1>3, <1>4, <1>5 DEF Next

\* With requests one at a time, an undo that has moved its file and reverted
\* its row never then fails on the queue's index, whatever scans look meanwhile:
\* the guard it began under still holds.
THEOREM OneUndoFinishes ==
  ASSUME NEW w, Workers = {w}
  PROVE  Spec => []UndoCanFinish
<1>1. Init => Reserved(w)
  <2>1. Init => workers[w] = Idle BY DEF Init
  <2> QED BY <2>1, IdleRequest DEF Reserved, UndoSteps
<1>2. Inv /\ Reserved(w) /\ [Next]_vars => Reserved(w)' BY NextReserved
<1>3. Reserved(w) => UndoCanFinish BY DEF Reserved, UndoCanFinish, At, UndoSteps
<1> QED BY <1>1, <1>2, <1>3, InvAlways, PTL DEF Spec

-----------------------------------------------------------------------------
(* The file an undo moves back *)

\* An entry's size is that of the file its apply moved, zero for none.
Recorded(e) == e.size = IF e.file = NoFile THEN 0 ELSE Size[e.file]

\* An undo about to move a file back has found the one its apply placed.
Returning(w) ==
  /\ \A k \in DOMAIN archive: Recorded(archive[k])
  /\ workers[w].at \in UndoSteps => Recorded(workers[w].entry)
  /\ At(w, "put back") =>
       /\ Exists(workers[w].entry.post)
       /\ disk[workers[w].entry.post] = workers[w].entry.file

LEMMA ArchivesRecorded ==
  ASSUME Inv, NEW w \in Workers, Archives(w),
         \A k \in DOMAIN archive: Recorded(archive[k])
  PROVE  \A k \in DOMAIN archive': Recorded(archive'[k])
<1> DEFINE r == workers[w]
           size == IF Exists(r.dest) THEN Size[disk[r.dest]] ELSE 0
           e == [id |-> r.id, src |-> r.src, post |-> r.dest, size |-> size,
                 fold |-> r.demoted # NoPath, old |-> r.old, item |-> r.row,
                 file |-> disk[r.dest]]
           all == Append(archive, e)
<1>1. r.dest \in Paths BY PlacedRequest DEF Archives, At, DestSteps
<1>2. Recorded(e) BY <1>1 DEF Recorded, Exists
<1>3. archive \in Seq(Entries) BY DEF Inv, ArchiveInv
<1>4. archive' = Evict(all) BY DEF Archives
<1> HIDE DEF e
<1>5. DOMAIN all = 1 .. Len(archive) + 1 /\ Len(all) = Len(archive) + 1
  BY <1>3
<1>6. ASSUME NEW k \in DOMAIN all PROVE Recorded(all[k])
  <2>1. CASE k = Len(archive) + 1 BY <1>2, <1>3, <2>1
  <2>2. CASE k \in DOMAIN archive BY <1>3, <2>2
  <2> QED BY <1>3, <1>5, <2>1, <2>2
<1>7. CASE archive' = all BY <1>6, <1>7
<1>8. CASE archive' = Tail(all)
  <2>1. \A k \in DOMAIN Tail(all): k + 1 \in DOMAIN all /\ Tail(all)[k] = all[k + 1]
    BY <1>3, <1>5
  <2> QED BY <1>6, <1>8, <2>1
<1> QED BY <1>4, <1>7, <1>8 DEF Evict

LEMMA Joined ==
  ASSUME NEW S, NEW a \in Seq(S), NEW b \in Seq(S), NEW i \in 1 .. Len(a) + Len(b)
  PROVE  (a \o b)[i] = IF i <= Len(a) THEN a[i] ELSE b[i - Len(a)]
OBVIOUS

\* A sequence without its kth element.
LEMMA Removed ==
  ASSUME NEW S, NEW s, s \in Seq(S), NEW k \in 1 .. Len(s), NEW t,
         t = SubSeq(s, 1, k - 1) \o SubSeq(s, k + 1, Len(s))
  PROVE  \A i \in DOMAIN t:
           /\ i \in 1 .. Len(s) - 1
           /\ t[i] = s[IF i < k THEN i ELSE i + 1]
<1> DEFINE before == SubSeq(s, 1, k - 1)
           after == SubSeq(s, k + 1, Len(s))
<1>1. k \in 1 .. Len(s) /\ Len(s) \in Nat OBVIOUS
<1>2. /\ before \in Seq(S) /\ Len(before) = k - 1
      /\ \A j \in 1 .. k - 1: before[j] = s[j]
  BY <1>1
<1>3. /\ after \in Seq(S) /\ Len(after) = Len(s) - k
      /\ \A j \in 1 .. Len(s) - k: after[j] = s[k + j]
  <2>1. after \in Seq(S) BY <1>1
  <2>2. Len(after) = Len(s) - k BY <1>1
  <2>3. \A j \in 1 .. Len(s) - k: after[j] = s[k + j] BY <1>1
  <2> QED BY <2>1, <2>2, <2>3
<1> HIDE DEF before, after
<1>4. ASSUME NEW i \in DOMAIN (before \o after)
      PROVE  /\ i \in 1 .. Len(s) - 1
             /\ (before \o after)[i] = s[IF i < k THEN i ELSE i + 1]
  <2>1. i \in 1 .. (k - 1) + (Len(s) - k) BY <1>2, <1>3
  <2>2. (before \o after)[i] = IF i <= k - 1 THEN before[i] ELSE after[i - (k - 1)]
    BY <1>2, <1>3, <2>1, Joined
  <2>3. CASE i < k BY <1>1, <1>2, <2>1, <2>2, <2>3
  <2>4. CASE ~(i < k)
    <3>1. i - (k - 1) \in 1 .. Len(s) - k /\ k + (i - (k - 1)) = i + 1
      BY <1>1, <2>1, <2>4
    <3>2. (before \o after)[i] = after[i - (k - 1)] BY <1>1, <2>1, <2>2, <2>4
    <3>3. (before \o after)[i] = s[i + 1] BY <1>3, <3>1, <3>2
    <3> QED BY <1>1, <2>1, <2>4, <3>3
  <2> QED BY <2>3, <2>4
<1> QED BY <1>4 DEF before, after

LEMMA ConsumesRecorded ==
  ASSUME Inv, NEW w \in Workers, UndoConsumes(w),
         \A k \in DOMAIN archive: Recorded(archive[k])
  PROVE  \A k \in DOMAIN archive': Recorded(archive'[k])
<1>1. CASE UNCHANGED archive BY <1>1
<1>2. CASE ~UNCHANGED archive
  <2>1. PICK k \in DOMAIN archive:
          archive' = SubSeq(archive, 1, k - 1) \o SubSeq(archive, k + 1, Len(archive))
    BY <1>2 DEF UndoConsumes
  <2>2. archive \in Seq(Entries) /\ k \in 1 .. Len(archive) /\ Len(archive) \in Nat
    BY DEF Inv, ArchiveInv
  <2> SUFFICES ASSUME NEW i \in DOMAIN archive' PROVE Recorded(archive'[i])
    OBVIOUS
  <2> DEFINE j == IF i < k THEN i ELSE i + 1
  <2>3. i \in 1 .. Len(archive) - 1 /\ archive'[i] = archive[j] BY <2>1, <2>2, Removed
  <2>4. j \in DOMAIN archive BY <2>2, <2>3
  <2> QED BY <2>3, <2>4
<1> QED BY <1>1, <1>2

\* The archive changes only where an apply records itself or an undo ends.
LEMMA ArchiveStaysRecorded ==
  ASSUME Inv, [Next]_vars, \A k \in DOMAIN archive: Recorded(archive[k])
  PROVE  \A k \in DOMAIN archive': Recorded(archive'[k])
<1>1. CASE UNCHANGED archive BY <1>1
<1>2. CASE \E w \in Workers: Archives(w) \/ UndoConsumes(w)
  BY <1>2, ArchivesRecorded, ConsumesRecorded
<1>3. CASE \E f \in Files: Arrives(f) BY <1>1, <1>3 DEF Arrives
<1>4. CASE Scan BY <1>1, <1>4 DEF Scan, ScanReads, ScanReplaces, ScanDefers
<1>5. CASE \E w \in Workers: \/ \E i \in Ids: ApplyBegins(w, i) \/ UndoBegins(w, i)
                             \/ GoesOn(w) \/ BreaksOff(w)
  <2>1. PICK w \in Workers: \/ \E i \in Ids: ApplyBegins(w, i) \/ UndoBegins(w, i)
                            \/ GoesOn(w) \/ BreaksOff(w)
    BY <1>5
  <2>2. CASE (\E i \in Ids: ApplyBegins(w, i) \/ UndoBegins(w, i)) \/ BreaksOff(w) \/ Moves(w)
    BY <1>1, <2>2 DEF ApplyBegins, UndoBegins, BreaksOff, Moves
  <2>3. CASE Apply(w)
    BY <1>1, <1>2, <2>3
    DEF Apply, ApplyLooksUp, FindsNothing, Relocates, UpsertsItem, SyncsPrimary,
        RecordsPrimary, RecordsFile, FoldsIn, RefreshesPrimary, RecordsAlternate,
        Demotes, Promotes, RetargetsItem, RecordsPromoted, RecordsDemoted, Marks
  <2>4. CASE Undo(w)
    BY <1>1, <1>2, <2>4
    DEF Undo, UndoChecksFile, UndoReverts, UndoDeletesItem, UndoRestoresItem,
        UndoRestoresProposal
  <2> QED BY <2>1, <2>2, <2>3, <2>4 DEF GoesOn
<1>6. CASE UNCHANGED vars BY <1>1, <1>6 DEF vars
<1> QED BY <1>3, <1>4, <1>5, <1>6 DEF Next

\* Only the check of the file leads to the step that moves it.
LEMMA OnlyChecked ==
  ASSUME Inv, NEW w \in Workers, Undo(w) \/ (Moves(w) /\ At(w, "put back")),
         workers'[w].at = "put back"
  PROVE  /\ At(w, "check") /\ MayMoveBack(workers[w].entry) /\ UNCHANGED disk
         /\ workers'[w].entry = workers[w].entry
<1>1. CASE End(w) BY <1>1, EndLeads, IdleRequest
<1>2. CASE \E at: at # "put back" /\ Goto(w, at) BY <1>2, GotoLeads
<1>3. CASE UndoChecksFile(w) /\ Chooses(w, "put back", workers[w].entry.post, workers[w].entry.src)
  <2>1. MayMoveBack(workers[w].entry) \/ Goto(w, "revert")
    BY <1>3 DEF UndoChecksFile
  <2> QED BY <1>2, <1>3, <2>1, Choice DEF UndoChecksFile, Chose
<1>4. CASE Moves(w) /\ At(w, "put back")
  <2>1. Goto(w, "revert") BY <1>4 DEF Moves, At, AfterMove
  <2> QED BY <1>2, <2>1
<1> QED BY <1>1, <1>2, <1>3, <1>4
    DEF Undo, UndoChecksFile, UndoReverts, UndoDeletesItem, UndoRestoresItem,
        UndoRestoresProposal, UndoConsumes

LEMMA BeginsReturning ==
  ASSUME Inv, NEW w \in Workers, Returning(w), NEW i \in Ids, UndoBegins(w, i)
  PROVE  workers'[w].at = "check" /\ Recorded(workers'[w].entry)
<1>1. PICK k \in DOMAIN archive:
        workers' = [workers EXCEPT ![w].at = "check", ![w].id = i,
                                   ![w].entry = archive[k]]
  BY DEF UndoBegins
<1>2. workers'[w].entry = archive[k] /\ workers'[w].at = "check"
  BY <1>1 DEF Inv, WorkersInv, Requests
<1> QED BY <1>2 DEF Returning

LEMMA NextReturning ==
  ASSUME NEW w, Workers = {w}, \A f, g \in Files: Size[f] = Size[g] => f = g,
         Inv, Returning(w), [Next]_vars
  PROVE  Returning(w)'
<1> DEFINE e == workers[w].entry
<1>0. w \in Workers /\ \A k \in DOMAIN archive': Recorded(archive'[k])
  BY ArchiveStaysRecorded DEF Returning
<1>1. ASSUME workers'[w].at \notin UndoSteps PROVE Returning(w)'
  BY <1>0, <1>1 DEF Returning, At, UndoSteps
<1>2. ASSUME workers'[w] = workers[w], UNCHANGED disk PROVE Returning(w)'
  BY <1>0, <1>2 DEF Returning, At, Exists
<1>3. CASE \E f \in Files: Arrives(f)
  <2>1. PICK f \in Files: Arrives(f) BY <1>3
  <2>2. \A p: Exists(p) => Exists(p)' /\ disk'[p] = disk[p]
    BY <2>1 DEF Arrives, Exists, Inv, DiskInv
  <2> QED BY <1>0, <2>1, <2>2 DEF Arrives, Returning, At
<1>4. CASE Scan BY <1>2, <1>4 DEF Scan, ScanReads, ScanDefers, ScanReplaces
<1>5. CASE \E v \in Workers: \/ \E i \in Ids: ApplyBegins(v, i) \/ UndoBegins(v, i)
                             \/ GoesOn(v) \/ BreaksOff(v)
  <2>1. \/ \E i \in Ids: ApplyBegins(w, i) \/ UndoBegins(w, i)
        \/ GoesOn(w) \/ BreaksOff(w)
    BY <1>5
  <2>2. CASE \E i \in Ids: UndoBegins(w, i)
    BY <1>0, <2>2, BeginsReturning DEF Returning, At
  <2>3. CASE Apply(w) \/ (Moves(w) /\ ~At(w, "put back"))
               \/ BreaksOff(w) \/ \E i \in Ids: ApplyBegins(w, i)
    BY <1>0, <1>1, <2>3, ApplyStaysApply
  <2>4. CASE Undo(w) \/ (Moves(w) /\ At(w, "put back"))
    <3>1. workers[w].at \in UndoSteps /\ e \in Entries /\ Recorded(e)
      BY <1>0, <2>4, UndoStaysUndo, UndoingRequest DEF Returning
    <3>2. workers'[w].at \in UndoSteps => workers'[w].entry = e
      BY <1>0, <2>4, UndoStaysUndo, EndLeads, GotoLeads, IdleRequest DEF UndoSteps
    <3>3. ASSUME workers'[w].at = "put back"
          PROVE  Exists(e.post)' /\ disk'[e.post] = e.file /\ workers'[w].entry = e
      <4>1. MayMoveBack(e) /\ UNCHANGED disk /\ workers'[w].entry = e
        BY <1>0, <2>4, <3>3, OnlyChecked
      <4>2. disk[e.post] \in Files /\ Size[disk[e.post]] = e.size /\ e.size # 0
        BY <4>1, OccupiedPath, QualityAssumption DEF MayMoveBack, Inv
      <4>3. e.file \in Files /\ Size[e.file] = e.size
        BY <3>1, <4>2 DEF Recorded, Entries
      <4> QED BY <4>1, <4>2, <4>3 DEF MayMoveBack, Exists
    <3> QED BY <1>0, <3>1, <3>2, <3>3 DEF Returning, At
  <2> QED BY <2>1, <2>2, <2>3, <2>4 DEF GoesOn
<1>6. CASE UNCHANGED vars BY <1>2, <1>6 DEF vars
<1> QED BY <1>3, <1>4, <1>5, <1>6 DEF Next

\* With requests one at a time, and files that differ in size, an undo that
\* moves a file back moves the one its apply placed: checking the size is
\* enough, however many files have come and gone at that path since.
THEOREM OneUndoMovesOwnFile ==
  ASSUME NEW w, Workers = {w}, \A f, g \in Files: Size[f] = Size[g] => f = g
  PROVE  Spec => []UndoMovesOwnFile
<1>1. Init => Returning(w)
  <2>1. Init => workers[w] = Idle /\ archive = <<>> BY DEF Init
  <2>2. "idle" \notin UndoSteps BY DEF UndoSteps
  <2>3. Init => workers[w].at = "idle" BY <2>1, IdleRequest
  <2>4. DOMAIN <<>> = {} OBVIOUS
  <2>5. Init => \A k \in DOMAIN archive: Recorded(archive[k]) BY <2>1, <2>4
  <2> QED BY <2>2, <2>3, <2>5 DEF Returning, At
<1>2. Inv /\ Returning(w) /\ [Next]_vars => Returning(w)' BY NextReturning
<1>3. Returning(w) => UndoMovesOwnFile BY DEF Returning, UndoMovesOwnFile
<1> QED BY <1>1, <1>2, <1>3, InvAlways, PTL DEF Spec

-----------------------------------------------------------------------------
(* The library while nothing is undone *)

\* What the run rename_fold fixes: one request at a time, none breaks off or
\* is undone, scans look between requests and catalogue nothing, and downloads
\* arrive outside the film's folder while its file names are inside.
ApplyOnly ==
  /\ ~UndoEnabled /\ ~ScansOverlap /\ MaxFailures = 0 /\ Tagged = {}
  /\ \A f \in Files: /\ Source[f] \notin TitleFolder
                     /\ Canonical[f] \in TitleFolder /\ Alternate[f] \in TitleFolder

\* A file that is the best in the title's folder, wherever it is itself.
Best(p) == Exists(p) /\ \A q \in InFolder: Tier[disk[q]] <= Tier[disk[p]]

\* Every file in the folder has a row, but for those the request has placed
\* and not recorded yet.
Tracked(r) ==
  \A p \in InFolder:
    \/ p \in Known
    \/ p = r.dest /\ r.at \in {"upsert", "sync", "refresh", "alternate", "retarget"}
    \/ p = r.demoted /\ r.at \in {"demoted", "promote", "retarget", "primary",
                                  "demoted row"}

\* The title's file is the best, but while a promotion is under way.
Primary(r) ==
  /\ r.at \in {"demoted", "promote"} => Best(r.src)
  /\ r.at = "retarget" => Best(r.dest)
  /\ item.id # 0 /\ r.at \notin {"demoted", "promote", "retarget"} => Best(item.path)
  /\ item.id # 0 /\ r.at \notin {"sync", "primary"} => files[item.path] # "none"

\* Rows are about the title's folder, proposals about everywhere else.
Apart ==
  /\ item.id # 0 => item.path \in Paths /\ InTitleFolder(item.path)
  /\ item.id = 0 => item.path = NoPath /\ files = NoFiles
  /\ \A p \in Paths: files[p] # "none" => InTitleFolder(p)
  /\ \A i \in Ids: Live(i) => ~InTitleFolder(queue[i].path)
  /\ \A p \in scan.found: ~InTitleFolder(p)

PlaceSteps == {"move", "upsert", "sync", "record"}
FoldSteps == {"fold", "refresh", "alternate"}
DemoteSteps == {"demote", "demoted", "promote", "retarget"}
PromoteSteps == DemoteSteps \union {"primary", "demoted row"}

\* What a request knows of the title at the step it is at.
Knows(r) ==
  /\ r.at \notin UndoSteps
  /\ r.at # "idle" => ~InTitleFolder(r.src)
  /\ r.at \in PlaceSteps \union FoldSteps \union PromoteSteps => InTitleFolder(r.dest)
  /\ r.at \in PromoteSteps => r.demoted \in Paths /\ InTitleFolder(r.demoted)
  /\ r.at \in {"move", "fold", "promote"} => r.from = r.src
  /\ r.at \in {"move", "upsert"} => item.id = 0
  /\ r.at = "upsert" => Exists(r.dest)
  /\ r.at = "looked" => r.old = item /\ r.row = item.id
  /\ r.at \in {"sync", "record"} => item.id = r.row /\ item.id # 0 /\ item.path = r.dest
  /\ r.at = "sync" => files = NoFiles
  /\ r.at \in FoldSteps \union PromoteSteps => item.id = r.row /\ item.id # 0
  /\ r.at \in FoldSteps \union DemoteSteps => r.old = item
  /\ r.at = "fold" => Exists(r.src) /\ Tier[disk[r.src]] <= Tier[disk[item.path]]
  /\ r.at = "demote" =>
       /\ r.from = item.path /\ r.dest = r.demoted
       /\ Exists(r.src) /\ Tier[disk[r.src]] > Tier[disk[item.path]]
  /\ r.at = "primary" => item.path = r.dest

Folding(w) == Apart /\ Tracked(workers[w]) /\ Primary(workers[w]) /\ Knows(workers[w])

\* The names an apply gives are in the title's folder.
LEMMA NamedInFolder ==
  ASSUME ApplyOnly, NEW f \in Files, NEW target, NEW from, NEW d,
         target \in {Plain(Canonical[f]), Plain(Alternate[f])},
         Destination(from, target, d)
  PROVE  InTitleFolder(d)
BY DEF ApplyOnly, Plain, Destination, UniquePath, InTitleFolder

\* A request with nothing unrecorded may take any step that changes only it.
LEMMA RequestFolds ==
  ASSUME Inv, NEW w, Workers = {w}, Apart, NEW s, workers'[w] = s,
         Tracked(s), Primary(s), Knows(s),
         UNCHANGED <<disk, library, queue, scan>>
  PROVE  Folding(w)'
<1>1. /\ InFolder' = InFolder /\ Known' = Known
      /\ \A p: (Exists(p))' = Exists(p) /\ (Best(p))' = Best(p)
  BY DEF InFolder, Known, Exists, Best, library, InTitleFolder
<1>2. Apart' BY DEF Apart, library, Live, InTitleFolder
<1>3. (Tracked(workers[w]))' BY <1>1 DEF Tracked
<1>4. (Primary(workers[w]))' BY <1>1 DEF Primary, library
<1>5. (Knows(workers[w]))' BY <1>1 DEF Knows, library
<1> QED BY <1>2, <1>3, <1>4, <1>5 DEF Folding

\* The steps at which every file placed is recorded.
SettledSteps == {"idle", "got", "looked", "move", "fold", "demote", "record",
                 "archive", "mark"}

LEMMA EndFolds ==
  ASSUME Inv, NEW w, Workers = {w}, Folding(w), workers[w].at \in SettledSteps,
         End(w), UNCHANGED <<disk, library, queue, scan>>
  PROVE  Folding(w)'
<1>1. workers'[w] = Idle BY DEF End, Inv, WorkersInv
<1>2. Tracked(Idle) /\ Primary(Idle)
  BY DEF Folding, Tracked, Primary, SettledSteps, Idle
<1>3. Knows(Idle)
  BY DEF Knows, Idle, UndoSteps, PlaceSteps, FoldSteps, DemoteSteps, PromoteSteps
<1> QED BY <1>1, <1>2, <1>3, RequestFolds DEF Folding

LEMMA ApplyBeginsFolds ==
  ASSUME Inv, NEW w, Workers = {w}, Folding(w), NEW i \in Ids, ApplyBegins(w, i)
  PROVE  Folding(w)'
<1> DEFINE s == [workers[w] EXCEPT !.at = "got", !.id = i, !.src = queue[i].path]
<1>1. workers[w] \in Requests /\ workers'[w] = s
  BY DEF ApplyBegins, Inv, WorkersInv
<1>2. workers[w].at = "idle" /\ ~InTitleFolder(queue[i].path)
  BY DEF ApplyBegins, At, Folding, Apart
<1>3. s.at = "got" /\ s.src = queue[i].path BY <1>1 DEF Requests
<1> HIDE DEF s
<1>4. Tracked(s) /\ Primary(s)
  BY <1>2, <1>3 DEF Folding, Tracked, Primary
<1>5. Knows(s)
  BY <1>2, <1>3 DEF Knows, UndoSteps, PlaceSteps, FoldSteps, DemoteSteps, PromoteSteps
<1> QED BY <1>1, <1>4, <1>5, RequestFolds DEF Folding, ApplyBegins

LEMMA ApplyLooksUpFolds ==
  ASSUME Inv, NEW w, Workers = {w}, Folding(w), ApplyLooksUp(w)
  PROVE  Folding(w)'
<1>1. CASE End(w) BY <1>1, EndFolds DEF ApplyLooksUp, At, SettledSteps
<1>2. CASE workers' = [workers EXCEPT ![w].at = "looked", ![w].old = item,
                                      ![w].row = item.id]
  <2> DEFINE s == [workers[w] EXCEPT !.at = "looked", !.old = item, !.row = item.id]
  <2>1. workers[w] \in Requests /\ workers'[w] = s
    BY <1>2 DEF Inv, WorkersInv
  <2>2. workers[w].at = "got" /\ ~InTitleFolder(workers[w].src)
    BY DEF ApplyLooksUp, At, Folding, Knows
  <2>3. /\ s.at = "looked" /\ s.src = workers[w].src
        /\ s.old = item /\ s.row = item.id
    BY <2>1 DEF Requests
  <2> HIDE DEF s
  <2>4. Tracked(s) /\ Primary(s)
    BY <2>2, <2>3 DEF Folding, Tracked, Primary
  <2>5. Knows(s)
    BY <2>2, <2>3 DEF Knows, UndoSteps, PlaceSteps, FoldSteps, DemoteSteps, PromoteSteps
  <2> QED BY <2>1, <2>4, <2>5, RequestFolds DEF Folding, ApplyLooksUp
<1> QED BY <1>1, <1>2 DEF ApplyLooksUp

LEMMA RelocatesFolds ==
  ASSUME ApplyOnly, Inv, NEW w, Workers = {w}, Folding(w), Relocates(w)
  PROVE  Folding(w)'
<1> DEFINE r == workers[w]
           s == workers'[w]
<1>1. r.at = "looked" /\ r.old.id = 0 /\ Exists(r.src) /\ disk[r.src] \in Files
  BY OccupiedPath DEF Relocates, At, Inv
<1>2. PICK d \in Paths: Chose(w, "move", r.src, Plain(Canonical[disk[r.src]]), d)
  <2>1. w \in Workers /\ Chooses(w, "move", r.src, Plain(Canonical[disk[r.src]]))
    BY DEF Relocates
  <2> QED BY <2>1, Choice
<1>3. InTitleFolder(d) BY <1>1, <1>2, NamedInFolder DEF Chose
<1>4. ~InTitleFolder(r.src) /\ item.id = 0 BY <1>1 DEF Folding, Knows
<1> HIDE DEF s
<1>5. Tracked(s) /\ Primary(s)
  BY <1>1, <1>2 DEF Folding, Tracked, Primary, Chose, s
<1>6. Knows(s)
  BY <1>2, <1>3, <1>4
  DEF Knows, Chose, s, UndoSteps, PlaceSteps, FoldSteps, DemoteSteps, PromoteSteps
<1> QED BY <1>5, <1>6, RequestFolds DEF Folding, Relocates, s

LEMMA FoldsInFolds ==
  ASSUME ApplyOnly, Inv, NEW w, Workers = {w}, Folding(w), FoldsIn(w)
  PROVE  Folding(w)'
<1> DEFINE r == workers[w]
           s == workers'[w]
<1>1. /\ r.at = "looked" /\ r.old.id # 0 /\ Exists(r.src) /\ disk[r.src] \in Files
      /\ ~OrphanWins(w)
  BY OccupiedPath DEF FoldsIn, At, Inv
<1>2. PICK d \in Paths: Chose(w, "fold", r.src, Plain(Alternate[disk[r.src]]), d)
  <2>1. w \in Workers /\ Chooses(w, "fold", r.src, Plain(Alternate[disk[r.src]]))
    BY DEF FoldsIn
  <2> QED BY <2>1, Choice
<1>3. InTitleFolder(d) BY <1>1, <1>2, NamedInFolder DEF Chose
<1>4. ~InTitleFolder(r.src) /\ r.old = item /\ r.row = item.id
  BY <1>1 DEF Folding, Knows
<1>5. Best(item.path) BY <1>1, <1>4 DEF Folding, Primary
<1>6. Tier[disk[r.src]] <= Tier[disk[item.path]]
  <2>1. ProbedTier(r.old.path, r.old.tier) = Tier[disk[item.path]]
    BY <1>4, <1>5 DEF ProbedTier, Best
  <2>2. Tier[disk[r.src]] \in Nat /\ Tier[disk[item.path]] \in Nat
    BY <1>1, <1>5, OccupiedPath, QualityAssumption DEF Best, Inv
  <2> QED BY <1>1, <2>1, <2>2 DEF OrphanWins
<1> HIDE DEF s
<1>7. Tracked(s) /\ Primary(s)
  BY <1>1, <1>2 DEF Folding, Tracked, Primary, Chose, s
<1>8. Knows(s)
  BY <1>1, <1>2, <1>3, <1>4, <1>6
  DEF Knows, Chose, s, UndoSteps, PlaceSteps, FoldSteps, DemoteSteps, PromoteSteps
<1> QED BY <1>7, <1>8, RequestFolds DEF Folding, FoldsIn, s

LEMMA DemotesFolds ==
  ASSUME ApplyOnly, Inv, NEW w, Workers = {w}, Folding(w), Demotes(w)
  PROVE  Folding(w)'
<1> DEFINE r == workers[w]
           s == workers'[w]
<1>1. /\ r.at = "looked" /\ r.old.id # 0 /\ Exists(r.src) /\ disk[r.src] \in Files
      /\ OrphanWins(w) /\ r \in Requests
  BY OccupiedPath DEF Demotes, At, Inv, WorkersInv
<1>2. ~InTitleFolder(r.src) /\ r.old = item /\ r.row = item.id
  BY <1>1 DEF Folding, Knows
<1>3. Best(item.path) BY <1>1, <1>2 DEF Folding, Primary
<1>4. Exists(r.old.path) /\ disk[r.old.path] \in Files
  BY <1>2, <1>3, OccupiedPath DEF Best, Inv
<1>5. PICK d \in Paths:
        /\ Destination(r.old.path, Plain(Alternate[disk[r.old.path]]), d)
        /\ s = [r EXCEPT !.at = "demote", !.dest = d, !.from = r.old.path,
                         !.demoted = d, !.tier = Tier[disk[r.src]]]
  BY <1>4 DEF Demotes, Inv, WorkersInv
<1>6. /\ s.at = "demote" /\ s.dest = d /\ s.from = item.path /\ s.demoted = d
      /\ s.src = r.src /\ s.old = item /\ s.row = item.id
  BY <1>1, <1>2, <1>5 DEF Requests
<1>7. InTitleFolder(d) BY <1>4, <1>5, NamedInFolder
<1>8. Tier[disk[r.src]] > Tier[disk[item.path]]
  BY <1>1, <1>2, <1>3 DEF OrphanWins, ProbedTier, Best
<1> HIDE DEF s
<1>9. Tracked(s) /\ Primary(s)
  BY <1>1, <1>6 DEF Folding, Tracked, Primary
<1>10. Knows(s)
  BY <1>1, <1>2, <1>6, <1>7, <1>8
  DEF Knows, UndoSteps, PlaceSteps, FoldSteps, DemoteSteps, PromoteSteps
<1> QED BY <1>9, <1>10, RequestFolds DEF Folding, Demotes, s

LEMMA PromotesFolds ==
  ASSUME ApplyOnly, Inv, NEW w, Workers = {w}, Folding(w), Promotes(w)
  PROVE  Folding(w)'
<1> DEFINE r == workers[w]
           s == workers'[w]
<1>1. r.at = "demoted" BY DEF Promotes, At
<1>2. Best(r.src) /\ Exists(r.src) /\ disk[r.src] \in Files
  BY <1>1, OccupiedPath DEF Folding, Primary, Best, Inv
<1>3. PICK d \in Paths: Chose(w, "promote", r.src, Plain(Canonical[disk[r.src]]), d)
  <2>1. w \in Workers /\ Chooses(w, "promote", r.src, Plain(Canonical[disk[r.src]]))
    BY <1>2 DEF Promotes
  <2> QED BY <2>1, Choice
<1>4. InTitleFolder(d) BY <1>2, <1>3, NamedInFolder DEF Chose
<1> HIDE DEF s
<1>5. Tracked(s) /\ Primary(s)
  BY <1>1, <1>3 DEF Folding, Tracked, Primary, Chose, s
<1>6. Knows(s)
  BY <1>1, <1>3, <1>4
  DEF Folding, Knows, Chose, s, UndoSteps, PlaceSteps, FoldSteps, DemoteSteps, PromoteSteps
<1> QED BY <1>5, <1>6, RequestFolds DEF Folding, Promotes, s

\* Nothing is undone.
LEMMA NoUndo ==
  ASSUME Inv, ApplyOnly, NEW w, Workers = {w}, Folding(w)
  PROVE  /\ ~Undo(w) /\ \A i \in Ids: ~UndoBegins(w, i)
         /\ workers[w].at \notin UndoSteps /\ ~BreaksOff(w)
<1>1. workers[w].at \notin UndoSteps BY DEF Folding, Knows
<1>2. ~Undo(w)
  BY <1>1 DEF UndoSteps, Undo, UndoChecksFile, UndoReverts, UndoDeletesItem,
              UndoRestoresItem, UndoRestoresProposal, UndoConsumes, At
<1>3. failures = 0 BY DEF ApplyOnly, Inv
<1>4. ~BreaksOff(w) BY <1>3 DEF ApplyOnly, BreaksOff
<1>5. \A i \in Ids: ~UndoBegins(w, i) BY DEF ApplyOnly, UndoBegins
<1> QED BY <1>1, <1>2, <1>4, <1>5

-----------------------------------------------------------------------------
(* Its renames *)

\* What a rename into the folder leaves there.
LEMMA RenamedFolder ==
  ASSUME Inv, NEW from \in Paths, NEW dest \in Paths, from # dest,
         Exists(from), ~Exists(dest), InTitleFolder(dest),
         disk' = [disk EXCEPT ![from] = NoFile, ![dest] = disk[from]]
  PROVE  /\ \A p: Exists(p)' <=> p = dest \/ (p # from /\ Exists(p))
         /\ InFolder' = (InFolder \ {from}) \union {dest}
         /\ disk'[dest] = disk[from]
         /\ \A p \in Paths: p # from /\ p # dest => disk'[p] = disk[p]
<1>1. disk \in [Paths -> Files \union {NoFile}] /\ disk[from] # NoFile
  BY DEF Inv, DiskInv, Exists
<1>2. disk'[dest] = disk[from] /\ disk'[from] = NoFile
  BY <1>1
<1>3. \A p \in Paths: p # from /\ p # dest => disk'[p] = disk[p]
  BY <1>1
<1>4. \A p: Exists(p)' <=> p = dest \/ (p # from /\ Exists(p))
  BY <1>1, <1>2, <1>3 DEF Exists
<1>5. InFolder' = (InFolder \ {from}) \union {dest}
  BY <1>4 DEF InFolder, InTitleFolder
<1> QED BY <1>2, <1>3, <1>4, <1>5

\* What holds of tracking and of the best copy after such a rename.
LEMMA RenameFolds ==
  ASSUME ApplyOnly, Inv, DestinationFree, NEW w, Workers = {w}, Folding(w), Moves(w)
  PROVE  Folding(w)'
<1> DEFINE r == workers[w]
           s == workers'[w]
           from == r.from
           dest == r.dest
<1>1. /\ r \in Requests /\ workers \in [Workers -> Requests]
      /\ r.at \in {"move", "fold", "demote", "promote"} /\ dest \in Paths
      /\ UNCHANGED <<library, queue, scan>>
  BY NoUndo, MoveDestination DEF Inv, WorkersInv, Moves, MoveSteps, UndoSteps
<1>2. from = dest \/ ~Exists(dest)
  BY <1>1 DEF DestinationFree, MoveSteps
<1>3. InTitleFolder(dest)
  BY <1>1 DEF Folding, Knows, PlaceSteps, FoldSteps, DemoteSteps, PromoteSteps
<1>4. Apart'
  BY <1>1 DEF Folding, Apart, library, Live, InTitleFolder
<1>5. CASE ~Exists(from)
  <2>1. r.at = "move"
    BY <1>1, <1>5 DEF Folding, Knows, Primary, Best, FoldSteps, PromoteSteps, DemoteSteps
  <2>2. End(w) /\ UNCHANGED disk BY <1>5, <2>1 DEF Moves
  <2> QED BY <1>1, <2>1, <2>2, EndFolds DEF SettledSteps
<1>6. CASE Exists(from)
  <2>0. from \in Paths BY <1>6 DEF Exists
  <2>1. Goto(w, AfterMove(r.at)) BY <1>1, <1>6 DEF Moves
  <2>2. s = [r EXCEPT !.at = AfterMove(r.at)] BY <1>1, <2>1 DEF Goto
  <2>3. /\ s.at = AfterMove(r.at) /\ s.src = r.src /\ s.dest = dest /\ s.old = r.old
        /\ s.row = r.row /\ s.demoted = r.demoted
    BY <1>1, <2>2 DEF Requests
  <2>4. CASE from = dest
    <3>1. UNCHANGED disk BY <1>1, <1>6, <2>4 DEF Moves
    <3>2. r.at = "demote"
      BY <1>1, <1>3, <2>4 DEF Folding, Knows
    <3>3. s.at = "demoted" BY <2>3, <3>2 DEF AfterMove
    <3>4. Tracked(s) BY <2>3, <3>2, <3>3 DEF Folding, Tracked
    <3>5. Primary(s)
      <4>1. item.id # 0 /\ Best(item.path) /\ files[item.path] # "none"
        BY <3>2 DEF Folding, Primary, Knows, PromoteSteps, DemoteSteps
      <4>2. Exists(r.src) /\ Tier[disk[r.src]] > Tier[disk[item.path]]
        BY <3>2 DEF Folding, Knows
      <4>3. \A p: Exists(p) => Tier[disk[p]] \in Nat
        BY OccupiedPath, QualityAssumption DEF Inv
      <4>4. Best(r.src) BY <4>1, <4>2, <4>3 DEF Best, InFolder
      <4> QED BY <2>3, <3>3, <4>1, <4>4 DEF Primary
    <3>6. Knows(s)
      BY <2>3, <3>2, <3>3
      DEF Folding, Knows, UndoSteps, PlaceSteps, FoldSteps, DemoteSteps, PromoteSteps
    <3> HIDE DEF s
    <3> QED BY <1>1, <3>1, <3>4, <3>5, <3>6, RequestFolds DEF Folding, s
  <2>5. CASE from # dest
    <3>1. disk' = [disk EXCEPT ![from] = NoFile, ![dest] = disk[from]]
      BY <1>1, <1>6, <2>5 DEF Moves
    <3>2. /\ \A p: Exists(p)' <=> p = dest \/ (p # from /\ Exists(p))
          /\ InFolder' = (InFolder \ {from}) \union {dest}
          /\ disk'[dest] = disk[from]
          /\ \A p \in Paths: p # from /\ p # dest => disk'[p] = disk[p]
      <4>1. dest \in Paths /\ ~Exists(dest) BY <1>1, <1>2, <2>5
      <4>2. from \in Paths /\ Exists(from) /\ from # dest /\ InTitleFolder(dest)
        BY <1>3, <1>6, <2>0, <2>5
      <4> HIDE DEF from, dest
      <4> QED BY <3>1, <4>1, <4>2, RenamedFolder
    <3>3. \A p: Exists(p) => p \in Paths /\ Tier[disk[p]] \in Nat
      BY OccupiedPath, QualityAssumption DEF Inv
    <3>4. Known' = Known BY <1>1 DEF Known, library
    <3> HIDE DEF s
    <3>5. CASE r.at = "move"
      <4>1. s.at = "upsert" BY <2>3, <3>5 DEF AfterMove
      <4>2. item.id = 0 /\ from = r.src BY <3>5 DEF Folding, Knows
      <4>3. (Tracked(workers[w]))'
        BY <2>3, <3>2, <3>4, <3>5, <4>1 DEF Folding, Tracked, s
      <4>4. (Primary(workers[w]))'
        BY <1>1, <4>1, <4>2 DEF Primary, library, s
      <4>5. (Knows(workers[w]))'
        BY <1>1, <1>3, <2>3, <3>2, <3>5, <4>1, <4>2
        DEF Folding, Knows, library, s, InTitleFolder,
            UndoSteps, PlaceSteps, FoldSteps, DemoteSteps, PromoteSteps
      <4> QED BY <1>4, <4>3, <4>4, <4>5 DEF Folding
    <3>6. CASE r.at = "fold"
      <4>1. s.at = "refresh" BY <2>3, <3>6 DEF AfterMove
      <4>2. /\ item.id # 0 /\ from = r.src /\ ~InTitleFolder(from)
            /\ Tier[disk[from]] <= Tier[disk[item.path]]
            /\ Best(item.path) /\ InTitleFolder(item.path)
            /\ files[item.path] # "none"
        BY <3>6 DEF Folding, Knows, Primary, Apart, FoldSteps
      <4>3. (Tracked(workers[w]))'
        BY <2>3, <3>2, <3>4, <3>6, <4>1 DEF Folding, Tracked, s
      <4>4. Best(item.path)'
        <5>1. Exists(item.path) /\ item.path # from /\ item.path # dest
          BY <1>2, <2>5, <4>2 DEF Best
        <5>2. disk'[item.path] = disk[item.path] /\ item' = item
          BY <1>1, <3>2, <3>3, <5>1 DEF library
        <5>3. \A q \in InFolder': Tier[disk'[q]] <= Tier[disk[item.path]]
          BY <3>2, <4>2 DEF Best, InFolder
        <5> QED BY <3>2, <5>1, <5>2, <5>3 DEF Best
      <4>5. (Primary(workers[w]))'
        BY <1>1, <4>1, <4>2, <4>4 DEF Primary, library, s
      <4>6. (Knows(workers[w]))'
        BY <1>1, <1>3, <2>3, <3>6, <4>1, <4>2
        DEF Folding, Knows, library, s, InTitleFolder,
            UndoSteps, PlaceSteps, FoldSteps, DemoteSteps, PromoteSteps
      <4> QED BY <1>4, <4>3, <4>5, <4>6 DEF Folding
    <3>7. CASE r.at = "demote"
      <4>1. s.at = "demoted" BY <2>3, <3>7 DEF AfterMove
      <4>2. /\ item.id # 0 /\ from = item.path /\ r.dest = r.demoted
            /\ Exists(r.src) /\ ~InTitleFolder(r.src) /\ InTitleFolder(from)
            /\ Tier[disk[r.src]] > Tier[disk[from]]
            /\ Best(from) /\ files[item.path] # "none"
        BY <3>7 DEF Folding, Knows, Primary, Apart, PromoteSteps, DemoteSteps
      <4>3. (Tracked(workers[w]))'
        BY <2>3, <3>2, <3>4, <3>7, <4>1, <4>2 DEF Folding, Tracked, s
      <4>4. (Best(r.src))'
        <5>1. r.src # from /\ r.src # dest BY <1>3, <4>2
        <5>2. disk'[r.src] = disk[r.src] BY <3>2, <3>3, <4>2, <5>1
        <5>3. \A q \in InFolder': Tier[disk'[q]] <= Tier[disk[r.src]]
          BY <3>2, <3>3, <4>2 DEF Best, InFolder
        <5>4. s.src = r.src BY <2>3
        <5>5. (Exists(r.src))' BY <3>2, <4>2, <5>1, <5>4 DEF s
        <5> QED BY <5>2, <5>3, <5>4, <5>5 DEF Best, s
      <4>5. (Primary(workers[w]))'
        BY <1>1, <2>3, <4>1, <4>2, <4>4 DEF Primary, library, s
      <4>6. (Knows(workers[w]))'
        BY <1>1, <1>3, <2>3, <3>7, <4>1, <4>2
        DEF Folding, Knows, library, s, InTitleFolder,
            UndoSteps, PlaceSteps, FoldSteps, DemoteSteps, PromoteSteps
      <4> QED BY <1>4, <4>3, <4>5, <4>6 DEF Folding
    <3>8. CASE r.at = "promote"
      <4>1. s.at = "retarget" BY <2>3, <3>8 DEF AfterMove
      <4>2. /\ item.id # 0 /\ from = r.src /\ Best(from) /\ files[item.path] # "none"
            /\ ~InTitleFolder(from)
        BY <3>8 DEF Folding, Knows, Primary, PromoteSteps, DemoteSteps
      <4>3. (Tracked(workers[w]))'
        BY <2>3, <3>2, <3>4, <3>8, <4>1, <4>2 DEF Folding, Tracked, s
      <4>4. (Best(r.dest))'
        <5>1. s.dest = dest BY <2>3
        <5>2. \A q \in InFolder': Tier[disk'[q]] <= Tier[disk'[dest]]
          BY <3>2, <3>3, <4>2 DEF Best, InFolder
        <5>3. (Exists(r.dest))' BY <3>2, <5>1 DEF s
        <5> QED BY <5>1, <5>2, <5>3 DEF Best, s
      <4>5. (Primary(workers[w]))'
        BY <1>1, <2>3, <4>1, <4>2, <4>4 DEF Primary, library, s
      <4>6. (Knows(workers[w]))'
        BY <1>1, <1>3, <2>3, <3>8, <4>1, <4>2
        DEF Folding, Knows, library, s, InTitleFolder,
            UndoSteps, PlaceSteps, FoldSteps, DemoteSteps, PromoteSteps
      <4> QED BY <1>4, <4>3, <4>5, <4>6 DEF Folding
    <3> QED BY <1>1, <3>5, <3>6, <3>7, <3>8
  <2> QED BY <2>4, <2>5
<1> QED BY <1>5, <1>6

-----------------------------------------------------------------------------
(* Its rows *)

\* A step that writes rows and lets the request go on.
LEMMA RowsFold ==
  ASSUME Inv, NEW w, Workers = {w}, Folding(w), UNCHANGED <<disk, queue, scan>>,
         item'.id # 0 /\ item'.path \in Paths /\ InTitleFolder(item'.path),
         \A p \in Paths: files'[p] # "none" => InTitleFolder(p),
         (Tracked(workers[w]))', (Primary(workers[w]))', (Knows(workers[w]))'
  PROVE  Folding(w)'
<1>1. Apart' BY DEF Folding, Apart, Live, InTitleFolder
<1> QED BY <1>1 DEF Folding

LEMMA SameDisk ==
  ASSUME UNCHANGED disk
  PROVE  InFolder' = InFolder /\ \A p: Exists(p)' = Exists(p)
BY DEF InFolder, Exists, InTitleFolder

LEMMA UpsertsItemFolds ==
  ASSUME Inv, NEW w, Workers = {w}, Folding(w), UpsertsItem(w)
  PROVE  Folding(w)'
<1> DEFINE r == workers[w]
           s == workers'[w]
<1>1. /\ r.at = "upsert" /\ item.id = 0 /\ item.path = NoPath /\ files = NoFiles
      /\ Exists(r.dest) /\ InTitleFolder(r.dest) /\ ~InTitleFolder(r.src)
      /\ r.dest \in Paths /\ minted \in Nat
  <2>1. r.at = "upsert" BY DEF UpsertsItem, At
  <2>2. item.id = 0 /\ Exists(r.dest) /\ InTitleFolder(r.dest) /\ ~InTitleFolder(r.src)
    BY <2>1 DEF Folding, Knows, PlaceSteps
  <2>3. r.dest \in Paths BY <2>1, PlacedRequest DEF DestSteps
  <2>4. minted \in Nat BY BoundsAssumption DEF Inv, LibraryInv
  <2> QED BY <2>1, <2>2, <2>3, <2>4 DEF Folding, Apart
<1>2. item'.id = minted + 1 /\ item'.path = r.dest /\ files' = files
  BY <1>1 DEF UpsertsItem
<1>3. s.at = "sync" /\ s.dest = r.dest /\ s.src = r.src /\ s.row = item'.id
  BY <1>1 DEF UpsertsItem, Inv, WorkersInv, Requests
<1>4. InFolder = {r.dest}
  <2>1. \A p \in InFolder: p = r.dest
    BY <1>1 DEF Folding, Tracked, Known, NoFiles, InFolder, NoPath, Paths
  <2> QED BY <1>1, <2>1 DEF InFolder
<1>5. InFolder' = InFolder /\ \A p: Exists(p)' = Exists(p)
  BY SameDisk DEF UpsertsItem
<1> HIDE DEF s
<1>6. (Tracked(workers[w]))' BY <1>2, <1>4, <1>5 DEF Tracked, Known
<1>7. Best(item.path)'
  <2>1. Tier[disk[r.dest]] \in Nat BY <1>1, OccupiedPath, QualityAssumption DEF Inv
  <2>2. disk' = disk BY DEF UpsertsItem
  <2> QED BY <1>1, <1>2, <1>4, <1>5, <2>1, <2>2 DEF Best
<1>8. (Primary(workers[w]))' BY <1>3, <1>7 DEF Primary, s
<1>9. (Knows(workers[w]))'
  BY <1>1, <1>2, <1>3
  DEF Knows, s, UndoSteps, PlaceSteps, FoldSteps, DemoteSteps, PromoteSteps, NoFiles,
      InTitleFolder
<1>10. \A p \in Paths: files'[p] # "none" => InTitleFolder(p)
  BY <1>1, <1>2 DEF NoFiles
<1>11. item'.id # 0 /\ item'.path \in Paths /\ InTitleFolder(item'.path)
  BY <1>1, <1>2
<1>12. UNCHANGED <<disk, queue, scan>> BY DEF UpsertsItem
<1> QED BY <1>6, <1>8, <1>9, <1>10, <1>11, <1>12, RowsFold

LEMMA SyncsPrimaryFolds ==
  ASSUME Inv, NEW w, Workers = {w}, Folding(w), SyncsPrimary(w)
  PROVE  Folding(w)'
<1> DEFINE r == workers[w]
           s == workers'[w]
<1>1. /\ r.at = "sync" /\ item.id = r.row /\ item.id # 0 /\ item.path = r.dest
      /\ files = NoFiles /\ InTitleFolder(r.dest) /\ ~InTitleFolder(r.src)
      /\ r.dest \in Paths /\ Best(item.path)
  BY PlacedRequest
  DEF SyncsPrimary, At, Folding, Knows, Primary, PlaceSteps, DestSteps
<1>2. files[r.dest] = "none" BY <1>1 DEF NoFiles
<1>3. /\ files' = [p \in Paths |-> IF p = r.dest THEN "primary" ELSE files[p]]
      /\ Goto(w, "record")
  BY <1>1, <1>2 DEF SyncsPrimary, NoFiles
<1>4. s.at = "record" /\ s.dest = r.dest /\ s.src = r.src /\ s.row = r.row
  BY <1>3, GotoLeads
<1>5. InFolder' = InFolder /\ (\A p: Exists(p)' = Exists(p)) /\ UNCHANGED <<disk, item>>
  BY SameDisk DEF SyncsPrimary
<1>6. \A p \in Paths: files'[p] # "none" => p = r.dest
  BY <1>1, <1>3 DEF NoFiles
<1> HIDE DEF s
<1>7. (Tracked(workers[w]))'
  <2>1. \A p \in InFolder: p = r.dest
    BY <1>1 DEF Folding, Tracked, Known, NoFiles, InFolder
  <2> QED BY <1>1, <1>5, <2>1 DEF Tracked, Known
<1>8. (Primary(workers[w]))'
  <2>1. Best(item.path)' BY <1>1, <1>5 DEF Best
  <2> QED BY <1>1, <1>3, <1>4, <1>5, <2>1 DEF Primary, s
<1>9. (Knows(workers[w]))'
  BY <1>1, <1>4, <1>5
  DEF Knows, s, UndoSteps, PlaceSteps, FoldSteps, DemoteSteps, PromoteSteps, InTitleFolder
<1> QED BY <1>1, <1>5, <1>6, <1>7, <1>8, <1>9, RowsFold DEF SyncsPrimary

\* An upsert of one path's row.
LEMMA RowOfPath ==
  ASSUME Inv, NEW p \in Paths, NEW rows, rows \in {AsPrimary(p), AsAlternate(p)}
  PROVE  /\ rows[p] # "none"
         /\ \A q \in Paths: q # p => (rows[q] # "none" <=> files[q] # "none")
BY DEF Inv, LibraryInv, FileRow, AsPrimary, AsAlternate

\* The row is there, so the statement works.
LEMMA RecordFolds ==
  ASSUME Inv, NEW w, Workers = {w}, Folding(w), NEW at, NEW next, NEW p \in Paths,
         NEW rows, rows \in {AsPrimary(p), AsAlternate(p)},
         RecordsFile(w, at, rows, next), InTitleFolder(p), item.id # 0,
         item.id = workers[w].row,
         at \in {"record", "refresh", "alternate", "primary", "demoted row"},
         at \in {"alternate", "demoted row"} => next = "archive",
         at = "record" => p = workers[w].dest /\ next = "archive",
         at = "refresh" => p = item.path /\ next = "alternate",
         at = "alternate" => p = workers[w].dest,
         at = "primary" => p = item.path /\ next = "demoted row",
         at = "demoted row" => p = workers[w].demoted
  PROVE  Folding(w)'
<1> DEFINE r == workers[w]
           s == workers'[w]
<1>1. r.at = at /\ files' = rows /\ Goto(w, next) /\ UNCHANGED <<disk, item, queue, scan>>
  BY DEF RecordsFile, At
<1>2. /\ s.at = next /\ s.dest = r.dest /\ s.src = r.src /\ s.row = r.row
      /\ s.old = r.old /\ s.demoted = r.demoted
  BY <1>1, GotoLeads
<1>3. /\ files'[p] # "none"
      /\ \A q \in Paths: q # p => (files'[q] # "none" <=> files[q] # "none")
  BY <1>1, RowOfPath
<1>4. InFolder' = InFolder /\ (\A q: Exists(q)' = Exists(q))
  BY <1>1, SameDisk
<1>5. InFolder \subseteq Paths /\ item.path \in Paths /\ InTitleFolder(item.path)
  BY DEF InFolder, Folding, Apart
<1> HIDE DEF s
<1>6. (Tracked(workers[w]))'
  <2>1. \A q \in InFolder: \/ q \in Known \/ q = p
                           \/ q = r.dest /\ next = "alternate"
                           \/ q = r.demoted /\ next = "demoted row"
    <3>1. CASE at \in {"record", "refresh", "alternate"}
      BY <1>1, <3>1 DEF Folding, Tracked
    <3>2. CASE at \in {"primary", "demoted row"}
      BY <1>1, <3>2 DEF Folding, Tracked
    <3> QED BY <3>1, <3>2
  <2>2. \A q \in Paths: q \in Known \/ q = p => q \in Known'
    BY <1>1, <1>3 DEF Known
  <2> QED BY <1>1, <1>2, <1>4, <1>5, <2>1, <2>2 DEF Tracked, s
<1>7. (Primary(workers[w]))'
  <2>1. Best(item.path) BY <1>1 DEF Folding, Primary
  <2>2. Best(item.path)' BY <1>1, <1>4, <2>1 DEF Best
  <2>3. files'[item.path] # "none" BY <1>1, <1>3, <1>5 DEF Folding, Primary
  <2> QED BY <1>1, <1>2, <2>2, <2>3 DEF Primary, s
<1>8. (Knows(workers[w]))'
  BY <1>1, <1>2
  DEF Folding, Knows, s, UndoSteps, PlaceSteps, FoldSteps, DemoteSteps, PromoteSteps,
      InTitleFolder
<1> QED BY <1>1, <1>3, <1>5, <1>6, <1>7, <1>8, RowsFold DEF Folding, Apart

LEMMA RecordsFold ==
  ASSUME Inv, NEW w, Workers = {w}, Folding(w),
         RecordsPrimary(w) \/ RefreshesPrimary(w) \/ RecordsAlternate(w)
           \/ RecordsPromoted(w) \/ RecordsDemoted(w)
  PROVE  Folding(w)'
<1> DEFINE r == workers[w]
<1>0. r \in Requests /\ (r.at \in DestSteps \ {"put back"} => r.dest \in Paths)
  BY PlacedRequest DEF Inv, WorkersInv
<1>1. CASE RecordsPrimary(w)
  <2>1. r.at = "record" BY <1>1 DEF RecordsPrimary, RecordsFile, At
  <2>2. /\ item.id # 0 /\ item.id = r.row /\ InTitleFolder(r.dest) /\ r.dest \in Paths
    BY <1>0, <2>1 DEF Folding, Knows, PlaceSteps, DestSteps
  <2> QED BY <1>1, <2>2, RecordFolds DEF RecordsPrimary
<1>2. CASE RefreshesPrimary(w)
  <2>1. r.at = "refresh" BY <1>2 DEF RefreshesPrimary, RecordsFile, At
  <2>2. item.id # 0 /\ item.id = r.row /\ r.old = item
    BY <2>1 DEF Folding, Knows, FoldSteps
  <2>3. item.path \in Paths /\ InTitleFolder(item.path) BY <2>2 DEF Folding, Apart
  <2>4. RecordsFile(w, "refresh", AsPrimary(item.path), "alternate")
    BY <1>2, <2>2 DEF RefreshesPrimary
  <2> QED BY <2>2, <2>3, <2>4, RecordFolds
<1>3. CASE RecordsAlternate(w)
  <2>1. r.at = "alternate" BY <1>3 DEF RecordsAlternate, RecordsFile, At
  <2>2. item.id # 0 /\ item.id = r.row /\ InTitleFolder(r.dest) /\ r.dest \in Paths
    BY <1>0, <2>1 DEF Folding, Knows, FoldSteps, DestSteps
  <2> QED BY <1>3, <2>2, RecordFolds DEF RecordsAlternate
<1>4. CASE RecordsPromoted(w)
  <2>1. r.at = "primary" BY <1>4 DEF RecordsPromoted, RecordsFile, At
  <2>2. item.id # 0 /\ item.id = r.row /\ InTitleFolder(r.dest) /\ item.path = r.dest
    BY <2>1 DEF Folding, Knows, PromoteSteps
  <2>3. r.dest \in Paths BY <1>0, <2>1 DEF DestSteps
  <2> QED BY <1>4, <2>2, <2>3, RecordFolds DEF RecordsPromoted
<1>5. CASE RecordsDemoted(w)
  <2>1. r.at = "demoted row" BY <1>5 DEF RecordsDemoted, RecordsFile, At
  <2>2. /\ item.id # 0 /\ item.id = r.row
        /\ r.demoted \in Paths /\ InTitleFolder(r.demoted)
    BY <2>1 DEF Folding, Knows, PromoteSteps
  <2> QED BY <1>5, <2>2, RecordFolds DEF RecordsDemoted
<1> QED BY <1>1, <1>2, <1>3, <1>4, <1>5

LEMMA RetargetsItemFolds ==
  ASSUME Inv, NEW w, Workers = {w}, Folding(w), RetargetsItem(w)
  PROVE  Folding(w)'
<1> DEFINE r == workers[w]
           s == workers'[w]
<1>1. r.at = "retarget" /\ Goto(w, "primary") /\ UNCHANGED <<disk, files, queue, scan>>
  BY DEF RetargetsItem, At
<1>2. /\ item.id = r.row /\ item.id # 0 /\ r.old = item /\ InTitleFolder(r.dest)
      /\ ~InTitleFolder(r.src) /\ r.demoted \in Paths /\ InTitleFolder(r.demoted)
      /\ files[item.path] # "none" /\ Best(r.dest)
  BY <1>1 DEF Folding, Knows, Primary, FoldSteps, DemoteSteps, PromoteSteps
<1>3. r.dest \in Paths BY <1>1, PlacedRequest DEF DestSteps
<1>4. item'.id = item.id /\ item'.path = r.dest
  BY <1>2 DEF RetargetsItem, WithPrimary, Inv, LibraryInv, Items
<1>5. /\ s.at = "primary" /\ s.dest = r.dest /\ s.src = r.src /\ s.row = r.row
      /\ s.old = r.old /\ s.demoted = r.demoted
  BY <1>1, GotoLeads
<1>6. InFolder' = InFolder /\ (\A q: Exists(q)' = Exists(q))
  BY <1>1, SameDisk
<1> HIDE DEF s
<1>7. (Tracked(workers[w]))'
  <2>1. \A q \in Known: q = item.path \/ files[q] # "none" BY DEF Known
  <2>2. \A q \in InFolder: files[q] # "none" \/ q = r.dest \/ q = r.demoted
    BY <1>1, <1>2, <2>1 DEF Folding, Tracked
  <2>3. InFolder \subseteq Paths BY DEF InFolder
  <2> QED BY <1>1, <1>4, <1>5, <1>6, <2>2, <2>3 DEF Tracked, Known, s
<1>8. (Primary(workers[w]))'
  <2>1. Best(item.path)' BY <1>1, <1>2, <1>4, <1>6 DEF Best
  <2> QED BY <1>5, <2>1 DEF Primary, s
<1>9. (Knows(workers[w]))'
  BY <1>1, <1>2, <1>4, <1>5
  DEF Knows, s, UndoSteps, PlaceSteps, FoldSteps, DemoteSteps, PromoteSteps, InTitleFolder
<1>10. \A p \in Paths: files'[p] # "none" => InTitleFolder(p)
  BY <1>1 DEF Folding, Apart
<1>11. item'.id # 0 /\ item'.path \in Paths /\ InTitleFolder(item'.path)
  BY <1>2, <1>3, <1>4
<1> QED BY <1>1, <1>7, <1>8, <1>9, <1>10, <1>11, RowsFold

-----------------------------------------------------------------------------
(* The end of an apply, scans and arrivals *)

LEMMA ArchivesFolds ==
  ASSUME Inv, NEW w, Workers = {w}, Folding(w), Archives(w)
  PROVE  Folding(w)'
<1> DEFINE r == workers[w]
           s == workers'[w]
<1>1. r.at = "archive" /\ Goto(w, "mark") /\ UNCHANGED <<disk, library, queue, scan>>
  BY DEF Archives, At
<1>2. s.at = "mark" /\ s.src = r.src BY <1>1, GotoLeads
<1> HIDE DEF s
<1>3. Tracked(s) /\ Primary(s) BY <1>1, <1>2 DEF Folding, Tracked, Primary
<1>4. Knows(s)
  BY <1>1, <1>2
  DEF Folding, Knows, UndoSteps, PlaceSteps, FoldSteps, DemoteSteps, PromoteSteps
<1> QED BY <1>1, <1>3, <1>4, RequestFolds DEF Folding, s

\* Only the queue and what the scan found change, and only for the better.
LEMMA QueueFolds ==
  ASSUME Inv, NEW w, Workers = {w}, Folding(w),
         UNCHANGED <<disk, library>>,
         Tracked(workers'[w]), Primary(workers'[w]), Knows(workers'[w]),
         \A i \in Ids: Live(i)' => ~InTitleFolder(queue'[i].path),
         \A p \in scan'.found: ~InTitleFolder(p)
  PROVE  Folding(w)'
<1> DEFINE s == workers'[w]
<1> HIDE DEF s
<1>1. /\ InFolder' = InFolder /\ Known' = Known
      /\ \A p: (Exists(p))' = Exists(p) /\ (Best(p))' = Best(p)
  BY DEF InFolder, Known, Exists, Best, library, InTitleFolder
<1>2. Apart' BY DEF Folding, Apart, library, InTitleFolder
<1>3. (Tracked(workers[w]))' BY <1>1 DEF Tracked, s
<1>4. (Primary(workers[w]))' BY <1>1 DEF Primary, library, s
<1>5. (Knows(workers[w]))' BY <1>1 DEF Knows, library, s
<1> QED BY <1>2, <1>3, <1>4, <1>5 DEF Folding

LEMMA MarksFolds ==
  ASSUME Inv, NEW w, Workers = {w}, Folding(w), Marks(w)
  PROVE  Folding(w)'
<1>1. workers[w].at = "mark" /\ End(w) /\ UNCHANGED <<disk, library, scan>>
  BY DEF Marks, At
<1>2. workers'[w] = Idle BY <1>1 DEF End, Inv, WorkersInv
<1>3. Tracked(Idle) /\ Primary(Idle)
  BY <1>1 DEF Folding, Tracked, Primary, Idle
<1>4. Knows(Idle)
  BY DEF Knows, Idle, UndoSteps, PlaceSteps, FoldSteps, DemoteSteps, PromoteSteps
<1>5. \A i \in Ids: Live(i)' => ~InTitleFolder(queue'[i].path)
  <2>1. \A i \in Ids: Live(i) => ~InTitleFolder(queue[i].path)
    BY DEF Folding, Apart
  <2>2. \A i \in Ids: queue[i] \in Proposals BY DEF Inv, QueueInv
  <2>3. \A i \in Ids: queue'[i] = queue[i] \/ queue'[i].status = "applied"
    BY <2>2 DEF Marks, Proposals
  <2> QED BY <2>1, <2>3 DEF Live
<1> QED BY <1>1, <1>2, <1>3, <1>4, <1>5, QueueFolds DEF Folding, Apart

LEMMA ScanFolds ==
  ASSUME ApplyOnly, Inv, NEW w, Workers = {w}, Folding(w), Scan
  PROVE  Folding(w)'
<1>0. /\ UNCHANGED <<disk, workers>>
      /\ Tracked(workers'[w]) /\ Primary(workers'[w]) /\ Knows(workers'[w])
  BY DEF Scan, ScanReads, ScanReplaces, ScanDefers, Folding
<1>1. CASE ScanReads
  <2>1. workers[w].at \in {"idle", "got"}
    BY <1>1 DEF ScanReads, ApplyOnly, GateHeld
  <2>2. UNCHANGED library /\ UNCHANGED queue
    BY <1>1 DEF ScanReads, ApplyOnly
  <2>3. ASSUME NEW p \in scan'.found PROVE ~InTitleFolder(p)
    <3>1. p \in Paths /\ Exists(p) /\ p \notin Known
      BY <1>1 DEF ScanReads, Entry
    <3> QED BY <2>1, <3>1 DEF Folding, Tracked, InFolder
  <2> QED BY <1>0, <2>2, <2>3, QueueFolds DEF Folding, Apart, Live
<1>2. CASE ScanReplaces
  <2> DEFINE new == {p \in scan.found: LiveAt(p) = {}}
             unused == {i \in Ids: queue[i].status = "none"}
  <2>1. PICK id \in [new -> unused]:
          queue' = [i \in Ids |->
            IF \E p \in new: id[p] = i
            THEN [status |-> "pending", path |-> CHOOSE p \in new: id[p] = i]
            ELSE IF Live(i) /\ queue[i].path \notin scan.found
            THEN [status |-> "deleted", path |-> queue[i].path]
            ELSE queue[i]]
    BY <1>2 DEF ScanReplaces
  <2>2. ASSUME NEW i \in Ids, Live(i)' PROVE ~InTitleFolder(queue'[i].path)
    <3>1. CASE \E p \in new: id[p] = i
      <4>1. queue'[i].path = CHOOSE p \in new: id[p] = i BY <2>1, <3>1
      <4>2. queue'[i].path \in scan.found BY <3>1, <4>1
      <4> QED BY <4>2 DEF Folding, Apart
    <3>2. CASE ~(\E p \in new: id[p] = i)
      <4>1. queue'[i].status = "deleted" \/ queue'[i] = queue[i] BY <2>1, <3>2
      <4>2. queue'[i].status = "pending" BY <2>2 DEF Live
      <4>3. queue'[i] = queue[i] BY <4>1, <4>2
      <4> QED BY <4>2, <4>3 DEF Folding, Apart, Live
    <3> QED BY <3>1, <3>2
  <2>3. scan'.found = {} /\ UNCHANGED library BY <1>2 DEF ScanReplaces, NoScan
  <2> QED BY <1>0, <2>2, <2>3, QueueFolds
<1>3. CASE ScanDefers
  <2>1. scan'.found = {} /\ UNCHANGED <<library, queue>>
    BY <1>3 DEF ScanDefers, NoScan
  <2> QED BY <1>0, <2>1, QueueFolds DEF Folding, Apart, Live
<1> QED BY <1>1, <1>2, <1>3 DEF Scan

LEMMA ArrivesFolds ==
  ASSUME ApplyOnly, Inv, NEW w, Workers = {w}, Folding(w), NEW f \in Files, Arrives(f)
  PROVE  Folding(w)'
<1> DEFINE new == Plain(Source[f])
           r == workers[w]
<1>1. /\ disk' = [disk EXCEPT ![new] = f] /\ ~Exists(new) /\ workers' = workers
      /\ UNCHANGED <<library, queue, scan>> /\ ~InTitleFolder(new)
  BY DEF Arrives, ApplyOnly, InTitleFolder, Plain
<1>2. \A p: p # new => disk'[p] = disk[p] /\ Exists(p)' = Exists(p)
  BY <1>1 DEF Exists, Inv, DiskInv
<1>3. \A p: Exists(p) => Exists(p)' /\ disk'[p] = disk[p]
  BY <1>1, <1>2
<1>4. InFolder' = InFolder /\ Known' = Known
  BY <1>1, <1>2 DEF InFolder, Known, InTitleFolder, library
<1>5. \A p: Best(p) => (\A q \in InFolder: Tier[disk'[q]] <= Tier[disk'[p]]) /\ Exists(p)'
  BY <1>1, <1>2, <1>3 DEF Best, InFolder
<1>6. (Tracked(workers[w]))' BY <1>1, <1>4 DEF Folding, Tracked
<1>7. (Primary(workers[w]))' BY <1>1, <1>4, <1>5 DEF Folding, Primary, Best, library
<1>8. Apart' BY <1>1 DEF Folding, Apart, library, Live, InTitleFolder
<1>9. (Knows(workers[w]))'
  <2>1. r.at \in {"fold", "demote"} => Exists(item.path)
    BY DEF Folding, Primary, Knows, FoldSteps, PromoteSteps, DemoteSteps, Best
  <2> QED BY <1>1, <1>3, <2>1 DEF Folding, Knows, library, InTitleFolder
<1> QED BY <1>6, <1>7, <1>8, <1>9 DEF Folding

LEMMA ApplyFolds ==
  ASSUME ApplyOnly, Inv, NEW w, Workers = {w}, Folding(w), Apply(w)
  PROVE  Folding(w)'
<1>1. CASE ApplyLooksUp(w) BY <1>1, ApplyLooksUpFolds
<1>2. CASE FindsNothing(w) BY <1>2, EndFolds DEF FindsNothing, At, SettledSteps
<1>3. CASE Relocates(w) BY <1>3, RelocatesFolds
<1>4. CASE UpsertsItem(w) BY <1>4, UpsertsItemFolds
<1>5. CASE SyncsPrimary(w) BY <1>5, SyncsPrimaryFolds
<1>6. CASE RecordsPrimary(w) \/ RefreshesPrimary(w) \/ RecordsAlternate(w)
           \/ RecordsPromoted(w) \/ RecordsDemoted(w)
  BY <1>6, RecordsFold
<1>7. CASE FoldsIn(w) BY <1>7, FoldsInFolds
<1>8. CASE Demotes(w) BY <1>8, DemotesFolds
<1>9. CASE Promotes(w) BY <1>9, PromotesFolds
<1>10. CASE RetargetsItem(w) BY <1>10, RetargetsItemFolds
<1>11. CASE Archives(w) BY <1>11, ArchivesFolds
<1>12. CASE Marks(w) BY <1>12, MarksFolds
<1> QED
  BY <1>1, <1>2, <1>3, <1>4, <1>5, <1>6, <1>7, <1>8, <1>9, <1>10, <1>11, <1>12 DEF Apply

LEMMA StandstillFolds ==
  ASSUME Inv, NEW w, Workers = {w}, Folding(w), UNCHANGED vars
  PROVE  Folding(w)'
<1>1. workers' = workers /\ UNCHANGED <<disk, library, queue, scan>>
  BY DEF vars, library
<1>2. Tracked(workers[w]) /\ Primary(workers[w]) /\ Knows(workers[w]) /\ Apart
  BY DEF Folding
<1> QED BY <1>1, <1>2, RequestFolds

LEMMA InitFolds ==
  ASSUME NEW w, Workers = {w}, Init
  PROVE  Folding(w)
<1>1. /\ workers[w] = Idle /\ item = NoItem /\ files = NoFiles
      /\ \A p: ~Exists(p) /\ \A i \in Ids: ~Live(i)
      /\ scan.found = {}
  BY DEF Init, Exists, Live, NoScan
<1>2. Apart BY <1>1 DEF Apart, NoItem, NoFiles
<1>3. Tracked(Idle) /\ Primary(Idle) BY <1>1 DEF Tracked, Primary, InFolder, Idle, NoItem
<1>4. Knows(Idle)
  BY DEF Knows, Idle, UndoSteps, PlaceSteps, FoldSteps, DemoteSteps, PromoteSteps
<1> QED BY <1>1, <1>2, <1>3, <1>4 DEF Folding

LEMMA NextFolds ==
  ASSUME ApplyOnly, NEW w, Workers = {w}, Inv, DestinationFree, Folding(w), [Next]_vars
  PROVE  Folding(w)'
<1>1. CASE \E f \in Files: Arrives(f) BY <1>1, ArrivesFolds
<1>2. CASE Scan BY <1>2, ScanFolds
<1>3. CASE \E v \in Workers: \/ \E i \in Ids: ApplyBegins(v, i) \/ UndoBegins(v, i)
                             \/ GoesOn(v) \/ BreaksOff(v)
  <2>1. \/ \E i \in Ids: ApplyBegins(w, i) \/ UndoBegins(w, i)
        \/ GoesOn(w) \/ BreaksOff(w)
    BY <1>3
  <2>2. CASE \E i \in Ids: ApplyBegins(w, i) BY <2>2, ApplyBeginsFolds
  <2>3. CASE Moves(w) BY <2>3, RenameFolds
  <2>4. CASE Apply(w) BY <2>4, ApplyFolds
  <2> QED BY <2>1, <2>2, <2>3, <2>4, NoUndo DEF GoesOn
<1>4. CASE UNCHANGED vars BY <1>4, StandstillFolds
<1> QED BY <1>1, <1>2, <1>3, <1>4 DEF Next

\* With one request at a time its destination stays free, whatever it does.
LEMMA FreeAlways ==
  ASSUME NEW w, Workers = {w}
  PROVE  Spec => []DestinationFree
<1>1. Init => DestinationFree /\ NoFileLost
  <2>1. SUFFICES ASSUME Init PROVE DestinationFree /\ NoFileLost OBVIOUS
  <2>2. \A v \in Workers: workers[v].at = "idle" BY <2>1 DEF Init, Idle
  <2>3. DestinationFree BY <2>2 DEF DestinationFree, MoveSteps
  <2>4. NoFileLost BY <2>1 DEF Init, NoFileLost
  <2> QED BY <2>3, <2>4
<1>2. Inv /\ (DestinationFree /\ NoFileLost) /\ [Next]_vars
        => (DestinationFree /\ NoFileLost)'
  <2>1. \A u, v \in Workers: u = v OBVIOUS
  <2> QED BY <2>1, NextKeepsFiles
<1> QED BY <1>1, <1>2, InvAlways, PTL DEF Spec

LEMMA FoldingAlways ==
  ASSUME ApplyOnly, NEW w, Workers = {w}
  PROVE  Spec => []Folding(w)
<1>1. Init => Folding(w) BY InitFolds
<1>2. Inv /\ DestinationFree /\ Folding(w) /\ [Next]_vars => Folding(w)'
  BY NextFolds
<1>3. Spec => []Inv BY InvAlways
<1>4. Spec => []DestinationFree BY FreeAlways
<1> QED BY <1>1, <1>2, <1>3, <1>4, PTL DEF Spec

\* While nothing is undone and scans look between requests, a title in the
\* library has a file where its row says, after any sequence of imports: first
\* files, alternates and promotions.
THEOREM FoldingKeepsTitleFile ==
  ASSUME ApplyOnly, NEW w, Workers = {w}
  PROVE  Spec => []TitleHasItsFile
<1>1. Folding(w) => TitleHasItsFile
  BY DEF Folding, Primary, Best, TitleHasItsFile, Quiet, At
<1> QED BY <1>1, FoldingAlways, PTL

\* In the same setting no file in the film's folder is left without a row: the
\* copy an import placed, and the one it demoted, are both recorded.
THEOREM FoldingTracksEveryFile ==
  ASSUME ApplyOnly, NEW w, Workers = {w}
  PROVE  Spec => []LibraryFileTracked
<1>1. Folding(w) => LibraryFileTracked
  <2> SUFFICES ASSUME Folding(w), Quiet, NEW p \in Paths, InTitleFolder(p), Exists(p)
               PROVE  item.id # 0 /\ p \in Known
    BY DEF LibraryFileTracked
  <2>1. workers[w].at = "idle" BY DEF Quiet, At
  <2>2. p \in Known BY <2>1 DEF Folding, Tracked, InFolder
  <2>3. item.id # 0
    <3>1. Len(NoPath) = 0 BY DEF NoPath
    <3>2. \A q \in Paths: Len(q) = 2 BY DEF Paths
    <3>3. p # NoPath BY <3>1, <3>2
    <3> QED BY <2>2, <3>3 DEF Folding, Apart, Known, NoFiles
  <2> QED BY <2>2, <2>3
<1> QED BY <1>1, FoldingAlways, PTL

\* In the same setting the title's primary is never worse than another copy of
\* it: a better file takes its place, an equal or worse one does not.
THEOREM FoldingKeepsBestPrimary ==
  ASSUME ApplyOnly, NEW w, Workers = {w}
  PROVE  Spec => []BestCopyIsPrimary
<1>1. Folding(w) => BestCopyIsPrimary
  <2> SUFFICES ASSUME Folding(w), Quiet, item.id # 0, NEW p \in Known, Exists(p)
               PROVE  Tier[disk[p]] <= Tier[disk[item.path]]
    BY DEF BestCopyIsPrimary
  <2>1. workers[w].at = "idle" BY DEF Quiet, At
  <2>2. Best(item.path) BY <2>1 DEF Folding, Primary
  <2>3. p \in InFolder BY DEF Known, Folding, Apart, InFolder, Exists
  <2> QED BY <2>2, <2>3 DEF Best
<1> QED BY <1>1, FoldingAlways, PTL
-----------------------------------------------------------------------------
(* What an undo leaves of the other applies *)

Canonicals == {Canonical[f]: f \in Files}
Alternates == {Alternate[f]: f \in Files}

\* No request breaks off, scans catalogue nothing, and an alternate's name is
\* never a primary's.
Unbroken == MaxFailures = 0 /\ Tagged = {} /\ Canonicals \intersect Alternates = {}

Named(p, names) == p \in Paths /\ p[1] \in names

\* The title has more than one file.
Several == \E p, q \in Paths: p # q /\ files[p] # "none" /\ files[q] # "none"

Rooted ==
  /\ item.id = 0 => files = NoFiles
  /\ item.id # 0 => Named(item.path, Canonicals)

\* An undo is done with the row that e's apply inserted.
Leaving(r, e) == r.at \in {"snapshot", "consume"} /\ e = r.entry /\ e.old.id = 0

\* The apply that made the title is the oldest entry, later ones were folded in
\* beside another file, and the file of each has its row.
Standing(r) ==
  \A k \in DOMAIN archive:
    LET e == archive[k] IN
    /\ e.old.id = 0 => k = 1
    /\ e.old.id # 0 => Named(e.old.path, Canonicals)
    /\ ~Leaving(r, e) =>
         /\ item.id # 0 /\ e.item = item.id /\ files[e.post] # "none"
         /\ e.old.id # 0 => Several

TitleSteps == {"sync", "record", "archive"} \union FoldSteps \union PromoteSteps

\* What a request relies on at the step it is at.
Minds(r) ==
  /\ r.at \in {"check", "put back", "revert", "delete", "restore"} =>
       \E k \in DOMAIN archive: archive[k] = r.entry
  /\ r.at = "delete" => r.entry.old.id = 0 /\ ~Several
  /\ r.at = "restore" => r.entry.old.id # 0
  /\ r.at = "looked" => r.row = item.id /\ r.old.id = item.id
  /\ r.at \in TitleSteps => r.row = item.id /\ item.id # 0
  /\ r.at \in {"looked"} \union TitleSteps /\ r.old.id # 0 => Named(r.old.path, Canonicals)
  /\ r.at \in PlaceSteps => r.old.id = 0 /\ Named(r.dest, Canonicals)
  /\ r.at \in {"move", "upsert"} => item.id = 0
  /\ r.at \in {"sync", "record"} => Len(archive) = 0
  /\ r.at \in FoldSteps => r.old.id # 0 /\ Named(r.dest, Alternates)
  /\ r.at \in PromoteSteps => r.old.id # 0 /\ Named(r.demoted, Alternates)
  /\ r.at \in {"promote", "retarget", "primary", "demoted row"} => Named(r.dest, Canonicals)
  /\ r.at = "alternate" => files[r.old.path] # "none"
  /\ r.at \in {"demoted row", "archive"} => files[r.dest] # "none"
  /\ r.at = "archive" => IF r.old.id = 0 THEN Len(archive) = 0 ELSE Several

Attached(w) == Rooted /\ Standing(workers[w]) /\ Minds(workers[w])

LEMMA NamedCanonical ==
  ASSUME NEW f \in Files, NEW from, NEW d \in Paths, Destination(from, Plain(Canonical[f]), d)
  PROVE  Named(d, Canonicals)
BY DEF Destination, Plain, UniquePath, Named, Canonicals

LEMMA NamedAlternate ==
  ASSUME NEW f \in Files, NEW from, NEW d \in Paths, Destination(from, Plain(Alternate[f]), d)
  PROVE  Named(d, Alternates)
BY DEF Destination, Plain, UniquePath, Named, Alternates

LEMMA MindsStays ==
  ASSUME NEW w, NEW s, workers'[w] = s, Minds(s),
         item' = item, files' = files, archive' = archive
  PROVE  Minds(workers[w])'
<1>1. Several' <=> Several BY DEF Several
<1>2. ASSUME NEW r, Minds(r) PROVE Minds(r)' BY <1>1, <1>2 DEF Minds
<1> QED BY <1>2, Zenon

\* A step that changes only the request, which holds no entry in the air.
LEMMA RequestAttached ==
  ASSUME Inv, NEW w, Workers = {w}, Attached(w), NEW s, workers'[w] = s,
         workers[w].at \notin {"snapshot", "consume"}, Minds(s),
         UNCHANGED <<library, archive>>
  PROVE  Attached(w)'
<1>1. item' = item /\ files' = files /\ archive' = archive BY DEF library
<1>2. Rooted' BY <1>1 DEF Attached, Rooted
<1>3. \A k \in DOMAIN archive: ~Leaving(workers[w], archive[k]) BY DEF Leaving
<1>4. Standing(workers[w])' BY <1>1, <1>3 DEF Attached, Standing, Several
<1>5. Minds(workers[w])' BY <1>1, MindsStays
<1> QED BY <1>2, <1>4, <1>5 DEF Attached

LEMMA IdleMindsNothing == Minds(Idle)
BY DEF Minds, Idle, TitleSteps, PlaceSteps, FoldSteps, PromoteSteps, DemoteSteps

LEMMA EndAttached ==
  ASSUME Inv, NEW w, Workers = {w}, Attached(w), End(w),
         workers[w].at \notin {"snapshot", "consume"}, UNCHANGED <<library, archive>>
  PROVE  Attached(w)'
<1>1. workers'[w] = Idle BY EndLeads
<1> QED BY <1>1, IdleMindsNothing, RequestAttached

LEMMA BeginsAttached ==
  ASSUME Inv, NEW w, Workers = {w}, Attached(w), NEW i \in Ids,
         ApplyBegins(w, i) \/ UndoBegins(w, i)
  PROVE  Attached(w)'
<1>1. workers \in [Workers -> Requests] /\ workers[w] \in Requests
  BY DEF Inv, WorkersInv
<1>2. workers[w].at = "idle" BY DEF ApplyBegins, UndoBegins, At
<1>3. CASE ApplyBegins(w, i)
  <2> DEFINE s == [workers[w] EXCEPT !.at = "got", !.id = i, !.src = queue[i].path]
  <2>1. workers'[w] = s /\ s.at = "got" BY <1>1, <1>3 DEF ApplyBegins, Requests
  <2>2. Minds(s)
    BY <2>1 DEF Minds, TitleSteps, PlaceSteps, FoldSteps, PromoteSteps, DemoteSteps
  <2> QED BY <1>2, <1>3, <2>1, <2>2, RequestAttached DEF ApplyBegins
<1>4. CASE UndoBegins(w, i)
  <2>1. PICK k \in DOMAIN archive:
          workers' = [workers EXCEPT ![w].at = "check", ![w].id = i,
                                     ![w].entry = archive[k]]
    BY <1>4 DEF UndoBegins
  <2> DEFINE s == [workers[w] EXCEPT !.at = "check", !.id = i, !.entry = archive[k]]
  <2>2. workers'[w] = s /\ s.at = "check" /\ s.entry = archive[k]
    BY <1>1, <2>1 DEF Requests
  <2>3. Minds(s)
    BY <2>2 DEF Minds, TitleSteps, PlaceSteps, FoldSteps, PromoteSteps, DemoteSteps
  <2> QED BY <1>2, <1>4, <2>2, <2>3, RequestAttached DEF UndoBegins
<1> QED BY <1>3, <1>4

LEMMA LooksUpAttached ==
  ASSUME Inv, NEW w, Workers = {w}, Attached(w), ApplyLooksUp(w)
  PROVE  Attached(w)'
<1>1. CASE End(w) BY <1>1, EndAttached DEF ApplyLooksUp, At
<1>2. CASE ~End(w)
  <2> DEFINE s == [workers[w] EXCEPT !.at = "looked", !.old = item, !.row = item.id]
  <2>1. workers'[w] = s /\ s.at = "looked" /\ s.old = item /\ s.row = item.id
    BY <1>2 DEF ApplyLooksUp, Inv, WorkersInv, Requests
  <2>2. Minds(s)
    BY <2>1 DEF Attached, Rooted, Minds, TitleSteps, PlaceSteps, FoldSteps,
                PromoteSteps, DemoteSteps
  <2> QED BY <1>2, <2>1, <2>2, RequestAttached DEF ApplyLooksUp, At
<1> QED BY <1>1, <1>2

LEMMA RelocatesAttached ==
  ASSUME Inv, NEW w, Workers = {w}, Attached(w), Relocates(w)
  PROVE  Attached(w)'
<1> DEFINE r == workers[w]
           f == disk[r.src]
<1>1. r.at = "looked" /\ r.old.id = 0 /\ f \in Files
  BY OccupiedPath DEF Relocates, At, Inv
<1>2. PICK d \in Paths: Chose(w, "move", r.src, Plain(Canonical[f]), d)
  BY Choice DEF Relocates
<1>3. Named(d, Canonicals) BY <1>1, <1>2, NamedCanonical DEF Chose
<1>4. Minds(workers'[w])
  BY <1>1, <1>2, <1>3
  DEF Chose, Attached, Minds, TitleSteps, PlaceSteps, FoldSteps, PromoteSteps, DemoteSteps
<1> QED BY <1>1, <1>4, RequestAttached DEF Relocates

LEMMA FoldsInAttached ==
  ASSUME Inv, NEW w, Workers = {w}, Attached(w), FoldsIn(w)
  PROVE  Attached(w)'
<1> DEFINE r == workers[w]
           f == disk[r.src]
<1>1. r.at = "looked" /\ r.old.id # 0 /\ f \in Files
  BY OccupiedPath DEF FoldsIn, At, Inv
<1>2. PICK d \in Paths: Chose(w, "fold", r.src, Plain(Alternate[f]), d)
  BY Choice DEF FoldsIn
<1>3. Named(d, Alternates) BY <1>1, <1>2, NamedAlternate DEF Chose
<1>4. Minds(workers'[w])
  BY <1>1, <1>2, <1>3
  DEF Chose, Attached, Minds, TitleSteps, PlaceSteps, FoldSteps, PromoteSteps, DemoteSteps
<1> QED BY <1>1, <1>4, RequestAttached DEF FoldsIn

LEMMA DemotesAttached ==
  ASSUME Inv, NEW w, Workers = {w}, Attached(w), Demotes(w)
  PROVE  Attached(w)'
<1> DEFINE r == workers[w]
           f == disk[r.old.path]
<1>1. CASE End(w) BY <1>1, EndAttached DEF Demotes, At
<1>2. CASE ~End(w)
  <2>1. r \in Requests /\ r.at = "looked" /\ r.old.id # 0 /\ f \in Files
    BY <1>2, OccupiedPath DEF Demotes, At, Inv, WorkersInv
  <2>2. PICK d \in Paths:
          /\ Destination(r.old.path, Plain(Alternate[f]), d)
          /\ workers' = [workers EXCEPT ![w].at = "demote", ![w].dest = d,
               ![w].from = r.old.path, ![w].demoted = d, ![w].tier = Tier[disk[r.src]]]
    BY <1>2 DEF Demotes
  <2> DEFINE s == [r EXCEPT !.at = "demote", !.dest = d, !.from = r.old.path,
                            !.demoted = d, !.tier = Tier[disk[r.src]]]
  <2>3. workers'[w] = s BY <2>2 DEF Inv, WorkersInv
  <2>4. s.at = "demote" /\ s.demoted = d /\ s.old = r.old /\ s.row = r.row
    BY <2>1 DEF Requests
  <2>5. Named(d, Alternates) BY <2>1, <2>2, NamedAlternate
  <2> HIDE DEF s
  <2>6. Minds(s)
    BY <2>1, <2>4, <2>5
    DEF Attached, Minds, TitleSteps, PlaceSteps, FoldSteps, PromoteSteps, DemoteSteps
  <2> QED BY <2>1, <2>3, <2>6, RequestAttached DEF Demotes
<1> QED BY <1>1, <1>2

LEMMA PromotesAttached ==
  ASSUME Inv, NEW w, Workers = {w}, Attached(w), Promotes(w)
  PROVE  Attached(w)'
<1> DEFINE r == workers[w]
           f == disk[r.src]
<1>1. CASE End(w) BY <1>1, EndAttached DEF Promotes, At
<1>2. CASE ~End(w)
  <2>1. r.at = "demoted" /\ f \in Files
    BY <1>2, OccupiedPath DEF Promotes, At, Inv
  <2>2. PICK d \in Paths: Chose(w, "promote", r.src, Plain(Canonical[f]), d)
    BY <1>2, Choice DEF Promotes
  <2>3. Named(d, Canonicals) BY <2>1, <2>2, NamedCanonical DEF Chose
  <2>4. Minds(workers'[w])
    BY <2>1, <2>2, <2>3
    DEF Chose, Attached, Minds, TitleSteps, PlaceSteps, FoldSteps, PromoteSteps, DemoteSteps
  <2> QED BY <2>1, <2>4, RequestAttached DEF Promotes
<1> QED BY <1>1, <1>2

LEMMA MovesAttached ==
  ASSUME Inv, NEW w, Workers = {w}, Attached(w), Moves(w)
  PROVE  Attached(w)'
<1> DEFINE r == workers[w]
<1>1. r.at \in MoveSteps /\ r.at \notin {"snapshot", "consume"}
  BY DEF Moves, MoveSteps
<1>2. CASE End(w) BY <1>1, <1>2, EndAttached DEF Moves
<1>3. CASE Goto(w, AfterMove(r.at))
  <2> DEFINE s == workers'[w]
  <2>1. /\ s.at = AfterMove(r.at) /\ s.dest = r.dest /\ s.old = r.old /\ s.row = r.row
        /\ s.demoted = r.demoted /\ s.entry = r.entry
    BY <1>3, GotoLeads
  <2>2. Minds(r) BY DEF Attached
  <2> HIDE DEF s
  <2>3. Minds(s)
    <3> USE <2>1, <2>2 DEF Minds, TitleSteps, PlaceSteps, FoldSteps, PromoteSteps, DemoteSteps
    <3>1. ASSUME r.at = "move", s.at = "upsert" PROVE Minds(s) BY <3>1
    <3>2. ASSUME r.at = "fold", s.at = "refresh" PROVE Minds(s) BY <3>2
    <3>3. ASSUME r.at = "demote", s.at = "demoted" PROVE Minds(s) BY <3>3
    <3>4. ASSUME r.at = "promote", s.at = "retarget" PROVE Minds(s) BY <3>4
    <3>5. ASSUME r.at = "put back", s.at = "revert" PROVE Minds(s) BY <3>5
    <3> QED BY <1>1, <3>1, <3>2, <3>3, <3>4, <3>5 DEF AfterMove, MoveSteps
  <2>4. s = workers'[w] BY DEF s
  <2> QED BY <1>1, <2>3, <2>4, RequestAttached DEF Moves
<1> QED BY <1>2, <1>3 DEF Moves, AfterMove

LEMMA EndsAttached ==
  ASSUME Inv, NEW w, Workers = {w}, Attached(w), FindsNothing(w) \/ Marks(w)
  PROVE  Attached(w)'
BY EndAttached DEF FindsNothing, Marks, At

-----------------------------------------------------------------------------
(* Steps of an apply that write the library or the archive *)

\* The title stays, under a primary's name, and loses no file row.
LEMMA RowsAttached ==
  ASSUME Inv, NEW w, Workers = {w}, Attached(w),
         workers[w].at \notin {"snapshot", "consume"},
         item.id # 0, item'.id = item.id, Named(item'.path, Canonicals),
         \A p \in Paths: files[p] # "none" => files'[p] # "none",
         UNCHANGED archive
  PROVE  Rooted' /\ Standing(workers[w])' /\ (Several => Several')
<1>1. Rooted' BY DEF Rooted, Named
<1>2. Several => Several' BY DEF Several
<1>3. \A k \in DOMAIN archive: archive[k].post \in Paths
  <2>1. \A k \in DOMAIN archive: archive[k] \in Entries BY DEF Inv, ArchiveInv
  <2> QED BY <2>1 DEF Entries
<1>4. \A k \in DOMAIN archive: ~Leaving(workers[w], archive[k]) BY DEF Leaving
<1>5. Standing(workers[w])' BY <1>2, <1>3, <1>4 DEF Attached, Standing
<1> QED BY <1>1, <1>2, <1>5

\* UpsertFile takes no file's row away.
LEMMA RecordAttached ==
  ASSUME Inv, NEW w, Workers = {w}, Attached(w), NEW at, at \in TitleSteps, NEW next,
         NEW rows \in [Paths -> FileRow], RecordsFile(w, at, rows, next),
         \A p \in Paths: files[p] # "none" => rows[p] # "none",
         files' = rows /\ Goto(w, next) /\ Rooted' /\ Standing(workers[w])'
           /\ (Several => Several')
           => Minds(workers[w])'
  PROVE  Attached(w)'
<1>1. workers[w].at = at /\ item.id # 0 /\ Named(item.path, Canonicals)
  BY DEF RecordsFile, At, Attached, Minds, Rooted
<1>2. at \notin {"snapshot", "consume"}
  BY DEF TitleSteps, FoldSteps, PromoteSteps, DemoteSteps
<1>3. CASE End(w) /\ UNCHANGED files
  BY <1>1, <1>2, <1>3, EndAttached DEF RecordsFile, library
<1>4. CASE files' = rows /\ Goto(w, next)
  <2>1. Rooted' /\ Standing(workers[w])' /\ (Several => Several')
    BY <1>1, <1>2, <1>4, RowsAttached DEF RecordsFile
  <2> QED BY <1>4, <2>1 DEF Attached
<1> QED BY <1>3, <1>4 DEF RecordsFile

LEMMA RecordsAttached ==
  ASSUME Inv, NEW w, Workers = {w}, Unbroken, Attached(w),
         \/ RecordsPrimary(w) \/ RefreshesPrimary(w) \/ RecordsAlternate(w)
         \/ RecordsPromoted(w) \/ RecordsDemoted(w)
  PROVE  Attached(w)'
<1> DEFINE r == workers[w]
<1>0. /\ files \in [Paths -> FileRow] /\ r.dest \in Paths
      /\ Minds(r)
  <2>1. r.at \in DestSteps \ {"put back"}
    BY DEF RecordsPrimary, RefreshesPrimary, RecordsAlternate, RecordsPromoted,
           RecordsDemoted, RecordsFile, At, DestSteps
  <2> QED BY <2>1, PlacedRequest DEF Inv, LibraryInv, Attached
<1>1. ASSUME NEW p \in Paths
      PROVE  /\ AsPrimary(p) \in [Paths -> FileRow] /\ AsPrimary(p)[p] # "none"
             /\ \A q \in Paths: files[q] # "none" => AsPrimary(p)[q] # "none"
             /\ AsAlternate(p) \in [Paths -> FileRow] /\ AsAlternate(p)[p] # "none"
             /\ \A q \in Paths: files[q] # "none" => AsAlternate(p)[q] # "none"
  BY <1>0 DEF AsPrimary, AsAlternate, FileRow
<1> DEFINE s == workers'[w]
<1>9. ASSUME NEW at, NEW rows, NEW next, RecordsFile(w, at, rows, next), Goto(w, next)
      PROVE  /\ r.at = at /\ s.at = next /\ s.dest = r.dest /\ s.old = r.old
             /\ s.row = r.row /\ s.demoted = r.demoted /\ s.entry = r.entry
             /\ item' = item /\ archive' = archive
  BY <1>9, GotoLeads DEF RecordsFile, At
<1> USE DEF TitleSteps, PlaceSteps, FoldSteps, PromoteSteps, DemoteSteps
<1>2. CASE RecordsPrimary(w)
  <2>1. RecordsFile(w, "record", AsPrimary(r.dest), "archive")
    BY <1>2 DEF RecordsPrimary
  <2>2. r.at = "record" BY <2>1 DEF RecordsFile, At
  <2>3. ASSUME files' = AsPrimary(r.dest), Goto(w, "archive")
        PROVE  Minds(workers[w])'
    <3>1. /\ s.at = "archive" /\ s.dest = r.dest /\ s.old = r.old /\ s.row = r.row
          /\ s.demoted = r.demoted /\ item' = item /\ archive' = archive
      BY <1>9, <2>1, <2>3
    <3>2. files'[r.dest] # "none" /\ \A q \in Paths: files[q] # "none" => files'[q] # "none"
      BY <1>0, <1>1, <2>2, <2>3
    <3> QED BY <1>0, <2>2, <3>1, <3>2 DEF Minds
  <2> QED BY <1>0, <1>1, <2>1, <2>3, RecordAttached
<1>3. CASE RefreshesPrimary(w)
  <2>1. RecordsFile(w, "refresh", AsPrimary(r.old.path), "alternate")
    BY <1>3 DEF RefreshesPrimary
  <2>2. r.at = "refresh" /\ r.old.path \in Paths
    BY <1>0, <2>1 DEF RecordsFile, At, Minds, Named
  <2>3. ASSUME files' = AsPrimary(r.old.path), Goto(w, "alternate")
        PROVE  Minds(workers[w])'
    <3>1. /\ s.at = "alternate" /\ s.dest = r.dest /\ s.old = r.old /\ s.row = r.row
          /\ s.demoted = r.demoted /\ item' = item /\ archive' = archive
      BY <1>9, <2>1, <2>3
    <3>2. files'[r.old.path] # "none" /\ \A q \in Paths: files[q] # "none" => files'[q] # "none"
      BY <1>0, <1>1, <2>2, <2>3
    <3> QED BY <1>0, <2>2, <3>1, <3>2 DEF Minds
  <2> QED BY <1>0, <1>1, <2>1, <2>2, <2>3, RecordAttached
<1>4. CASE RecordsAlternate(w)
  <2>1. RecordsFile(w, "alternate", AsAlternate(r.dest), "archive")
    BY <1>4 DEF RecordsAlternate
  <2>2. /\ r.at = "alternate" /\ r.old.path \in Paths /\ r.old.path # r.dest
        /\ files[r.old.path] # "none" /\ r.old.id # 0
    BY <1>0, <2>1 DEF RecordsFile, At, Minds, Named, Unbroken
  <2>3. ASSUME files' = AsAlternate(r.dest), Goto(w, "archive")
        PROVE  Minds(workers[w])'
    <3>1. /\ s.at = "archive" /\ s.dest = r.dest /\ s.old = r.old /\ s.row = r.row
          /\ s.demoted = r.demoted /\ item' = item /\ archive' = archive
      BY <1>9, <2>1, <2>3
    <3>2. files'[r.dest] # "none" /\ \A q \in Paths: files[q] # "none" => files'[q] # "none"
      BY <1>0, <1>1, <2>2, <2>3
    <3>3. Several' BY <1>0, <2>2, <3>2 DEF Several
    <3> QED BY <1>0, <2>2, <3>1, <3>2, <3>3 DEF Minds
  <2> QED BY <1>0, <1>1, <2>1, <2>3, RecordAttached
<1>5. CASE RecordsPromoted(w)
  <2>1. RecordsFile(w, "primary", AsPrimary(r.dest), "demoted row")
    BY <1>5 DEF RecordsPromoted
  <2>2. r.at = "primary" BY <2>1 DEF RecordsFile, At
  <2>3. ASSUME files' = AsPrimary(r.dest), Goto(w, "demoted row")
        PROVE  Minds(workers[w])'
    <3>1. /\ s.at = "demoted row" /\ s.dest = r.dest /\ s.old = r.old /\ s.row = r.row
          /\ s.demoted = r.demoted /\ item' = item /\ archive' = archive
      BY <1>9, <2>1, <2>3
    <3>2. files'[r.dest] # "none" /\ \A q \in Paths: files[q] # "none" => files'[q] # "none"
      BY <1>0, <1>1, <2>2, <2>3
    <3> QED BY <1>0, <2>2, <3>1, <3>2 DEF Minds
  <2> QED BY <1>0, <1>1, <2>1, <2>3, RecordAttached
<1>6. CASE RecordsDemoted(w)
  <2>1. RecordsFile(w, "demoted row", AsAlternate(r.demoted), "archive")
    BY <1>6 DEF RecordsDemoted
  <2>2. /\ r.at = "demoted row" /\ r.demoted \in Paths /\ r.demoted # r.dest
        /\ files[r.dest] # "none" /\ r.old.id # 0
    BY <1>0, <2>1 DEF RecordsFile, At, Minds, Named, Unbroken
  <2>3. ASSUME files' = AsAlternate(r.demoted), Goto(w, "archive")
        PROVE  Minds(workers[w])'
    <3>1. /\ s.at = "archive" /\ s.dest = r.dest /\ s.old = r.old /\ s.row = r.row
          /\ s.demoted = r.demoted /\ item' = item /\ archive' = archive
      BY <1>9, <2>1, <2>3
    <3>2. files'[r.demoted] # "none" /\ \A q \in Paths: files[q] # "none" => files'[q] # "none"
      BY <1>0, <1>1, <2>2, <2>3
    <3>3. Several' BY <1>0, <2>2, <3>2 DEF Several
    <3> QED BY <1>0, <2>2, <3>1, <3>2, <3>3 DEF Minds
  <2> QED BY <1>0, <1>1, <2>1, <2>2, <2>3, RecordAttached
<1> QED BY <1>2, <1>3, <1>4, <1>5, <1>6

LEMMA UpsertsAttached ==
  ASSUME Inv, NEW w, Workers = {w}, Attached(w), UpsertsItem(w)
  PROVE  Attached(w)'
<1> DEFINE r == workers[w]
           s == [r EXCEPT !.at = "sync", !.row = item'.id]
<1>1. /\ r \in Requests /\ r.at = "upsert" /\ r.dest \in Paths
      /\ workers \in [Workers -> Requests]
  BY PlacedRequest DEF UpsertsItem, At, Inv, WorkersInv, DestSteps
<1>2. item.id = 0 /\ r.old.id = 0 /\ Named(r.dest, Canonicals)
  BY <1>1 DEF Attached, Minds, PlaceSteps
<1>3. item'.id # 0 /\ item'.path = r.dest /\ archive' = archive
  BY <1>2 DEF UpsertsItem, Inv, LibraryInv
<1>4. \A k \in DOMAIN archive: FALSE
  BY <1>1, <1>2 DEF Attached, Standing, Leaving
<1>5. Len(archive) = 0 BY <1>4 DEF Inv, ArchiveInv
<1>6. workers'[w] = s /\ s.at = "sync" /\ s.dest = r.dest /\ s.row = item'.id /\ s.old = r.old
  BY <1>1 DEF UpsertsItem, Requests
<1>7. Rooted' BY <1>2, <1>3 DEF Rooted
<1>8. Standing(workers[w])' BY <1>3, <1>4 DEF Standing
<1>9. Minds(workers[w])'
  BY <1>2, <1>3, <1>5, <1>6
  DEF Minds, TitleSteps, PlaceSteps, FoldSteps, PromoteSteps, DemoteSteps
<1> QED BY <1>7, <1>8, <1>9 DEF Attached

LEMMA SyncsAttached ==
  ASSUME Inv, NEW w, Workers = {w}, Attached(w), SyncsPrimary(w)
  PROVE  Attached(w)'
<1> DEFINE r == workers[w]
<1>1. r.at = "sync" BY DEF SyncsPrimary, At
<1>2. CASE End(w) /\ UNCHANGED files
  BY <1>1, <1>2, EndAttached DEF SyncsPrimary, library
<1>3. CASE Goto(w, "record")
  <2>1. /\ workers'[w].at = "record" /\ workers'[w].dest = r.dest
        /\ workers'[w].old = r.old /\ workers'[w].row = r.row
    BY <1>3, GotoLeads
  <2>2. item' = item /\ archive' = archive BY DEF SyncsPrimary
  <2>3. item.id # 0 /\ r.row = item.id /\ Len(archive) = 0 /\ Named(r.dest, Canonicals)
        /\ r.old.id = 0
    BY <1>1 DEF Attached, Minds, TitleSteps, PlaceSteps
  <2>4. Rooted' BY <2>2, <2>3 DEF Attached, Rooted
  <2>5. Standing(workers[w])' BY <2>2, <2>3 DEF Standing, Inv, ArchiveInv
  <2>6. Minds(workers[w])'
    BY <2>1, <2>2, <2>3
    DEF Minds, TitleSteps, PlaceSteps, FoldSteps, PromoteSteps, DemoteSteps
  <2> QED BY <2>4, <2>5, <2>6 DEF Attached
<1> QED BY <1>2, <1>3 DEF SyncsPrimary

LEMMA RetargetsAttached ==
  ASSUME Inv, NEW w, Workers = {w}, Attached(w), RetargetsItem(w)
  PROVE  Attached(w)'
<1> DEFINE r == workers[w]
           s == workers'[w]
<1> USE DEF TitleSteps, PlaceSteps, FoldSteps, PromoteSteps, DemoteSteps
<1>1. r.at = "retarget" BY DEF RetargetsItem, At
<1>2. Minds(r) /\ item.id # 0 /\ Named(r.dest, Canonicals) /\ Named(item.path, Canonicals)
  BY <1>1 DEF Attached, Minds, Rooted
<1>3. /\ s.at = "primary" /\ s.dest = r.dest /\ s.old = r.old /\ s.row = r.row
      /\ s.demoted = r.demoted
  BY GotoLeads DEF RetargetsItem
<1>4. item'.id = item.id /\ Named(item'.path, Canonicals) /\ UNCHANGED <<files, archive>>
  BY <1>2 DEF RetargetsItem, WithPrimary, Inv, LibraryInv, Items
<1>5. Rooted' /\ Standing(workers[w])' BY <1>1, <1>2, <1>4, RowsAttached
<1>6. Minds(workers[w])' BY <1>1, <1>2, <1>3, <1>4 DEF Minds
<1> QED BY <1>5, <1>6 DEF Attached

\* The archive after an apply: the old entries and the new one, the oldest
\* perhaps gone.
LEMMA ArchivedEntries ==
  ASSUME Inv, NEW w \in Workers, Archives(w), NEW k \in DOMAIN archive'
  PROVE  \/ /\ archive'[k].post = workers[w].dest /\ archive'[k].old = workers[w].old
            /\ archive'[k].item = workers[w].row
            /\ Len(archive) = 0 => k = 1
         \/ \E j \in DOMAIN archive: archive'[k] = archive[j] /\ (j = 1 => k = 1)
<1> DEFINE r == workers[w]
           size == IF Exists(r.dest) THEN Size[disk[r.dest]] ELSE 0
           e == [id |-> r.id, src |-> r.src, post |-> r.dest, size |-> size,
                 fold |-> r.demoted # NoPath, old |-> r.old, item |-> r.row,
                 file |-> disk[r.dest]]
           all == Append(archive, e)
<1>1. e.post = r.dest /\ e.old = r.old /\ e.item = r.row OBVIOUS
<1>2. archive \in Seq(Entries) BY DEF Inv, ArchiveInv
<1>3. archive' = Evict(all) BY DEF Archives
<1> HIDE DEF e
<1>4. /\ DOMAIN all = 1 .. Len(archive) + 1 /\ Len(all) = Len(archive) + 1
      /\ all[Len(archive) + 1] = e
      /\ \A j \in DOMAIN archive: all[j] = archive[j]
      /\ DOMAIN archive = 1 .. Len(archive) /\ Len(archive) \in Nat
  BY <1>2
<1>5. CASE archive' = all
  <2>1. CASE k = Len(archive) + 1 BY <1>1, <1>4, <1>5, <2>1
  <2>2. CASE k # Len(archive) + 1
    <3>1. k \in DOMAIN archive BY <1>4, <1>5, <2>2
    <3> QED BY <1>4, <1>5, <3>1
  <2> QED BY <2>1, <2>2
<1>6. CASE archive' = Tail(all) /\ Len(all) > Depth
  <2>1. k + 1 \in DOMAIN all /\ Tail(all)[k] = all[k + 1] /\ k \in Nat \ {0}
    BY <1>2, <1>4, <1>6
  <2>2. Len(archive) # 0 BY <1>4, <1>6, BoundsAssumption
  <2>3. CASE k + 1 = Len(archive) + 1 BY <1>1, <1>4, <1>6, <2>1, <2>2, <2>3
  <2>4. CASE k + 1 # Len(archive) + 1
    <3>1. k + 1 \in DOMAIN archive /\ k + 1 # 1 BY <1>4, <2>1, <2>4
    <3> QED BY <1>4, <1>6, <2>1, <3>1
  <2> QED BY <2>3, <2>4
<1> QED BY <1>3, <1>5, <1>6 DEF Evict

LEMMA ArchivesAttached ==
  ASSUME Inv, NEW w, Workers = {w}, Attached(w), Archives(w)
  PROVE  Attached(w)'
<1> DEFINE r == workers[w]
<1>1. r.at = "archive" /\ workers'[w].at = "mark" BY GotoLeads DEF Archives, At
<1>2. /\ r.row = item.id /\ item.id # 0 /\ files[r.dest] # "none"
      /\ IF r.old.id = 0 THEN Len(archive) = 0 ELSE Several /\ Named(r.old.path, Canonicals)
  BY <1>1 DEF Attached, Minds, TitleSteps
<1>3. item' = item /\ files' = files BY DEF Archives, library
<1>4. Rooted' BY <1>3 DEF Attached, Rooted
<1>5. ASSUME NEW k \in DOMAIN archive'
      PROVE  /\ archive'[k].old.id = 0 => k = 1
             /\ archive'[k].old.id # 0 => Named(archive'[k].old.path, Canonicals)
             /\ archive'[k].item = item.id /\ files[archive'[k].post] # "none"
             /\ archive'[k].old.id # 0 => Several
  <2>1. CASE \E j \in DOMAIN archive: archive'[k] = archive[j] /\ (j = 1 => k = 1)
    BY <1>1, <2>1 DEF Attached, Standing, Leaving
  <2>2. CASE /\ archive'[k].post = r.dest /\ archive'[k].old = r.old
             /\ archive'[k].item = r.row
             /\ Len(archive) = 0 => k = 1
    BY <1>2, <2>2
  <2> QED BY <2>1, <2>2, ArchivedEntries
<1>6. Standing(workers[w])' BY <1>2, <1>3, <1>5 DEF Standing, Several
<1>7. Minds(workers[w])'
  BY <1>1 DEF Minds, TitleSteps, PlaceSteps, FoldSteps, PromoteSteps, DemoteSteps
<1> QED BY <1>4, <1>6, <1>7 DEF Attached

-----------------------------------------------------------------------------
(* Steps of an undo *)

LEMMA ChecksAttached ==
  ASSUME Inv, NEW w, Workers = {w}, Attached(w), UndoChecksFile(w)
  PROVE  Attached(w)'
<1> DEFINE r == workers[w]
           s == workers'[w]
<1>1. r.at = "check" BY DEF UndoChecksFile, At
<1>2. \E k \in DOMAIN archive: archive[k] = r.entry BY <1>1 DEF Attached, Minds
<1>3. s.at \in {"put back", "revert"} /\ s.entry = r.entry
  <2>1. CASE Goto(w, "revert") BY <2>1, GotoLeads
  <2>2. CASE Chooses(w, "put back", r.entry.post, r.entry.src)
    BY <2>2, Choice DEF Chose
  <2> QED BY <2>1, <2>2 DEF UndoChecksFile
<1>4. Minds(s)
  BY <1>2, <1>3 DEF Minds, TitleSteps, PlaceSteps, FoldSteps, PromoteSteps, DemoteSteps
<1> QED BY <1>1, <1>4, RequestAttached DEF UndoChecksFile

\* Two paths with a row make two file rows.
LEMMA SeveralRows ==
  ASSUME Several
  PROVE  Cardinality({p \in Paths: files[p] # "none"}) > 1
<1> DEFINE rows == {p \in Paths: files[p] # "none"}
<1>1. IsFiniteSet(Paths)
  <2>1. IsFiniteSet(1 .. Cardinality(Files))
    BY FilesAssumption, FS_CardinalityType, FS_Interval
  <2> QED BY <2>1, NamesAssumption, FS_Product DEF Paths
<1>2. IsFiniteSet(rows) BY <1>1, FS_Subset
<1>3. PICK p, q \in Paths: p # q /\ files[p] # "none" /\ files[q] # "none" BY DEF Several
<1>4. IsFiniteSet({p}) /\ Cardinality({p}) = 1 BY FS_Singleton
<1>5. IsFiniteSet({p} \union {q}) /\ Cardinality({p} \union {q}) = 2
  BY <1>3, <1>4, FS_AddElement
<1>6. {p} \union {q} \subseteq rows BY <1>3
<1>7. Cardinality({p} \union {q}) <= Cardinality(rows) BY <1>2, <1>6, FS_Subset
<1>8. Cardinality(rows) \in Nat BY <1>2, FS_CardinalityType
<1> QED BY <1>5, <1>7, <1>8

LEMMA RevertsAttached ==
  ASSUME Inv, NEW w, Workers = {w}, Attached(w), UndoReverts(w)
  PROVE  Attached(w)'
<1> DEFINE r == workers[w]
           s == workers'[w]
<1>1. r.at = "revert" BY DEF UndoReverts, At
<1>2. PICK k \in DOMAIN archive: archive[k] = r.entry BY <1>1 DEF Attached, Minds
<1>3. item.id = r.entry.item BY <1>1, <1>2 DEF Attached, Standing, Leaving
<1>4. s.entry = r.entry BY GotoLeads DEF UndoReverts
<1>5. s.at = IF r.entry.old.id # 0 THEN "restore"
             ELSE IF Shared(r.entry) THEN "snapshot" ELSE "delete"
  BY GotoLeads DEF UndoReverts
<1>6. Several => Shared(r.entry) BY <1>3, SeveralRows DEF Shared
<1>7. Minds(s)
  BY <1>2, <1>4, <1>5, <1>6
  DEF Minds, TitleSteps, PlaceSteps, FoldSteps, PromoteSteps, DemoteSteps
<1> QED BY <1>1, <1>7, RequestAttached DEF UndoReverts

LEMMA DeletesAttached ==
  ASSUME Inv, NEW w, Workers = {w}, Attached(w), UndoDeletesItem(w)
  PROVE  Attached(w)'
<1> DEFINE r == workers[w]
           e == r.entry
           s == workers'[w]
<1>1. r.at = "delete" BY DEF UndoDeletesItem, At
<1>2. PICK k \in DOMAIN archive: archive[k] = e BY <1>1 DEF Attached, Minds
<1>3. e.old.id = 0 /\ ~Several /\ k = 1
  BY <1>1, <1>2 DEF Attached, Minds, Standing
<1>4. e.item = item.id BY <1>1, <1>2 DEF Attached, Standing, Leaving
<1>5. item' = NoItem /\ files' = NoFiles /\ archive' = archive
  BY <1>4 DEF UndoDeletesItem
<1>6. \A l \in DOMAIN archive: archive[l] = e
  BY <1>1, <1>2, <1>3 DEF Attached, Standing, Leaving
<1>7. s.at = "snapshot" /\ s.entry = e BY GotoLeads DEF UndoDeletesItem
<1>8. Rooted' BY <1>5 DEF Rooted, NoItem
<1>9. Standing(workers[w])'
  BY <1>1, <1>3, <1>5, <1>6, <1>7 DEF Attached, Standing, Leaving
<1>10. Minds(workers[w])'
  BY <1>7 DEF Minds, TitleSteps, PlaceSteps, FoldSteps, PromoteSteps, DemoteSteps
<1> QED BY <1>8, <1>9, <1>10 DEF Attached

LEMMA RestoresAttached ==
  ASSUME Inv, NEW w, Workers = {w}, Attached(w), UndoRestoresItem(w)
  PROVE  Attached(w)'
<1> DEFINE r == workers[w]
           old == r.entry.old
<1>1. r.at = "restore" BY DEF UndoRestoresItem, At
<1>2. PICK k \in DOMAIN archive: archive[k] = r.entry BY <1>1 DEF Attached, Minds
<1>3. old.id # 0 /\ Named(old.path, Canonicals) /\ item.id # 0 /\ Named(item.path, Canonicals)
  BY <1>1, <1>2 DEF Attached, Minds, Standing, Rooted, Leaving
<1>4. item'.id = item.id /\ Named(item'.path, Canonicals) /\ UNCHANGED <<files, archive>>
  BY <1>3 DEF UndoRestoresItem
<1>5. Rooted' /\ Standing(workers[w])' BY <1>1, <1>3, <1>4, RowsAttached
<1>6. workers'[w].at = "snapshot" BY GotoLeads DEF UndoRestoresItem
<1>7. Minds(workers[w])'
  BY <1>6 DEF Minds, TitleSteps, PlaceSteps, FoldSteps, PromoteSteps, DemoteSteps
<1> QED BY <1>5, <1>7 DEF Attached

\* With its path reserved, an undo goes on to consume its entry.
LEMMA SnapshotAttached ==
  ASSUME Inv, NEW w, Workers = {w}, Attached(w), Reserved(w), UndoRestoresProposal(w)
  PROVE  Attached(w)'
<1> DEFINE r == workers[w]
<1>1. r.at = "snapshot" BY DEF UndoRestoresProposal, At
<1>2. Goto(w, "consume")
  BY <1>1 DEF UndoRestoresProposal, Reserved, UndoSteps
<1>3. workers'[w].at = "consume" /\ workers'[w].entry = r.entry BY <1>2, GotoLeads
<1>4. item' = item /\ files' = files /\ archive' = archive
  BY DEF UndoRestoresProposal, library
<1>5. Rooted' BY <1>4 DEF Attached, Rooted
<1>6. \A e: Leaving(workers'[w], e) = Leaving(r, e) BY <1>1, <1>3 DEF Leaving
<1>7. Standing(workers[w])' BY <1>4, <1>6 DEF Attached, Standing, Several
<1>8. Minds(workers[w])'
  BY <1>3 DEF Minds, TitleSteps, PlaceSteps, FoldSteps, PromoteSteps, DemoteSteps
<1> QED BY <1>5, <1>7, <1>8 DEF Attached

LEMMA ConsumesAttached ==
  ASSUME Inv, NEW w, Workers = {w}, Attached(w), UndoConsumes(w)
  PROVE  Attached(w)'
<1> DEFINE r == workers[w]
<1>1. workers'[w] = Idle /\ r.at = "consume"
  BY EndLeads DEF UndoConsumes, At
<1>2. item' = item /\ files' = files BY DEF UndoConsumes, library
<1>3. archive \in Seq(Entries) BY DEF Inv, ArchiveInv
<1>4. ASSUME NEW i \in DOMAIN archive'
      PROVE  \E j \in DOMAIN archive:
               archive'[i] = archive[j] /\ ~Leaving(r, archive[j]) /\ (j = 1 => i = 1)
  <2>1. CASE /\ \A k \in DOMAIN archive: archive[k] # r.entry
             /\ UNCHANGED archive
    BY <2>1 DEF Leaving
  <2>2. ASSUME NEW k \in DOMAIN archive, archive[k] = r.entry,
               archive' = SubSeq(archive, 1, k - 1) \o SubSeq(archive, k + 1, Len(archive))
        PROVE  \E j \in DOMAIN archive:
                 archive'[i] = archive[j] /\ ~Leaving(r, archive[j]) /\ (j = 1 => i = 1)
    <3> DEFINE j == IF i < k THEN i ELSE i + 1
    <3>1. k \in 1 .. Len(archive) /\ Len(archive) \in Nat BY <1>3
    <3>2. i \in 1 .. Len(archive) - 1 /\ archive'[i] = archive[j]
      BY <1>3, <2>2, <3>1, Removed
    <3>3. j \in DOMAIN archive /\ j # k /\ (j = 1 => i = 1) BY <1>3, <3>1, <3>2
    <3>4. ~Leaving(r, archive[j])
      <4>1. ASSUME Leaving(r, archive[j]) PROVE j = 1 /\ k = 1
        BY <2>2, <3>3, <4>1 DEF Leaving, Attached, Standing
      <4> QED BY <3>3, <4>1
    <3> QED BY <3>2, <3>3, <3>4
  <2> QED BY <2>1, <2>2 DEF UndoConsumes
<1>5. Rooted' BY <1>2 DEF Attached, Rooted
<1>6. Standing(workers[w])' BY <1>2, <1>4 DEF Attached, Standing, Several
<1>7. Minds(workers[w])' BY <1>1 DEF Minds, Idle, TitleSteps, PlaceSteps, FoldSteps,
                                      PromoteSteps, DemoteSteps
<1> QED BY <1>5, <1>6, <1>7 DEF Attached

-----------------------------------------------------------------------------
(* Every step *)

LEMMA ApplyAttached ==
  ASSUME Inv, NEW w, Workers = {w}, Unbroken, Attached(w), Apply(w)
  PROVE  Attached(w)'
BY LooksUpAttached, RelocatesAttached, UpsertsAttached, SyncsAttached, RecordsAttached,
   FoldsInAttached, DemotesAttached, PromotesAttached, RetargetsAttached,
   ArchivesAttached, EndsAttached
DEF Apply

LEMMA UndoAttached ==
  ASSUME Inv, NEW w, Workers = {w}, Attached(w), Reserved(w), Undo(w)
  PROVE  Attached(w)'
BY ChecksAttached, RevertsAttached, DeletesAttached, RestoresAttached,
   SnapshotAttached, ConsumesAttached
DEF Undo

LEMMA NextAttached ==
  ASSUME Inv, NEW w, Workers = {w}, Unbroken, Attached(w), Reserved(w), [Next]_vars
  PROVE  Attached(w)'
<1>1. ASSUME workers'[w] = workers[w], UNCHANGED <<library, archive>> PROVE Attached(w)'
  <2>1. item' = item /\ files' = files /\ archive' = archive BY <1>1 DEF library
  <2>2. Rooted' BY <2>1 DEF Attached, Rooted
  <2>3. Standing(workers[w])' BY <1>1, <2>1 DEF Attached, Standing, Several
  <2>4. Minds(workers[w])' BY <1>1, <2>1, MindsStays DEF Attached
  <2> QED BY <2>2, <2>3, <2>4 DEF Attached
<1>2. CASE \E f \in Files: Arrives(f) BY <1>1, <1>2 DEF Arrives
<1>3. CASE Scan
  <2>1. CASE ScanReads
    <3>1. {p \in {q \in Paths: Entry(q)}: p[1] \in Tagged} = {} BY DEF Unbroken
    <3>2. UNCHANGED <<library, archive, workers>> BY <2>1, <3>1 DEF ScanReads
    <3> QED BY <1>1, <3>2
  <2>2. CASE ScanReplaces \/ ScanDefers BY <1>1, <2>2 DEF ScanReplaces, ScanDefers
  <2> QED BY <1>3, <2>1, <2>2 DEF Scan
<1>4. CASE \E v \in Workers: \/ \E i \in Ids: ApplyBegins(v, i) \/ UndoBegins(v, i)
                             \/ GoesOn(v) \/ BreaksOff(v)
  <2>1. \/ \E i \in Ids: ApplyBegins(w, i) \/ UndoBegins(w, i)
        \/ GoesOn(w) \/ BreaksOff(w)
    BY <1>4
  <2>2. ~BreaksOff(w) BY DEF BreaksOff, Unbroken, Inv
  <2> QED BY <2>1, <2>2, BeginsAttached, MovesAttached, ApplyAttached, UndoAttached
          DEF GoesOn
<1>5. CASE UNCHANGED vars
  <2>1. UNCHANGED <<workers, library, archive>> BY <1>5 DEF vars, library
  <2> QED BY <1>1, <2>1
<1> QED BY <1>2, <1>3, <1>4, <1>5 DEF Next

\* With requests one at a time and none broken off, an undo takes back one apply
\* only: whatever was applied and undone before, and whatever scans look on, the
\* file of every apply that can still be undone has its row in the title.
THEOREM OneUndoLeavesOthers ==
  ASSUME Unbroken, NEW w, Workers = {w}
  PROVE  Spec => []AppliedFileTracked
<1>1. Init => Attached(w) /\ Reserved(w)
  <2> SUFFICES ASSUME Init PROVE Attached(w) /\ Reserved(w) OBVIOUS
  <2>1. workers[w] = Idle /\ archive = <<>> /\ item.id = 0 /\ files = NoFiles
    BY DEF Init, NoItem
  <2>2. Rooted BY <2>1 DEF Rooted
  <2>3. DOMAIN archive = {} BY <2>1
  <2>4. Standing(workers[w]) BY <2>3 DEF Standing
  <2>5. Reserved(w) BY <2>1, IdleRequest DEF Reserved, UndoSteps
  <2> QED BY <2>1, <2>2, <2>4, <2>5, IdleMindsNothing DEF Attached
<1>2. Inv /\ (Attached(w) /\ Reserved(w)) /\ [Next]_vars => (Attached(w) /\ Reserved(w))'
  BY NextAttached, NextReserved
<1>3. Attached(w) /\ Inv => AppliedFileTracked
  <2> SUFFICES ASSUME Attached(w), Inv, Quiet, NEW k \in DOMAIN archive
               PROVE  item.id # 0 /\ archive[k].post \in Known
    BY DEF AppliedFileTracked
  <2>1. workers[w].at = "idle" BY DEF Quiet, At
  <2>2. item.id # 0 /\ files[archive[k].post] # "none"
    BY <2>1 DEF Attached, Standing, Leaving
  <2>3. archive[k] \in Entries BY DEF Inv, ArchiveInv
  <2> QED BY <2>2, <2>3 DEF Known, Entries
<1> QED BY <1>1, <1>2, <1>3, InvAlways, PTL DEF Spec
=============================================================================
