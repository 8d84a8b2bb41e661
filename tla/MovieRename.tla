---------------------------- MODULE MovieRename ----------------------------
(***************************************************************************)
(* Rename for one film: a scan proposes the files found for it, an apply    *)
(* moves a file into the library and records it, an undo takes that back.   *)
(* Three places must agree and are written one after the other: the disk,   *)
(* the library (library_items and library_item_files) and the queue         *)
(* (proposals and rename_undo_archive).  Every statement and every rename   *)
(* is a step of its own; several HTTP requests may be under way at once.    *)
(*                                                                         *)
(* The first file becomes the title's primary.  A further one is folded in: *)
(* as an alternate, or, when its quality tier is higher, as the new primary *)
(* while the old one is renamed to an alternate.                            *)
(*                                                                         *)
(* A path is a name and the number UniquePath appended to it, 1 for none.   *)
(***************************************************************************)
EXTENDS Naturals, Sequences, FiniteSets

CONSTANTS
  Files,        \* the video files that may turn up for the film
  NoFile,
  Names,        \* file names without the appended number
  Source,       \* where each file arrives
  Canonical,    \* MovieFileName: the primary's name, by extension
  Alternate,    \* MovieAlternateFileName: an alternate's, by quality labels
  TitleFolder,  \* the names inside the film's own library folder
  Tagged,       \* the names a TMDB id can be read from (folder tag or nfo)
  Tier, Size,   \* of each file
  Workers,      \* HTTP requests that may be under way at once
  UndoEnabled,  \* whether anything is undone
  ScansOverlap, \* whether a scan may look while a request runs: it does
  Depth,        \* how many applies stay undoable
  MaxId,        \* bound: rows the queue may come to hold
  MaxItems,     \* bound: library rows created
  MaxFailures   \* bound: requests that break off

Ids == 1 .. MaxId
Paths == Names \X (1 .. Cardinality(Files))
NoPath == <<>>

ASSUME FilesAssumption == IsFiniteSet(Files) /\ NoFile \notin Files
ASSUME NamesAssumption ==
  /\ IsFiniteSet(Names) /\ Source \in [Files -> Names]
  /\ Canonical \in [Files -> Names] /\ Alternate \in [Files -> Names]
  /\ TitleFolder \subseteq Names /\ Tagged \subseteq Names
ASSUME QualityAssumption == Tier \in [Files -> Nat \ {0}] /\ Size \in [Files -> Nat \ {0}]
ASSUME BoundsAssumption ==
  UndoEnabled \in BOOLEAN /\ ScansOverlap \in BOOLEAN /\ Depth \in Nat \ {0}
  /\ MaxId \in Nat /\ MaxItems \in Nat /\ MaxFailures \in Nat

VARIABLES
  disk,       \* the file at each path
  arrived,    \* files that have turned up
  item,       \* the film's library_items row
  minted,     \* ids given to such rows so far
  files,      \* its library_item_files rows
  queue,      \* proposals
  archive,    \* rename_undo_archive: the active entries, oldest first
  workers,    \* where each request is
  scan,       \* what the scan under way has found
  failures

library == <<item, minted, files>>
vars == <<disk, arrived, item, minted, files, queue, archive, workers, scan, failures>>

NoItem == [id |-> 0, path |-> NoPath, tier |-> 0]
Items == [id: 0 .. MaxItems, path: Paths \union {NoPath}, tier: Nat]
FileRow == {"none", "primary", "alternate"}
NoFiles == [p \in Paths |-> "none"]

Proposals == [status: {"none", "pending", "applied", "deleted"},
              path: Paths \union {NoPath}]

\* An archived apply; "file" is history, the file the apply moved.
Entries == [id: Ids, src: Paths, post: Paths, size: Nat, fold: BOOLEAN,
            old: Items, item: 0 .. MaxItems, file: Files \union {NoFile}]
NoEntry == <<>>

Steps == {"idle", "got", "looked", "move", "upsert", "sync", "record",
          "fold", "refresh", "alternate", "demote", "demoted", "promote",
          "retarget", "primary", "demoted row", "archive", "mark",
          "check", "put back", "revert", "delete", "restore", "snapshot",
          "consume"}
Requests == [at: Steps, id: 0 .. MaxId, src: Paths \union {NoPath}, old: Items,
             row: 0 .. MaxItems, tier: Nat, from: Paths \union {NoPath},
             dest: Paths \union {NoPath}, demoted: Paths \union {NoPath},
             entry: Entries \union {NoEntry}]
Idle == [at |-> "idle", id |-> 0, src |-> NoPath, old |-> NoItem,
         row |-> 0, tier |-> 0, from |-> NoPath, dest |-> NoPath,
         demoted |-> NoPath, entry |-> NoEntry]

NoScan == [at |-> "idle", found |-> {}]

Init ==
  /\ disk = [p \in Paths |-> NoFile] /\ arrived = {}
  /\ item = NoItem /\ minted = 0 /\ files = NoFiles
  /\ queue = [i \in Ids |-> [status |-> "none", path |-> NoPath]]
  /\ archive = <<>>
  /\ workers = [w \in Workers |-> Idle]
  /\ scan = NoScan
  /\ failures = 0

-----------------------------------------------------------------------------
(* Disk, library and queue *)

Exists(p) == p \in Paths /\ disk[p] # NoFile

\* Mutant: the name is taken without looking.
TargetPath(target, d) == d = target

\* d is target, or the first numbered variant of it that is free.
UniquePath(target, d) ==
  /\ d \in Paths /\ ~Exists(d)
  /\ d[1] = target[1] /\ d[2] >= target[2]
  /\ \A n \in target[2] .. (d[2] - 1): Exists(<<target[1], n>>)

\* Where moveUnique puts a file that is to be called target.
Destination(from, target, d) ==
  IF from = target THEN d = target ELSE UniquePath(target, d)

\* A name without a number.
Plain(name) == <<name, 1>>

\* The probed tier of a file, or what is known without probing it.
ProbedTier(p, fallback) == IF Exists(p) THEN Tier[disk[p]] ELSE fallback

Live(i) == queue[i].status = "pending"
LiveAt(p) == {i \in Ids: Live(i) /\ queue[i].path = p}

\* AllFilePaths: what a scan takes for already placed.
Known == {p \in Paths: files[p] # "none"} \union {item.path}

\* UpsertFile with is_primary set first clears it on the item's other rows.
AsPrimary(p) == [q \in Paths |-> IF q = p THEN "primary"
                                 ELSE IF files[q] = "primary" THEN "alternate"
                                 ELSE files[q]]
AsAlternate(p) == [files EXCEPT ![p] = "alternate"]

-----------------------------------------------------------------------------
(* Steps of a request *)

At(w, at) == workers[w].at = at
Goto(w, at) == workers' = [workers EXCEPT ![w].at = at]
End(w) == workers' = [workers EXCEPT ![w] = Idle]

\* The apply gate: held by a request from its start to its end.
GateHeld == \E w \in Workers: workers[w].at \notin {"idle", "got"}

\* Request w is about to rename from to some d that Destination allows.
Chooses(w, at, from, target) ==
  \E d \in Paths:
    /\ Destination(from, target, d)
    /\ workers' = [workers EXCEPT ![w].at = at, ![w].from = from, ![w].dest = d]

\* What a request does once its rename is done.
MoveSteps == {"move", "fold", "demote", "promote", "put back"}
AfterMove(at) ==
  CASE at = "move" -> "upsert" [] at = "fold" -> "refresh"
    [] at = "demote" -> "demoted" [] at = "promote" -> "retarget"
    [] at = "put back" -> "revert"

\* os.Rename, which replaces what is at the destination.  An apply whose file
\* is gone fails; an undo goes on without the file.
Moves(w) ==
  LET r == workers[w] IN
  /\ r.at \in MoveSteps
  /\ \/ /\ Exists(r.from)
        /\ disk' = IF r.from = r.dest THEN disk
                   ELSE [disk EXCEPT ![r.from] = NoFile, ![r.dest] = disk[r.from]]
        /\ Goto(w, AfterMove(r.at))
     \/ /\ ~Exists(r.from)
        /\ IF r.at = "put back" THEN Goto(w, "revert") ELSE End(w)
        /\ UNCHANGED disk
  /\ UNCHANGED <<arrived, library, queue, archive, scan, failures>>

-----------------------------------------------------------------------------
(* Apply: the handler reads the proposal, takes the gate, looks at the file *)
(* and at the library                                                      *)

ApplyBegins(w, i) ==
  /\ At(w, "idle") /\ Live(i)
  /\ workers' = [workers EXCEPT ![w].at = "got", ![w].id = i,
                                ![w].src = queue[i].path]
  /\ UNCHANGED <<disk, arrived, library, queue, archive, scan, failures>>

ApplyLooksUp(w) ==
  /\ At(w, "got")
  /\ \/ /\ Exists(workers[w].src)
        /\ workers' = [workers EXCEPT ![w].at = "looked", ![w].old = item,
                                      ![w].row = item.id]
     \/ ~Exists(workers[w].src) /\ End(w)
  /\ UNCHANGED <<disk, arrived, library, queue, archive, scan, failures>>

\* Another request took the file away meanwhile: there is nothing to rename.
FindsNothing(w) ==
  /\ At(w, "looked") /\ ~Exists(workers[w].src)
  /\ End(w)
  /\ UNCHANGED <<disk, arrived, library, queue, archive, scan, failures>>

\* RelocateMovie: the title's first file gets the canonical name.
Relocates(w) ==
  LET r == workers[w] IN
  /\ At(w, "looked") /\ r.old.id = 0 /\ Exists(r.src)
  /\ Chooses(w, "move", r.src, Plain(Canonical[disk[r.src]]))
  /\ UNCHANGED <<disk, arrived, library, queue, archive, scan, failures>>

\* Upsert: the row of (mode, tmdb_id), inserted or overwritten ...
UpsertsItem(w) ==
  LET r == workers[w]
      row == [path |-> r.dest, tier |-> ProbedTier(r.dest, 1)] IN
  /\ At(w, "upsert")
  /\ IF item.id = 0
     THEN /\ minted < MaxItems /\ minted' = minted + 1
          /\ item' = [id |-> minted + 1, path |-> row.path, tier |-> row.tier]
     ELSE /\ item' = [item EXCEPT !.path = row.path, !.tier = row.tier]
          /\ UNCHANGED minted
  /\ workers' = [workers EXCEPT ![w].at = "sync", ![w].row = item'.id]
  /\ UNCHANGED <<disk, arrived, files, queue, archive, scan, failures>>

\* ... and SyncPrimaryFile, which moves the primary file row to the new path.
\* file_path is unique, so this may fail.
SyncsPrimary(w) ==
  LET dest == workers[w].dest
      owned == item.id = workers[w].row
      primaries == {p \in Paths: files[p] = "primary"} IN
  /\ At(w, "sync")
  /\ \/ /\ owned /\ (files[dest] = "none" \/ dest \in primaries)
        /\ files' = [p \in Paths |-> IF p = dest THEN "primary"
                                     ELSE IF p \in primaries THEN "none"
                                     ELSE files[p]]
        /\ Goto(w, "record")
     \/ /\ ~owned \/ (files[dest] # "none" /\ dest \notin primaries)
        /\ End(w)
        /\ UNCHANGED files
  /\ UNCHANGED <<disk, arrived, item, minted, queue, archive, scan, failures>>

\* UpsertFile for an item that is gone violates the foreign key.
RecordsFile(w, at, rows, next) ==
  /\ At(w, at)
  /\ \/ item.id = workers[w].row /\ files' = rows /\ Goto(w, next)
     \/ item.id # workers[w].row /\ End(w) /\ UNCHANGED files
  /\ UNCHANGED <<disk, arrived, item, minted, queue, archive, scan, failures>>

RecordsPrimary(w) ==
  RecordsFile(w, "record", AsPrimary(workers[w].dest), "archive")

-----------------------------------------------------------------------------
(* applyLibraryAlternate: the title is already there *)

\* Mutant: the newcomer always replaces the primary.
AnyOrphanWins(w) == TRUE

\* The orphan's probed tier against the primary's.
OrphanWins(w) ==
  LET r == workers[w] IN
  Tier[disk[r.src]] > ProbedTier(r.old.path, r.old.tier)

\* The orphan loses or ties: it becomes an alternate.
FoldsIn(w) ==
  LET r == workers[w] IN
  /\ At(w, "looked") /\ r.old.id # 0 /\ Exists(r.src) /\ ~OrphanWins(w)
  /\ Chooses(w, "fold", r.src, Plain(Alternate[disk[r.src]]))
  /\ UNCHANGED <<disk, arrived, library, queue, archive, scan, failures>>

RefreshesPrimary(w) ==
  RecordsFile(w, "refresh", AsPrimary(workers[w].old.path), "alternate")
RecordsAlternate(w) ==
  RecordsFile(w, "alternate", AsAlternate(workers[w].dest), "archive")

\* The orphan wins: the primary steps aside first.  Without a file at the
\* title's path there is nothing to rename and the apply fails.
Demotes(w) ==
  LET r == workers[w] IN
  /\ At(w, "looked") /\ r.old.id # 0 /\ Exists(r.src) /\ OrphanWins(w)
  /\ \/ /\ Exists(r.old.path)
        /\ \E d \in Paths:
             /\ Destination(r.old.path, Plain(Alternate[disk[r.old.path]]), d)
             /\ workers' = [workers EXCEPT ![w].at = "demote", ![w].dest = d,
                  ![w].from = r.old.path, ![w].demoted = d,
                  ![w].tier = Tier[disk[r.src]]]
     \/ ~Exists(r.old.path) /\ End(w)
  /\ UNCHANGED <<disk, arrived, library, queue, archive, scan, failures>>

Promotes(w) ==
  LET r == workers[w] IN
  /\ At(w, "demoted")
  /\ \/ Exists(r.src) /\ Chooses(w, "promote", r.src, Plain(Canonical[disk[r.src]]))
     \/ ~Exists(r.src) /\ End(w)
  /\ UNCHANGED <<disk, arrived, library, queue, archive, scan, failures>>

\* Mutant: the title keeps pointing at the old primary's path.
KeepItemPath(row, p, tier) == [row EXCEPT !.tier = tier]
WithPrimary(row, p, tier) == [row EXCEPT !.path = p, !.tier = tier]

\* UpdateItemPrimaryPath, by id: no error when the row is gone.
RetargetsItem(w) ==
  LET r == workers[w] IN
  /\ At(w, "retarget")
  /\ item' = IF item.id = r.old.id
             THEN WithPrimary(item, r.dest, r.tier) ELSE item
  /\ Goto(w, "primary")
  /\ UNCHANGED <<disk, arrived, minted, files, queue, archive, scan, failures>>

\* Mutant: the demoted file is recorded where it was.
RecordsOldPath(w) ==
  RecordsFile(w, "demoted row", AsAlternate(workers[w].old.path), "archive")

RecordsPromoted(w) ==
  RecordsFile(w, "primary", AsPrimary(workers[w].dest), "demoted row")
RecordsDemoted(w) ==
  RecordsFile(w, "demoted row", AsAlternate(workers[w].demoted), "archive")

-----------------------------------------------------------------------------
(* The end of an apply *)

\* Mutant: nothing is evicted.
KeepAll(entries) == entries

\* EvictBeyondDepth.
Evict(entries) == IF Len(entries) > Depth THEN Tail(entries) ELSE entries

\* recordUndoArchive, then EvictBeyondDepth.
Archives(w) ==
  LET r == workers[w]
      entry == [id |-> r.id, src |-> r.src, post |-> r.dest,
                size |-> IF Exists(r.dest) THEN Size[disk[r.dest]] ELSE 0,
                fold |-> r.demoted # NoPath, old |-> r.old, item |-> r.row,
                file |-> disk[r.dest]] IN
  /\ At(w, "archive")
  /\ archive' = Evict(Append(archive, entry))
  /\ Goto(w, "mark")
  /\ UNCHANGED <<disk, arrived, library, queue, scan, failures>>

\* markAppliedResilient: by id, or by path when a rescan replaced the row.
Marks(w) ==
  LET r == workers[w]
      rows == IF queue[r.id].status # "deleted" THEN {r.id} ELSE LiveAt(r.src) IN
  /\ At(w, "mark")
  /\ queue' = [i \in Ids |-> IF i \in rows
                             THEN [queue[i] EXCEPT !.status = "applied"]
                             ELSE queue[i]]
  /\ End(w)
  /\ UNCHANGED <<disk, arrived, library, archive, scan, failures>>

Apply(w) ==
  \/ ApplyLooksUp(w) \/ FindsNothing(w) \/ Relocates(w) \/ UpsertsItem(w) \/ SyncsPrimary(w)
  \/ RecordsPrimary(w) \/ FoldsIn(w) \/ RefreshesPrimary(w)
  \/ RecordsAlternate(w) \/ Demotes(w) \/ Promotes(w) \/ RetargetsItem(w)
  \/ RecordsPromoted(w) \/ RecordsDemoted(w) \/ Archives(w) \/ Marks(w)

-----------------------------------------------------------------------------
(* Undo of the latest active entry of an applied proposal *)

\* Mutant: a newer proposal at the old path is not looked for.
AlwaysRestorable(entry) == TRUE

\* No other live proposal holds the path this one would return to.
Restorable(entry) == LiveAt(entry.src) \subseteq {entry.id}

UndoBegins(w, i) ==
  /\ UndoEnabled /\ At(w, "idle") /\ queue[i].status = "applied"
  /\ \E k \in DOMAIN archive:
       /\ archive[k].id = i
       /\ \A l \in DOMAIN archive: archive[l].id = i => l <= k
       /\ Restorable(archive[k])
       /\ workers' = [workers EXCEPT ![w].at = "check", ![w].id = i,
                                     ![w].entry = archive[k]]
  /\ UNCHANGED <<disk, arrived, library, queue, archive, scan, failures>>

\* Mutant: any file at the recorded path will do.
AnyFileThere(entry) == Exists(entry.post)

\* restoreFileForUndo: the gate that tells this apply's file from another's.
MayMoveBack(entry) ==
  ~entry.fold /\ Exists(entry.post) /\ Size[disk[entry.post]] = entry.size

UndoChecksFile(w) ==
  LET e == workers[w].entry IN
  /\ At(w, "check")
  /\ \/ MayMoveBack(e) /\ Chooses(w, "put back", e.post, e.src)
     \/ ~MayMoveBack(e) /\ Goto(w, "revert")
  /\ UNCHANGED <<disk, arrived, library, queue, archive, scan, failures>>

\* Mutant: a row others were folded into counts as this apply's own.
NeverShared(entry) == FALSE

\* rowNowSharedWithAnotherApply, by counting file rows of the item.
Shared(entry) ==
  item.id = entry.item /\ Cardinality({p \in Paths: files[p] # "none"}) > 1

\* revertTouchedRows: the row this apply inserted goes, unless it is shared;
\* one it changed is put back as it was.
UndoReverts(w) ==
  LET e == workers[w].entry IN
  /\ At(w, "revert")
  /\ Goto(w, IF e.old.id # 0 THEN "restore"
             ELSE IF Shared(e) THEN "snapshot" ELSE "delete")
  /\ UNCHANGED <<disk, arrived, library, queue, archive, scan, failures>>

UndoDeletesItem(w) ==
  /\ At(w, "delete")
  /\ IF item.id = workers[w].entry.item
     THEN item' = NoItem /\ files' = NoFiles
     ELSE UNCHANGED <<item, files>>
  /\ Goto(w, "snapshot")
  /\ UNCHANGED <<disk, arrived, minted, queue, archive, scan, failures>>

UndoRestoresItem(w) ==
  LET old == workers[w].entry.old IN
  /\ At(w, "restore")
  /\ item' = IF item.id = old.id THEN old ELSE item
  /\ Goto(w, "snapshot")
  /\ UNCHANGED <<disk, arrived, minted, files, queue, archive, scan, failures>>

\* RestoreSnapshot: fails on the index of live proposals by path.
UndoRestoresProposal(w) ==
  LET e == workers[w].entry IN
  /\ At(w, "snapshot")
  /\ \/ /\ LiveAt(e.src) \subseteq {e.id}
        /\ queue' = [queue EXCEPT ![e.id] = [status |-> "pending", path |-> e.src]]
        /\ Goto(w, "consume")
     \/ ~(LiveAt(e.src) \subseteq {e.id}) /\ End(w) /\ UNCHANGED queue
  /\ UNCHANGED <<disk, arrived, library, archive, scan, failures>>

\* MarkConsumed; an entry evicted meanwhile is no longer active anyway.
UndoConsumes(w) ==
  LET matching == {k \in DOMAIN archive: archive[k] = workers[w].entry} IN
  /\ At(w, "consume")
  /\ \/ \E k \in matching:
          /\ \A l \in matching: l <= k
          /\ archive' = SubSeq(archive, 1, k - 1) \o SubSeq(archive, k + 1, Len(archive))
     \/ matching = {} /\ UNCHANGED archive
  /\ End(w)
  /\ UNCHANGED <<disk, arrived, library, queue, scan, failures>>

Undo(w) ==
  \/ UndoChecksFile(w) \/ UndoReverts(w) \/ UndoDeletesItem(w)
  \/ UndoRestoresItem(w) \/ UndoRestoresProposal(w) \/ UndoConsumes(w)

-----------------------------------------------------------------------------
(* ScanLibrary and ReplacePending *)

InTitleFolder(p) == p[1] \in TitleFolder

\* The film's folder is taken as one entry, its largest file, when nothing in
\* it is known; otherwise every unknown file in it is an entry.
InFolder == {p \in Paths: InTitleFolder(p) /\ Exists(p)}
FolderIsLeaf == InFolder \intersect Known = {}
Largest == CHOOSE p \in InFolder: \A q \in InFolder: Size[disk[q]] <= Size[disk[p]]
Entry(p) ==
  /\ Exists(p) /\ p \notin Known
  /\ InTitleFolder(p) /\ FolderIsLeaf => p = Largest

\* MatchesMovieSchema: the folder's file already has the folder's name.
Organized(p) ==
  InTitleFolder(p) /\ FolderIsLeaf /\ p = Plain(Canonical[disk[p]])

\* Mutant: a file of a title already in the library is not catalogued.
CatalogNewOnly(found, first) ==
  /\ item' = IF item.id = 0 THEN [id |-> minted + 1, path |-> first, tier |-> 0]
             ELSE item
  /\ files' = IF item.id = 0 THEN [files EXCEPT ![first] = "primary"] ELSE files

\* catalogMovieAtPath for every entry that carries the TMDB id: the first one
\* makes the title when there is none, the others become alternates.
Catalog(found, first) ==
  /\ item' = IF item.id = 0 THEN [id |-> minted + 1, path |-> first, tier |-> 0]
             ELSE item
  /\ files' = [p \in Paths |-> IF p = first /\ item.id = 0 THEN "primary"
                               ELSE IF p \in found THEN "alternate"
                               ELSE files[p]]

ScanReads ==
  LET found == {p \in Paths: Entry(p)}
      catalogued == {p \in found: p[1] \in Tagged} IN
  /\ scan = NoScan /\ (GateHeld => ScansOverlap)
  /\ \/ /\ catalogued = {} /\ UNCHANGED library
     \/ \E first \in catalogued:
          /\ item.id = 0 => minted < MaxItems
          /\ minted' = IF item.id = 0 THEN minted + 1 ELSE minted
          /\ Catalog(catalogued, first)
  /\ scan' = [at |-> "found", found |-> {p \in found: ~Organized(p)}]
  /\ UNCHANGED <<disk, arrived, queue, archive, workers, failures>>

\* The queue becomes what was found: a known path keeps its row, a live row not
\* found again is deleted.  Deferred while an apply or undo runs.
ScanReplaces ==
  LET new == {p \in scan.found: LiveAt(p) = {}}
      unused == {i \in Ids: queue[i].status = "none"} IN
  /\ scan.at = "found" /\ ~GateHeld
  /\ \E id \in [new -> unused]:
       /\ \A p, q \in new: id[p] = id[q] => p = q
       /\ \A i \in unused, p \in new: i < id[p] => \E q \in new: id[q] = i
       /\ queue' = [i \in Ids |->
            IF \E p \in new: id[p] = i
            THEN [status |-> "pending", path |-> CHOOSE p \in new: id[p] = i]
            ELSE IF Live(i) /\ queue[i].path \notin scan.found
            THEN [status |-> "deleted", path |-> queue[i].path]
            ELSE queue[i]]
  /\ scan' = NoScan
  /\ UNCHANGED <<disk, arrived, library, archive, workers, failures>>

ScanDefers ==
  /\ scan.at = "found"
  /\ GateHeld \/ Cardinality({p \in scan.found: LiveAt(p) = {}}) >
                  Cardinality({i \in Ids: queue[i].status = "none"})
  /\ scan' = NoScan
  /\ UNCHANGED <<disk, arrived, library, queue, archive, workers, failures>>

Scan == ScanReads \/ ScanReplaces \/ ScanDefers

-----------------------------------------------------------------------------
(* The environment *)

\* A download is placed where nothing is; it does not land in the instant
\* between a request's look at a path and its rename (a bound).
Arrives(f) ==
  LET p == Plain(Source[f]) IN
  /\ f \notin arrived /\ ~Exists(p)
  /\ \A w \in Workers: workers[w].dest # p
  /\ arrived' = arrived \union {f}
  /\ disk' = [disk EXCEPT ![p] = f]
  /\ UNCHANGED <<library, queue, archive, workers, scan, failures>>

\* A statement fails or the process dies: the request goes no further.
BreaksOff(w) ==
  /\ failures < MaxFailures /\ ~At(w, "idle")
  /\ End(w)
  /\ failures' = failures + 1
  /\ UNCHANGED <<disk, arrived, library, queue, archive, scan>>

GoesOn(w) == Moves(w) \/ Apply(w) \/ Undo(w)

Next ==
  \/ \E f \in Files: Arrives(f)
  \/ Scan
  \/ \E w \in Workers: \/ \E i \in Ids: ApplyBegins(w, i) \/ UndoBegins(w, i)
                       \/ GoesOn(w) \/ BreaksOff(w)

Spec == Init /\ [][Next]_vars

\* Requests run to their end, and the library is scanned again and again (the
\* watch folders poll).  Nobody has to press Apply or Undo.
FairSpec == Spec /\ WF_vars(Scan) /\ \A w \in Workers: WF_vars(GoesOn(w))

-----------------------------------------------------------------------------
(* Properties *)

TypeOK ==
  /\ disk \in [Paths -> Files \union {NoFile}] /\ arrived \subseteq Files
  /\ item \in Items /\ minted \in 0 .. MaxItems /\ files \in [Paths -> FileRow]
  /\ queue \in [Ids -> Proposals]
  /\ archive \in Seq(Entries) /\ Len(archive) <= Depth
  /\ workers \in [Workers -> Requests]
  /\ scan.at \in {"idle", "found"} /\ scan.found \subseteq Paths
  /\ failures \in 0 .. MaxFailures

Quiet == \A w \in Workers: At(w, "idle")

\* No file is ever lost: one rename never replaces another's file.
NoFileLost == \A f \in arrived: \E p \in Paths: disk[p] = f

\* Undo moves back the file its apply moved, never another's.
UndoMovesOwnFile ==
  \A w \in Workers: At(w, "put back") =>
    disk[workers[w].entry.post] \in {workers[w].entry.file, NoFile}

\* Undo takes back one apply only: between requests, the file of an apply that
\* can still be undone, where that apply put it, is in the library.
AppliedFileTracked ==
  Quiet => \A k \in DOMAIN archive:
    Exists(archive[k].post) /\ disk[archive[k].post] = archive[k].file =>
      item.id # 0 /\ archive[k].post \in Known

\* An undo that has moved its file and reverted its row never fails on the
\* queue's index: the proposal it puts back has its path to itself.
UndoCanFinish ==
  \A w \in Workers: At(w, "snapshot") =>
    LiveAt(workers[w].entry.src) \subseteq {workers[w].id}

\* Between requests, a title in the library has a file where it says.  (Not
\* when scans overlap requests: one that looks before a promoted copy is
\* recorded proposes that copy later, and applying it moves it away.)
TitleHasItsFile == Quiet /\ item.id # 0 => Exists(item.path)

\* Between requests, every file in the title's folder is in the library.
LibraryFileTracked ==
  Quiet => \A p \in Paths: InTitleFolder(p) /\ Exists(p) => item.id # 0 /\ p \in Known

\* Between requests, the title's primary is its best copy.
BestCopyIsPrimary ==
  Quiet /\ item.id # 0 /\ Exists(item.path) =>
    \A p \in Known: Exists(p) => Tier[disk[p]] <= Tier[disk[item.path]]

\* When undoing a promotion leaves the title at a path without a file, the
\* scans that follow put that right.
TitleIsReconciled ==
  (/\ \E w \in Workers: At(w, "consume") /\ workers[w].entry.fold
   /\ item.id # 0 /\ ~Exists(item.path))
    ~> (item.id = 0 \/ Exists(item.path))

\* Whatever broke off, a file that carries its TMDB id ends up in the library.
TaggedFileIsCatalogued ==
  \A f \in Files:
    (\E p \in Paths: p[1] \in Tagged /\ disk[p] = f)
      ~> (\A p \in Paths: disk[p] = f => p[1] \notin Tagged \/ p \in Known)
=============================================================================
