-------------------------- MODULE GrabDrain_proofs --------------------------
(***************************************************************************)
(* With the drain as the only loop, a row has one writer at a time.         *)
(*                                                                         *)
(* The passes write from what they listed, the callbacks from what they     *)
(* looked up.  OneWriter says why neither is stale when it is used: what a  *)
(* list, a hand or a callback holds for a row is still what the row says,   *)
(* and whoever holds something for a row excludes the others by the row's   *)
(* state.  What the store, the engine and the ladder promise follows.       *)
(*                                                                         *)
(* The daily loop breaks it (two loops may dispatch the same row), so does  *)
(* Promote, which takes the GID off a row in flight, and so does a request  *)
(* that runs beside the startup passes of a restarted process.              *)
(***************************************************************************)
EXTENDS GrabLifecycle_proofs

DrainAlone ==
  /\ Loops \subseteq {"drain"}
  /\ "promote" \notin Operators
  /\ EarlyRequests => MaxRestarts = 0

-----------------------------------------------------------------------------
(* The inductive invariant *)

\* What the columns of a row say of each other.
Shape(row) ==
  /\ row.status = "absent" => row = NoRow
  /\ ~row.url => /\ row.gid = NoGid /\ ~row.tried /\ ~row.pick
                 /\ row.status \in {"absent", "pending_retry", "failed"}
  /\ row.url /\ row.hold # "none" => Held(row)
  /\ row.transport <= MaxTransportRetries
  /\ row.gid = NoGid => row.transport = 0
  /\ "unmonitor" \notin Operators /\ row.status = "pending_retry" =>
       (row.retryAfter = "none" <=> row.hold # "none")

\* A row in flight or parked with a GID has the GID's directory, unless the
\* operator cancels downloads.
Stocked(g) ==
  /\ "cancel" \notin Operators
  /\ rows[g].status \in {"queued", "pending_retry"} /\ rows[g].gid # NoGid
  => staging[rows[g].gid] # "none"

\* A queued row without a GID is the request's, unless the process restarted.
Attended(g) ==
  restarts = 0 /\ rows[g].status = "queued" /\ rows[g].gid = NoGid =>
    workers["request"].cur.row = g

RowFits(g) == Shape(rows[g]) /\ Stocked(g) /\ Attended(g)

\* The engine does nothing for h, or nothing but the precheck.
Dead(h) == callback[h].state = "none" /\ job[h] = "none"
Quiet(h) == callback[h].state = "none" /\ job[h] \in {"none", "precheck"}

\* What pass p may have on its list.
Listed(p, s) ==
  /\ s = Snapshot(s.row) /\ Selects(p, s.row)
  /\ p = "reconcile" => Dead(s.gid)

\* What a loop, or the startup passes, may have in hand at a step.
Handles(at, c) ==
  /\ c.row \in Grabs /\ c.gid \in Gids
  /\ at = "importing" => Dead(c.gid)
  /\ at \in {"restoring", "resuming", "precheck"} => Quiet(c.gid)
  /\ at \in {"importing", "restoring"} =>
       c = Snapshot(c.row) /\ InFlight(rows[c.row])
  /\ at \in {"resuming", "rearm"} =>
       c = Snapshot(c.row) /\ DueForResume(rows[c.row])
  /\ at \in {"precheck", "record"} =>
       DueForRetry(rows[c.row]) /\ rows[c.row].url
  /\ at = "picked" =>
       rows[c.row].status = "pending_retry" /\ rows[c.row].gid = c.gid

\* A GID in hand that no row has yet.
Minted == {"precheck", "record", "origin", "gid"}
HandStocked(w) ==
  "cancel" \notin Operators /\ workers[w].at \in Minted =>
    staging[workers[w].cur.gid] # "none"

Rounds(w) == IF w = "boot"
             THEN {"start", "reconcile", "resume", "hygiene", "done"}
             ELSE {"idle", "picks", "resume", "alternates"}
DriverSteps == {"next", "importing", "restoring", "resuming", "rearm", "precheck",
                "record", "picked"}

DriverFits(w) ==
  /\ workers[w].pass \in Rounds(w) /\ workers[w].at \in DriverSteps
  /\ \A s \in workers[w].todo: Listed(workers[w].pass, s) /\ s.row # workers[w].cur.row
  /\ workers[w].at = "next" => workers[w].cur = NoSnapshot
  /\ workers[w].at # "next" => Handles(workers[w].at, workers[w].cur)
  /\ HandStocked(w)

RequestSteps == {"next", "precheck", "record", "alternate", "origin", "gid"}

RequestFits ==
  LET at == workers["request"].at
      c == workers["request"].cur
  IN
  /\ at \in RequestSteps
  /\ at = "next" => c = NoSnapshot
  /\ at # "next" => c.row \in Grabs /\ c.gid \in Gids
  /\ at \in {"precheck", "record"} => rows[c.row].status = "absent"
  /\ at \in {"alternate", "origin", "gid"} =>
       rows[c.row].status = "queued" /\ rows[c.row].gid = NoGid
  /\ at = "precheck" => Quiet(c.gid)
  /\ HandStocked("request")

OperatorFits ==
  LET at == workers["operator"].at
      c == workers["operator"].cur
  IN
  /\ at \in {"next", "unmonitor", "failing", "hold", "re-arm"}
  /\ at = "next" => c = NoSnapshot
  /\ at # "next" => c.row \in Grabs
  /\ at \in {"unmonitor", "failing"} =>
       "unmonitor" \in Operators /\ ~rows[c.row].url /\ rows[c.row].status # "absent"
  /\ at \in {"hold", "re-arm"} => rows[c.row].hold # "none"

\* A driver is about to put row's GID h back in flight, or on a row.
Recording(h) ==
  \E w \in Drivers: workers[w].cur.gid = h /\ workers[w].at \in {"resuming", "rearm", "picked"}
Dispatching(h) ==
  \E w \in Workers: workers[w].cur.gid = h /\ workers[w].at \in Minted

\* What a callback found is still so, and a GID at work is in flight.
EngineFits(h) ==
  LET s == callback[h].snap IN
  /\ callback[h].state # "none" => job[h] \notin Live
  /\ callback[h].state \in {"apply", "import"} =>
       s.row \in Grabs /\ s.gid = h /\ rows[s.row].gid = h
  /\ callback[h].state = "apply" => s = Snapshot(s.row) /\ rows[s.row].status = "queued"
  /\ callback[h].state # "none" \/ job[h] \in Live =>
       \A g \in Grabs: rows[g].gid = h => rows[g].status = "queued" \/ Recording(h)
  /\ job[h] \in Live => /\ owner[h] \in Grabs
                        /\ rows[owner[h]].gid = h \/ Dispatching(h)

\* Startup first, then the drain and the requests.
AtRest(w) == workers[w].at = "next" /\ workers[w].todo = {}
Turns ==
  /\ workers["boot"].pass # "done" =>
       \A w \in Workers \ {"boot", "operator"}: AtRest(w)
  /\ workers["boot"].pass \in {"start", "done"} => AtRest("boot")
  /\ workers["boot"].pass = "start" => \A h \in Gids: Dead(h)
  /\ restarts = 0 => workers["boot"].pass = "done"

OneWriter ==
  /\ \A g \in Grabs: RowFits(g)
  /\ \A w \in Drivers: DriverFits(w)
  /\ RequestFits /\ OperatorFits
  /\ \A h \in Gids: EngineFits(h)
  /\ Turns

-----------------------------------------------------------------------------
(* The store's statements keep a row in shape *)

\* A row the passes and the callbacks write: dispatched before, on no hold.
Plain(row) == Shape(row) /\ row.url /\ row.hold = "none"

LEMMA PlainRows ==
  ASSUME NEW row \in Row, Shape(row), row.url, ~Held(row)
  PROVE  Plain(row) /\ row.status # "absent"
BY DEF Shape, Held, Plain, NoRow

LEMMA RowsWithGid ==
  ASSUME NEW row \in Row, Shape(row), row.gid # NoGid
  PROVE  Plain(row) /\ row.status # "absent"
BY DEF Shape, Held, Plain, NoRow

LEMMA ParksKeepShape ==
  ASSUME NEW row \in Row, Plain(row)
  PROVE  /\ Plain(SetPendingRetry(row)) /\ Plain(ParkForAlternateRelease(row))
         /\ row.gid # NoGid => Plain(ParkForShutdownResume(row))
         /\ row.gid # NoGid /\ row.transport < MaxTransportRetries =>
              Plain(ParkForTransportResume(row))
<1>1. row.transport \in Nat /\ MaxTransportRetries \in Nat
  BY MaxTransportRetriesAssumption DEF Row
<1>2. Plain(SetPendingRetry(row))
  BY <1>1 DEF Row, Plain, Shape, Held, SetPendingRetry
<1>3. Plain(ParkForAlternateRelease(row))
  BY <1>1 DEF Row, Plain, Shape, Held, ParkForAlternateRelease
<1>4. ASSUME row.gid # NoGid PROVE Plain(ParkForShutdownResume(row))
  BY <1>4 DEF Row, Plain, Shape, Held, ParkForShutdownResume
<1>5. ASSUME row.gid # NoGid, row.transport < MaxTransportRetries
      PROVE  Plain(ParkForTransportResume(row))
  BY <1>1, <1>5 DEF Row, Plain, Shape, Held, ParkForTransportResume
<1> QED BY <1>2, <1>3, <1>4, <1>5

LEMMA RecordsKeepShape ==
  ASSUME NEW row \in Row, Plain(row), row.status # "absent", NEW h \in Gids
  PROVE  /\ Plain(Relaunch(row, h)) /\ Plain(SetDownloadGID(row, h))
         /\ Plain(SetOrigin(row)) /\ Plain(MarkImportedIfNot(row))
         /\ Plain(UpdateStatus(row, "failed")) /\ Plain(UpdateStatus(row, "queued"))
<1>1. row.transport \in Nat /\ MaxTransportRetries \in Nat /\ h # NoGid
  BY MaxTransportRetriesAssumption, NoGidAssumption DEF Row
<1>2. Plain(Relaunch(row, h))
  BY <1>1 DEF Row, Plain, Shape, Held, Relaunch
<1>3. /\ Plain(SetDownloadGID(row, h))
  BY <1>1 DEF Row, Plain, Shape, Held, SetDownloadGID
<1>4. Plain(SetOrigin(row)) /\ Plain(MarkImportedIfNot(row))
  BY DEF Row, Plain, Shape, Held, SetOrigin, MarkImportedIfNot
<1>5. Plain(UpdateStatus(row, "failed")) /\ Plain(UpdateStatus(row, "queued"))
  BY DEF Row, Plain, Shape, Held, UpdateStatus
<1> QED BY <1>2, <1>3, <1>4, <1>5

LEMMA InsertsKeepShape ==
  /\ Shape(NoRow) /\ Plain(CreateQueued) /\ Shape(CreatePendingRetry)
  /\ \A until \in {"later", "never"}: Shape(CreateHeld(until))
BY MaxTransportRetriesAssumption
DEF Shape, Plain, Held, NoRow, CreateQueued, CreatePendingRetry, CreateHeld

LEMMA HoldsKeepShape ==
  ASSUME NEW row \in Row, Shape(row), NEW until \in {"later", "never", "due"}
  PROVE  /\ DueForRetry(row) => Shape(HoldForRelease(row, until))
         /\ row.hold # "none" => /\ Shape(SetHoldUntil(row, until))
                                 /\ Shape(RearmHeldRequest(row, until))
<1>1. ASSUME DueForRetry(row) PROVE Shape(HoldForRelease(row, until))
  BY <1>1 DEF Row, Shape, Held, DueForRetry, HoldForRelease
<1>2. ASSUME row.hold # "none" PROVE Shape(SetHoldUntil(row, until))
  BY <1>2 DEF Row, Shape, Held, SetHoldUntil, NoRow
<1>3. ASSUME row.hold # "none" PROVE Shape(RearmHeldRequest(row, until))
  BY <1>3 DEF Row, Shape, Held, RearmHeldRequest, NoRow
<1> QED BY <1>1, <1>2, <1>3

LEMMA UnmonitorKeepsShape ==
  ASSUME NEW row \in Row, Shape(row), ~row.url, row.status # "absent",
         "unmonitor" \in Operators
  PROVE  /\ Shape(SetRetryAfter(row, "due")) /\ Shape(UpdateStatus(row, "failed"))
         /\ ~SetRetryAfter(row, "due").url /\ SetRetryAfter(row, "due").status = row.status
BY DEF Row, Shape, SetRetryAfter, UpdateStatus

LEMMA TickKeepsShape ==
  ASSUME NEW row \in Row, Shape(row)
  PROVE  /\ row.retryAfter = "later" => Shape([row EXCEPT !.retryAfter = "due"])
         /\ row.hold = "later" => Shape([row EXCEPT !.hold = "due"])
<1>1. row.retryAfter = "later" => Shape([row EXCEPT !.retryAfter = "due"])
  BY DEF Row, Shape, Held, NoRow
<1>2. row.hold = "later" => Shape([row EXCEPT !.hold = "due"])
  BY DEF Row, Shape, Held, NoRow
<1> QED BY <1>1, <1>2

-----------------------------------------------------------------------------
(* Steps that touch one row and one GID *)

\* Nothing but row r and GID h changes, and h is r's or new.
Touches(r, h) ==
  /\ \A g \in Grabs \ {r}: rows'[g] = rows[g]
  /\ \A k \in Gids \ {h}: /\ job'[k] = job[k] /\ staging'[k] = staging[k]
                          /\ callback'[k] = callback[k] /\ owner'[k] = owner[k]
  /\ rows[r].gid \in {NoGid, h} /\ rows'[r].gid \in {NoGid, h}
  /\ h \in Gids => owner[h] = r \/ Fresh(h)
  /\ restarts' = restarts

\* Nobody but w has anything for row r on its list or in hand.
Alone(w, r) ==
  \A v \in Workers \ {w}:
    /\ workers[v].cur.row # r
    /\ v \in Drivers => \A s \in workers[v].todo: s.row # r

LEMMA NotTouched ==
  ASSUME NEW r, NEW h, Touches(r, h), NEW s, Owned(s), s.row \in Grabs, s.row # r,
         s.gid \in Gids, h \in Gids /\ Fresh(h) => s.gid # h
  PROVE  /\ rows'[s.row] = rows[s.row]
         /\ job'[s.gid] = job[s.gid] /\ staging'[s.gid] = staging[s.gid]
         /\ callback'[s.gid] = callback[s.gid]
<1>1. s.gid # h
  BY NoGidAssumption DEF Touches, Owned
<1> QED BY <1>1 DEF Touches

LEMMA StaysListed ==
  ASSUME Inv, NEW r, NEW h, Touches(r, h), NEW w \in Workers,
         NEW s \in workers[w].todo, NEW p, Listed(p, s), s.row # r
  PROVE  Listed(p, s)'
<1>1. s \in Snapshots /\ Owned(s)
  BY InHand DEF Inv
<1>2. s.row \in Grabs /\ rows'[s.row] = rows[s.row]
  BY <1>1 DEF Snapshots, Touches
<1>3. Snapshot(s.row)' = Snapshot(s.row) /\ Selects(p, s.row)' = Selects(p, s.row)
  BY <1>2 DEF Snapshot, Selects
<1>4. ASSUME p = "reconcile" PROVE Dead(s.gid)'
  <2>1. s.gid \in Gids
    BY <1>1, <1>4 DEF Listed, Selects, InFlight, Snapshot, Snapshots
  <2>2. h \in Gids /\ Fresh(h) => s.gid # h
    BY DEF Fresh
  <2>3. job'[s.gid] = job[s.gid] /\ callback'[s.gid] = callback[s.gid]
    BY <1>1, <1>2, <2>1, <2>2, NotTouched
  <2> QED BY <1>4, <2>3 DEF Listed, Dead
<1> QED BY <1>3, <1>4 DEF Listed

LEMMA StaysInHand ==
  ASSUME Inv, NEW r, NEW h, Touches(r, h), NEW w \in Workers,
         NEW at, NEW c, c = workers[w].cur, Handles(at, c), c.row # r
  PROVE  Handles(at, c)'
<1>1. Owned(c) /\ c.row \in Grabs /\ c.gid \in Gids
  BY InHand DEF Inv, Handles
<1>2. h \in Gids /\ Fresh(h) => c.gid # h
  BY DEF Fresh
<1>3. /\ rows'[c.row] = rows[c.row]
      /\ job'[c.gid] = job[c.gid] /\ callback'[c.gid] = callback[c.gid]
  BY <1>1, <1>2, NotTouched
<1>4. Snapshot(c.row)' = Snapshot(c.row)
  BY <1>3 DEF Snapshot
<1>5. (Dead(c.gid) => Dead(c.gid)') /\ (Quiet(c.gid) => Quiet(c.gid)')
  BY <1>3 DEF Dead, Quiet
<1> QED BY <1>3, <1>4, <1>5 DEF Handles

LEMMA StaysStocked ==
  ASSUME Inv, NEW r, NEW h, Touches(r, h), NEW w \in Workers, UNCHANGED workers[w],
         workers[w].cur.row \in Grabs, workers[w].cur.row # r,
         workers[w].at \in Minted => workers[w].cur.gid \in Gids, HandStocked(w)
  PROVE  HandStocked(w)'
<1>1. Owned(workers[w].cur)
  BY InHand DEF Inv
<1>2. h \in Gids /\ Fresh(h) => workers[w].cur.gid # h
  BY DEF Fresh
<1>3. workers[w].cur.gid \in Gids => staging'[workers[w].cur.gid] = staging[workers[w].cur.gid]
  BY <1>1, <1>2, NotTouched
<1> QED BY <1>3 DEF HandStocked

\* The other workers keep what they hold for other rows.
LEMMA OtherDriversFit ==
  ASSUME Inv, NEW r \in Grabs, NEW h, Touches(r, h), NEW v \in Drivers,
         UNCHANGED workers[v], DriverFits(v), workers[v].cur.row # r,
         \A s \in workers[v].todo: s.row # r
  PROVE  DriverFits(v)'
<1>1. v \in Workers
  BY DriversAreWorkers
<1>2. \A s \in workers[v].todo: Listed(workers[v].pass, s)'
  BY <1>1, StaysListed DEF DriverFits
<1>3. workers[v].at # "next" => Handles(workers[v].at, workers[v].cur)'
  BY <1>1, StaysInHand DEF DriverFits
<1>4. HandStocked(v)'
  <2>1. CASE workers[v].at = "next"
    BY <2>1 DEF HandStocked, Minted
  <2>2. CASE workers[v].at # "next"
    BY <1>1, <2>2, StaysStocked DEF DriverFits, Handles
  <2> QED BY <2>1, <2>2
<1>5. DriverFits(v)' <=>
        /\ workers[v].pass \in Rounds(v) /\ workers[v].at \in DriverSteps
        /\ \A s \in workers[v].todo: Listed(workers[v].pass, s)' /\ s.row # workers[v].cur.row
        /\ workers[v].at = "next" => workers[v].cur = NoSnapshot
        /\ workers[v].at # "next" => Handles(workers[v].at, workers[v].cur)'
        /\ HandStocked(v)'
  BY DEF DriverFits, Listed, Handles
<1> QED BY <1>2, <1>3, <1>4, <1>5 DEF DriverFits

LEMMA RequestStillFits ==
  ASSUME Inv, NEW r \in Grabs, NEW h, Touches(r, h), UNCHANGED workers["request"],
         RequestFits, workers["request"].cur.row # r
  PROVE  RequestFits'
<1> DEFINE c == workers["request"].cur
<1> DEFINE at == workers["request"].at
<1>1. "request" \in Workers /\ Owned(c)
  BY DriversAreWorkers, InHand DEF Inv
<1>2. h \in Gids /\ Fresh(h) => c.gid # h
  BY <1>1 DEF Fresh
<1>3. CASE at = "next"
  BY <1>3 DEF RequestFits, HandStocked, Minted
<1>4. CASE at # "next"
  <2>1. c.row \in Grabs /\ c.gid \in Gids
    BY <1>4 DEF RequestFits
  <2>2. /\ rows'[c.row] = rows[c.row]
        /\ job'[c.gid] = job[c.gid] /\ callback'[c.gid] = callback[c.gid]
    BY <1>1, <1>2, <2>1, NotTouched
  <2>3. HandStocked("request")'
    BY <1>1, <2>1, StaysStocked DEF RequestFits
  <2> QED BY <2>1, <2>2, <2>3 DEF RequestFits, Quiet
<1> QED BY <1>3, <1>4

LEMMA OperatorStillFits ==
  ASSUME Inv, NEW r \in Grabs, NEW h, Touches(r, h), UNCHANGED workers["operator"],
         OperatorFits, workers["operator"].cur.row # r
  PROVE  OperatorFits'
<1>1. workers["operator"].cur.row \in Grabs =>
        rows'[workers["operator"].cur.row] = rows[workers["operator"].cur.row]
  BY DEF Touches
<1> QED BY <1>1 DEF OperatorFits

\* Only the workers that hold h go on with it.
LEMMA OtherGidsFit ==
  ASSUME Inv, NEW r \in Grabs, NEW h, Touches(r, h), NEW w,
         \A v \in Workers \ {w}: workers'[v] = workers[v],
         w \in Workers => workers[w].cur.gid \in {NoGid, h},
         NEW k \in Gids, k # h, EngineFits(k)
  PROVE  EngineFits(k)'
<1>1. /\ job'[k] = job[k] /\ callback'[k] = callback[k] /\ owner'[k] = owner[k]
      /\ \A g \in Grabs \ {r}: rows'[g] = rows[g]
      /\ rows[r].gid # k /\ rows'[r].gid # k
  BY NoGidAssumption DEF Touches
<1>2. /\ Recording(k) => Recording(k)'
      /\ Dispatching(k) => Dispatching(k)'
  BY NoGidAssumption, DriversAreWorkers DEF Recording, Dispatching
<1>3. ASSUME NEW g \in Grabs
      PROVE  /\ rows[g].gid = k => rows'[g] = rows[g]
             /\ rows'[g].gid = k => rows'[g] = rows[g]
  BY <1>1
<1> DEFINE s == callback[k].snap
<1>4. s.row \in Grabs /\ rows[s.row].gid = k => rows'[s.row] = rows[s.row]
  BY <1>3
<1>5. s.row \in Grabs /\ rows[s.row].gid = k /\ s = Snapshot(s.row) => s = Snapshot(s.row)'
  BY <1>1, <1>4 DEF Snapshot
<1>6. /\ callback[k].state \in {"apply", "import"} =>
           s.row \in Grabs /\ s.gid = k /\ rows'[s.row].gid = k
      /\ callback[k].state = "apply" => s = Snapshot(s.row)' /\ rows'[s.row].status = "queued"
  BY <1>1, <1>4, <1>5 DEF EngineFits
<1>7. callback[k].state # "none" \/ job[k] \in Live =>
        \A g \in Grabs: rows'[g].gid = k => rows'[g].status = "queued" \/ Recording(k)'
  BY <1>2, <1>3 DEF EngineFits
<1>8. job[k] \in Live => /\ owner[k] \in Grabs
                         /\ rows'[owner[k]].gid = k \/ Dispatching(k)'
  BY <1>2, <1>3 DEF EngineFits
<1> QED BY <1>1, <1>6, <1>7, <1>8 DEF EngineFits

LEMMA OtherRowsFit ==
  ASSUME Inv, NEW r \in Grabs, NEW h, Touches(r, h), NEW w,
         \A v \in Workers \ {w}: workers'[v] = workers[v],
         w \in Workers => workers[w].cur.row \in {NoGrab, r},
         NEW g \in Grabs, g # r, RowFits(g)
  PROVE  RowFits(g)'
<1>1. rows'[g] = rows[g] /\ restarts' = restarts
  BY DEF Touches
<1>2. rows[g].gid \in Gids \union {NoGid}
  BY RowTyped DEF Inv, Row
<1>3. Stocked(g)'
  <2>1. CASE rows[g].gid \in Gids
    <3>1. rows[g].gid # h
      <4>1. owner[rows[g].gid] = g
        BY <2>1, NoGidAssumption DEF Inv, RowsInv
      <4>2. h \in Gids /\ Fresh(h) => rows[g].gid # h
        BY DEF Fresh
      <4> QED BY <2>1, <4>1, <4>2 DEF Touches
    <3> QED BY <1>1, <2>1, <3>1 DEF Touches, RowFits, Stocked
  <2>2. CASE rows[g].gid = NoGid
    BY <1>1, <2>2 DEF Stocked
  <2> QED BY <1>2, <2>1, <2>2
<1>4. Attended(g)'
  BY <1>1, NoGrabAssumption, DriversAreWorkers DEF RowFits, Attended
<1> QED BY <1>1, <1>3, <1>4 DEF RowFits

\* A step of w on row r and GID h, which nobody else has for it.
LEMMA LocalStep ==
  ASSUME Inv, OneWriter, NEW r \in Grabs, NEW h \in Gids \union {NoGid}, NEW w,
         Touches(r, h), Alone(w, r),
         \A v \in Workers \ {w}: workers'[v] = workers[v],
         w \in Workers => /\ workers[w].cur.gid \in {NoGid, h}
                          /\ workers[w].cur.row \in {NoGrab, r},
         RowFits(r)', h \in Gids => EngineFits(h)', Turns',
         w \in Drivers => DriverFits(w)',
         w = "request" => RequestFits',
         w = "operator" => OperatorFits'
  PROVE  OneWriter'
<1>1. \A g \in Grabs: RowFits(g)'
  BY OtherRowsFit DEF OneWriter
<1>2. ASSUME NEW v \in Drivers PROVE DriverFits(v)'
  <2>1. CASE v # w
    BY <2>1, OtherDriversFit, DriversAreWorkers DEF OneWriter, Alone
  <2> QED BY <2>1
<1>3. RequestFits'
  <2>1. CASE w # "request"
    BY <2>1, RequestStillFits, DriversAreWorkers DEF OneWriter, Alone
  <2> QED BY <2>1
<1>4. OperatorFits'
  <2>1. CASE w # "operator"
    BY <2>1, OperatorStillFits, DriversAreWorkers DEF OneWriter, Alone
  <2> QED BY <2>1
<1>5. \A k \in Gids: EngineFits(k)'
  BY OtherGidsFit DEF OneWriter
<1> QED BY <1>1, <1>2, <1>3, <1>4, <1>5 DEF OneWriter

-----------------------------------------------------------------------------
(* Whose turn it is *)

LEMMA TwoDrivers ==
  ASSUME DrainAlone
  PROVE  /\ Drivers \subseteq {"boot", "drain"} /\ "boot" \in Drivers
         /\ Workers = Drivers \union {"request", "operator"}
BY DEF DrainAlone, Drivers, Workers

\* A worker that goes on where it is leaves the turns alone.
LEMMA TurnsKept ==
  ASSUME DrainAlone, Turns, NEW w \in Workers, UNCHANGED restarts,
         \A v \in Workers \ {w}: workers'[v] = workers[v],
         workers'[w].pass = workers[w].pass,
         w \in Drivers => ~AtRest(w),
         w = "request" => workers["boot"].pass = "done",
         w = "operator" => UNCHANGED <<job, callback>>
  PROVE  Turns'
<1> USE TwoDrivers
<1>1. CASE w = "boot"
  <2>1. workers["boot"].pass \notin {"start", "done"} /\ workers'["boot"].pass \notin {"start", "done"}
    BY <1>1 DEF Turns
  <2>2. restarts' # 0
    BY <1>1, <2>1 DEF Turns
  <2> QED BY <1>1, <2>1, <2>2 DEF Turns, AtRest
<1>2. CASE w # "boot" /\ w # "operator"
  <2>1. workers["boot"].pass = "done" /\ workers'["boot"] = workers["boot"]
    BY <1>2 DEF Turns
  <2> QED BY <1>2, <2>1 DEF Turns, AtRest
<1>3. CASE w = "operator"
  BY <1>3 DEF Turns, AtRest, Dead
<1> QED BY <1>1, <1>2, <1>3

\* While a driver has work, the other driver has none.
LEMMA OthersAtRest ==
  ASSUME DrainAlone, Turns, NEW w \in Drivers, ~AtRest(w), NEW v \in Drivers, v # w
  PROVE  AtRest(v)
BY TwoDrivers DEF Turns

\* The rows a request or the operator is about are not those a driver serves.
LEMMA OthersRows ==
  ASSUME Inv, OneWriter, NEW r \in Grabs
  PROVE  /\ workers["request"].cur.row = r =>
              \/ rows[r].status = "absent"
              \/ rows[r].status = "queued" /\ rows[r].gid = NoGid
         /\ workers["operator"].cur.row = r =>
              /\ rows[r].status # "absent"
              /\ ~rows[r].url \/ rows[r].hold # "none"
<1>1. NoSnapshot.row # r
  BY NoGrabAssumption DEF NoSnapshot
<1>2. workers["request"].cur.row = r =>
        \/ rows[r].status = "absent"
        \/ rows[r].status = "queued" /\ rows[r].gid = NoGid
  BY <1>1 DEF OneWriter, RequestFits, RequestSteps
<1>3. workers["operator"].cur.row = r =>
        /\ rows[r].status # "absent"
        /\ ~rows[r].url \/ rows[r].hold # "none"
  <2>1. rows[r].hold # "none" => rows[r].status # "absent"
    BY DEF OneWriter, RowFits, Shape, NoRow
  <2> QED BY <1>1, <2>1 DEF OneWriter, OperatorFits
<1> QED BY <1>2, <1>3

-----------------------------------------------------------------------------
(* The drivers *)

\* What w is at work on: the next of its list, or what it has in hand.
Serves(w, s) ==
  \/ workers[w].at = "next" /\ s \in workers[w].todo
  \/ workers[w].at # "next" /\ s = workers[w].cur

LEMMA ServedRow ==
  ASSUME Inv, OneWriter, NEW w \in Drivers, NEW s, Serves(w, s)
  PROVE  /\ s.row \in Grabs /\ s.gid \in Gids \union {NoGid} /\ Owned(s)
         /\ rows[s.row] \in Row /\ Plain(rows[s.row])
         /\ rows[s.row].status # "absent"
         /\ rows[s.row].status = "queued" => rows[s.row].gid # NoGid
         /\ rows[s.row].gid \in {NoGid, s.gid}
         /\ \A t \in workers[w].todo \ {s}: t.row # s.row
         /\ ~AtRest(w)
<1>1. DriverFits(w) /\ w \in Workers
  BY DriversAreWorkers DEF OneWriter
<1>2. /\ s.row \in Grabs
      /\ \/ rows[s.row].gid # NoGid /\ s.gid = rows[s.row].gid
         \/ DueForRetry(rows[s.row]) /\ rows[s.row].url
  <2>1. CASE workers[w].at = "next" /\ s \in workers[w].todo
    <3>1. Listed(workers[w].pass, s) /\ workers[w].pass \in Rounds(w)
      BY <1>1, <2>1 DEF DriverFits
    <3>2. s.row \in Grabs /\ s.gid = rows[s.row].gid
      <4>1. s \in Snapshots
        BY <1>1, <2>1, InHand DEF Inv
      <4> QED BY <3>1, <4>1 DEF Listed, Snapshot, Snapshots
    <3>3. Shape(rows[s.row])
      BY <3>2 DEF OneWriter, RowFits
    <3> QED BY <3>1, <3>2, <3>3
        DEF Listed, Rounds, Selects, InFlight, DueForResume, DueForRetry, Shape
  <2>2. CASE workers[w].at # "next" /\ s = workers[w].cur
    <3>1. Handles(workers[w].at, s) /\ workers[w].at \in DriverSteps
      BY <1>1, <2>2 DEF DriverFits
    <3> QED BY <2>2, <3>1, NoGidAssumption
        DEF Handles, DriverSteps, Snapshot, InFlight, DueForResume
  <2> QED BY <2>1, <2>2 DEF Serves
<1>3. rows[s.row] \in Row /\ Shape(rows[s.row])
  BY <1>2, RowTyped DEF Inv, OneWriter, RowFits
<1>4. Plain(rows[s.row]) /\ rows[s.row].status # "absent"
  BY <1>2, <1>3, PlainRows, RowsWithGid DEF DueForRetry, Held
<1>5. s.gid \in Gids \union {NoGid} /\ Owned(s)
  <2>1. s \in Snaps /\ Owned(s)
    BY <1>1, InHand DEF Inv, Serves
  <2> QED BY <2>1, SnapsTyped
<1>6. \A t \in workers[w].todo \ {s}: t.row # s.row
  <2>1. CASE workers[w].at = "next" /\ s \in workers[w].todo
    BY <1>1, <2>1 DEF DriverFits, Listed
  <2>2. CASE workers[w].at # "next" /\ s = workers[w].cur
    BY <1>1, <2>2 DEF DriverFits
  <2> QED BY <2>1, <2>2 DEF Serves
<1> QED BY <1>2, <1>3, <1>4, <1>5, <1>6 DEF Serves, AtRest, DueForRetry

LEMMA DriverAlone ==
  ASSUME DrainAlone, Inv, OneWriter, NEW w \in Drivers, NEW s, Serves(w, s)
  PROVE  Alone(w, s.row)
<1> DEFINE r == s.row
<1>1. /\ r \in Grabs /\ ~AtRest(w) /\ rows[r].url /\ rows[r].hold = "none"
      /\ rows[r].status # "absent" /\ ~(rows[r].status = "queued" /\ rows[r].gid = NoGid)
  BY ServedRow DEF Plain
<1>2. ASSUME NEW v \in Drivers, v # w
      PROVE  workers[v].cur.row # r /\ \A t \in workers[v].todo: t.row # r
  <2>1. AtRest(v)
    BY <1>1, <1>2, OthersAtRest DEF OneWriter
  <2>2. workers[v].cur = NoSnapshot
    BY <2>1 DEF AtRest, OneWriter, DriverFits
  <2> QED BY <1>1, <2>1, <2>2, NoGrabAssumption DEF AtRest, NoSnapshot
<1>3. workers["request"].cur.row # r /\ workers["operator"].cur.row # r
  BY <1>1, OthersRows
<1> QED BY <1>2, <1>3, TwoDrivers DEF Alone

\* w is done with s: at is its next step, c what it has in hand for it.
Moves(w, s, at, c) ==
  /\ workers'[w].pass = workers[w].pass /\ workers'[w].at = at /\ workers'[w].cur = c
  /\ workers'[w].todo \subseteq workers[w].todo \ {s}
  /\ \A v \in Workers \ {w}: workers'[v] = workers[v]

LEMMA Moving ==
  ASSUME Inv, NEW w \in Workers, NEW s
  PROVE  /\ Finish(w, s) => Moves(w, s, "next", NoSnapshot)
         /\ \A at, c: ContinueAs(w, s, at, c) => Moves(w, s, at, c)
         /\ \A at: Continue(w, s, at) => Moves(w, s, at, s)
<1>1. workers \in [Workers -> WorkerStates] /\ workers[w] \in WorkerStates
  BY DEF Inv, WorkersInv
<1>2. \A at, c: ContinueAs(w, s, at, c) => Moves(w, s, at, c)
  BY <1>1 DEF ContinueAs, WorkerStates, Moves
<1>3. Finish(w, s) => ContinueAs(w, s, "next", NoSnapshot)
  BY DEF Finish, ContinueAs
<1> QED BY <1>2, <1>3 DEF Continue

\* A driver's step on the row it serves.
LEMMA DriverStep ==
  ASSUME DrainAlone, Inv, OneWriter, NEW w \in Drivers, NEW s, Serves(w, s),
         NEW h \in Gids \union {NoGid}, Touches(s.row, h),
         workers[w].at # "next" => h = s.gid,
         NEW at \in DriverSteps, NEW c, Moves(w, s, at, c),
         at = "next" => c = NoSnapshot,
         at # "next" => c.row = s.row /\ Handles(at, c)',
         at \in Minted /\ "cancel" \notin Operators => staging'[c.gid] # "none",
         RowFits(s.row)', h \in Gids => EngineFits(h)'
  PROVE  OneWriter'
<1>1. /\ s.row \in Grabs /\ ~AtRest(w) /\ w \in Workers /\ DriverFits(w)
      /\ \A t \in workers[w].todo \ {s}: t.row # s.row
  BY ServedRow, DriversAreWorkers DEF OneWriter
<1>3. /\ workers'[w].pass = workers[w].pass /\ workers'[w].at = at /\ workers'[w].cur = c
      /\ workers'[w].todo \subseteq workers[w].todo \ {s}
      /\ \A v \in Workers \ {w}: workers'[v] = workers[v]
  BY DEF Moves
<1>4. Turns'
  BY <1>1, <1>3, TurnsKept, TwoDrivers DEF Touches, OneWriter
<1>5. DriverFits(w)'
  <2>0. PICK p: p = workers[w].pass
    OBVIOUS
  <2>1. \A t \in workers[w].todo \ {s}: Listed(p, t)' /\ t.row # c.row
    <3>1. ASSUME NEW t \in workers[w].todo, t # s PROVE Listed(p, t)'
      BY <1>1, <2>0, <3>1, StaysListed DEF DriverFits
    <3>2. ASSUME NEW t \in workers[w].todo, t # s PROVE t.row # c.row
      <4>1. t.row \in Grabs
        BY <1>1, InHand DEF Inv, Snapshots
      <4> QED BY <1>1, <3>2, <4>1, NoGrabAssumption DEF NoSnapshot
    <3> QED BY <3>1, <3>2
  <2>2. HandStocked(w)'
    BY <1>3 DEF HandStocked
  <2>3. DriverFits(w)' <=>
          /\ p \in Rounds(w) /\ at \in DriverSteps
          /\ \A t \in workers'[w].todo: Listed(p, t)' /\ t.row # c.row
          /\ at = "next" => c = NoSnapshot
          /\ at # "next" => Handles(at, c)'
          /\ HandStocked(w)'
    BY <1>3, <2>0 DEF DriverFits, Listed, Handles
  <2> QED BY <1>1, <1>3, <2>0, <2>1, <2>2, <2>3 DEF DriverFits
<1>6. workers[w].cur.gid \in {NoGid, h} /\ workers[w].cur.row \in {NoGrab, s.row}
  <2>1. CASE workers[w].at = "next"
    BY <1>1, <2>1 DEF DriverFits, NoSnapshot
  <2>2. CASE workers[w].at # "next"
    BY <2>2 DEF Serves
  <2> QED BY <2>1, <2>2
<1>7. w # "request" /\ w # "operator"
  BY TwoDrivers
<1> QED BY <1>1, <1>3, <1>4, <1>5, <1>6, <1>7, DriverAlone, LocalStep

-----------------------------------------------------------------------------
(* What a step leaves of the row and of the engine *)

LEMMA EngineAtRest ==
  ASSUME NEW h, callback'[h].state = "none", job'[h] \notin Live
  PROVE  EngineFits(h)'
BY DEF EngineFits

LEMMA EngineAtWork ==
  ASSUME Inv', NEW h \in Gids, NEW r \in Grabs, owner'[h] = r,
         callback'[h].state # "none" => job'[h] \notin Live,
         callback'[h].state # "apply",
         callback'[h].state = "import" =>
           callback'[h].snap.row = r /\ callback'[h].snap.gid = h /\ rows'[r].gid = h,
         \/ rows'[r].gid = h /\ (rows'[r].status = "queued" \/ Recording(h)')
         \/ rows'[r].gid # h /\ Dispatching(h)'
  PROVE  EngineFits(h)'
<1>1. \A g \in Grabs: rows'[g].gid = h => g = r
  BY NoGidAssumption DEF Inv, RowsInv
<1> QED BY <1>1 DEF EngineFits

\* No row names h but the one h was minted for.
LEMMA CallbacksRow ==
  ASSUME Inv, OneWriter, NEW h \in Gids, callback[h].state \in {"apply", "import"}
  PROVE  /\ owner[h] \in Grabs /\ rows[owner[h]].gid = h
         /\ callback[h].snap.row = owner[h] /\ callback[h].snap.gid = h
         /\ callback[h].state = "apply" => rows[owner[h]].status = "queued"
<1>1. /\ callback[h].snap.row \in Grabs /\ callback[h].snap.gid = h
      /\ rows[callback[h].snap.row].gid = h
      /\ callback[h].state = "apply" => rows[callback[h].snap.row].status = "queued"
  BY DEF OneWriter, EngineFits
<1> QED BY <1>1, NoGidAssumption DEF Inv, RowsInv

LEMMA ParkFits ==
  ASSUME NEW r, rows[r] \in Row, Plain(rows[r]),
         rows'[r] \in {SetPendingRetry(rows[r]), ParkForAlternateRelease(rows[r])}
  PROVE  RowFits(r)' /\ rows'[r].gid = NoGid
<1>1. rows'[r].status = "pending_retry" /\ rows'[r].gid = NoGid
  BY DEF Row, SetPendingRetry, ParkForAlternateRelease
<1>2. Shape(rows'[r])
  BY ParksKeepShape DEF Plain
<1> QED BY <1>1, <1>2 DEF RowFits, Stocked, Attended

LEMMA SameRowFits ==
  ASSUME NEW r, RowFits(r), rows'[r] = rows[r],
         rows[r].status = "queued" => rows[r].gid # NoGid,
         rows[r].gid # NoGid =>
           \/ staging'[rows[r].gid] # "none"
           \/ staging'[rows[r].gid] = staging[rows[r].gid]
  PROVE  RowFits(r)'
BY DEF RowFits, Stocked, Attended

LEMMA GidRowFits ==
  ASSUME NEW r, Plain(rows'[r]), rows'[r].gid # NoGid,
         "cancel" \notin Operators => staging'[rows'[r].gid] # "none"
  PROVE  RowFits(r)'
BY DEF RowFits, Stocked, Attended, Plain

\* A parked GID is at rest when the pass that listed it comes to it.
LEMMA ParkedIsQuiet ==
  ASSUME DrainAlone, Inv, OneWriter, NEW w \in Drivers, workers[w].at = "next",
         NEW s \in workers[w].todo, rows[s.row].status = "pending_retry",
         rows[s.row].gid = s.gid, s.gid \in Gids
  PROVE  callback[s.gid].state = "none" /\ job[s.gid] \notin Live
<1>1. Serves(w, s)
  BY DEF Serves
<1>2. s.row \in Grabs /\ ~AtRest(w)
  BY <1>1, ServedRow
<1>3. \A v \in Drivers: workers[v].at = "next"
  BY <1>2, OthersAtRest DEF OneWriter, AtRest
<1>4. ~Recording(s.gid)
  BY <1>3 DEF Recording
<1> QED BY <1>2, <1>4 DEF OneWriter, EngineFits

LEMMA ListedRow ==
  ASSUME Inv, OneWriter, NEW w \in Drivers, NEW s \in workers[w].todo
  PROVE  /\ s = Snapshot(s.row) /\ Selects(workers[w].pass, s.row)
         /\ s.gid = rows[s.row].gid /\ s.transport = rows[s.row].transport
         /\ workers[w].pass = "reconcile" =>
              Dead(s.gid) /\ InFlight(rows[s.row]) /\ s.gid \in Gids
         /\ workers[w].pass = "resume" => DueForResume(rows[s.row]) /\ s.gid \in Gids
         /\ workers[w].pass \in {"picks", "alternates"} =>
              DueForRetry(rows[s.row]) /\ s.gid = NoGid
         /\ workers[w].pass = "hygiene" =>
              rows[s.row].status = "pending_retry" /\ s.gid \in Gids
         /\ workers[w].pass \in {"reconcile", "resume", "picks", "alternates", "hygiene"}
<1>1. Listed(workers[w].pass, s) /\ workers[w].pass \in Rounds(w)
  BY DEF OneWriter, DriverFits
<1>2. s \in Snapshots
  BY InHand, DriversAreWorkers DEF Inv
<1>3. s.gid = rows[s.row].gid /\ s.transport = rows[s.row].transport
  BY <1>1 DEF Listed, Snapshot
<1>4. s.gid \in Gids \union {NoGid}
  BY <1>2 DEF Snapshots
<1>5. workers[w].pass \in {"reconcile", "resume", "picks", "alternates", "hygiene"}
  BY <1>1 DEF Listed, Rounds, Selects
<1> QED BY <1>1, <1>3, <1>4, <1>5
    DEF Listed, Selects, InFlight, DueForResume, DueForRetry

LEMMA Written ==
  ASSUME Inv, NEW r \in Grabs, NEW row, Write(r, row)
  PROVE  rows'[r] = row /\ \A g \in Grabs \ {r}: rows'[g] = rows[g]
BY DEF Inv, RowsInv, Rows, Write

\* The engine's operations touch their GID only.
LEMMA EngineWritten ==
  ASSUME Inv, NEW h \in Gids
  PROVE  /\ RelaunchNZB(h) =>
              /\ job'[h] = "precheck" /\ staging'[h] # "none"
              /\ \A k \in Gids \ {h}: job'[k] = job[k] /\ staging'[k] = staging[k]
              /\ UNCHANGED <<callback, owner>>
         /\ StartDownload(h) =>
              /\ job'[h] = IF job[h] = "precheck" THEN "active" ELSE job[h]
              /\ \A k \in Gids \ {h}: job'[k] = job[k]
              /\ UNCHANGED <<staging, callback, owner>>
         /\ DropJob(h) => job'[h] = "none" /\ \A k \in Gids \ {h}: job'[k] = job[k]
         /\ staging' = [staging EXCEPT ![h] = "none"] =>
              staging'[h] = "none" /\ \A k \in Gids \ {h}: staging'[k] = staging[k]
BY DEF Inv, EngineInv, StagingState, RelaunchNZB, StartDownload, DropJob

LEMMA ContentParked ==
  ASSUME Inv, NEW s, s.row \in Grabs, s.gid \in Gids, ParkContentFailure(s)
  PROVE  /\ rows'[s.row] = ParkForAlternateRelease(rows[s.row])
         /\ \A g \in Grabs \ {s.row}: rows'[g] = rows[g]
         /\ job[s.gid] \notin Live => job'[s.gid] = "none"
         /\ \A k \in Gids \ {s.gid}: job'[k] = job[k] /\ staging'[k] = staging[k]
<1>1. Write(s.row, ParkForAlternateRelease(rows[s.row]))
  BY DEF ParkContentFailure
<1>2. /\ job[s.gid] \notin Live => job'[s.gid] = "none"
      /\ \A k \in Gids \ {s.gid}: job'[k] = job[k] /\ staging'[k] = staging[k]
  BY DEF Inv, EngineInv, ParkContentFailure
<1> QED BY <1>1, <1>2, Written

-----------------------------------------------------------------------------
(* Reconcile *)

LEMMA ReconcileListKeeps ==
  ASSUME DrainAlone, Inv, Inv', OneWriter, NEW w \in Drivers, NEW s \in workers[w].todo,
         \/ ReconcileSkips(w, s) \/ ReconcileFindsHollow(w, s)
         \/ ReconcileStartsImport(w, s) \/ ReconcileRelaunches(w, s)
         \/ ReconcileFetchFails(w, s)
  PROVE  OneWriter'
<1> DEFINE r == s.row
<1> DEFINE h == s.gid
<1>1. Takes(w, "reconcile", s) /\ Serves(w, s) /\ w \in Workers
  BY DriversAreWorkers
  DEF ReconcileSkips, ReconcileFindsHollow, ReconcileStartsImport,
      ReconcileRelaunches, ReconcileFetchFails, Takes, Serves
<1>2. /\ r \in Grabs /\ Owned(s) /\ rows[r] \in Row /\ Plain(rows[r]) /\ RowFits(r)
  BY <1>1, ServedRow DEF OneWriter
<1>3. /\ s = Snapshot(r) /\ h \in Gids /\ rows[r].gid = h /\ InFlight(rows[r])
      /\ callback[h].state = "none" /\ job[h] = "none"
  BY <1>1, ListedRow DEF Takes, Dead
<1>4. owner[h] = r /\ h # NoGid /\ workers[w].at = "next"
  BY <1>1, <1>2, <1>3, NoGidAssumption DEF Owned, Takes
<1>5. ASSUME Touches(r, h), Moves(w, s, "next", NoSnapshot), RowFits(r)', EngineFits(h)'
      PROVE  OneWriter'
  BY <1>1, <1>3, <1>4, <1>5, DriverStep DEF DriverSteps, Minted
<1>6. CASE ReconcileSkips(w, s)
  <2>1. UNCHANGED <<rows, job, staging, callback, owner, restarts>> /\ Finish(w, s)
    BY <1>6 DEF ReconcileSkips, engine
  <2>2. Touches(r, h)
    BY <1>3, <1>4, <2>1 DEF Touches
  <2>3. RowFits(r)' /\ EngineFits(h)'
    BY <1>2, <1>3, <1>4, <2>1, SameRowFits, EngineAtRest DEF Live
  <2> QED BY <1>1, <1>5, <2>1, <2>2, <2>3, Moving
<1>7. CASE ReconcileFindsHollow(w, s)
  <2>1. ParkContentFailure(s) /\ Finish(w, s) /\ UNCHANGED <<callback, owner, restarts>>
    BY <1>7 DEF ReconcileFindsHollow
  <2>2. /\ rows'[r] = ParkForAlternateRelease(rows[r])
        /\ job'[h] = "none"
        /\ \A g \in Grabs \ {r}: rows'[g] = rows[g]
        /\ \A k \in Gids \ {h}: job'[k] = job[k] /\ staging'[k] = staging[k]
    BY <1>2, <1>3, <2>1, ContentParked DEF Live
  <2>3. RowFits(r)' /\ rows'[r].gid = NoGid /\ EngineFits(h)'
    BY <1>2, <1>3, <2>1, <2>2, ParkFits, EngineAtRest DEF Live
  <2>4. Touches(r, h)
    BY <1>3, <1>4, <2>1, <2>2, <2>3 DEF Touches
  <2> QED BY <1>1, <1>5, <2>1, <2>3, <2>4, Moving
<1>8. CASE ReconcileStartsImport(w, s)
  <2>1. UNCHANGED <<rows, job, staging, callback, owner, restarts>> /\ Continue(w, s, "importing")
    BY <1>8 DEF ReconcileStartsImport, engine
  <2>2. Touches(r, h)
    BY <1>3, <1>4, <2>1 DEF Touches
  <2>3. RowFits(r)' /\ EngineFits(h)'
    BY <1>2, <1>3, <1>4, <2>1, SameRowFits, EngineAtRest DEF Live
  <2>4. Handles("importing", s)'
    BY <1>2, <1>3, <2>1 DEF Handles, Dead, Snapshot
  <2> QED BY <1>1, <1>3, <1>4, <2>1, <2>2, <2>3, <2>4, Moving, DriverStep
      DEF DriverSteps, Minted
<1>9. CASE ReconcileRelaunches(w, s)
  <2>1. /\ RelaunchNZB(h) /\ Continue(w, s, "restoring") /\ UNCHANGED <<rows, restarts>>
    BY <1>9 DEF ReconcileRelaunches
  <2>2. /\ job'[h] = "precheck" /\ staging'[h] # "none"
        /\ \A k \in Gids \ {h}: job'[k] = job[k] /\ staging'[k] = staging[k]
        /\ UNCHANGED <<callback, owner>>
    BY <1>3, <2>1, EngineWritten
  <2>3. Touches(r, h)
    BY <1>3, <1>4, <2>1, <2>2 DEF Touches
  <2>4. RowFits(r)'
    BY <1>2, <1>3, <1>4, <2>1, <2>2, SameRowFits
  <2>5. EngineFits(h)'
    BY <1>2, <1>3, <1>4, <2>1, <2>2, EngineAtWork DEF InFlight
  <2>6. Handles("restoring", s)'
    BY <1>2, <1>3, <2>1, <2>2 DEF Handles, Quiet, Snapshot
  <2> QED BY <1>1, <1>3, <1>4, <2>1, <2>3, <2>4, <2>5, <2>6, Moving, DriverStep
      DEF DriverSteps, Minted
<1>10. CASE ReconcileFetchFails(w, s)
  <2>1. /\ Write(r, SetPendingRetry(rows[r])) \/ UNCHANGED rows
        /\ Finish(w, s) /\ UNCHANGED <<job, staging, callback, owner, restarts>>
    BY <1>10 DEF ReconcileFetchFails, engine
  <2>2. /\ rows'[r] \in {rows[r], SetPendingRetry(rows[r])}
        /\ \A g \in Grabs \ {r}: rows'[g] = rows[g]
    BY <1>2, <2>1, Written
  <2>3. RowFits(r)' /\ rows'[r].gid \in {NoGid, h} /\ EngineFits(h)'
    BY <1>2, <1>3, <1>4, <2>1, <2>2, ParkFits, SameRowFits, EngineAtRest DEF Live
  <2>4. Touches(r, h)
    BY <1>3, <1>4, <2>1, <2>2, <2>3 DEF Touches
  <2> QED BY <1>1, <1>5, <2>1, <2>3, <2>4, Moving
<1> QED BY <1>6, <1>7, <1>8, <1>9, <1>10

LEMMA ReconcileHandKeeps ==
  ASSUME DrainAlone, Inv, Inv', OneWriter, NEW w \in Drivers,
         ReconcileImports(w) \/ Restored(w) \/ RestoreRejected(w)
  PROVE  OneWriter'
<1>0. PICK s: s = workers[w].cur
  OBVIOUS
<1> DEFINE r == s.row
<1> DEFINE h == s.gid
<1>1. /\ workers[w].at \in {"importing", "restoring"} /\ Serves(w, s) /\ w \in Workers
      /\ Handles(workers[w].at, s)
  <2>1. workers[w].at \in {"importing", "restoring"}
    BY DEF ReconcileImports, Restored, RestoreRejected, At
  <2> QED BY <1>0, <2>1, DriversAreWorkers DEF Serves, OneWriter, DriverFits
<1>2. /\ r \in Grabs /\ Owned(s) /\ rows[r] \in Row /\ Plain(rows[r]) /\ RowFits(r)
      /\ rows[r].status # "absent"
  BY <1>1, ServedRow DEF OneWriter
<1>3. /\ s = Snapshot(r) /\ h \in Gids /\ rows[r].gid = h /\ InFlight(rows[r])
      /\ callback[h].state = "none" /\ job[h] \in {"none", "precheck"}
      /\ workers[w].at = "importing" => job[h] = "none"
  BY <1>1 DEF Handles, Dead, Quiet, Snapshot
<1>4. owner[h] = r /\ h # NoGid
  BY <1>2, <1>3, NoGidAssumption DEF Owned
<1>5. ASSUME Touches(r, h), Moves(w, s, "next", NoSnapshot), RowFits(r)', EngineFits(h)'
      PROVE  OneWriter'
  BY <1>1, <1>3, <1>5, DriverStep DEF DriverSteps, Minted
<1>6. CASE ReconcileImports(w)
  <2>1. job[h] = "none" /\ UNCHANGED <<callback, owner, restarts>>
    BY <1>3, <1>6 DEF ReconcileImports, At
  <2>2. CASE /\ Write(r, MarkImportedIfNot(rows[r]))
             /\ staging' = [staging EXCEPT ![h] = "none"]
             /\ Finish(w, s) /\ UNCHANGED job
    <3>1. /\ rows'[r] = MarkImportedIfNot(rows[r])
          /\ \A g \in Grabs \ {r}: rows'[g] = rows[g]
          /\ \A k \in Gids \ {h}: staging'[k] = staging[k]
      BY <1>2, <1>3, <2>2, Written, EngineWritten
    <3>2. rows'[r].gid = h /\ rows'[r].status = "imported" /\ Shape(rows'[r])
      BY <1>2, <1>3, <3>1, RecordsKeepShape DEF Row, MarkImportedIfNot, Plain
    <3>3. RowFits(r)' /\ EngineFits(h)'
      BY <1>3, <2>1, <2>2, <3>2, EngineAtRest DEF RowFits, Stocked, Attended, Live
    <3>4. Touches(r, h)
      BY <1>3, <1>4, <2>1, <2>2, <3>1, <3>2 DEF Touches
    <3> QED BY <1>1, <1>5, <2>2, <3>3, <3>4, Moving
  <2>3. CASE ParkContentFailure(s) /\ Finish(w, s)
    <3>1. /\ rows'[r] = ParkForAlternateRelease(rows[r])
          /\ job'[h] = "none"
          /\ \A g \in Grabs \ {r}: rows'[g] = rows[g]
          /\ \A k \in Gids \ {h}: job'[k] = job[k] /\ staging'[k] = staging[k]
      BY <1>2, <1>3, <2>1, <2>3, ContentParked DEF Live
    <3>2. RowFits(r)' /\ rows'[r].gid = NoGid /\ EngineFits(h)'
      BY <1>2, <1>3, <2>1, <3>1, ParkFits, EngineAtRest DEF Live
    <3>3. Touches(r, h)
      BY <1>3, <1>4, <2>1, <3>1, <3>2 DEF Touches
    <3> QED BY <1>1, <1>5, <2>3, <3>2, <3>3, Moving
  <2>4. CASE /\ Write(r, SetPendingRetry(rows[r])) \/ UNCHANGED rows
             /\ Finish(w, s) /\ UNCHANGED <<job, staging>>
    <3>1. /\ rows'[r] \in {rows[r], SetPendingRetry(rows[r])}
          /\ \A g \in Grabs \ {r}: rows'[g] = rows[g]
      BY <1>2, <2>4, Written
    <3>2. RowFits(r)' /\ rows'[r].gid \in {NoGid, h} /\ EngineFits(h)'
      BY <1>2, <1>3, <1>4, <2>1, <2>4, <3>1, ParkFits, SameRowFits, EngineAtRest DEF Live
    <3>3. Touches(r, h)
      BY <1>3, <1>4, <2>1, <2>4, <3>1, <3>2 DEF Touches
    <3> QED BY <1>1, <1>5, <2>4, <3>2, <3>3, Moving
  <2>5. CASE RelaunchNZB(h) /\ Continue(w, s, "restoring") /\ UNCHANGED rows
    <3>1. /\ job'[h] = "precheck" /\ staging'[h] # "none"
          /\ \A k \in Gids \ {h}: job'[k] = job[k] /\ staging'[k] = staging[k]
      BY <1>3, <2>5, EngineWritten
    <3>2. Touches(r, h)
      BY <1>3, <1>4, <2>1, <2>5, <3>1 DEF Touches
    <3>3. RowFits(r)'
      BY <1>2, <1>3, <1>4, <2>5, <3>1, SameRowFits
    <3>4. EngineFits(h)'
      BY <1>2, <1>3, <1>4, <2>1, <2>5, <3>1, EngineAtWork DEF InFlight
    <3>5. Handles("restoring", s)'
      BY <1>2, <1>3, <2>1, <2>5, <3>1 DEF Handles, Quiet, Snapshot
    <3> QED BY <1>1, <1>3, <2>5, <3>2, <3>3, <3>4, <3>5, Moving, DriverStep
        DEF DriverSteps, Minted
  <2> QED BY <1>0, <1>6, <2>2, <2>3, <2>4, <2>5 DEF ReconcileImports
<1>7. CASE Restored(w)
  <2>1. StartDownload(h) /\ Finish(w, s) /\ UNCHANGED <<rows, restarts>>
    BY <1>0, <1>7 DEF Restored
  <2>2. /\ job'[h] \in {"none", "active"}
        /\ \A k \in Gids \ {h}: job'[k] = job[k]
        /\ UNCHANGED <<staging, callback, owner>>
    BY <1>3, <2>1, EngineWritten
  <2>3. Touches(r, h)
    BY <1>3, <1>4, <2>1, <2>2 DEF Touches
  <2>4. RowFits(r)'
    BY <1>2, <1>3, <1>4, <2>1, <2>2, SameRowFits
  <2>5. EngineFits(h)'
    BY <1>2, <1>3, <1>4, <2>1, <2>2, EngineAtWork DEF InFlight
  <2> QED BY <1>1, <1>5, <2>1, <2>3, <2>4, <2>5, Moving
<1>8. CASE RestoreRejected(w)
  <2>1. /\ DropJob(h) /\ Finish(w, s) /\ UNCHANGED <<staging, callback, owner, restarts>>
        /\ Write(r, SetPendingRetry(rows[r])) \/ UNCHANGED rows
    BY <1>0, <1>8 DEF RestoreRejected
  <2>2. /\ rows'[r] \in {rows[r], SetPendingRetry(rows[r])}
        /\ \A g \in Grabs \ {r}: rows'[g] = rows[g]
        /\ job'[h] = "none" /\ \A k \in Gids \ {h}: job'[k] = job[k]
    BY <1>2, <1>3, <2>1, Written, EngineWritten
  <2>3. RowFits(r)' /\ rows'[r].gid \in {NoGid, h} /\ EngineFits(h)'
    BY <1>2, <1>3, <1>4, <2>1, <2>2, ParkFits, SameRowFits, EngineAtRest DEF Live
  <2>4. Touches(r, h)
    BY <1>3, <1>4, <2>1, <2>2, <2>3 DEF Touches
  <2> QED BY <1>1, <1>5, <2>1, <2>3, <2>4, Moving
<1> QED BY <1>6, <1>7, <1>8

-----------------------------------------------------------------------------
(* Resume *)

\* The rung counted is the one the row is on: s says what the row says.
LEMMA NextRungFits ==
  ASSUME Inv, OneWriter, NEW s, s.row \in Grabs, rows[s.row] \in Row, Plain(rows[s.row]),
         RowFits(s.row), rows[s.row].status = "pending_retry",
         s.gid = rows[s.row].gid, s.gid # NoGid, s.transport = rows[s.row].transport,
         ParkNextRung(s), UNCHANGED staging
  PROVE  /\ RowFits(s.row)' /\ rows'[s.row].gid \in {NoGid, s.gid}
         /\ \A g \in Grabs \ {s.row}: rows'[g] = rows[g]
<1> DEFINE r == s.row
<1>1. CASE RungLeft(s)
  <2>1. /\ rows'[r] = ParkForTransportResume(rows[r])
        /\ \A g \in Grabs \ {r}: rows'[g] = rows[g]
    BY <1>1, Written DEF ParkNextRung
  <2>2. Plain(rows'[r])
    BY <1>1, <2>1, ParksKeepShape DEF RungLeft
  <2>3. rows'[r].gid = s.gid
    BY <2>1 DEF Row, ParkForTransportResume
  <2> QED BY <2>1, <2>2, <2>3, GidRowFits DEF RowFits, Stocked
<1>2. CASE ~RungLeft(s)
  <2>1. /\ rows'[r] = SetPendingRetry(rows[r])
        /\ \A g \in Grabs \ {r}: rows'[g] = rows[g]
    BY <1>2, Written DEF ParkNextRung
  <2> QED BY <2>1, ParkFits
<1> QED BY <1>1, <1>2

LEMMA ResumeListKeeps ==
  ASSUME DrainAlone, Inv, Inv', OneWriter, NEW w \in Drivers, NEW s \in workers[w].todo,
         ResumeFindsLive(w, s) \/ ResumeRelaunches(w, s) \/ ResumeFetchFails(w, s)
  PROVE  OneWriter'
<1> DEFINE r == s.row
<1> DEFINE h == s.gid
<1>1. Takes(w, "resume", s) /\ Serves(w, s) /\ w \in Workers
  BY DriversAreWorkers
  DEF ResumeFindsLive, ResumeRelaunches, ResumeFetchFails, Takes, Serves
<1>2. /\ r \in Grabs /\ Owned(s) /\ rows[r] \in Row /\ Plain(rows[r]) /\ RowFits(r)
  BY <1>1, ServedRow DEF OneWriter
<1>3. /\ s = Snapshot(r) /\ h \in Gids /\ rows[r].gid = h /\ DueForResume(rows[r])
      /\ s.transport = rows[r].transport /\ workers[w].at = "next"
  BY <1>1, ListedRow DEF Takes
<1>4. owner[h] = r /\ h # NoGid /\ rows[r].status = "pending_retry"
  BY <1>1, <1>2, <1>3, NoGidAssumption DEF Owned, DueForResume
<1>5. callback[h].state = "none" /\ job[h] \notin Live
  BY <1>3, <1>4, ParkedIsQuiet
<1>6. CASE ResumeFindsLive(w, s)
  BY <1>5, <1>6 DEF ResumeFindsLive
<1>7. CASE ResumeRelaunches(w, s)
  <2>1. RelaunchNZB(h) /\ Continue(w, s, "resuming") /\ UNCHANGED <<rows, restarts>>
    BY <1>7 DEF ResumeRelaunches
  <2>2. /\ job'[h] = "precheck" /\ staging'[h] # "none"
        /\ \A k \in Gids \ {h}: job'[k] = job[k] /\ staging'[k] = staging[k]
        /\ UNCHANGED <<callback, owner>>
    BY <1>3, <2>1, EngineWritten
  <2>3. Moves(w, s, "resuming", s)
    BY <1>1, <2>1, Moving
  <2>4. Touches(r, h)
    BY <1>3, <1>4, <2>1, <2>2 DEF Touches
  <2>5. RowFits(r)'
    BY <1>2, <1>3, <1>4, <2>1, <2>2, SameRowFits
  <2>6. Recording(h)'
    BY <2>3 DEF Moves, Recording
  <2>7. EngineFits(h)'
    BY <1>2, <1>3, <1>4, <1>5, <2>1, <2>2, <2>6, EngineAtWork
  <2>8. Handles("resuming", s)'
    BY <1>2, <1>3, <1>5, <2>1, <2>2 DEF Handles, Quiet, Snapshot
  <2> QED BY <1>1, <1>3, <1>4, <2>3, <2>4, <2>5, <2>7, <2>8, DriverStep
      DEF DriverSteps, Minted
<1>8. CASE ResumeFetchFails(w, s)
  <2>1. /\ DropJob(h) /\ ParkNextRung(s) /\ Finish(w, s)
        /\ UNCHANGED <<staging, callback, owner, restarts>>
    BY <1>8 DEF ResumeFetchFails
  <2>2. job'[h] = "none" /\ \A k \in Gids \ {h}: job'[k] = job[k]
    BY <1>3, <2>1, EngineWritten
  <2>3. /\ RowFits(r)' /\ rows'[r].gid \in {NoGid, h}
        /\ \A g \in Grabs \ {r}: rows'[g] = rows[g]
    BY <1>2, <1>3, <1>4, <2>1, NextRungFits
  <2>4. Touches(r, h)
    BY <1>3, <1>4, <2>1, <2>2, <2>3 DEF Touches
  <2>5. EngineFits(h)'
    BY <1>5, <2>1, <2>2, EngineAtRest DEF Live
  <2>6. Moves(w, s, "next", NoSnapshot)
    BY <1>1, <2>1, Moving
  <2> QED BY <1>1, <1>3, <1>4, <2>3, <2>4, <2>5, <2>6, DriverStep DEF DriverSteps, Minted
<1> QED BY <1>6, <1>7, <1>8

LEMMA ResumeHandKeeps ==
  ASSUME DrainAlone, Inv, Inv', OneWriter, NEW w \in Drivers,
         Resumed(w) \/ ResumeRejected(w) \/ Rearm(w)
  PROVE  OneWriter'
<1>0. PICK s: s = workers[w].cur
  OBVIOUS
<1> DEFINE r == s.row
<1> DEFINE h == s.gid
<1>1. /\ workers[w].at \in {"resuming", "rearm"} /\ Serves(w, s) /\ w \in Workers
      /\ Handles(workers[w].at, s)
  <2>1. workers[w].at \in {"resuming", "rearm"}
    BY DEF Resumed, ResumeRejected, Rearm, At
  <2> QED BY <1>0, <2>1, DriversAreWorkers DEF Serves, OneWriter, DriverFits
<1>2. /\ r \in Grabs /\ Owned(s) /\ rows[r] \in Row /\ Plain(rows[r]) /\ RowFits(r)
      /\ rows[r].status # "absent"
  BY <1>1, ServedRow DEF OneWriter
<1>3. /\ s = Snapshot(r) /\ h \in Gids /\ rows[r].gid = h /\ DueForResume(rows[r])
      /\ s.transport = rows[r].transport
      /\ workers[w].at = "resuming" =>
           callback[h].state = "none" /\ job[h] \in {"none", "precheck"}
  BY <1>1 DEF Handles, Quiet, Snapshot
<1>4. owner[h] = r /\ h # NoGid /\ rows[r].status = "pending_retry"
  BY <1>2, <1>3, NoGidAssumption DEF Owned, DueForResume
<1>5. CASE Resumed(w)
  <2>1. StartDownload(h) /\ Continue(w, s, "rearm") /\ UNCHANGED <<rows, restarts>>
    BY <1>0, <1>5 DEF Resumed
  <2>2. /\ job'[h] \in {"none", "active"}
        /\ \A k \in Gids \ {h}: job'[k] = job[k]
        /\ UNCHANGED <<staging, callback, owner>>
        /\ callback'[h].state = "none"
    BY <1>3, <1>5, <2>1, EngineWritten DEF Resumed, At
  <2>3. Moves(w, s, "rearm", s)
    BY <1>1, <2>1, Moving
  <2>4. Touches(r, h)
    BY <1>3, <1>4, <2>1, <2>2 DEF Touches
  <2>5. RowFits(r)'
    BY <1>2, <1>3, <1>4, <2>1, <2>2, SameRowFits
  <2>6. Recording(h)'
    BY <2>3 DEF Moves, Recording
  <2>7. EngineFits(h)'
    BY <1>2, <1>3, <1>4, <2>1, <2>2, <2>6, EngineAtWork
  <2>8. Handles("rearm", s)'
    BY <1>2, <1>3, <2>1, <2>2 DEF Handles, Snapshot
  <2> QED BY <1>1, <1>3, <1>4, <2>3, <2>4, <2>5, <2>7, <2>8, DriverStep
      DEF DriverSteps, Minted
<1>6. CASE ResumeRejected(w)
  <2>1. /\ DropJob(h) /\ Finish(w, s) /\ UNCHANGED <<staging, callback, owner, restarts>>
        /\ Write(r, SetPendingRetry(rows[r])) \/ ParkNextRung(s)
        /\ callback[h].state = "none"
    BY <1>0, <1>3, <1>6 DEF ResumeRejected, At
  <2>2. job'[h] = "none" /\ \A k \in Gids \ {h}: job'[k] = job[k]
    BY <1>3, <2>1, EngineWritten
  <2>3. /\ RowFits(r)' /\ rows'[r].gid \in {NoGid, h}
        /\ \A g \in Grabs \ {r}: rows'[g] = rows[g]
    <3>1. CASE Write(r, SetPendingRetry(rows[r]))
      BY <1>2, <3>1, Written, ParkFits
    <3>2. CASE ParkNextRung(s)
      BY <1>2, <1>3, <1>4, <2>1, <3>2, NextRungFits
    <3> QED BY <2>1, <3>1, <3>2
  <2>4. Touches(r, h)
    BY <1>3, <1>4, <2>1, <2>2, <2>3 DEF Touches
  <2>5. EngineFits(h)'
    BY <2>1, <2>2, EngineAtRest DEF Live
  <2>6. Moves(w, s, "next", NoSnapshot)
    BY <1>1, <2>1, Moving
  <2> QED BY <1>1, <1>3, <1>4, <2>3, <2>4, <2>5, <2>6, DriverStep DEF DriverSteps, Minted
<1>7. CASE Rearm(w)
  <2>1. /\ Write(r, Relaunch(rows[r], h)) /\ Finish(w, s)
        /\ UNCHANGED <<job, staging, callback, owner, restarts>>
    BY <1>0, <1>7 DEF Rearm, engine
  <2>2. /\ rows'[r] = Relaunch(rows[r], h)
        /\ \A g \in Grabs \ {r}: rows'[g] = rows[g]
    BY <1>2, <2>1, Written
  <2>3. Plain(rows'[r]) /\ rows'[r].gid = h /\ rows'[r].status = "queued"
    <3>1. Plain(rows'[r])
      BY <1>2, <1>3, <2>2, RecordsKeepShape
    <3>2. rows'[r].gid = h /\ rows'[r].status = "queued"
      BY <1>2, <2>2 DEF Row, Relaunch
    <3> QED BY <3>1, <3>2
  <2>4. RowFits(r)'
    BY <1>3, <1>4, <1>2, <2>1, <2>3, GidRowFits DEF RowFits, Stocked
  <2>5. Touches(r, h)
    BY <1>3, <1>4, <2>1, <2>2, <2>3 DEF Touches
  <2>6. /\ callback[h].state # "none" => job[h] \notin Live
        /\ callback[h].state # "apply"
        /\ callback[h].state = "import" => callback[h].snap.row = r /\ callback[h].snap.gid = h
    BY <1>3, <1>4, CallbacksRow DEF OneWriter, EngineFits
  <2>7. EngineFits(h)'
    BY <1>2, <1>3, <1>4, <2>1, <2>3, <2>6, EngineAtWork
  <2>8. Moves(w, s, "next", NoSnapshot)
    BY <1>1, <2>1, Moving
  <2> QED BY <1>1, <1>3, <1>4, <2>4, <2>5, <2>7, <2>8, DriverStep DEF DriverSteps, Minted
<1> QED BY <1>5, <1>6, <1>7

-----------------------------------------------------------------------------
(* The passes that search and dispatch *)

LEMMA AutoGrabListKeeps ==
  ASSUME DrainAlone, Inv, Inv', OneWriter, NEW w \in Drivers, NEW s \in workers[w].todo,
         GateBlocks(w, s) \/ SearchParks(w, s) \/ SearchDispatches(w, s) \/ PickFetchFails(w, s)
  PROVE  OneWriter'
<1> DEFINE r == s.row
<1>1. /\ Takes(w, workers[w].pass, s) /\ workers[w].pass \in SearchPasses \union {"picks"}
      /\ Serves(w, s) /\ w \in Workers
  BY DriversAreWorkers
  DEF GateBlocks, SearchParks, SearchDispatches, PickFetchFails, Takes, Serves, SearchPasses
<1>2. /\ r \in Grabs /\ Owned(s) /\ rows[r] \in Row /\ Plain(rows[r]) /\ RowFits(r)
      /\ workers[w].at = "next"
  BY <1>1, ServedRow DEF OneWriter, Takes
<1>3. /\ DueForRetry(rows[r]) /\ s.gid = NoGid /\ rows[r].gid = NoGid
      /\ rows[r].status = "pending_retry" /\ rows[r].url
  BY <1>1, <1>2, ListedRow DEF SearchPasses, DueForRetry, Plain
<1>4. workers[w].cur = NoSnapshot
  BY <1>2 DEF OneWriter, DriverFits
<1>5. ASSUME NEW row, Write(r, row), row.gid = NoGid, RowFits(r)',
             Moves(w, s, "next", NoSnapshot), UNCHANGED <<engine, restarts>>
      PROVE  OneWriter'
  <2>1. rows'[r] = row /\ \A g \in Grabs \ {r}: rows'[g] = rows[g]
    BY <1>2, <1>5, Written
  <2>2. Touches(r, NoGid)
    BY <1>3, <1>5, <2>1, NoGidAssumption DEF Touches, engine
  <2> QED BY <1>1, <1>2, <1>5, <2>2, DriverStep, NoGidAssumption DEF DriverSteps, Minted
<1>6. CASE GateBlocks(w, s)
  <2>1. PICK until \in {"later", "never"}: Write(r, HoldForRelease(rows[r], until))
    BY <1>6 DEF GateBlocks
  <2>2. Finish(w, s) /\ UNCHANGED <<engine, restarts>>
    BY <1>6 DEF GateBlocks
  <2> DEFINE row == HoldForRelease(rows[r], until)
  <2>3. row.gid = NoGid /\ row.status = "pending_retry"
    BY <1>2, <1>3 DEF Row, HoldForRelease
  <2>4. Shape(row)
    BY <1>2, <1>3, HoldsKeepShape DEF RowFits
  <2>5. RowFits(r)'
    BY <1>2, <2>1, <2>3, <2>4, Written DEF RowFits, Stocked, Attended
  <2>6. Moves(w, s, "next", NoSnapshot)
    BY <1>1, <2>2, Moving
  <2> HIDE DEF row
  <2> QED BY <1>5, <2>1, <2>2, <2>3, <2>5, <2>6 DEF row
<1>7. CASE SearchParks(w, s)
  <2>1. /\ Write(r, SetPendingRetry(rows[r])) /\ UNCHANGED <<engine, restarts>>
        /\ Finish(w, s) \/ workers' = [workers EXCEPT ![w].todo = {}]
    BY <1>7 DEF SearchParks
  <2>2. SetPendingRetry(rows[r]).gid = NoGid
    BY <1>2 DEF Row, SetPendingRetry
  <2>3. RowFits(r)'
    BY <1>2, <2>1, Written, ParkFits
  <2>4. Moves(w, s, "next", NoSnapshot)
    <3>1. CASE Finish(w, s)
      BY <1>1, <3>1, Moving
    <3>2. CASE workers' = [workers EXCEPT ![w].todo = {}]
      <4>1. workers \in [Workers -> WorkerStates] /\ workers[w] \in WorkerStates
        BY <1>1 DEF Inv, WorkersInv
      <4> QED BY <1>1, <1>2, <1>4, <3>2, <4>1 DEF WorkerStates, Moves
    <3> QED BY <2>1, <3>1, <3>2
  <2> QED BY <1>5, <2>1, <2>2, <2>3, <2>4
<1>8. CASE SearchDispatches(w, s)
  <2>1. PICK h \in Gids:
          AddNZB(h, r) /\ ContinueAs(w, s, "precheck", [s EXCEPT !.gid = h])
    BY <1>8 DEF SearchDispatches
  <2>2. UNCHANGED <<rows, restarts>>
    BY <1>8 DEF SearchDispatches
  <2> DEFINE d == [s EXCEPT !.gid = h]
  <2>3. d.row = r /\ d.gid = h
    BY <1>1, InHand DEF Inv, Snapshots
  <2>4. Moves(w, s, "precheck", d)
    BY <1>1, <2>1, Moving
  <2> HIDE DEF d
  <2>5. /\ Fresh(h) /\ UNCHANGED callback /\ callback[h].state = "none" /\ h # NoGid
        /\ job'[h] = "precheck" /\ staging'[h] = "partial" /\ owner'[h] = r
        /\ \A k \in Gids \ {h}: /\ job'[k] = job[k] /\ staging'[k] = staging[k]
                                /\ owner'[k] = owner[k]
    BY <2>1, NoGidAssumption DEF AddNZB, Fresh, Inv, EngineInv
  <2>6. Touches(r, h)
    BY <1>3, <2>2, <2>5 DEF Touches
  <2>7. RowFits(r)'
    BY <1>2, <1>3, <2>2, SameRowFits
  <2>8. Dispatching(h)'
    BY <1>1, <2>3, <2>4 DEF Moves, Dispatching, Minted
  <2>9. EngineFits(h)'
    BY <1>2, <1>3, <2>2, <2>5, <2>8, EngineAtWork
  <2>10. Handles("precheck", d)'
    BY <1>2, <1>3, <2>2, <2>3, <2>5 DEF Handles, Quiet
  <2> QED BY <1>1, <1>2, <2>3, <2>4, <2>5, <2>6, <2>7, <2>9, <2>10, DriverStep
      DEF DriverSteps, Minted
<1>9. CASE PickFetchFails(w, s)
  <2>1. Finish(w, s) /\ UNCHANGED <<rows, engine, restarts>>
    BY <1>9 DEF PickFetchFails
  <2>2. Touches(r, NoGid)
    BY <1>3, <2>1, NoGidAssumption DEF Touches, engine
  <2>3. RowFits(r)'
    BY <1>2, <1>3, <2>1, SameRowFits
  <2>4. Moves(w, s, "next", NoSnapshot)
    BY <1>1, <2>1, Moving
  <2> QED BY <1>1, <1>2, <2>2, <2>3, <2>4, DriverStep, NoGidAssumption DEF DriverSteps, Minted
<1> QED BY <1>6, <1>7, <1>8, <1>9

LEMMA DispatchHandKeeps ==
  ASSUME DrainAlone, Inv, Inv', OneWriter, NEW w \in Drivers,
         DispatchPrechecked(w) \/ DispatchRejected(w) \/ RecordDispatch(w) \/ PickSetsGid(w)
  PROVE  OneWriter'
<1>0. PICK s: s = workers[w].cur
  OBVIOUS
<1> DEFINE r == s.row
<1> DEFINE h == s.gid
<1>1. /\ workers[w].at \in {"precheck", "record"} /\ Serves(w, s) /\ w \in Workers
      /\ Handles(workers[w].at, s) /\ HandStocked(w)
  <2>1. workers[w].at \in {"precheck", "record"}
    BY DEF DispatchPrechecked, DispatchRejected, RecordDispatch, PickSetsGid, At
  <2> QED BY <1>0, <2>1, DriversAreWorkers DEF Serves, OneWriter, DriverFits
<1>2. /\ r \in Grabs /\ Owned(s) /\ rows[r] \in Row /\ Plain(rows[r]) /\ RowFits(r)
      /\ rows[r].status # "absent"
  BY <1>1, ServedRow DEF OneWriter
<1>3. /\ h \in Gids /\ DueForRetry(rows[r]) /\ rows[r].url
      /\ rows[r].gid = NoGid /\ rows[r].status = "pending_retry"
      /\ workers[w].at = "precheck" =>
           callback[h].state = "none" /\ job[h] \in {"none", "precheck"}
      /\ "cancel" \notin Operators => staging[h] # "none"
  BY <1>0, <1>1 DEF Handles, Quiet, DueForRetry, HandStocked, Minted
<1>4. owner[h] = r /\ h # NoGid
  BY <1>2, <1>3, NoGidAssumption DEF Owned
\* No callback has found a row by a GID no row has.
<1>5. /\ callback[h].state \notin {"apply", "import"}
      /\ callback[h].state # "none" => job[h] \notin Live
  BY <1>3, <1>4, CallbacksRow DEF OneWriter, EngineFits
<1>6. CASE DispatchPrechecked(w)
  <2>1. StartDownload(h) /\ Continue(w, s, "record") /\ UNCHANGED <<rows, restarts>>
    BY <1>0, <1>6 DEF DispatchPrechecked
  <2>2. /\ job'[h] \in {"none", "active"}
        /\ \A k \in Gids \ {h}: job'[k] = job[k]
        /\ UNCHANGED <<staging, callback, owner>>
        /\ callback'[h].state = "none"
    BY <1>3, <1>6, <2>1, EngineWritten DEF DispatchPrechecked, At
  <2>3. Moves(w, s, "record", s)
    BY <1>1, <2>1, Moving
  <2>4. Touches(r, h)
    BY <1>3, <1>4, <2>1, <2>2 DEF Touches
  <2>5. RowFits(r)'
    BY <1>2, <1>3, <2>1, SameRowFits
  <2>6. Dispatching(h)'
    BY <1>1, <2>3 DEF Moves, Dispatching, Minted
  <2>7. EngineFits(h)'
    BY <1>2, <1>3, <1>4, <2>1, <2>2, <2>6, EngineAtWork
  <2>8. Handles("record", s)'
    BY <1>2, <1>3, <2>1 DEF Handles
  <2> QED BY <1>1, <1>3, <2>2, <2>3, <2>4, <2>5, <2>7, <2>8, DriverStep
      DEF DriverSteps, Minted
<1>7. CASE DispatchRejected(w)
  <2>1. /\ DropJob(h) /\ staging' = [staging EXCEPT ![h] = "none"] /\ Finish(w, s)
        /\ Write(r, SetPendingRetry(rows[r])) \/ UNCHANGED rows
        /\ UNCHANGED <<callback, owner, restarts>> /\ callback[h].state = "none"
    BY <1>0, <1>3, <1>7 DEF DispatchRejected, At
  <2>2. /\ job'[h] = "none"
        /\ \A k \in Gids \ {h}: job'[k] = job[k] /\ staging'[k] = staging[k]
        /\ rows'[r] \in {rows[r], SetPendingRetry(rows[r])}
        /\ \A g \in Grabs \ {r}: rows'[g] = rows[g]
    BY <1>2, <1>3, <2>1, Written, EngineWritten
  <2>3. RowFits(r)' /\ rows'[r].gid = NoGid /\ EngineFits(h)'
    BY <1>2, <1>3, <2>1, <2>2, ParkFits, SameRowFits, EngineAtRest DEF Live
  <2>4. Touches(r, h)
    BY <1>3, <1>4, <2>1, <2>2, <2>3 DEF Touches
  <2>5. Moves(w, s, "next", NoSnapshot)
    BY <1>1, <2>1, Moving
  <2> QED BY <1>1, <1>3, <2>3, <2>4, <2>5, DriverStep DEF DriverSteps, Minted
<1>8. CASE RecordDispatch(w)
  <2>1. /\ Write(r, Relaunch(rows[r], h)) /\ Finish(w, s)
        /\ UNCHANGED <<job, staging, callback, owner, restarts>>
    BY <1>0, <1>8 DEF RecordDispatch, engine
  <2>2. /\ rows'[r] = Relaunch(rows[r], h)
        /\ \A g \in Grabs \ {r}: rows'[g] = rows[g]
    BY <1>2, <2>1, Written
  <2>3. Plain(rows'[r])
    BY <1>2, <1>3, <2>2, RecordsKeepShape
  <2>4. rows'[r].gid = h /\ rows'[r].status = "queued"
    BY <1>2, <2>2 DEF Row, Relaunch
  <2>5. RowFits(r)'
    BY <1>3, <1>4, <2>1, <2>3, <2>4, GidRowFits
  <2>6. Touches(r, h)
    BY <1>3, <1>4, <2>1, <2>2, <2>4 DEF Touches
  <2>7. EngineFits(h)'
    BY <1>2, <1>3, <1>4, <1>5, <2>1, <2>4, EngineAtWork
  <2>8. Moves(w, s, "next", NoSnapshot)
    BY <1>1, <2>1, Moving
  <2> QED BY <1>1, <1>3, <2>5, <2>6, <2>7, <2>8, DriverStep DEF DriverSteps, Minted
<1>9. CASE PickSetsGid(w)
  <2>1. /\ Write(r, SetDownloadGID(rows[r], h)) /\ Continue(w, s, "picked")
        /\ UNCHANGED <<job, staging, callback, owner, restarts>>
    BY <1>0, <1>9 DEF PickSetsGid, engine
  <2>2. /\ rows'[r] = SetDownloadGID(rows[r], h)
        /\ \A g \in Grabs \ {r}: rows'[g] = rows[g]
    BY <1>2, <2>1, Written
  <2>3. Plain(rows'[r])
    BY <1>2, <1>3, <2>2, RecordsKeepShape
  <2>4. rows'[r].gid = h /\ rows'[r].status = "pending_retry"
    BY <1>2, <1>3, <2>2 DEF Row, SetDownloadGID
  <2>5. RowFits(r)'
    BY <1>3, <1>4, <2>1, <2>3, <2>4, GidRowFits
  <2>6. Touches(r, h)
    BY <1>3, <1>4, <2>1, <2>2, <2>4 DEF Touches
  <2>7. Moves(w, s, "picked", s)
    BY <1>1, <2>1, Moving
  <2>8. Recording(h)'
    BY <2>7 DEF Moves, Recording
  <2>9. EngineFits(h)'
    BY <1>2, <1>3, <1>4, <1>5, <2>1, <2>4, <2>8, EngineAtWork
  <2>10. Handles("picked", s)'
    BY <1>2, <1>3, <2>4 DEF Handles
  <2> QED BY <1>1, <1>3, <2>5, <2>6, <2>7, <2>9, <2>10, DriverStep DEF DriverSteps, Minted
<1> QED BY <1>6, <1>7, <1>8, <1>9

LEMMA PickQueuesKeeps ==
  ASSUME DrainAlone, Inv, Inv', OneWriter, NEW w \in Drivers, PickQueues(w)
  PROVE  OneWriter'
<1>0. PICK s: s = workers[w].cur
  OBVIOUS
<1> DEFINE r == s.row
<1> DEFINE h == s.gid
<1>1. /\ workers[w].at = "picked" /\ Serves(w, s) /\ w \in Workers
      /\ Handles("picked", s)
  BY <1>0, DriversAreWorkers DEF PickQueues, At, Serves, OneWriter, DriverFits
<1>2. /\ r \in Grabs /\ Owned(s) /\ rows[r] \in Row /\ Plain(rows[r]) /\ RowFits(r)
      /\ rows[r].status # "absent"
  BY <1>1, ServedRow DEF OneWriter
<1>3. h \in Gids /\ rows[r].gid = h /\ rows[r].status = "pending_retry"
  BY <1>1 DEF Handles
<1>4. owner[h] = r /\ h # NoGid
  BY <1>2, <1>3, NoGidAssumption DEF Owned
<1>5. /\ Write(r, UpdateStatus(rows[r], "queued")) /\ Finish(w, s)
      /\ UNCHANGED <<job, staging, callback, owner, restarts>>
  BY <1>0 DEF PickQueues, engine
<1>6. /\ rows'[r] = UpdateStatus(rows[r], "queued")
      /\ \A g \in Grabs \ {r}: rows'[g] = rows[g]
  BY <1>2, <1>5, Written
<1>7. Plain(rows'[r])
  BY <1>2, <1>3, <1>6, RecordsKeepShape
<1>8. rows'[r].gid = h /\ rows'[r].status = "queued"
  BY <1>2, <1>3, <1>6 DEF Row, UpdateStatus
<1>9. RowFits(r)'
  BY <1>2, <1>3, <1>4, <1>5, <1>7, <1>8, GidRowFits DEF RowFits, Stocked
<1>10. Touches(r, h)
  BY <1>3, <1>4, <1>5, <1>6, <1>8 DEF Touches
<1>11. /\ callback[h].state # "none" => job[h] \notin Live
       /\ callback[h].state # "apply"
       /\ callback[h].state = "import" => callback[h].snap.row = r /\ callback[h].snap.gid = h
  BY <1>3, <1>4, CallbacksRow DEF OneWriter, EngineFits
<1>12. EngineFits(h)'
  BY <1>2, <1>3, <1>4, <1>5, <1>8, <1>11, EngineAtWork
<1>13. Moves(w, s, "next", NoSnapshot)
  BY <1>1, <1>5, Moving
<1> QED BY <1>1, <1>3, <1>9, <1>10, <1>12, <1>13, DriverStep DEF DriverSteps, Minted

-----------------------------------------------------------------------------
(* Passes *)

LEMMA HygieneKeeps ==
  ASSUME DrainAlone, Inv, Inv', OneWriter, NEW w \in Drivers, NEW s \in workers[w].todo,
         Hygiene(w, s)
  PROVE  OneWriter'
<1> DEFINE r == s.row
<1> DEFINE h == s.gid
<1>1. Takes(w, "hygiene", s) /\ Serves(w, s) /\ w \in Workers
  BY DriversAreWorkers DEF Hygiene, Takes, Serves
<1>2. /\ r \in Grabs /\ Owned(s) /\ rows[r] \in Row /\ Plain(rows[r]) /\ RowFits(r)
  BY <1>1, ServedRow DEF OneWriter
<1>3. /\ h \in Gids /\ rows[r].gid = h /\ rows[r].status = "pending_retry"
      /\ workers[w].at = "next"
  BY <1>1, ListedRow DEF Takes
<1>4. owner[h] = r /\ h # NoGid
  BY <1>2, <1>3, NoGidAssumption DEF Owned
<1>5. callback[h].state = "none" /\ job[h] \notin Live
  BY <1>3, ParkedIsQuiet
<1>6. /\ Write(r, SetPendingRetry(rows[r])) \/ UNCHANGED rows
      /\ Finish(w, s) /\ UNCHANGED <<job, staging, callback, owner, restarts>>
  BY DEF Hygiene, engine
<1>7. /\ rows'[r] \in {rows[r], SetPendingRetry(rows[r])}
      /\ \A g \in Grabs \ {r}: rows'[g] = rows[g]
  BY <1>2, <1>6, Written
<1>8. RowFits(r)' /\ rows'[r].gid \in {NoGid, h} /\ EngineFits(h)'
  BY <1>2, <1>3, <1>4, <1>5, <1>6, <1>7, ParkFits, SameRowFits, EngineAtRest
<1>9. Touches(r, h)
  BY <1>3, <1>4, <1>6, <1>7, <1>8 DEF Touches
<1>10. Moves(w, s, "next", NoSnapshot)
  BY <1>1, <1>6, Moving
<1> QED BY <1>1, <1>3, <1>8, <1>9, <1>10, DriverStep DEF DriverSteps, Minted

LEMMA NoFreeSlotKeeps ==
  ASSUME DrainAlone, Inv, Inv', OneWriter, NEW w \in Drivers, NoFreeSlot(w)
  PROVE  OneWriter'
<1>1. PICK s: s \in workers[w].todo
  BY DEF NoFreeSlot
<1> DEFINE r == s.row
<1> DEFINE h == s.gid
<1>2. /\ workers[w].at = "next" /\ Serves(w, s) /\ w \in Workers
      /\ workers[w].pass \in {"resume", "alternates"}
      /\ workers' = [workers EXCEPT ![w].todo = {}]
      /\ UNCHANGED <<rows, job, staging, callback, owner, restarts>>
  BY <1>1, DriversAreWorkers DEF NoFreeSlot, At, Serves, engine
<1>3. /\ r \in Grabs /\ Owned(s) /\ RowFits(r)
      /\ rows[r].status = "queued" => rows[r].gid # NoGid
  BY <1>2, ServedRow DEF OneWriter
<1>4. /\ rows[r].gid = h /\ h \in Gids \union {NoGid}
      /\ h \in Gids => rows[r].status = "pending_retry"
  BY <1>1, <1>2, ListedRow, NoGidAssumption DEF DueForResume
<1>5. h \in Gids => EngineFits(h)'
  BY <1>1, <1>2, <1>4, ParkedIsQuiet, EngineAtRest
<1>6. Touches(r, h)
  BY <1>2, <1>3, <1>4, NoGidAssumption DEF Touches, Owned
<1>7. RowFits(r)'
  BY <1>2, <1>3, SameRowFits
<1>8. Moves(w, s, "next", NoSnapshot)
  <2>1. workers \in [Workers -> WorkerStates] /\ workers[w] \in WorkerStates
    BY <1>2 DEF Inv, WorkersInv
  <2>2. workers[w].cur = NoSnapshot
    BY <1>2 DEF OneWriter, DriverFits
  <2> QED BY <1>2, <2>1, <2>2 DEF WorkerStates, Moves
<1> QED BY <1>2, <1>4, <1>5, <1>6, <1>7, <1>8, DriverStep DEF DriverSteps, Minted

LEMMA CycleOrder ==
  ASSUME NEW w \in {"boot", "drain"}, NEW i \in DOMAIN Cycle[w], NEW j \in DOMAIN Cycle[w],
         i < j
  PROVE  /\ Cycle[w][j] \in Rounds(w)
         /\ w = "boot" => Cycle[w][j] # "start"
         /\ Cycle[w][j] = "reconcile" => w = "boot" /\ Cycle[w][i] = "start"
BY DEF Cycle, Rounds

\* A new list is taken from the rows as they are.
LEMMA ListPassKeeps ==
  ASSUME DrainAlone, Inv, Inv', OneWriter, NEW w \in Drivers, ListPass(w)
  PROVE  OneWriter'
<1>1. /\ w \in {"boot", "drain"} /\ w \in Workers
      /\ workers[w].at = "next" /\ workers[w].todo = {} /\ workers[w].pass # "done"
      /\ w = "boot" \/ workers["boot"].pass = "done"
      /\ UNCHANGED <<rows, job, staging, callback, owner, restarts>>
  BY TwoDrivers, DriversAreWorkers DEF ListPass, At, engine
<1>2. PICK i, j \in DOMAIN Cycle[w]:
        /\ i < j /\ Cycle[w][i] = workers[w].pass
        /\ workers' = [workers EXCEPT
             ![w].pass = Cycle[w][j],
             ![w].todo = {Snapshot(g): g \in Selected(Cycle[w][j])}]
  BY DEF ListPass
<1>3. PICK p: p = Cycle[w][j]
  OBVIOUS
<1>4. PICK list: list = {Snapshot(g): g \in Selected(p)}
  OBVIOUS
<1>5. /\ workers'[w].pass = p /\ workers'[w].todo = list
      /\ workers'[w].at = "next" /\ workers'[w].cur = workers[w].cur
      /\ \A v \in Workers \ {w}: workers'[v] = workers[v]
  <2>1. workers \in [Workers -> WorkerStates] /\ workers[w] \in WorkerStates
    BY <1>1 DEF Inv, WorkersInv
  <2>2. workers' = [workers EXCEPT ![w].pass = p, ![w].todo = list]
    BY <1>2, <1>3, <1>4
  <2> QED BY <1>1, <2>1, <2>2 DEF WorkerStates
<1>6. /\ p \in Rounds(w)
      /\ w = "boot" => p # "start"
      /\ p = "reconcile" => w = "boot" /\ workers[w].pass = "start"
  BY <1>1, <1>2, <1>3, CycleOrder
<1>7. workers[w].cur = NoSnapshot
  BY <1>1 DEF OneWriter, DriverFits
<1>8. \A v \in Workers: workers'[v].at = workers[v].at /\ workers'[v].cur = workers[v].cur
  BY <1>1, <1>5
<1>9. \A s \in list: s.row \in Grabs /\ Listed(p, s)'
  <2>1. ASSUME NEW s \in list PROVE s.row \in Grabs /\ Listed(p, s)'
    <3>1. PICK g \in Selected(p): s = Snapshot(g)
      BY <1>4, <2>1
    <3>2. /\ g \in Grabs /\ s.row = g /\ s.gid = rows[g].gid /\ Selects(p, g)
          /\ s = [row |-> g, gid |-> rows[g].gid, transport |-> rows[g].transport]
      BY <3>1 DEF Selected, Snapshot
    <3>3. s = Snapshot(s.row)' /\ Selects(p, s.row)'
      BY <1>1, <3>2 DEF Snapshot, Selects
    <3>4. ASSUME p = "reconcile" PROVE Dead(s.gid)'
      <4>1. rows[g].gid # NoGid
        BY <3>2, <3>4 DEF Selects, InFlight
      <4>2. s.gid \in Gids
        BY <3>2, <4>1, RowTyped DEF Inv, Row
      <4>3. Dead(s.gid)
        BY <1>1, <1>6, <3>4, <4>2 DEF OneWriter, Turns
      <4> QED BY <1>1, <4>3 DEF Dead
    <3> QED BY <3>2, <3>3, <3>4 DEF Listed
  <2> QED BY <2>1
<1>10. ASSUME NEW v \in Drivers PROVE DriverFits(v)'
  <2>1. HandStocked(v)'
    BY <1>1, <1>8, DriversAreWorkers DEF OneWriter, DriverFits, HandStocked
  <2>2. CASE v = w
    <3>1. \A s \in list: s.row # NoSnapshot.row
      BY <1>9, NoGrabAssumption DEF NoSnapshot
    <3>2. workers'[v].at = "next" /\ workers'[v].cur = NoSnapshot
          /\ workers'[v].pass = p /\ workers'[v].todo = list
      BY <1>1, <1>5, <1>7, <2>2
    <3>3. DriverFits(v)' <=>
            /\ p \in Rounds(v)
            /\ \A s \in list: Listed(p, s)' /\ s.row # NoSnapshot.row
            /\ HandStocked(v)'
      BY <3>2 DEF DriverFits, Listed, DriverSteps
    <3> QED BY <1>6, <1>9, <2>1, <2>2, <3>1, <3>3
  <2>3. CASE v # w
    <3>1. workers'[v] = workers[v]
      BY <1>5, <2>3, DriversAreWorkers
    <3>2. PICK q, at, c: q = workers[v].pass /\ at = workers[v].at /\ c = workers[v].cur
      OBVIOUS
    <3>3. \A s: Listed(q, s) => Listed(q, s)'
      <4>1. \A g: Snapshot(g)' = Snapshot(g) /\ Selects(q, g)' = Selects(q, g)
        BY <1>1 DEF Snapshot, Selects
      <4> QED BY <1>1, <4>1 DEF Listed, Dead
    <3>4. Handles(at, c) => Handles(at, c)'
      BY <1>1 DEF Handles, Snapshot, Dead, Quiet
    <3>5. DriverFits(v)' <=>
            /\ q \in Rounds(v) /\ at \in DriverSteps
            /\ \A s \in workers[v].todo: Listed(q, s)' /\ s.row # c.row
            /\ at = "next" => c = NoSnapshot
            /\ at # "next" => Handles(at, c)'
            /\ HandStocked(v)'
      BY <3>1, <3>2 DEF DriverFits, Listed, Handles
    <3> QED BY <2>1, <3>2, <3>3, <3>4, <3>5 DEF OneWriter, DriverFits
  <2> QED BY <2>2, <2>3
<1>11. RequestFits' /\ OperatorFits'
  BY <1>1, <1>8, DriversAreWorkers
  DEF OneWriter, RequestFits, OperatorFits, Quiet, HandStocked
<1>12. ASSUME NEW g \in Grabs PROVE RowFits(g)'
  BY <1>1, <1>8, DriversAreWorkers DEF OneWriter, RowFits, Stocked, Attended
<1>13. ASSUME NEW h \in Gids PROVE EngineFits(h)'
  <2>1. Recording(h)' <=> Recording(h)
    BY <1>8, DriversAreWorkers DEF Recording
  <2>2. Dispatching(h)' <=> Dispatching(h)
    BY <1>8 DEF Dispatching
  <2> QED BY <1>1, <2>1, <2>2 DEF OneWriter, EngineFits, Snapshot
<1>14. Turns'
  <2>1. CASE w = "boot"
    <3>1. restarts' # 0 /\ \A v \in Workers \ {"boot", "operator"}: AtRest(v)'
      BY <1>1, <1>5, <2>1 DEF OneWriter, Turns, AtRest
    <3>2. p = "done" => list = {}
      BY <1>4 DEF Selected, Selects
    <3> QED BY <1>5, <1>6, <2>1, <3>1, <3>2 DEF Turns, AtRest
  <2>2. CASE w # "boot"
    <3>1. workers'["boot"] = workers["boot"] /\ workers["boot"].pass = "done"
      BY <1>1, <1>5, <2>2, TwoDrivers, DriversAreWorkers
    <3> QED BY <1>1, <3>1 DEF OneWriter, Turns, AtRest
  <2> QED BY <2>1, <2>2
<1> QED BY <1>10, <1>11, <1>12, <1>13, <1>14 DEF OneWriter

LEMMA WorkKeeps ==
  ASSUME DrainAlone, Inv, Inv', OneWriter, NEW w \in Drivers, Work(w)
  PROVE  OneWriter'
<1>1. DriverFits(w) /\ \A s \in workers[w].todo: workers[w].pass \notin {"sweep", "refresh", "release"}
  BY ListedRow DEF OneWriter
<1>2. ~\E s \in workers[w].todo: Sweep(w, s) \/ RefreshHold(w, s) \/ Supersede(w, s)
  BY <1>1 DEF Sweep, RefreshHold, Supersede, Takes
<1>3. ~Terminate(w)
  BY <1>1 DEF DriverFits, DriverSteps, Terminate, At
<1>4. CASE Reconcile(w)
  BY <1>4, ReconcileListKeeps, ReconcileHandKeeps DEF Reconcile
<1>5. CASE Resume(w)
  BY <1>5, ResumeListKeeps, ResumeHandKeeps DEF Resume
<1>6. CASE AutoGrab(w)
  BY <1>6, AutoGrabListKeeps, DispatchHandKeeps, PickQueuesKeeps DEF AutoGrab
<1>7. CASE Schedule(w)
  BY <1>2, <1>3, <1>7, HygieneKeeps DEF Schedule
<1> QED BY <1>4, <1>5, <1>6, <1>7, ListPassKeeps, NoFreeSlotKeeps DEF Work


-----------------------------------------------------------------------------
(* The engine and its callbacks *)

\* A step of the engine on h, which takes no rest from those who count on it.
LEMMA EngineStep ==
  ASSUME Inv, OneWriter, NEW h \in Gids, UNCHANGED <<rows, workers, owner, restarts>>,
         \A k \in Gids \ {h}: /\ job'[k] = job[k] /\ staging'[k] = staging[k]
                              /\ callback'[k] = callback[k],
         "cancel" \notin Operators /\ staging[h] # "none" => staging'[h] # "none",
         Dead(h) => Dead(h)', Quiet(h) => Quiet(h)', EngineFits(h)'
  PROVE  OneWriter'
<1>1. ASSUME NEW k \in Gids
      PROVE  /\ Dead(k) => Dead(k)'
             /\ Quiet(k) => Quiet(k)'
             /\ "cancel" \notin Operators /\ staging[k] # "none" => staging'[k] # "none"
  BY DEF Dead, Quiet
<1>2. /\ \A g: Snapshot(g)' = Snapshot(g)
      /\ \A p, g: Selects(p, g)' <=> Selects(p, g)
  BY DEF Snapshot, Selects
<1>3. ASSUME NEW g \in Grabs PROVE RowFits(g)'
  <2>1. rows[g].gid # NoGid => rows[g].gid \in Gids
    BY RowTyped DEF Inv, Row
  <2> QED BY <1>1, <2>1 DEF OneWriter, RowFits, Stocked, Attended
<1>4. ASSUME NEW w \in Workers, workers[w].at \in Minted => workers[w].cur.gid \in Gids,
             HandStocked(w)
      PROVE  HandStocked(w)'
  BY <1>1, <1>4 DEF HandStocked
<1>5. ASSUME NEW v \in Drivers PROVE DriverFits(v)'
  <2>1. v \in Workers /\ DriverFits(v)
    BY DriversAreWorkers DEF OneWriter
  <2>2. PICK p, at, c: p = workers[v].pass /\ at = workers[v].at /\ c = workers[v].cur
    OBVIOUS
  <2>3. ASSUME NEW s \in workers[v].todo PROVE Listed(p, s)'
    <3>1. Listed(p, s) /\ s \in Snapshots
      BY <2>1, <2>2, InHand DEF DriverFits, Inv
    <3>2. p = "reconcile" => s.gid \in Gids
      BY <3>1 DEF Listed, Selects, InFlight, Snapshot, Snapshots
    <3> QED BY <1>1, <1>2, <3>1, <3>2 DEF Listed
  <2>4. at # "next" => Handles(at, c)'
    <3>1. at # "next" => Handles(at, c)
      BY <2>1, <2>2 DEF DriverFits
    <3> QED BY <1>1, <1>2, <3>1 DEF Handles
  <2>5. HandStocked(v)'
    <3>1. at \in Minted => c.gid \in Gids
      BY <2>1, <2>2 DEF DriverFits, Handles, Minted
    <3> QED BY <1>4, <2>1, <2>2, <3>1 DEF DriverFits
  <2>6. DriverFits(v)' <=>
          /\ p \in Rounds(v) /\ at \in DriverSteps
          /\ \A s \in workers[v].todo: Listed(p, s)' /\ s.row # c.row
          /\ at = "next" => c = NoSnapshot
          /\ at # "next" => Handles(at, c)'
          /\ HandStocked(v)'
    BY <2>2 DEF DriverFits, Listed, Handles
  <2> QED BY <2>1, <2>2, <2>3, <2>4, <2>5, <2>6 DEF DriverFits
<1>6. RequestFits'
  <2>1. PICK at, c: at = workers["request"].at /\ c = workers["request"].cur
    OBVIOUS
  <2>2. at # "next" => c.gid \in Gids
    BY <2>1 DEF OneWriter, RequestFits
  <2>3. HandStocked("request")'
    BY <1>4, <2>1, <2>2, DriversAreWorkers DEF OneWriter, RequestFits, Minted
  <2>4. at = "precheck" => Quiet(c.gid)'
    BY <1>1, <2>1, <2>2 DEF OneWriter, RequestFits
  <2> QED BY <2>1, <2>2, <2>3, <2>4 DEF OneWriter, RequestFits, Quiet
<1>7. OperatorFits'
  BY DEF OneWriter, OperatorFits
<1>8. ASSUME NEW k \in Gids PROVE EngineFits(k)'
  <2>1. /\ Recording(k)' <=> Recording(k)
        /\ Dispatching(k)' <=> Dispatching(k)
    BY DEF Recording, Dispatching
  <2>2. CASE k # h
    <3>1. job'[k] = job[k] /\ callback'[k] = callback[k]
      BY <2>2
    <3> QED BY <1>2, <2>1, <3>1 DEF OneWriter, EngineFits
  <2> QED BY <2>2
<1>9. Turns'
  BY <1>1 DEF OneWriter, Turns, AtRest
<1> QED BY <1>3, <1>5, <1>6, <1>7, <1>8, <1>9 DEF OneWriter

LEMMA EngineKeeps ==
  ASSUME Inv, OneWriter, NEW h \in Gids, Engine(h)
  PROVE  OneWriter'
<1>1. /\ UNCHANGED <<rows, workers, owner, restarts>>
      /\ \A k \in Gids \ {h}: /\ job'[k] = job[k] /\ staging'[k] = staging[k]
                              /\ callback'[k] = callback[k]
      /\ staging[h] # "none" => staging'[h] # "none"
      /\ \/ /\ job[h] = "active" /\ callback[h].state = "none"
            /\ job'[h] \notin Live /\ callback'[h].state \in {"none", "error", "complete"}
         \/ /\ job[h] = "complete" /\ job'[h] = "none" /\ callback'[h] = callback[h]
  <2>1. CASE DownloadFails(h)
    <3>1. PICK err \in Failure:
            \/ Finished(h, err, [NoCallback EXCEPT !.state = "error", !.err = err])
            \/ Finished(h, err, NoCallback)
      BY <2>1 DEF DownloadFails
    <3>2. /\ err \notin Live /\ NoCallback.state = "none"
          /\ [NoCallback EXCEPT !.state = "error", !.err = err].state = "error"
      BY FailureAssumption DEF Live, NoCallback
    <3> QED BY <2>1, <3>1, <3>2 DEF DownloadFails, Finished, Inv, EngineInv
  <2>2. CASE DownloadCompletes(h)
    BY <2>2 DEF DownloadCompletes, Finished, Inv, EngineInv, NoCallback, Live
  <2>3. CASE DismissComplete(h)
    BY <2>3 DEF DismissComplete, DropJob, Inv, EngineInv
  <2> QED BY <2>1, <2>2, <2>3 DEF Engine
<1>2. Recording(h)' <=> Recording(h)
  BY <1>1 DEF Recording
<1>3. EngineFits(h)'
  <2>1. EngineFits(h) /\ UNCHANGED rows
    BY <1>1 DEF OneWriter
  <2>2. CASE /\ job[h] = "active"
             /\ job'[h] \notin Live /\ callback'[h].state \in {"none", "error", "complete"}
    BY <1>2, <2>1, <2>2 DEF EngineFits, Live
  <2>3. CASE job[h] = "complete" /\ job'[h] = "none" /\ callback'[h] = callback[h]
    BY <1>2, <2>1, <2>3 DEF EngineFits, Live, Snapshot
  <2> QED BY <1>1, <2>2, <2>3
<1>4. ~Dead(h) /\ ~Quiet(h)
  BY <1>1 DEF Dead, Quiet
<1> QED BY <1>1, <1>3, <1>4, EngineStep

LEMMA CancelKeeps ==
  ASSUME Inv, OneWriter, NEW h \in Gids, Cancel(h)
  PROVE  OneWriter'
<1>1. /\ UNCHANGED <<rows, workers, owner, restarts>>
      /\ "cancel" \in Operators /\ job[h] # "none"
      /\ \A k \in Gids \ {h}: /\ job'[k] = job[k] /\ staging'[k] = staging[k]
                              /\ callback'[k] = callback[k]
      /\ job'[h] = "none"
      /\ \/ callback'[h] = callback[h]
         \/ job[h] = "active" /\ callback[h].state = "none" /\ callback'[h].state = "complete"
  BY DEF Cancel, DropJob, SetCallback, NoCallback, Inv, EngineInv
<1>2. Recording(h)' <=> Recording(h)
  BY <1>1 DEF Recording
<1>3. EngineFits(h)'
  <2>1. EngineFits(h) /\ UNCHANGED rows
    BY <1>1 DEF OneWriter
  <2>2. CASE callback'[h] = callback[h]
    BY <1>1, <1>2, <2>1, <2>2 DEF EngineFits, Live, Snapshot
  <2>3. CASE job[h] = "active" /\ callback'[h].state = "complete"
    BY <1>1, <1>2, <2>1, <2>3 DEF EngineFits, Live
  <2> QED BY <1>1, <2>2, <2>3
<1>4. ~Dead(h) /\ (Quiet(h) => Quiet(h)')
  BY <1>1 DEF Dead, Quiet
<1> QED BY <1>1, <1>3, <1>4, EngineStep

LEMMA LooksUpKeeps ==
  ASSUME Inv, OneWriter, NEW h \in Gids, ErrorLooksUp(h) \/ CompleteLooksUp(h)
  PROVE  OneWriter'
<1>1. /\ UNCHANGED <<rows, job, staging, workers, owner, restarts>>
      /\ callback[h].state # "none"
      /\ \A k \in Gids \ {h}: callback'[k] = callback[k]
  BY DEF ErrorLooksUp, CompleteLooksUp, SetCallback, Inv, EngineInv
<1>2. \/ callback'[h].state = "none"
      \/ \E g \in Grabs:
           /\ rows[g].gid = h /\ callback'[h].snap = Snapshot(g)
           /\ \/ callback'[h].state = "apply" /\ rows[g].status = "queued"
              \/ callback'[h].state = "import"
  <2>1. \A cb: SetCallback(h, cb) => callback'[h] = cb
    BY DEF SetCallback, Inv, EngineInv
  <2>2. callback[h] \in CallbackStates /\ NoCallback.state = "none"
    BY DEF Inv, EngineInv, NoCallback
  <2>3. CASE SetCallback(h, NoCallback)
    BY <2>1, <2>2, <2>3
  <2>4. ASSUME NEW g \in Grabs, rows[g].gid = h, rows[g].status = "queued",
               SetCallback(h, [callback[h] EXCEPT !.state = "apply", !.snap = Snapshot(g)])
        PROVE  /\ callback'[h].snap = Snapshot(g)
               /\ callback'[h].state = "apply"
    <3>1. callback'[h] = [callback[h] EXCEPT !.state = "apply", !.snap = Snapshot(g)]
      BY <2>4 DEF SetCallback, Inv, EngineInv
    <3> QED BY <2>2, <3>1 DEF CallbackStates
  <2>5. ASSUME NEW g \in Grabs,
               SetCallback(h, [callback[h] EXCEPT !.state = "import", !.snap = Snapshot(g)])
        PROVE  /\ callback'[h].snap = Snapshot(g)
               /\ callback'[h].state = "import"
    <3>1. callback'[h] = [callback[h] EXCEPT !.state = "import", !.snap = Snapshot(g)]
      BY <2>5 DEF SetCallback, Inv, EngineInv
    <3> QED BY <2>2, <3>1 DEF CallbackStates
  <2>6. CASE ErrorLooksUp(h)
    <3>1. \/ SetCallback(h, NoCallback)
          \/ \E g \in Grabs:
               /\ rows[g].gid = h /\ rows[g].status = "queued"
               /\ SetCallback(h, [callback[h] EXCEPT !.state = "apply", !.snap = Snapshot(g)])
      BY <2>6 DEF ErrorLooksUp
    <3> QED BY <2>3, <2>4, <3>1
  <2>7. CASE CompleteLooksUp(h)
    <3>1. \/ SetCallback(h, NoCallback)
          \/ \E g \in Grabs:
               /\ rows[g].gid = h
               /\ SetCallback(h, [callback[h] EXCEPT !.state = "import", !.snap = Snapshot(g)])
      BY <2>7 DEF CompleteLooksUp
    <3> QED BY <2>3, <2>5, <3>1
  <2> QED BY <2>6, <2>7
<1>3. job[h] \notin Live
  BY <1>1 DEF OneWriter, EngineFits
<1>4. Recording(h)' <=> Recording(h)
  BY <1>1 DEF Recording
<1>5. EngineFits(h)'
  <2>1. CASE callback'[h].state = "none"
    BY <1>1, <1>3, <2>1, EngineAtRest
  <2>2. ASSUME NEW g \in Grabs, rows[g].gid = h, callback'[h].snap = Snapshot(g),
               \/ callback'[h].state = "apply" /\ rows[g].status = "queued"
               \/ callback'[h].state = "import"
        PROVE  EngineFits(h)'
    <3>1. /\ callback'[h].snap.row = g /\ callback'[h].snap.gid = h
          /\ Snapshot(g)' = Snapshot(g)
      BY <1>1, <2>2 DEF Snapshot
    <3> QED BY <1>1, <1>3, <1>4, <2>2, <3>1 DEF OneWriter, EngineFits
  <2> QED BY <1>2, <2>1, <2>2
<1>6. ~Dead(h) /\ ~Quiet(h)
  BY <1>1 DEF Dead, Quiet
<1> QED BY <1>1, <1>5, <1>6, EngineStep

\* Whoever is at work on a row in flight waits for its callback.
LEMMA CallbackAlone ==
  ASSUME DrainAlone, Inv, OneWriter, NEW h \in Gids, callback[h].state # "none",
         NEW r \in Grabs, rows[r].gid = h, rows[r].status = "queued", NEW w
  PROVE  Alone(w, r)
<1>1. ~Dead(h) /\ ~Quiet(h) /\ h # NoGid
  BY NoGidAssumption DEF Dead, Quiet
<1>2. rows[r].url /\ rows[r].hold = "none"
  BY <1>1, RowTyped, RowsWithGid DEF Inv, OneWriter, RowFits, Plain
<1>3. ASSUME NEW v \in Drivers
      PROVE  workers[v].cur.row # r /\ \A t \in workers[v].todo: t.row # r
  <2>1. DriverFits(v)
    BY DEF OneWriter
  <2>2. \A t \in workers[v].todo: t.row # r
    BY <1>1, <2>1 DEF DriverFits, Listed, Rounds, Selects, Snapshot, DueForResume, DueForRetry
  <2>3. CASE workers[v].at = "next"
    BY <2>1, <2>2, <2>3, NoGrabAssumption DEF DriverFits, NoSnapshot
  <2>4. CASE workers[v].at # "next"
    BY <1>1, <2>1, <2>2, <2>4
    DEF DriverFits, DriverSteps, Handles, Snapshot, DueForResume, DueForRetry
  <2> QED BY <2>3, <2>4
<1>4. workers["request"].cur.row # r /\ workers["operator"].cur.row # r
  BY <1>1, <1>2, OthersRows
<1> QED BY <1>3, <1>4, TwoDrivers DEF Alone

LEMMA CallbackStep ==
  ASSUME DrainAlone, Inv, OneWriter, NEW h \in Gids, callback[h].state \in {"apply", "import"},
         NEW r, r = callback[h].snap.row, rows[r].status = "queued",
         \A g \in Grabs \ {r}: rows'[g] = rows[g], rows'[r].gid \in {NoGid, h},
         \A k \in Gids \ {h}: /\ job'[k] = job[k] /\ staging'[k] = staging[k]
                              /\ callback'[k] = callback[k],
         UNCHANGED <<workers, owner, restarts>>,
         callback'[h].state = "none", job'[h] \notin Live, RowFits(r)'
  PROVE  OneWriter'
<1>1. r \in Grabs /\ owner[h] = r /\ rows[r].gid = h
  BY CallbacksRow
<1>2. Touches(r, h)
  BY <1>1 DEF Touches
<1>3. "nobody" \notin Workers
  BY TwoDrivers
<1>4. Alone("nobody", r)
  BY <1>1, CallbackAlone
<1>5. EngineFits(h)'
  BY EngineAtRest
<1>6. Turns'
  <2>1. workers["boot"].pass # "start"
    BY DEF OneWriter, Turns, Dead
  <2> QED BY <2>1 DEF OneWriter, Turns, AtRest
<1> QED BY <1>1, <1>2, <1>3, <1>4, <1>5, <1>6, DriversAreWorkers, LocalStep

LEMMA ErrorAppliesKeeps ==
  ASSUME DrainAlone, Inv, OneWriter, NEW h \in Gids, ErrorApplies(h)
  PROVE  OneWriter'
<1>0. PICK s, err: s = callback[h].snap /\ err = callback[h].err
  OBVIOUS
<1>1. /\ callback[h].state = "apply" /\ ApplyFailure(s, err)
      /\ UNCHANGED <<workers, owner, restarts>>
      /\ callback'[h].state = "none"
      /\ \A k \in Gids \ {h}: callback'[k] = callback[k]
  BY <1>0 DEF ErrorApplies, SetCallback, NoCallback, Inv, EngineInv
<1> DEFINE r == s.row
<1>2. /\ r \in Grabs /\ s.gid = h /\ rows[r].gid = h /\ rows[r].status = "queued"
      /\ s.transport = rows[r].transport /\ job[h] \notin Live
  <2>1. EngineFits(h)
    BY DEF OneWriter
  <2>2. s = Snapshot(s.row) /\ r \in Grabs /\ rows[r].status = "queued"
    BY <1>0, <1>1, <2>1 DEF EngineFits
  <2>3. s.gid = h /\ rows[r].gid = h /\ job[h] \notin Live
    BY <1>0, <1>1, <2>1 DEF EngineFits
  <2>4. s.transport = rows[r].transport
    BY <2>2 DEF Snapshot
  <2> QED BY <2>2, <2>3, <2>4
<1>3. rows[r] \in Row /\ Plain(rows[r]) /\ h # NoGid /\ RowFits(r)
  BY <1>2, RowTyped, RowsWithGid, NoGidAssumption DEF Inv, OneWriter, RowFits
<1>4. ASSUME \A g \in Grabs \ {r}: rows'[g] = rows[g], rows'[r].gid \in {NoGid, h},
             \A k \in Gids \ {h}: job'[k] = job[k] /\ staging'[k] = staging[k],
             job'[h] \notin Live, RowFits(r)'
      PROVE  OneWriter'
  BY <1>0, <1>1, <1>2, <1>4, CallbackStep
<1>5. CASE Write(r, UpdateStatus(rows[r], "failed")) /\ UNCHANGED <<job, staging>>
  <2>1. /\ rows'[r] = UpdateStatus(rows[r], "failed")
        /\ \A g \in Grabs \ {r}: rows'[g] = rows[g]
    BY <1>2, <1>5, Written
  <2>2. rows'[r].gid = h /\ rows'[r].status = "failed"
    BY <1>2, <1>3, <2>1 DEF Row, UpdateStatus
  <2>3. Shape(rows'[r])
    BY <1>2, <1>3, <2>1, RecordsKeepShape DEF Plain
  <2> QED BY <1>2, <1>4, <1>5, <2>1, <2>2, <2>3 DEF RowFits, Stocked, Attended
<1>6. CASE /\ RungLeft(s) /\ Write(r, ParkForTransportResume(rows[r]))
           /\ UNCHANGED <<job, staging>>
  <2>1. /\ rows'[r] = ParkForTransportResume(rows[r])
        /\ \A g \in Grabs \ {r}: rows'[g] = rows[g]
    BY <1>2, <1>6, Written
  <2>2. rows'[r].gid = h
    BY <1>2, <1>3, <2>1 DEF Row, ParkForTransportResume
  <2>3. Plain(rows'[r])
    BY <1>2, <1>3, <1>6, <2>1, ParksKeepShape DEF RungLeft
  <2>4. RowFits(r)'
    BY <1>2, <1>3, <1>6, <2>2, <2>3, GidRowFits DEF RowFits, Stocked
  <2> QED BY <1>2, <1>4, <1>6, <2>1, <2>2, <2>4
<1>7. CASE ParkContentFailure(s)
  <2>1. /\ rows'[r] = ParkForAlternateRelease(rows[r]) /\ job'[h] = "none"
        /\ \A g \in Grabs \ {r}: rows'[g] = rows[g]
        /\ \A k \in Gids \ {h}: job'[k] = job[k] /\ staging'[k] = staging[k]
    BY <1>2, <1>7, ContentParked
  <2>2. RowFits(r)' /\ rows'[r].gid = NoGid
    BY <1>3, <2>1, ParkFits
  <2> QED BY <1>4, <2>1, <2>2 DEF Live
<1>8. CASE Write(r, SetPendingRetry(rows[r])) /\ UNCHANGED <<job, staging>>
  <2>1. /\ rows'[r] = SetPendingRetry(rows[r])
        /\ \A g \in Grabs \ {r}: rows'[g] = rows[g]
    BY <1>2, <1>8, Written
  <2>2. RowFits(r)' /\ rows'[r].gid = NoGid
    BY <1>3, <2>1, ParkFits
  <2> QED BY <1>2, <1>4, <1>8, <2>1, <2>2
<1> QED BY <1>1, <1>5, <1>6, <1>7, <1>8 DEF ApplyFailure

LEMMA CompleteImportsKeeps ==
  ASSUME DrainAlone, Inv, OneWriter, NEW h \in Gids, CompleteImports(h)
  PROVE  OneWriter'
<1>0. PICK s: s = callback[h].snap
  OBVIOUS
<1>1. /\ callback[h].state = "import" /\ ~BeingRecorded(h)
      /\ UNCHANGED <<workers, owner, restarts>>
      /\ callback'[h].state = "none"
      /\ \A k \in Gids \ {h}: callback'[k] = callback[k]
  BY DEF CompleteImports, SetCallback, NoCallback, Inv, EngineInv
<1> DEFINE r == s.row
<1>2. /\ r \in Grabs /\ s.gid = h /\ rows[r].gid = h /\ job[h] \notin Live
      /\ rows[r].status = "queued" \/ Recording(h)
  BY <1>0, <1>1 DEF OneWriter, EngineFits
<1>3. ~Recording(h)
  <2>1. ASSUME NEW w \in Drivers, workers[w].cur.gid = h, workers[w].at = "resuming"
        PROVE  FALSE
    BY <1>1, <2>1 DEF OneWriter, DriverFits, Handles, Quiet
  <2> QED BY <1>1, <2>1, DriversAreWorkers DEF BeingRecorded, Recording
<1>4. /\ rows[r] \in Row /\ Plain(rows[r]) /\ h # NoGid /\ RowFits(r)
      /\ rows[r].status = "queued"
  BY <1>2, <1>3, RowTyped, RowsWithGid, NoGidAssumption DEF Inv, OneWriter, RowFits
<1>5. ASSUME \A g \in Grabs \ {r}: rows'[g] = rows[g], rows'[r].gid \in {NoGid, h},
             \A k \in Gids \ {h}: job'[k] = job[k] /\ staging'[k] = staging[k],
             job'[h] \notin Live, RowFits(r)'
      PROVE  OneWriter'
  BY <1>0, <1>1, <1>4, <1>5, CallbackStep
<1>6. CASE /\ Write(r, MarkImportedIfNot(rows[r]))
           /\ staging' = [staging EXCEPT ![h] = "none"] /\ UNCHANGED job
  <2>1. /\ rows'[r] = MarkImportedIfNot(rows[r])
        /\ \A g \in Grabs \ {r}: rows'[g] = rows[g]
        /\ \A k \in Gids \ {h}: staging'[k] = staging[k]
    BY <1>2, <1>6, Written, EngineWritten
  <2>2. rows'[r].gid = h /\ rows'[r].status = "imported"
    BY <1>2, <1>4, <2>1 DEF Row, MarkImportedIfNot
  <2>3. Shape(rows'[r])
    BY <1>2, <1>4, <2>1, RecordsKeepShape DEF Plain
  <2> QED BY <1>2, <1>5, <1>6, <2>1, <2>2, <2>3 DEF RowFits, Stocked, Attended
<1>7. CASE ParkContentFailure(s)
  <2>1. /\ rows'[r] = ParkForAlternateRelease(rows[r]) /\ job'[h] = "none"
        /\ \A g \in Grabs \ {r}: rows'[g] = rows[g]
        /\ \A k \in Gids \ {h}: job'[k] = job[k] /\ staging'[k] = staging[k]
    BY <1>2, <1>7, ContentParked
  <2>2. RowFits(r)' /\ rows'[r].gid = NoGid
    BY <1>4, <2>1, ParkFits
  <2> QED BY <1>5, <2>1, <2>2 DEF Live
<1>8. CASE UNCHANGED <<rows, job, staging>>
  <2>1. RowFits(r)'
    BY <1>2, <1>4, <1>8, SameRowFits
  <2> QED BY <1>2, <1>5, <1>8, <2>1
<1> QED BY <1>0, <1>6, <1>7, <1>8 DEF CompleteImports

LEMMA CallbackKeeps ==
  ASSUME DrainAlone, Inv, OneWriter, NEW h \in Gids, Callback(h)
  PROVE  OneWriter'
BY LooksUpKeeps, ErrorAppliesKeeps, CompleteImportsKeeps DEF Callback

-----------------------------------------------------------------------------
(* Requests *)

\* A row not in the table yet, or queued without a GID, is the request's alone.
LEMMA RequestAlone ==
  ASSUME DrainAlone, Inv, OneWriter, NEW r \in Grabs,
         rows[r].status = "absent" \/ (rows[r].status = "queued" /\ rows[r].gid = NoGid)
  PROVE  Alone("request", r)
<1>1. ASSUME NEW v \in Drivers
      PROVE  workers[v].cur.row # r /\ \A t \in workers[v].todo: t.row # r
  <2>1. DriverFits(v)
    BY DEF OneWriter
  <2>2. \A t \in workers[v].todo: t.row # r
    BY <2>1 DEF DriverFits, Listed, Rounds, Selects, InFlight, DueForResume, DueForRetry
  <2>3. CASE workers[v].at = "next"
    BY <2>1, <2>2, <2>3, NoGrabAssumption DEF DriverFits, NoSnapshot
  <2>4. CASE workers[v].at # "next"
    <3>1. Serves(v, workers[v].cur)
      BY <2>4 DEF Serves
    <3> QED BY <2>2, <3>1, ServedRow
  <2> QED BY <2>3, <2>4
<1>2. workers["operator"].cur.row # r
  <2>1. rows[r].status = "queued" => rows[r].url /\ rows[r].hold = "none"
    BY DEF OneWriter, RowFits, Shape, Held
  <2> QED BY <2>1, OthersRows
<1> QED BY <1>1, <1>2, TwoDrivers DEF Alone

LEMMA RequestStep ==
  ASSUME DrainAlone, Inv, OneWriter, workers["boot"].pass = "done",
         NEW r \in Grabs, NEW h \in Gids, Touches(r, h),
         workers["request"].cur.gid \in {NoGid, h},
         workers["request"].cur.row \in {NoGrab, r},
         rows[r].status = "absent" \/ (rows[r].status = "queued" /\ rows[r].gid = NoGid),
         NEW s, NEW at \in RequestSteps, NEW c, Moves("request", s, at, c),
         at = "next" => c = NoSnapshot, at # "next" => c.row = r /\ c.gid = h,
         at \in {"precheck", "record"} => rows'[r].status = "absent",
         at \in {"alternate", "origin", "gid"} =>
           rows'[r].status = "queued" /\ rows'[r].gid = NoGid,
         at = "precheck" => Quiet(h)',
         at \in Minted /\ "cancel" \notin Operators => staging'[h] # "none",
         RowFits(r)', EngineFits(h)'
  PROVE  OneWriter'
<1>1. "request" \in Workers /\ "request" \notin Drivers
  BY DriversAreWorkers
<1>2. /\ workers'["request"].pass = workers["request"].pass
      /\ workers'["request"].at = at /\ workers'["request"].cur = c
      /\ \A v \in Workers \ {"request"}: workers'[v] = workers[v]
  BY DEF Moves
<1>3. Turns'
  BY <1>1, <1>2, TurnsKept DEF Touches, OneWriter
<1>4. RequestFits'
  BY <1>2 DEF RequestFits, HandStocked, Minted, Quiet
<1> QED BY <1>1, <1>2, <1>3, <1>4, RequestAlone, LocalStep

\* A row nobody names with h leaves h as it was.
LEMMA EngineLeft ==
  ASSUME OneWriter, NEW h \in Gids, NEW r \in Grabs, UNCHANGED <<job, callback, owner>>,
         \A g \in Grabs \ {r}: rows'[g] = rows[g], rows[r].gid # h, rows'[r].gid # h,
         Recording(h) => Recording(h)', Dispatching(h) => Dispatching(h)'
  PROVE  EngineFits(h)'
<1>1. EngineFits(h)
  BY DEF OneWriter
<1>2. \A g \in Grabs: rows[g].gid = h \/ rows'[g].gid = h => rows'[g] = rows[g]
  OBVIOUS
<1>3. ASSUME NEW s, s.row \in Grabs, rows[s.row].gid = h
      PROVE  s = Snapshot(s.row) => s = Snapshot(s.row)'
  BY <1>2, <1>3 DEF Snapshot
<1> QED BY <1>1, <1>2, <1>3 DEF EngineFits

LEMMA NewRequestKeeps ==
  ASSUME DrainAlone, Inv, Inv', OneWriter, NewRequest
  PROVE  OneWriter'
<1>1. workers["boot"].pass = "done"
  BY MaxRestartsAssumption DEF NewRequest, DrainAlone, OneWriter, Turns, Inv
<1>2. /\ "request" \in Workers /\ workers["request"].at = "next"
      /\ workers["request"].cur = NoSnapshot
  BY DriversAreWorkers DEF NewRequest, RequestFindsNothing, RequestDispatches, At,
                           OneWriter, RequestFits
<1>3. CASE \E g \in Grabs: RequestFindsNothing(g)
  <2>1. PICK g \in Grabs: /\ rows[g].status = "absent" /\ Write(g, CreatePendingRetry)
                          /\ UNCHANGED <<job, staging, callback, owner, workers, restarts>>
    BY <1>3 DEF RequestFindsNothing, engine
  <2>2. /\ rows'[g] = CreatePendingRetry /\ rows[g] = NoRow
        /\ \A k \in Grabs \ {g}: rows'[k] = rows[k]
    BY <2>1, Written DEF OneWriter, RowFits, Shape
  <2>3. rows'[g].gid = NoGid /\ rows'[g].status = "pending_retry" /\ rows[g].gid = NoGid
    BY <2>2 DEF CreatePendingRetry, NoRow
  <2>4. RowFits(g)'
    BY <2>2, <2>3, InsertsKeepShape DEF RowFits, Stocked, Attended
  <2>5. Touches(g, NoGid)
    BY <2>1, <2>2, <2>3, NoGidAssumption DEF Touches
  <2>6. "nobody" \notin Workers /\ Alone("nobody", g)
    <3>1. workers["request"].cur.row # g
      BY <1>2, NoGrabAssumption DEF NoSnapshot
    <3> QED BY <2>1, <3>1, RequestAlone, TwoDrivers DEF Alone
  <2>7. Turns'
    BY <2>1 DEF OneWriter, Turns, AtRest, Dead
  <2> QED BY <2>1, <2>4, <2>5, <2>6, <2>7, NoGidAssumption, DriversAreWorkers, LocalStep
<1>4. CASE \E g \in Grabs, h \in Gids: RequestDispatches(g, h)
  <2>1. PICK g \in Grabs, h \in Gids: RequestDispatches(g, h)
    BY <1>4
  <2>2. PICK c: c = [NoSnapshot EXCEPT !.row = g, !.gid = h]
    OBVIOUS
  <2>3. c.row = g /\ c.gid = h
    BY <2>2 DEF NoSnapshot
  <2>4. /\ rows[g].status = "absent" /\ AddNZB(h, g) /\ UNCHANGED <<rows, restarts>>
        /\ Moves("request", c, "precheck", c)
    BY <1>2, <2>1, <2>2, Moving DEF RequestDispatches
  <2>5. /\ Fresh(h) /\ job'[h] = "precheck" /\ staging'[h] = "partial" /\ owner'[h] = g
        /\ callback'[h].state = "none" /\ UNCHANGED callback
        /\ \A k \in Gids \ {h}: /\ job'[k] = job[k] /\ staging'[k] = staging[k]
                                /\ owner'[k] = owner[k]
    BY <2>4 DEF AddNZB, Fresh, Inv, EngineInv
  <2>6. rows[g] = NoRow /\ rows[g].gid = NoGid /\ rows[g].gid # h
    <3>1. Shape(rows[g]) /\ rows[g].status = "absent"
      BY <2>4 DEF OneWriter, RowFits
    <3>2. rows[g] = NoRow
      BY <3>1 DEF Shape
    <3> QED BY <3>2, NoGidAssumption DEF NoRow
  <2>7. Touches(g, h)
    BY <2>4, <2>5, <2>6 DEF Touches
  <2>8. RowFits(g)'
    BY <2>4, <2>6, SameRowFits DEF OneWriter
  <2>9. Dispatching(h)'
    BY <1>2, <2>3, <2>4 DEF Moves, Dispatching, Minted
  <2>10. EngineFits(h)'
    BY <2>4, <2>5, <2>6, <2>9, EngineAtWork
  <2>11. Quiet(h)'
    BY <2>5 DEF Quiet
  <2> QED BY <1>1, <1>2, <2>3, <2>4, <2>5, <2>7, <2>8, <2>10, <2>11, RequestStep
      DEF NoSnapshot, RequestSteps
<1> QED BY <1>3, <1>4 DEF NewRequest

LEMMA RequestGoesOnKeeps ==
  ASSUME DrainAlone, Inv, Inv', OneWriter, RequestGoesOn
  PROVE  OneWriter'
<1>0. PICK s: s = workers["request"].cur
  OBVIOUS
<1> DEFINE r == s.row
<1> DEFINE h == s.gid
<1>1. "request" \in Workers /\ workers["request"].at # "next"
  BY DriversAreWorkers
  DEF RequestGoesOn, RequestPrechecked, RequestRejected, RequestParks,
      RequestCreates, RequestSetsOrigin, RequestSetsGid, At
<1>2. /\ r \in Grabs /\ h \in Gids /\ owner[h] = r /\ h # NoGid
      /\ workers["boot"].pass = "done"
  <2>1. Owned(s)
    BY <1>0, <1>1, InHand DEF Inv
  <2> QED BY <1>0, <1>1, <2>1, NoGidAssumption, TwoDrivers
      DEF OneWriter, RequestFits, Owned, Turns, AtRest
<1>3. /\ rows[r] \in Row /\ Shape(rows[r]) /\ RowFits(r) /\ EngineFits(h)
      /\ workers["request"].at \in {"precheck", "record"} => rows[r].status = "absent"
      /\ workers["request"].at \in {"alternate", "origin", "gid"} =>
           rows[r].status = "queued" /\ rows[r].gid = NoGid
      /\ workers["request"].at = "precheck" => Quiet(h)
      /\ workers["request"].at \in Minted /\ "cancel" \notin Operators => staging[h] # "none"
      /\ workers["request"].at \in RequestSteps
  BY <1>0, <1>2, RowTyped DEF Inv, OneWriter, RowFits, RequestFits, HandStocked
<1>4. rows[r].gid = NoGid /\ (rows[r].status = "absent" => rows[r] = NoRow)
  BY <1>1, <1>3 DEF RequestSteps, Shape, NoRow
<1>5. ASSUME rows[r].status = "queued" PROVE Plain(rows[r])
  BY <1>3, <1>5, PlainRows DEF Shape, Held
<1>6. ASSUME Touches(r, h), NEW at \in RequestSteps, NEW c, Moves("request", s, at, c),
             at = "next" => c = NoSnapshot, at # "next" => c = s,
             at \in {"precheck", "record"} => rows'[r].status = "absent",
             at \in {"alternate", "origin", "gid"} =>
               rows'[r].status = "queued" /\ rows'[r].gid = NoGid,
             at # "precheck",
             at \in Minted /\ "cancel" \notin Operators => staging'[h] # "none",
             RowFits(r)', EngineFits(h)'
      PROVE  OneWriter'
  BY <1>0, <1>1, <1>2, <1>3, <1>6, RequestStep DEF RequestSteps
<1>7. ASSUME UNCHANGED <<job, callback, owner, staging, restarts>>, rows'[r].gid = NoGid,
             \A g \in Grabs \ {r}: rows'[g] = rows[g],
             NEW at, NEW c, Moves("request", s, at, c),
             workers["request"].at \in Minted => at \in Minted /\ c = s
      PROVE  Touches(r, h) /\ EngineFits(h)'
  <2>1. Touches(r, h)
    BY <1>2, <1>4, <1>7 DEF Touches
  <2>2. Recording(h) => Recording(h)'
    BY <1>7, DriversAreWorkers, TwoDrivers DEF Moves, Recording, Drivers
  <2>3. Dispatching(h) => Dispatching(h)'
    BY <1>0, <1>1, <1>7 DEF Moves, Dispatching
  <2> QED BY <1>2, <1>4, <1>7, <2>1, <2>2, <2>3, EngineLeft
<1>8. CASE RequestPrechecked
  <2>1. /\ workers["request"].at = "precheck" /\ StartDownload(h)
        /\ Continue("request", s, "record") /\ UNCHANGED <<rows, restarts>>
    BY <1>0, <1>8 DEF RequestPrechecked, At
  <2>2. /\ job'[h] \in {"none", "active"} /\ callback[h].state = "none"
        /\ \A k \in Gids \ {h}: job'[k] = job[k]
        /\ UNCHANGED <<staging, callback, owner>>
    BY <1>2, <1>3, <2>1, EngineWritten DEF Quiet
  <2>3. Moves("request", s, "record", s)
    BY <1>1, <2>1, Moving
  <2>4. Touches(r, h)
    BY <1>2, <1>4, <2>1, <2>2 DEF Touches
  <2>5. RowFits(r)'
    BY <1>3, <1>4, <2>1, <2>2, SameRowFits
  <2>6. Dispatching(h)'
    BY <1>1, <2>3 DEF Moves, Dispatching, Minted
  <2>7. EngineFits(h)'
    BY <1>2, <1>4, <2>1, <2>2, <2>6, EngineAtWork
  <2> QED BY <1>3, <1>6, <2>1, <2>2, <2>3, <2>4, <2>5, <2>7 DEF RequestSteps, Minted
<1>9. CASE RequestRejected
  <2>1. /\ workers["request"].at = "precheck" /\ DropJob(h)
        /\ staging' = [staging EXCEPT ![h] = "none"] /\ UNCHANGED <<callback, owner, restarts>>
        /\ \/ Write(r, CreateQueued) /\ Continue("request", s, "alternate")
           \/ Write(r, CreatePendingRetry) /\ Finish("request", s)
    BY <1>0, <1>9 DEF RequestRejected, At
  <2>2. /\ job'[h] = "none" /\ callback[h].state = "none"
        /\ \A k \in Gids \ {h}: job'[k] = job[k] /\ staging'[k] = staging[k]
    BY <1>2, <1>3, <2>1, EngineWritten DEF Quiet
  <2>3. EngineFits(h)'
    BY <2>1, <2>2, EngineAtRest DEF Live
  <2>4. CASE Write(r, CreateQueued) /\ Continue("request", s, "alternate")
    <3>1. /\ rows'[r] = CreateQueued /\ \A g \in Grabs \ {r}: rows'[g] = rows[g]
          /\ Moves("request", s, "alternate", s)
      BY <1>1, <1>2, <2>4, Written, Moving
    <3>2. rows'[r].gid = NoGid /\ rows'[r].status = "queued" /\ Shape(rows'[r])
      BY <3>1, InsertsKeepShape DEF CreateQueued, NoRow, Plain
    <3>3. RowFits(r)'
      BY <3>1, <3>2 DEF RowFits, Stocked, Attended, Moves
    <3>4. Touches(r, h)
      BY <1>2, <1>4, <2>1, <2>2, <3>1, <3>2 DEF Touches
    <3> QED BY <1>6, <2>3, <3>1, <3>2, <3>3, <3>4 DEF RequestSteps, Minted
  <2>5. CASE Write(r, CreatePendingRetry) /\ Finish("request", s)
    <3>1. /\ rows'[r] = CreatePendingRetry /\ \A g \in Grabs \ {r}: rows'[g] = rows[g]
          /\ Moves("request", s, "next", NoSnapshot)
      BY <1>1, <1>2, <2>5, Written, Moving
    <3>2. rows'[r].gid = NoGid /\ rows'[r].status = "pending_retry" /\ Shape(rows'[r])
      BY <3>1, InsertsKeepShape DEF CreatePendingRetry, NoRow
    <3>3. RowFits(r)'
      BY <3>2 DEF RowFits, Stocked, Attended
    <3>4. Touches(r, h)
      BY <1>2, <1>4, <2>1, <2>2, <3>1, <3>2 DEF Touches
    <3> QED BY <1>6, <2>3, <3>1, <3>3, <3>4 DEF RequestSteps, Minted
  <2> QED BY <2>1, <2>4, <2>5
<1>10. CASE RequestParks
  <2>1. /\ workers["request"].at = "alternate"
        /\ Write(r, ParkForAlternateRelease(rows[r])) /\ Finish("request", s)
        /\ UNCHANGED <<job, staging, callback, owner, restarts>>
    BY <1>0, <1>10 DEF RequestParks, At, engine
  <2>2. /\ rows'[r] = ParkForAlternateRelease(rows[r])
        /\ \A g \in Grabs \ {r}: rows'[g] = rows[g]
        /\ Moves("request", s, "next", NoSnapshot)
    BY <1>1, <1>2, <2>1, Written, Moving
  <2>3. RowFits(r)' /\ rows'[r].gid = NoGid
    BY <1>3, <1>5, <2>1, <2>2, ParkFits
  <2>4. Touches(r, h) /\ EngineFits(h)'
    BY <1>7, <2>1, <2>2, <2>3 DEF Minted
  <2> QED BY <1>6, <2>2, <2>3, <2>4 DEF RequestSteps, Minted
<1>11. CASE RequestCreates
  <2>1. PICK at \in {"origin", "gid"}: Continue("request", s, at)
    BY <1>0, <1>11 DEF RequestCreates
  <2>2. /\ workers["request"].at = "record" /\ Write(r, CreateQueued)
        /\ UNCHANGED <<job, staging, callback, owner, restarts>>
    BY <1>0, <1>11 DEF RequestCreates, At, engine
  <2>3. /\ rows'[r] = CreateQueued /\ \A g \in Grabs \ {r}: rows'[g] = rows[g]
        /\ Moves("request", s, at, s)
    BY <1>1, <1>2, <2>1, <2>2, Written, Moving
  <2>4. rows'[r].gid = NoGid /\ rows'[r].status = "queued" /\ Shape(rows'[r])
    BY <2>3, InsertsKeepShape DEF CreateQueued, NoRow, Plain
  <2>5. RowFits(r)'
    BY <2>3, <2>4 DEF RowFits, Stocked, Attended, Moves
  <2>6. Touches(r, h) /\ EngineFits(h)'
    BY <1>7, <2>2, <2>3, <2>4 DEF Minted
  <2> QED BY <1>3, <1>6, <2>2, <2>3, <2>4, <2>5, <2>6 DEF RequestSteps, Minted
<1>12. CASE RequestSetsOrigin
  <2>1. /\ workers["request"].at = "origin" /\ Write(r, SetOrigin(rows[r]))
        /\ Continue("request", s, "gid")
        /\ UNCHANGED <<job, staging, callback, owner, restarts>>
    BY <1>0, <1>12 DEF RequestSetsOrigin, At, engine
  <2>2. /\ rows'[r] = SetOrigin(rows[r]) /\ \A g \in Grabs \ {r}: rows'[g] = rows[g]
        /\ Moves("request", s, "gid", s)
    BY <1>1, <1>2, <2>1, Written, Moving
  <2>3. rows'[r].gid = NoGid /\ rows'[r].status = "queued"
    BY <1>3, <2>1, <2>2 DEF Row, SetOrigin
  <2>4. Shape(rows'[r])
    <3>1. Gids # {} /\ rows[r].status # "absent" /\ rows[r].status = "queued"
      BY <1>2, <1>3, <2>1
    <3> QED BY <1>2, <1>3, <1>5, <2>2, <3>1, RecordsKeepShape DEF Plain
  <2>5. RowFits(r)'
    BY <2>2, <2>3, <2>4 DEF RowFits, Stocked, Attended, Moves
  <2>6. Touches(r, h) /\ EngineFits(h)'
    BY <1>7, <2>1, <2>2, <2>3 DEF Minted
  <2> QED BY <1>3, <1>6, <2>1, <2>2, <2>3, <2>5, <2>6 DEF RequestSteps, Minted
<1>13. CASE RequestSetsGid
  <2>1. /\ workers["request"].at = "gid" /\ Write(r, SetDownloadGID(rows[r], h))
        /\ Finish("request", s)
        /\ UNCHANGED <<job, staging, callback, owner, restarts>>
    BY <1>0, <1>13 DEF RequestSetsGid, At, engine
  <2>2. /\ rows'[r] = SetDownloadGID(rows[r], h)
        /\ \A g \in Grabs \ {r}: rows'[g] = rows[g]
        /\ Moves("request", s, "next", NoSnapshot)
    BY <1>1, <1>2, <2>1, Written, Moving
  <2>3. rows'[r].gid = h /\ rows'[r].status = "queued"
    BY <1>3, <2>1, <2>2 DEF Row, SetDownloadGID
  <2>4. Plain(rows'[r])
    <3>1. rows[r].status # "absent" /\ rows[r].status = "queued"
      BY <1>3, <2>1
    <3> QED BY <1>2, <1>3, <1>5, <2>2, <3>1, RecordsKeepShape
  <2>5. RowFits(r)'
    BY <1>2, <1>3, <2>1, <2>3, <2>4, GidRowFits DEF Minted
  <2>6. Touches(r, h)
    BY <1>2, <1>4, <2>1, <2>2, <2>3 DEF Touches
  <2>7. callback[h].state \notin {"apply", "import"}
    BY <1>2, <1>4, CallbacksRow
  <2>8. callback[h].state # "none" => job[h] \notin Live
    BY <1>3 DEF EngineFits
  <2>9. EngineFits(h)'
    BY <1>2, <2>1, <2>3, <2>7, <2>8, EngineAtWork
  <2> QED BY <1>6, <2>2, <2>5, <2>6, <2>9 DEF RequestSteps, Minted
<1> QED BY <1>8, <1>9, <1>10, <1>11, <1>12, <1>13 DEF RequestGoesOn

-----------------------------------------------------------------------------
(* The operator *)

\* A request held for a date, or parked before any dispatch, is nobody else's.
LEMMA OperatorAlone ==
  ASSUME DrainAlone, Inv, OneWriter, NEW r \in Grabs, rows[r].status # "absent",
         ~rows[r].url \/ rows[r].hold # "none"
  PROVE  /\ Alone("operator", r) /\ rows[r].gid = NoGid
         /\ rows[r].status # "queued"
<1>1. /\ rows[r].gid = NoGid /\ rows[r].status # "queued"
      /\ DueForRetry(rows[r]) => ~rows[r].tried /\ ~rows[r].pick /\ ~rows[r].url
  BY DEF OneWriter, RowFits, Shape, Held, DueForRetry
<1>2. ASSUME NEW v \in Drivers
      PROVE  workers[v].cur.row # r /\ \A t \in workers[v].todo: t.row # r
  <2>1. DriverFits(v)
    BY DEF OneWriter
  <2>2. \A t \in workers[v].todo: t.row # r
    BY <1>1, <2>1 DEF DriverFits, Listed, Rounds, Selects, InFlight, DueForResume
  <2>3. CASE workers[v].at = "next"
    BY <2>1, <2>2, <2>3, NoGrabAssumption DEF DriverFits, NoSnapshot
  <2>4. CASE workers[v].at # "next"
    <3>1. Serves(v, workers[v].cur)
      BY <2>4 DEF Serves
    <3> QED BY <2>2, <3>1, ServedRow DEF Plain
  <2> QED BY <2>3, <2>4
<1>3. workers["request"].cur.row # r
  BY <1>1, OthersRows
<1> QED BY <1>1, <1>2, <1>3, TwoDrivers DEF Alone

LEMMA OperatorStep ==
  ASSUME DrainAlone, Inv, OneWriter, NEW r \in Grabs, UNCHANGED <<engine, restarts>>,
         rows[r].status # "absent", ~rows[r].url \/ rows[r].hold # "none",
         \A g \in Grabs \ {r}: rows'[g] = rows[g], rows'[r].gid = NoGid,
         NEW s, NEW at, NEW c, Moves("operator", s, at, c),
         workers["operator"].cur.row \in {NoGrab, r},
         Shape(rows'[r]), rows'[r].status # "queued", OperatorFits'
  PROVE  OneWriter'
<1>1. "operator" \in Workers /\ "operator" \notin Drivers /\ "operator" # "request"
  BY TwoDrivers
<1>2. PICK h: h = workers["operator"].cur.gid
  OBVIOUS
<1>3. h \in Gids \union {NoGid} /\ (h \in Gids => owner[h] = r)
  <2>1. Owned(workers["operator"].cur) /\ workers["operator"].cur \in Snaps
    BY <1>1, InHand DEF Inv
  <2>2. h \in Gids => workers["operator"].cur.row # NoGrab
    BY <1>2, <2>1, NoGidAssumption, NoGrabAssumption DEF Snaps, Snapshots, NoSnapshot
  <2> QED BY <1>2, <2>1, <2>2, SnapsTyped, NoGidAssumption DEF Owned
<1>4. Alone("operator", r) /\ rows[r].gid = NoGid
  BY OperatorAlone
<1>5. Touches(r, h)
  BY <1>3, <1>4 DEF Touches, engine
<1>6. RowFits(r)'
  BY DEF RowFits, Stocked, Attended
<1>7. \A v \in Workers \ {"operator"}: workers'[v] = workers[v]
  BY DEF Moves
<1>8. workers["operator"].at \notin Minted
  BY DEF OneWriter, OperatorFits, Minted
<1>9. ASSUME h \in Gids PROVE EngineFits(h)'
  <2>1. rows[r].gid # h /\ rows'[r].gid # h
    BY <1>4, <1>9, NoGidAssumption
  <2>2. Recording(h) => Recording(h)'
    BY <1>1, <1>7, DriversAreWorkers DEF Recording
  <2>3. Dispatching(h) => Dispatching(h)'
    BY <1>7, <1>8 DEF Dispatching
  <2> QED BY <1>9, <2>1, <2>2, <2>3, EngineLeft DEF engine
<1>10. Turns'
  BY <1>1, <1>7, TurnsKept DEF OneWriter, engine, Moves
<1> QED BY <1>1, <1>2, <1>3, <1>4, <1>5, <1>6, <1>7, <1>9, <1>10, LocalStep

LEMMA CalendarCreatesKeeps ==
  ASSUME DrainAlone, Inv, OneWriter, NEW g \in Grabs, CalendarCreates(g)
  PROVE  OneWriter'
<1>1. PICK until \in {"later", "never"}: Write(g, CreateHeld(until))
  BY DEF CalendarCreates
<1>2. /\ rows[g].status = "absent" /\ workers["request"].cur.row # g
      /\ UNCHANGED <<job, staging, callback, owner, workers, restarts>>
  BY DEF CalendarCreates, engine
<1>3. Shape(rows[g])
  BY DEF OneWriter, RowFits
<1>4. /\ rows'[g] = CreateHeld(until) /\ rows[g] = NoRow
      /\ \A k \in Grabs \ {g}: rows'[k] = rows[k]
  BY <1>1, <1>2, <1>3, Written DEF Shape
<1>5. rows'[g].gid = NoGid /\ rows'[g].status = "pending_retry" /\ rows[g].gid = NoGid
  BY <1>4 DEF CreateHeld, NoRow
<1>6. RowFits(g)'
  BY <1>4, <1>5, InsertsKeepShape DEF RowFits, Stocked, Attended
<1>7. Touches(g, NoGid)
  BY <1>2, <1>4, <1>5, NoGidAssumption DEF Touches
<1>8. "nobody" \notin Workers /\ Alone("nobody", g)
  BY <1>2, RequestAlone, TwoDrivers DEF Alone
<1>9. Turns'
  BY <1>2 DEF OneWriter, Turns, AtRest, Dead
<1> QED BY <1>2, <1>6, <1>7, <1>8, <1>9, NoGidAssumption, DriversAreWorkers, LocalStep

LEMMA OperatorBeginsKeeps ==
  ASSUME DrainAlone, Inv, OneWriter, OperatorBegins
  PROVE  OneWriter'
<1>1. \A g: ~Promote(g)
  BY DEF DrainAlone, Promote
<1>2. ASSUME NEW g \in Grabs, Unmonitor(g) \/ CalendarFinds(g) PROVE OneWriter'
  <2>1. /\ workers["operator"].at = "next" /\ UNCHANGED <<rows, engine, restarts>>
        /\ \/ "unmonitor" \in Operators /\ ~rows[g].url /\ rows[g].status = "pending_retry"
           \/ rows[g].hold # "none"
    BY <1>2 DEF Unmonitor, CalendarFinds, At
  <2>2. rows[g].status # "absent" /\ Shape(rows[g])
    BY <2>1 DEF OneWriter, RowFits, Shape, NoRow
  <2>3. rows[g].gid = NoGid /\ rows[g].status # "queued"
    BY <2>1, <2>2, OperatorAlone
  <2>4. PICK s: s = Snapshot(g)
    OBVIOUS
  <2>5. s.row = g
    BY <2>4 DEF Snapshot
  <2>6. PICK at: /\ Moves("operator", s, at, s)
                 /\ \/ /\ at = "unmonitor" /\ "unmonitor" \in Operators /\ ~rows[g].url
                    \/ at \in {"hold", "re-arm"} /\ rows[g].hold # "none"
    <3>1. CASE Unmonitor(g)
      BY <2>4, <3>1, Moving, DriversAreWorkers DEF Unmonitor
    <3>2. CASE CalendarFinds(g)
      BY <2>4, <3>2, Moving, DriversAreWorkers DEF CalendarFinds
    <3> QED BY <1>2, <3>1, <3>2
  <2>7. OperatorFits'
    BY <2>1, <2>2, <2>5, <2>6 DEF OperatorFits, Moves
  <2>8. workers["operator"].cur.row = NoGrab
    BY <2>1 DEF OneWriter, OperatorFits, NoSnapshot
  <2> QED BY <2>1, <2>2, <2>3, <2>6, <2>7, <2>8, OperatorStep
<1> QED BY <1>1, <1>2, CalendarCreatesKeeps, CancelKeeps DEF OperatorBegins

LEMMA OperatorGoesOnKeeps ==
  ASSUME DrainAlone, Inv, OneWriter, OperatorGoesOn
  PROVE  OneWriter'
<1>0. PICK s: s = workers["operator"].cur
  OBVIOUS
<1> DEFINE r == s.row
<1>1. /\ workers["operator"].at \in {"unmonitor", "failing", "hold", "re-arm"}
      /\ UNCHANGED <<engine, restarts>>
  BY DEF OperatorGoesOn, UnmonitorSchedules, Terminate, CalendarWrites, At
<1>2. /\ r \in Grabs
      /\ workers["operator"].at \in {"unmonitor", "failing"} =>
           "unmonitor" \in Operators /\ ~rows[r].url /\ rows[r].status # "absent"
      /\ workers["operator"].at \in {"hold", "re-arm"} => rows[r].hold # "none"
  BY <1>0, <1>1 DEF OneWriter, OperatorFits
<1>3. rows[r] \in Row /\ Shape(rows[r])
  BY <1>2, RowTyped DEF Inv, OneWriter, RowFits
<1>4. rows[r].status # "absent" /\ (~rows[r].url \/ rows[r].hold # "none")
  BY <1>1, <1>2, <1>3 DEF Shape, NoRow
<1>5. rows[r].gid = NoGid /\ rows[r].status # "queued"
  BY <1>2, <1>4, OperatorAlone
<1>6. CASE UnmonitorSchedules
  <2>1. /\ workers["operator"].at = "unmonitor" /\ Write(r, SetRetryAfter(rows[r], "due"))
        /\ Continue("operator", s, "failing")
    BY <1>0, <1>6 DEF UnmonitorSchedules, At
  <2>2. /\ rows'[r] = SetRetryAfter(rows[r], "due") /\ \A g \in Grabs \ {r}: rows'[g] = rows[g]
        /\ Moves("operator", s, "failing", s)
    BY <1>2, <2>1, Written, Moving, DriversAreWorkers
  <2>3. rows'[r].gid = NoGid
    BY <1>3, <1>5, <2>2 DEF Row, SetRetryAfter
  <2>4. Shape(rows'[r]) /\ ~rows'[r].url /\ rows'[r].status = rows[r].status
    BY <1>2, <1>3, <2>1, <2>2, UnmonitorKeepsShape
  <2>5. OperatorFits'
    BY <1>2, <1>4, <2>1, <2>2, <2>4 DEF OperatorFits, Moves
  <2> QED BY <1>0, <1>1, <1>2, <1>4, <1>5, <2>2, <2>3, <2>4, <2>5, OperatorStep
<1>7. CASE Terminate("operator")
  <2>1. /\ workers["operator"].at = "failing" /\ Write(r, UpdateStatus(rows[r], "failed"))
        /\ Finish("operator", s)
    BY <1>0, <1>7 DEF Terminate, At
  <2>2. /\ rows'[r] = UpdateStatus(rows[r], "failed") /\ \A g \in Grabs \ {r}: rows'[g] = rows[g]
        /\ Moves("operator", s, "next", NoSnapshot)
    BY <1>2, <2>1, Written, Moving, DriversAreWorkers
  <2>3. rows'[r].gid = NoGid /\ rows'[r].status = "failed"
    BY <1>3, <1>5, <2>2 DEF Row, UpdateStatus
  <2>4. Shape(rows'[r])
    BY <1>2, <1>3, <2>1, <2>2, UnmonitorKeepsShape
  <2>5. OperatorFits'
    BY <2>2 DEF OperatorFits, Moves
  <2> QED BY <1>0, <1>1, <1>2, <1>4, <2>2, <2>3, <2>4, <2>5, OperatorStep
<1>8. CASE CalendarWrites
  <2>1. PICK until \in {"later", "never", "due"}:
          /\ workers["operator"].at \in {"hold", "re-arm"}
          /\ \/ Write(r, RearmHeldRequest(rows[r], until))
             \/ Write(r, SetHoldUntil(rows[r], until))
          /\ Finish("operator", s)
    BY <1>0, <1>8 DEF CalendarWrites, At
  <2>2. /\ rows'[r] \in {RearmHeldRequest(rows[r], until), SetHoldUntil(rows[r], until)}
        /\ \A g \in Grabs \ {r}: rows'[g] = rows[g]
        /\ Moves("operator", s, "next", NoSnapshot)
    BY <1>2, <2>1, Written, Moving, DriversAreWorkers
  <2>3. rows'[r].gid = NoGid /\ rows'[r].status # "queued"
    <3>1. CASE rows'[r] = SetHoldUntil(rows[r], until)
      BY <1>3, <1>5, <3>1 DEF Row, SetHoldUntil
    <3>2. CASE rows'[r] = RearmHeldRequest(rows[r], until)
      BY <1>3, <1>5, <3>2 DEF Row, RearmHeldRequest
    <3> QED BY <2>2, <3>1, <3>2
  <2>4. Shape(rows'[r])
    BY <1>2, <1>3, <2>1, <2>2, HoldsKeepShape
  <2>5. OperatorFits'
    BY <2>2 DEF OperatorFits, Moves
  <2> QED BY <1>0, <1>1, <1>2, <1>4, <2>2, <2>3, <2>4, <2>5, OperatorStep
<1> QED BY <1>6, <1>7, <1>8 DEF OperatorGoesOn

-----------------------------------------------------------------------------
(* Time and restarts *)

\* What the passage of time may do to a row.
Ages(row, new) ==
  /\ new.status = row.status /\ new.gid = row.gid /\ new.transport = row.transport
  /\ new.url = row.url /\ new.tried = row.tried /\ new.pick = row.pick
  /\ new.retryAfter = "none" <=> row.retryAfter = "none"
  /\ new.hold = "none" <=> row.hold = "none"
  /\ row.retryAfter = "due" => new.retryAfter = "due"
  /\ row.hold = "due" => new.hold = "due"
  /\ Shape(new)

\* Nobody's claim to a row is lost with time.
LEMMA AgingKeeps ==
  ASSUME Inv, OneWriter, UNCHANGED <<job, staging, callback, owner, workers, restarts>>,
         \A g \in Grabs: Ages(rows[g], rows'[g])
  PROVE  OneWriter'
<1>1. ASSUME NEW g \in Grabs
      PROVE  /\ InFlight(rows[g]) => InFlight(rows'[g])
             /\ DueForResume(rows[g]) => DueForResume(rows'[g])
             /\ DueForRetry(rows[g]) => DueForRetry(rows'[g])
             /\ DueForRelease(rows[g]) => DueForRelease(rows'[g])
             /\ Held(rows[g]) => Held(rows'[g])
             /\ rows'[g].status = rows[g].status /\ rows'[g].gid = rows[g].gid
             /\ rows'[g].url = rows[g].url
             /\ rows[g].hold # "none" => rows'[g].hold # "none"
             /\ Shape(rows'[g])
  BY DEF Ages, InFlight, DueForResume, DueForRetry, DueForRelease, Held
<1>2. ASSUME NEW g \in Grabs PROVE Snapshot(g)' = Snapshot(g)
  BY DEF Snapshot, Ages
<1>3. ASSUME NEW g \in Grabs, NEW p, Selects(p, g) PROVE Selects(p, g)'
  BY <1>1, <1>3 DEF Selects, Ages
<1>4. ASSUME NEW g \in Grabs PROVE RowFits(g)'
  BY <1>1 DEF OneWriter, RowFits, Stocked, Attended
<1>5. ASSUME NEW v \in Drivers PROVE DriverFits(v)'
  <2>1. v \in Workers /\ DriverFits(v)
    BY DriversAreWorkers DEF OneWriter
  <2>2. PICK p, at, c: p = workers[v].pass /\ at = workers[v].at /\ c = workers[v].cur
    OBVIOUS
  <2>3. ASSUME NEW s \in workers[v].todo PROVE Listed(p, s)'
    <3>1. Listed(p, s) /\ s.row \in Grabs
      BY <2>1, <2>2, InHand DEF DriverFits, Inv, Snapshots
    <3> QED BY <1>2, <1>3, <3>1 DEF Listed, Dead
  <2>4. at # "next" => Handles(at, c)'
    <3>1. at # "next" => Handles(at, c)
      BY <2>1, <2>2 DEF DriverFits
    <3> QED BY <1>1, <1>2, <3>1 DEF Handles, Dead, Quiet
  <2>5. DriverFits(v)' <=>
          /\ p \in Rounds(v) /\ at \in DriverSteps
          /\ \A s \in workers[v].todo: Listed(p, s)' /\ s.row # c.row
          /\ at = "next" => c = NoSnapshot
          /\ at # "next" => Handles(at, c)'
          /\ HandStocked(v)
    BY <2>2 DEF DriverFits, Listed, Handles, HandStocked
  <2> QED BY <2>1, <2>2, <2>3, <2>4, <2>5 DEF DriverFits
<1>6. RequestFits' /\ OperatorFits'
  BY <1>1 DEF OneWriter, RequestFits, OperatorFits, Quiet, HandStocked
<1>7. ASSUME NEW h \in Gids PROVE EngineFits(h)'
  <2>1. /\ Recording(h)' <=> Recording(h)
        /\ Dispatching(h)' <=> Dispatching(h)
    BY DEF Recording, Dispatching
  <2>2. EngineFits(h)
    BY DEF OneWriter
  <2> QED BY <1>1, <1>2, <2>1, <2>2 DEF EngineFits
<1>8. Turns'
  BY DEF OneWriter, Turns, AtRest, Dead
<1> QED BY <1>4, <1>5, <1>6, <1>7, <1>8 DEF OneWriter

LEMMA TickKeeps ==
  ASSUME Inv, OneWriter, NEW g \in Grabs, Tick(g)
  PROVE  OneWriter'
<1>1. rows[g] \in Row /\ \A k \in Grabs: rows[k] \in Row /\ Shape(rows[k])
  BY RowTyped DEF Inv, OneWriter, RowFits
<1>2. /\ \A k \in Grabs \ {g}: rows'[k] = rows[k]
      /\ \/ rows[g].retryAfter = "later" /\ rows'[g] = [rows[g] EXCEPT !.retryAfter = "due"]
         \/ rows[g].hold = "later" /\ rows'[g] = [rows[g] EXCEPT !.hold = "due"]
  BY Written DEF Tick
<1>3. Shape(rows'[g])
  BY <1>1, <1>2, TickKeepsShape
<1>4. Ages(rows[g], rows'[g])
  BY <1>1, <1>2, <1>3 DEF Ages, Row
<1>5. \A k \in Grabs \ {g}: Ages(rows[k], rows'[k])
  BY <1>1, <1>2 DEF Ages
<1> QED BY <1>4, <1>5, AgingKeeps DEF Tick, engine

LEMMA RestartKeeps ==
  ASSUME Inv, OneWriter, Restart
  PROVE  OneWriter'
<1>1. /\ \A w \in Workers: /\ workers'[w].at = "next" /\ workers'[w].todo = {}
                           /\ workers'[w].cur = NoSnapshot
                           /\ workers'[w].pass = IF w = "boot" THEN "start" ELSE "idle"
      /\ \A h \in Gids: job'[h] = "none" /\ callback'[h].state = "none"
      /\ restarts' # 0 /\ UNCHANGED <<staging, owner>>
  BY MaxRestartsAssumption DEF Restart, Idle, NoCallback, Inv
<1>2. ASSUME NEW g \in Grabs PROVE RowFits(g)'
  <2>1. /\ rows[g] \in Row /\ RowFits(g)
        /\ \/ rows'[g] = rows[g]
           \/ /\ rows'[g] = ParkForShutdownResume(rows[g])
              /\ rows[g].status = "queued" /\ rows[g].gid # NoGid
    BY RowTyped DEF Restart, Inv, OneWriter
  <2>2. CASE rows'[g] = rows[g]
    BY <1>1, <2>1, <2>2 DEF RowFits, Stocked, Attended
  <2>3. CASE /\ rows'[g] = ParkForShutdownResume(rows[g])
             /\ rows[g].status = "queued" /\ rows[g].gid # NoGid
    <3>1. Shape(rows'[g])
      <4>1. Plain(rows[g])
        BY <2>1, <2>3, RowsWithGid DEF RowFits
      <4> QED BY <2>1, <2>3, <4>1, ParksKeepShape DEF Plain
    <3>2. rows'[g].gid = rows[g].gid /\ rows'[g].status = "pending_retry"
      BY <2>1, <2>3 DEF Row, ParkForShutdownResume
    <3> QED BY <1>1, <2>1, <2>3, <3>1, <3>2 DEF RowFits, Stocked, Attended
  <2> QED BY <2>1, <2>2, <2>3
<1>3. ASSUME NEW w \in Drivers PROVE DriverFits(w)'
  BY <1>1, DriversAreWorkers DEF DriverFits, DriverSteps, Rounds, HandStocked, Minted
<1>4. RequestFits' /\ OperatorFits'
  BY <1>1, DriversAreWorkers DEF RequestFits, RequestSteps, OperatorFits, HandStocked, Minted
<1>5. ASSUME NEW h \in Gids PROVE EngineFits(h)'
  BY <1>1, EngineAtRest DEF Live
<1>6. Turns'
  <2>1. "boot" \in Workers
    BY DEF Workers, Drivers
  <2> QED BY <1>1, <2>1 DEF Turns, AtRest, Dead
<1> QED BY <1>2, <1>3, <1>4, <1>5, <1>6 DEF OneWriter

LEMMA OneWriterInit == Init => OneWriter
<1> SUFFICES ASSUME Init PROVE OneWriter
  OBVIOUS
<1>1. /\ \A w \in Workers: /\ workers[w].at = "next" /\ workers[w].todo = {}
                           /\ workers[w].cur = NoSnapshot
                           /\ workers[w].pass = IF w = "boot" THEN "done" ELSE "idle"
      /\ \A h \in Gids: job[h] = "none" /\ callback[h].state = "none"
      /\ \A g \in Grabs: rows[g] = NoRow
  BY DEF Init, Idle, NoCallback
<1>2. ASSUME NEW g \in Grabs PROVE RowFits(g)
  BY <1>1, InsertsKeepShape DEF RowFits, Stocked, Attended, NoRow
<1>3. ASSUME NEW w \in Drivers PROVE DriverFits(w)
  BY <1>1, DriversAreWorkers DEF DriverFits, DriverSteps, Rounds, HandStocked, Minted
<1>4. RequestFits /\ OperatorFits
  BY <1>1, DriversAreWorkers DEF RequestFits, RequestSteps, OperatorFits, HandStocked, Minted
<1>5. ASSUME NEW h \in Gids PROVE EngineFits(h)
  BY <1>1 DEF EngineFits, Live
<1>6. Turns
  <2>1. "boot" \in Workers
    BY DEF Workers, Drivers
  <2> QED BY <1>1, <2>1 DEF Turns, AtRest
<1> QED BY <1>2, <1>3, <1>4, <1>5, <1>6 DEF OneWriter

LEMMA OneWriterNext ==
  ASSUME DrainAlone, Inv, OneWriter, [Next]_vars
  PROVE  OneWriter'
<1>1. Inv'
  BY InvNext
<1>2. CASE UNCHANGED vars
  <2>1. \A g \in Grabs: Ages(rows[g], rows'[g])
    BY <1>2 DEF vars, OneWriter, RowFits, Ages
  <2> QED BY <1>2, <2>1, AgingKeeps DEF vars
<1>3. CASE Next
  BY <1>1, <1>3, WorkKeeps, NewRequestKeeps, RequestGoesOnKeeps, EngineKeeps, CallbackKeeps,
     OperatorBeginsKeeps, OperatorGoesOnKeeps, TickKeeps, RestartKeeps
  DEF Next
<1> QED BY <1>2, <1>3

LEMMA OneWriterHolds ==
  ASSUME DrainAlone
  PROVE  Spec => []OneWriter
<1>1. Inv /\ OneWriter /\ [Next]_vars => OneWriter'
  BY OneWriterNext
<1> QED BY <1>1, OneWriterInit, InvHolds, PTL DEF Spec

-----------------------------------------------------------------------------
(* What follows at every state *)

\* A GID about to be recorded is for a row that has none.
LEMMA DispatchedRow ==
  ASSUME Inv, OneWriter, NEW w \in Workers, workers[w].at \in Minted,
         NEW h \in Gids, workers[w].cur.gid = h
  PROVE  /\ owner[h] = workers[w].cur.row /\ owner[h] \in Grabs
         /\ rows[owner[h]].gid = NoGid
         /\ \/ w \in Drivers /\ rows[owner[h]].status = "pending_retry"
            \/ w = "request" /\ rows[owner[h]].status \in {"absent", "queued"}
<1> DEFINE c == workers[w].cur
<1>1. owner[h] = c.row
  BY InHand, NoGidAssumption DEF Inv, Owned
<1>2. CASE w \in Drivers
  <2>1. c.row \in Grabs /\ DueForRetry(rows[c.row])
    BY <1>2 DEF OneWriter, DriverFits, DriverSteps, Handles, Minted
  <2> QED BY <1>1, <1>2, <2>1 DEF DueForRetry
<1>3. CASE w = "request"
  <2>1. /\ c.row \in Grabs
        /\ \/ rows[c.row].status = "absent"
           \/ rows[c.row].status = "queued" /\ rows[c.row].gid = NoGid
    BY <1>3 DEF OneWriter, RequestFits, Minted
  <2>2. rows[c.row].status = "absent" => rows[c.row].gid = NoGid
    BY <2>1 DEF OneWriter, RowFits, Shape, NoRow
  <2> QED BY <1>1, <1>3, <2>1, <2>2
<1>4. w # "operator"
  BY DEF OneWriter, OperatorFits, Minted
<1> QED BY <1>2, <1>3, <1>4 DEF Workers

LEMMA OneLive ==
  ASSUME DrainAlone, Inv, OneWriter
  PROVE  OneLiveDownloadPerGrab
<1> SUFFICES ASSUME NEW h \in Gids, NEW k \in Gids, job[h] \in Live, job[k] \in Live,
                    owner[h] = owner[k]
             PROVE  h = k
  BY DEF OneLiveDownloadPerGrab
<1>1. /\ rows[owner[h]].gid = h \/ Dispatching(h)
      /\ rows[owner[k]].gid = k \/ Dispatching(k)
  BY DEF OneWriter, EngineFits
<1>2. h # NoGid /\ k # NoGid
  BY NoGidAssumption
<1>3. ASSUME Dispatching(h) PROVE h = k
  <2>1. PICK v \in Workers: workers[v].cur.gid = h /\ workers[v].at \in Minted
    BY <1>3 DEF Dispatching
  <2>2. rows[owner[k]].gid = NoGid
    BY <2>1, DispatchedRow
  <2>3. PICK w \in Workers: workers[w].cur.gid = k /\ workers[w].at \in Minted
    BY <1>1, <1>2, <2>2 DEF Dispatching
  <2>4. \/ v \in Drivers /\ w \in Drivers
        \/ v = "request" /\ w = "request"
    BY <2>1, <2>3, DispatchedRow
  <2>5. v = w
    <3>1. "next" \notin Minted
      BY DEF Minted
    <3> QED BY <2>1, <2>3, <2>4, <3>1, OthersAtRest DEF AtRest, OneWriter
  <2> QED BY <2>1, <2>3, <2>5
<1>4. ASSUME Dispatching(k) PROVE rows[owner[h]].gid = NoGid
  BY <1>4, DispatchedRow DEF Dispatching
<1> QED BY <1>1, <1>2, <1>3, <1>4

\* With the drain as the only loop, no title is downloaded twice at once, whatever the
\* interleaving of its passes with requests, callbacks, cancels and restarts: a GID at
\* work is on the row it was minted for, or in the hand of the one worker who will put
\* it there (redispatchSearchPicks, RunAutoGrab, grabHandler).
THEOREM DrainDispatchesOnce ==
  ASSUME DrainAlone
  PROVE  Spec => []OneLiveDownloadPerGrab
<1>1. Inv /\ OneWriter => OneLiveDownloadPerGrab
  BY OneLive
<1> QED BY <1>1, InvHolds, OneWriterHolds, PTL

\* While the process runs on, a queued row without a GID is still the request's that
\* made it (grabHandler creates the row before it records the GID). A restart between
\* the two writes leaves the row queued for ever.
THEOREM QueuedRowsAttended ==
  ASSUME DrainAlone, MaxRestarts = 0
  PROVE  Spec => []QueuedRowHasDownload
<1>1. Inv /\ OneWriter => QueuedRowHasDownload
  BY MaxRestartsAssumption DEF Inv, OneWriter, RowFits, Attended, QueuedRowHasDownload
<1> QED BY <1>1, InvHolds, OneWriterHolds, PTL

\* Every park leaves a row on a schedule some loop reads (SetPendingRetry, the transport
\* and alternate-release parks, HoldForRelease, the Calendar's holds), unless the operator
\* un-monitors a title, which takes two writes.
THEOREM ParkedRowsScheduled ==
  ASSUME DrainAlone, "unmonitor" \notin Operators
  PROVE  Spec => []ParkedRowIsScheduled
<1>1. ASSUME OneWriter PROVE ParkedRowIsScheduled
  <2>1. ASSUME NEW g \in Grabs, rows[g].status = "pending_retry"
        PROVE  IF rows[g].retryAfter = "none" THEN Held(rows[g]) ELSE rows[g].hold # "never"
    <3>1. Shape(rows[g])
      BY <1>1 DEF OneWriter, RowFits
    <3> QED BY <2>1, <3>1 DEF Shape, Held
  <2> QED BY <2>1 DEF ParkedRowIsScheduled
<1>2. OneWriter => ParkedRowIsScheduled
  BY <1>1
<1> QED BY <1>2, OneWriterHolds, PTL

\* The transport ladder never takes more rungs than it has: the rung a pass or a callback
\* counts from is the one the row is on (resumeDueTransportRetries, applyUsenetFailure).
THEOREM RungsBounded ==
  ASSUME DrainAlone
  PROVE  Spec => []TransportRungsBounded
<1>1. OneWriter => TransportRungsBounded
  BY DEF OneWriter, RowFits, Shape, TransportRungsBounded
<1> QED BY <1>1, OneWriterHolds, PTL

\* A row waiting to resume has its staging directory, however often the process has been
\* restarted; only the operator's cancel takes it away.
THEOREM ResumablesStocked ==
  ASSUME DrainAlone, "cancel" \notin Operators
  PROVE  Spec => []ResumableHasStaging
<1>1. OneWriter => ResumableHasStaging
  BY DEF OneWriter, RowFits, Stocked, ResumableHasStaging
<1> QED BY <1>1, OneWriterHolds, PTL

-----------------------------------------------------------------------------
(* What a step may do to a row *)

\* Finished rows stay so, rungs follow the download, and a GID is let go when its
\* download no longer runs.
RowKept(g) ==
  /\ rows[g].status = "imported" => rows'[g].status = "imported"
  /\ rows[g].status = "failed" =>
       \/ rows'[g].status = "failed"
       \/ \E until \in HoldStamp: rows'[g] = RearmHeldRequest(rows[g], until)
  /\ rows'[g].transport > rows[g].transport =>
       \/ rows[g].status = "queued"
       \/ rows[g].status = "pending_retry" /\ rows[g].retryAfter = "due"
  /\ rows'[g].transport < rows[g].transport => rows'[g].gid # rows[g].gid
  /\ rows[g].gid # NoGid /\ rows'[g].gid # rows[g].gid => job'[rows[g].gid] \notin Live

Unfinished(row) == row.status \in {"queued", "pending_retry"}

LEMMA SameRungsKept ==
  ASSUME NEW g, rows[g] \in Row, rows'[g].status = rows[g].status,
         rows'[g].gid = rows[g].gid, rows'[g].transport = rows[g].transport
  PROVE  RowKept(g)
<1>1. rows[g].transport \in Nat
  BY DEF Row
<1> QED BY <1>1 DEF RowKept

LEMMA SameRowsKept ==
  ASSUME Inv, UNCHANGED rows
  PROVE  \A g \in Grabs: RowKept(g)
BY SameRungsKept, RowTyped DEF Inv

LEMMA WrittenKept ==
  ASSUME Inv, NEW r \in Grabs, NEW row, Write(r, row), rows'[r] = row => RowKept(r)
  PROVE  \A g \in Grabs: RowKept(g)
<1>1. rows'[r] = row /\ \A g \in Grabs \ {r}: rows'[g] = rows[g]
  BY Written
<1>2. \A g \in Grabs \ {r}: RowKept(g)
  BY <1>1, SameRungsKept, RowTyped DEF Inv
<1> QED BY <1>1, <1>2

LEMMA InsertKept ==
  ASSUME NEW g, rows[g] = NoRow,
         rows'[g] \in {CreateQueued, CreatePendingRetry} \union {CreateHeld(until): until \in HoldStamp}
  PROVE  RowKept(g)
<1>1. rows'[g].transport = 0
  BY DEF NoRow, CreateQueued, CreatePendingRetry, CreateHeld
<1> QED BY <1>1 DEF NoRow, RowKept

LEMMA ParkKept ==
  ASSUME NEW g, rows[g] \in Row, Shape(rows[g]), Unfinished(rows[g]),
         rows[g].gid # NoGid => job'[rows[g].gid] \notin Live,
         rows'[g] \in {SetPendingRetry(rows[g]), ParkForAlternateRelease(rows[g])}
  PROVE  RowKept(g)
<1>1. rows'[g].transport = 0 /\ rows'[g].gid = NoGid
  BY DEF Row, SetPendingRetry, ParkForAlternateRelease
<1>2. rows[g].transport \in Nat /\ (rows[g].gid = NoGid => rows[g].transport = 0)
  BY DEF Row, Shape
<1> QED BY <1>1, <1>2 DEF RowKept, Unfinished

LEMMA RungKept ==
  ASSUME NEW g, rows[g] \in Row,
         \/ rows[g].status = "queued"
         \/ rows[g].status = "pending_retry" /\ rows[g].retryAfter = "due",
         rows'[g] = ParkForTransportResume(rows[g])
  PROVE  RowKept(g)
<1>1. rows'[g].transport = rows[g].transport + 1 /\ rows'[g].gid = rows[g].gid
  BY DEF Row, ParkForTransportResume
<1>2. rows[g].transport \in Nat
  BY DEF Row
<1> QED BY <1>1, <1>2 DEF RowKept

LEMMA RecordKept ==
  ASSUME NEW g, rows[g] \in Row, Shape(rows[g]), Unfinished(rows[g]),
         NEW h, rows[g].gid \in {NoGid, h},
         rows'[g] \in {Relaunch(rows[g], h), SetDownloadGID(rows[g], h), SetOrigin(rows[g]),
                       MarkImportedIfNot(rows[g]), UpdateStatus(rows[g], "failed"),
                       UpdateStatus(rows[g], "queued")}
  PROVE  RowKept(g)
<1>1. rows[g].transport \in Nat /\ (rows[g].gid = NoGid => rows[g].transport = 0)
  BY DEF Row, Shape
<1>2. /\ rows'[g].transport = rows[g].transport
      /\ rows[g].gid # NoGid => rows'[g].gid = rows[g].gid
  <2>1. CASE rows'[g] = Relaunch(rows[g], h)
    BY <1>1, <2>1 DEF Row, Relaunch
  <2>2. CASE rows'[g] = SetDownloadGID(rows[g], h)
    BY <2>2 DEF Row, SetDownloadGID
  <2>3. CASE rows'[g] \in {SetOrigin(rows[g]), MarkImportedIfNot(rows[g]),
                           UpdateStatus(rows[g], "failed"), UpdateStatus(rows[g], "queued")}
    BY <2>3 DEF Row, SetOrigin, MarkImportedIfNot, UpdateStatus
  <2> QED BY <2>1, <2>2, <2>3
<1> QED BY <1>1, <1>2 DEF RowKept, Unfinished

\* A row a driver serves is under way or parked.
LEMMA ServedUnfinished ==
  ASSUME Inv, OneWriter, NEW w \in Drivers, NEW s, Serves(w, s)
  PROVE  Unfinished(rows[s.row])
<1>1. DriverFits(w)
  BY DEF OneWriter
<1>2. CASE workers[w].at = "next" /\ s \in workers[w].todo
  BY <1>1, <1>2
  DEF DriverFits, Listed, Rounds, Selects, InFlight, DueForResume, DueForRetry, Unfinished
<1>3. CASE workers[w].at # "next" /\ s = workers[w].cur
  BY <1>1, <1>3
  DEF DriverFits, DriverSteps, Handles, InFlight, DueForResume, DueForRetry, Unfinished
<1> QED BY <1>2, <1>3 DEF Serves

LEMMA ServedWrites ==
  ASSUME Inv, OneWriter, NEW w \in Drivers, NEW s, Serves(w, s)
  PROVE  /\ /\ \/ Write(s.row, SetPendingRetry(rows[s.row]))
               \/ Write(s.row, ParkForAlternateRelease(rows[s.row]))
            /\ rows[s.row].gid # NoGid => job'[s.gid] \notin Live
            => \A g \in Grabs: RowKept(g)
         /\ \/ Write(s.row, Relaunch(rows[s.row], s.gid))
            \/ Write(s.row, SetDownloadGID(rows[s.row], s.gid))
            \/ Write(s.row, MarkImportedIfNot(rows[s.row]))
            \/ Write(s.row, UpdateStatus(rows[s.row], "queued"))
            => \A g \in Grabs: RowKept(g)
         /\ rows[s.row].retryAfter = "due" /\ Write(s.row, ParkForTransportResume(rows[s.row]))
            => \A g \in Grabs: RowKept(g)
<1> DEFINE r == s.row
<1>1. /\ r \in Grabs /\ rows[r] \in Row /\ Shape(rows[r]) /\ Unfinished(rows[r])
      /\ rows[r].gid \in {NoGid, s.gid}
  BY ServedRow, ServedUnfinished DEF Plain
<1>2. ASSUME \/ Write(r, SetPendingRetry(rows[r]))
             \/ Write(r, ParkForAlternateRelease(rows[r])),
             rows[r].gid # NoGid => job'[s.gid] \notin Live
      PROVE  \A g \in Grabs: RowKept(g)
  BY <1>1, <1>2, ParkKept, WrittenKept
<1>3. ASSUME \/ Write(r, Relaunch(rows[r], s.gid))
             \/ Write(r, SetDownloadGID(rows[r], s.gid))
             \/ Write(r, MarkImportedIfNot(rows[r]))
             \/ Write(r, UpdateStatus(rows[r], "queued"))
      PROVE  \A g \in Grabs: RowKept(g)
  BY <1>1, <1>3, RecordKept, WrittenKept
<1>4. ASSUME rows[r].retryAfter = "due", Write(r, ParkForTransportResume(rows[r]))
      PROVE  \A g \in Grabs: RowKept(g)
  BY <1>1, <1>4, RungKept, WrittenKept DEF Unfinished
<1> QED BY <1>2, <1>3, <1>4

LEMMA ReconcileRows ==
  ASSUME DrainAlone, Inv, OneWriter, NEW w \in Drivers, Reconcile(w)
  PROVE  \A g \in Grabs: RowKept(g)
<1>1. ASSUME UNCHANGED rows PROVE \A g \in Grabs: RowKept(g)
  BY <1>1, SameRowsKept
<1>2. ASSUME NEW s \in workers[w].todo, ReconcileFindsHollow(w, s) \/ ReconcileFetchFails(w, s)
      PROVE  \A g \in Grabs: RowKept(g)
  <2>1. Takes(w, "reconcile", s) /\ Serves(w, s) /\ job[s.gid] = "none"
    BY <1>2 DEF ReconcileFindsHollow, ReconcileFetchFails, Takes, Serves
  <2>2. s.row \in Grabs /\ s.gid \in Gids
    BY <2>1, ServedRow, ListedRow DEF Takes
  <2>3. CASE ParkContentFailure(s)
    <3>1. job'[s.gid] = "none" /\ Write(s.row, ParkForAlternateRelease(rows[s.row]))
      BY <2>1, <2>2, <2>3, ContentParked DEF Live, ParkContentFailure
    <3> QED BY <2>1, <3>1, ServedWrites DEF Live
  <2>4. CASE Write(s.row, SetPendingRetry(rows[s.row])) /\ UNCHANGED job
    BY <2>1, <2>4, ServedWrites DEF Live
  <2> QED BY <1>1, <1>2, <2>3, <2>4 DEF ReconcileFindsHollow, ReconcileFetchFails, engine
<1>3. ASSUME ReconcileImports(w) \/ RestoreRejected(w) PROVE \A g \in Grabs: RowKept(g)
  <2>0. PICK s: s = workers[w].cur
    OBVIOUS
  <2>1. workers[w].at \in {"importing", "restoring"} /\ Serves(w, s)
    BY <1>3, <2>0 DEF ReconcileImports, RestoreRejected, At, Serves
  <2>2. /\ s.row \in Grabs /\ s.gid \in Gids
        /\ workers[w].at = "importing" => job[s.gid] = "none"
    BY <2>0, <2>1 DEF OneWriter, DriverFits, Handles, Dead
  <2>3. CASE ReconcileImports(w)
    <3>1. /\ job[s.gid] = "none"
          /\ \/ Write(s.row, MarkImportedIfNot(rows[s.row]))
             \/ ParkContentFailure(s)
             \/ UNCHANGED rows
             \/ Write(s.row, SetPendingRetry(rows[s.row])) /\ UNCHANGED job
      BY <2>0, <2>2, <2>3 DEF ReconcileImports, At
    <3>2. ASSUME ParkContentFailure(s)
          PROVE  job'[s.gid] = "none" /\ Write(s.row, ParkForAlternateRelease(rows[s.row]))
      BY <2>2, <3>1, <3>2, ContentParked DEF Live, ParkContentFailure
    <3> QED BY <1>1, <2>1, <3>1, <3>2, ServedWrites DEF Live
  <2>4. CASE RestoreRejected(w)
    <3>1. job'[s.gid] = "none" /\ (Write(s.row, SetPendingRetry(rows[s.row])) \/ UNCHANGED rows)
      BY <2>0, <2>2, <2>4, EngineWritten DEF RestoreRejected
    <3> QED BY <1>1, <2>1, <3>1, ServedWrites DEF Live
  <2> QED BY <1>3, <2>3, <2>4
<1> QED BY <1>1, <1>2, <1>3
    DEF Reconcile, ReconcileSkips, ReconcileStartsImport, ReconcileRelaunches, Restored

LEMMA ResumeRows ==
  ASSUME DrainAlone, Inv, OneWriter, NEW w \in Drivers, Resume(w)
  PROVE  \A g \in Grabs: RowKept(g)
<1>1. ASSUME UNCHANGED rows PROVE \A g \in Grabs: RowKept(g)
  BY <1>1, SameRowsKept
<1>2. ASSUME NEW s, Serves(w, s), s.gid \in Gids, DueForResume(rows[s.row]), DropJob(s.gid),
             Write(s.row, SetPendingRetry(rows[s.row])) \/ ParkNextRung(s)
      PROVE  \A g \in Grabs: RowKept(g)
  <2>1. job'[s.gid] = "none"
    BY <1>2, EngineWritten
  <2>2. \/ Write(s.row, SetPendingRetry(rows[s.row]))
        \/ Write(s.row, ParkForTransportResume(rows[s.row]))
    BY <1>2 DEF ParkNextRung
  <2> QED BY <1>2, <2>1, <2>2, ServedWrites DEF Live, DueForResume
<1>3. ASSUME NEW s \in workers[w].todo, ResumeFindsLive(w, s) \/ ResumeFetchFails(w, s)
      PROVE  \A g \in Grabs: RowKept(g)
  <2>1. Takes(w, "resume", s) /\ Serves(w, s)
    BY <1>3 DEF ResumeFindsLive, ResumeFetchFails, Takes, Serves
  <2>2. s.gid \in Gids /\ DueForResume(rows[s.row])
    BY <2>1, ListedRow DEF Takes
  <2> QED BY <1>2, <1>3, <2>1, <2>2, ServedWrites DEF ResumeFindsLive, ResumeFetchFails
<1>4. ASSUME ResumeRejected(w) \/ Rearm(w) PROVE \A g \in Grabs: RowKept(g)
  <2>0. PICK s: s = workers[w].cur
    OBVIOUS
  <2>1. workers[w].at \in {"resuming", "rearm"} /\ Serves(w, s)
    BY <1>4, <2>0 DEF ResumeRejected, Rearm, At, Serves
  <2>2. s.gid \in Gids /\ DueForResume(rows[s.row])
    BY <2>0, <2>1 DEF OneWriter, DriverFits, Handles
  <2> QED BY <1>2, <1>4, <2>0, <2>1, <2>2, ServedWrites DEF ResumeRejected, Rearm
<1> QED BY <1>1, <1>3, <1>4 DEF Resume, ResumeRelaunches, Resumed

LEMMA AutoGrabRows ==
  ASSUME DrainAlone, Inv, OneWriter, NEW w \in Drivers, AutoGrab(w)
  PROVE  \A g \in Grabs: RowKept(g)
<1>1. ASSUME UNCHANGED rows PROVE \A g \in Grabs: RowKept(g)
  BY <1>1, SameRowsKept
<1>2. ASSUME NEW s \in workers[w].todo, GateBlocks(w, s) \/ SearchParks(w, s)
      PROVE  \A g \in Grabs: RowKept(g)
  <2>1. Takes(w, workers[w].pass, s) /\ workers[w].pass \in SearchPasses /\ Serves(w, s)
    BY <1>2 DEF GateBlocks, SearchParks, Takes, Serves
  <2>2. DueForRetry(rows[s.row]) /\ s.row \in Grabs /\ rows[s.row] \in Row
    BY <2>1, ListedRow, ServedRow DEF SearchPasses
  <2>3. CASE GateBlocks(w, s)
    <3>1. PICK until: Write(s.row, HoldForRelease(rows[s.row], until))
      BY <2>3 DEF GateBlocks
    <3>2. /\ HoldForRelease(rows[s.row], until).status = rows[s.row].status
          /\ HoldForRelease(rows[s.row], until).gid = rows[s.row].gid
          /\ HoldForRelease(rows[s.row], until).transport = rows[s.row].transport
      BY <2>2 DEF Row, HoldForRelease
    <3> QED BY <2>2, <3>1, <3>2, SameRungsKept, WrittenKept
  <2>4. CASE SearchParks(w, s)
    BY <2>1, <2>2, <2>4, ServedWrites DEF SearchParks, DueForRetry
  <2> QED BY <1>2, <2>3, <2>4
<1>3. ASSUME DispatchRejected(w) \/ RecordDispatch(w) \/ PickSetsGid(w) \/ PickQueues(w)
      PROVE  \A g \in Grabs: RowKept(g)
  <2>0. PICK s: s = workers[w].cur
    OBVIOUS
  <2>1. Serves(w, s)
    BY <1>3, <2>0 DEF DispatchRejected, RecordDispatch, PickSetsGid, PickQueues, At, Serves
  <2>2. CASE DispatchRejected(w)
    <3>1. rows[s.row].gid = NoGid
      BY <2>0, <2>2 DEF DispatchRejected, At, OneWriter, DriverFits, Handles, DueForRetry
    <3>2. UNCHANGED rows \/ Write(s.row, SetPendingRetry(rows[s.row]))
      BY <2>0, <2>2 DEF DispatchRejected
    <3> QED BY <1>1, <2>1, <3>1, <3>2, ServedWrites
  <2> QED BY <1>3, <2>0, <2>1, <2>2, ServedWrites DEF RecordDispatch, PickSetsGid, PickQueues
<1> QED BY <1>1, <1>2, <1>3
    DEF AutoGrab, SearchDispatches, PickFetchFails, DispatchPrechecked

LEMMA WorkRows ==
  ASSUME DrainAlone, Inv, OneWriter, NEW w \in Drivers, Work(w)
  PROVE  \A g \in Grabs: RowKept(g)
<1>1. ASSUME UNCHANGED rows PROVE \A g \in Grabs: RowKept(g)
  BY <1>1, SameRowsKept
<1>2. ASSUME Schedule(w) PROVE \A g \in Grabs: RowKept(g)
  <2>1. /\ \A s \in workers[w].todo: workers[w].pass \notin {"sweep", "refresh", "release"}
        /\ ~Terminate(w)
    BY ListedRow DEF OneWriter, DriverFits, DriverSteps, Terminate, At
  <2>2. PICK s \in workers[w].todo: Hygiene(w, s)
    BY <1>2, <2>1 DEF Schedule, Sweep, RefreshHold, Supersede, Takes
  <2>3. /\ Takes(w, "hygiene", s) /\ Serves(w, s) /\ UNCHANGED job
        /\ Write(s.row, SetPendingRetry(rows[s.row])) \/ UNCHANGED rows
    BY <2>2 DEF Hygiene, Takes, Serves, engine
  <2>4. rows[s.row].status = "pending_retry" /\ rows[s.row].gid = s.gid /\ s.gid \in Gids
    BY <2>3, ListedRow DEF Takes
  <2>5. job'[s.gid] \notin Live
    BY <2>3, <2>4, ParkedIsQuiet DEF Takes
  <2> QED BY <1>1, <2>3, <2>5, ServedWrites
<1> QED BY <1>1, <1>2, ReconcileRows, ResumeRows, AutoGrabRows DEF Work, ListPass, NoFreeSlot

LEMMA RequestRows ==
  ASSUME DrainAlone, Inv, OneWriter, NewRequest \/ RequestGoesOn
  PROVE  \A g \in Grabs: RowKept(g)
<1>1. ASSUME UNCHANGED rows PROVE \A g \in Grabs: RowKept(g)
  BY <1>1, SameRowsKept
<1>2. ASSUME NEW r \in Grabs, rows[r].status = "absent",
             Write(r, CreateQueued) \/ Write(r, CreatePendingRetry)
      PROVE  \A g \in Grabs: RowKept(g)
  <2>1. rows[r] = NoRow
    BY <1>2 DEF OneWriter, RowFits, Shape
  <2> QED BY <1>2, <2>1, InsertKept, WrittenKept
<1>3. ASSUME NEW r \in Grabs, rows[r].status = "queued", rows[r].gid = NoGid, NEW h,
             \/ Write(r, ParkForAlternateRelease(rows[r]))
             \/ Write(r, SetOrigin(rows[r]))
             \/ Write(r, SetDownloadGID(rows[r], h))
      PROVE  \A g \in Grabs: RowKept(g)
  <2>1. rows[r] \in Row /\ Shape(rows[r]) /\ Unfinished(rows[r])
    BY <1>3, RowTyped DEF Inv, OneWriter, RowFits, Unfinished
  <2> QED BY <1>3, <2>1, ParkKept, RecordKept, WrittenKept
<1>4. ASSUME NewRequest PROVE \A g \in Grabs: RowKept(g)
  BY <1>1, <1>2, <1>4 DEF NewRequest, RequestFindsNothing, RequestDispatches
<1>5. ASSUME RequestGoesOn PROVE \A g \in Grabs: RowKept(g)
  <2>0. PICK s: s = workers["request"].cur
    OBVIOUS
  <2>1. /\ workers["request"].at # "next" => s.row \in Grabs
        /\ workers["request"].at \in {"precheck", "record"} => rows[s.row].status = "absent"
        /\ workers["request"].at \in {"alternate", "origin", "gid"} =>
             rows[s.row].status = "queued" /\ rows[s.row].gid = NoGid
    BY <2>0 DEF OneWriter, RequestFits
  <2>2. CASE RequestRejected \/ RequestCreates
    <3>1. /\ workers["request"].at \in {"precheck", "record"}
          /\ Write(s.row, CreateQueued) \/ Write(s.row, CreatePendingRetry)
      BY <2>0, <2>2 DEF RequestRejected, RequestCreates, At
    <3> QED BY <1>2, <2>1, <3>1
  <2>3. CASE RequestParks \/ RequestSetsOrigin \/ RequestSetsGid
    <3>1. /\ workers["request"].at \in {"alternate", "origin", "gid"}
          /\ \/ Write(s.row, ParkForAlternateRelease(rows[s.row]))
             \/ Write(s.row, SetOrigin(rows[s.row]))
             \/ Write(s.row, SetDownloadGID(rows[s.row], s.gid))
      BY <2>0, <2>3 DEF RequestParks, RequestSetsOrigin, RequestSetsGid, At
    <3> QED BY <1>3, <2>1, <3>1
  <2> QED BY <1>1, <1>5, <2>2, <2>3 DEF RequestGoesOn, RequestPrechecked
<1> QED BY <1>4, <1>5

LEMMA CallbackRows ==
  ASSUME DrainAlone, Inv, OneWriter, NEW h \in Gids, Callback(h)
  PROVE  \A g \in Grabs: RowKept(g)
<1>1. ASSUME UNCHANGED rows PROVE \A g \in Grabs: RowKept(g)
  BY <1>1, SameRowsKept
<1>2. ASSUME ErrorApplies(h) \/ CompleteImports(h) PROVE \A g \in Grabs: RowKept(g)
  <2>0. PICK s: s = callback[h].snap
    OBVIOUS
  <2>1. /\ s.row \in Grabs /\ s.gid = h /\ rows[s.row].gid = h /\ job[h] \notin Live
        /\ callback[h].state = "apply" => rows[s.row].status = "queued"
        /\ callback[h].state = "import" => rows[s.row].status = "queued" \/ Recording(h)
    BY <1>2, <2>0 DEF ErrorApplies, CompleteImports, OneWriter, EngineFits
  <2>2. rows[s.row] \in Row /\ Shape(rows[s.row])
    BY <2>1, RowTyped DEF Inv, OneWriter, RowFits
  <2>3. Unfinished(rows[s.row])
    <3>1. ASSUME Recording(h) PROVE rows[s.row].status = "pending_retry"
      <4>1. PICK w \in Drivers: /\ workers[w].cur.gid = h
                                /\ workers[w].at \in {"resuming", "rearm", "picked"}
        BY <3>1 DEF Recording
      <4>2. PICK at, c: at = workers[w].at /\ c = workers[w].cur /\ Handles(at, c)
        BY <4>1 DEF OneWriter, DriverFits
      <4>3. c.row \in Grabs /\ rows[c.row].gid = h /\ rows[c.row].status = "pending_retry"
        BY <4>1, <4>2 DEF Handles, Snapshot, DueForResume
      <4>4. \A g \in Grabs: rows[g].gid = h => owner[h] = g
        BY NoGidAssumption DEF Inv, RowsInv
      <4> QED BY <2>1, <4>3, <4>4
    <3> QED BY <1>2, <2>1, <3>1 DEF Unfinished, ErrorApplies, CompleteImports
  <2>4. ASSUME ParkContentFailure(s)
        PROVE  job'[h] \notin Live /\ Write(s.row, ParkForAlternateRelease(rows[s.row]))
    BY <2>1, <2>4, ContentParked DEF ParkContentFailure, Live
  <2>5. CASE ErrorApplies(h)
    <3>1. \/ Write(s.row, UpdateStatus(rows[s.row], "failed"))
          \/ Write(s.row, ParkForTransportResume(rows[s.row])) /\ rows[s.row].status = "queued"
          \/ ParkContentFailure(s)
          \/ Write(s.row, SetPendingRetry(rows[s.row])) /\ UNCHANGED job
      BY <2>0, <2>1, <2>5 DEF ErrorApplies, ApplyFailure
    <3>2. CASE Write(s.row, UpdateStatus(rows[s.row], "failed"))
      BY <2>1, <2>2, <2>3, <3>2, RecordKept, WrittenKept
    <3>3. CASE Write(s.row, ParkForTransportResume(rows[s.row])) /\ rows[s.row].status = "queued"
      BY <2>1, <2>2, <3>3, RungKept, WrittenKept
    <3>4. CASE \/ ParkContentFailure(s)
               \/ Write(s.row, SetPendingRetry(rows[s.row])) /\ UNCHANGED job
      <4>1. /\ job'[h] \notin Live
            /\ \/ Write(s.row, ParkForAlternateRelease(rows[s.row]))
               \/ Write(s.row, SetPendingRetry(rows[s.row]))
        BY <2>1, <2>4, <3>4
      <4> QED BY <2>1, <2>2, <2>3, <4>1, ParkKept, WrittenKept
    <3> QED BY <3>1, <3>2, <3>3, <3>4
  <2>6. CASE CompleteImports(h)
    <3>1. \/ Write(s.row, MarkImportedIfNot(rows[s.row]))
          \/ ParkContentFailure(s)
          \/ UNCHANGED rows
      BY <2>0, <2>6 DEF CompleteImports
    <3>2. CASE Write(s.row, MarkImportedIfNot(rows[s.row]))
      BY <2>1, <2>2, <2>3, <3>2, RecordKept, WrittenKept
    <3>3. CASE ParkContentFailure(s)
      BY <2>1, <2>2, <2>3, <2>4, <3>3, ParkKept, WrittenKept
    <3> QED BY <1>1, <3>1, <3>2, <3>3
  <2> QED BY <1>2, <2>5, <2>6
<1> QED BY <1>1, <1>2 DEF Callback, ErrorLooksUp, CompleteLooksUp

LEMMA OperatorRows ==
  ASSUME DrainAlone, Inv, OneWriter, OperatorBegins \/ OperatorGoesOn
  PROVE  \A g \in Grabs: RowKept(g)
<1>1. ASSUME OperatorBegins PROVE \A g \in Grabs: RowKept(g)
  <2>1. \A g: ~Promote(g)
    BY DEF DrainAlone, Promote
  <2>2. CASE UNCHANGED rows
    BY <2>2, SameRowsKept
  <2>3. ASSUME NEW g \in Grabs, CalendarCreates(g) PROVE \A k \in Grabs: RowKept(k)
    <3>1. rows[g] = NoRow
      BY <2>3 DEF CalendarCreates, OneWriter, RowFits, Shape
    <3>2. PICK until \in HoldStamp: Write(g, CreateHeld(until))
      BY <2>3 DEF CalendarCreates, HoldStamp, Stamp
    <3> QED BY <3>1, <3>2, InsertKept, WrittenKept
  <2> QED BY <1>1, <2>1, <2>2, <2>3 DEF OperatorBegins, Unmonitor, CalendarFinds, Cancel
<1>2. ASSUME OperatorGoesOn PROVE \A g \in Grabs: RowKept(g)
  <2>0. PICK s: s = workers["operator"].cur
    OBVIOUS
  <2> DEFINE r == s.row
  <2>1. /\ workers["operator"].at \in {"unmonitor", "failing", "hold", "re-arm"}
        /\ r \in Grabs
        /\ workers["operator"].at \in {"unmonitor", "failing"} =>
             ~rows[r].url /\ rows[r].status # "absent"
        /\ workers["operator"].at \in {"hold", "re-arm"} => rows[r].hold # "none"
    BY <1>2, <2>0 DEF OperatorGoesOn, UnmonitorSchedules, Terminate, CalendarWrites, At,
                      OneWriter, OperatorFits
  <2>2. rows[r] \in Row /\ Shape(rows[r])
    BY <2>1, RowTyped DEF Inv, OneWriter, RowFits
  <2>3. rows[r].gid = NoGid
    <3>1. rows[r].status # "absent" /\ (~rows[r].url \/ rows[r].hold # "none")
      BY <2>1, <2>2 DEF Shape, NoRow
    <3> QED BY <2>1, <3>1, OperatorAlone
  <2>4. CASE UnmonitorSchedules
    <3>1. Write(r, SetRetryAfter(rows[r], "due"))
      BY <2>0, <2>4 DEF UnmonitorSchedules
    <3>2. /\ SetRetryAfter(rows[r], "due").status = rows[r].status
          /\ SetRetryAfter(rows[r], "due").gid = rows[r].gid
          /\ SetRetryAfter(rows[r], "due").transport = rows[r].transport
      BY <2>2 DEF Row, SetRetryAfter
    <3> QED BY <2>1, <2>2, <3>1, <3>2, SameRungsKept, WrittenKept
  <2>5. CASE Terminate("operator")
    <3>1. Write(r, UpdateStatus(rows[r], "failed")) /\ ~rows[r].url
      BY <2>0, <2>1, <2>5 DEF Terminate, At
    <3>2. /\ UpdateStatus(rows[r], "failed").status = "failed"
          /\ UpdateStatus(rows[r], "failed").transport = rows[r].transport
          /\ rows[r].transport \in Nat
      BY <2>2 DEF Row, UpdateStatus
    <3>3. rows[r].status # "imported"
      BY <2>2, <3>1 DEF Shape
    <3>4. rows'[r] = UpdateStatus(rows[r], "failed") => RowKept(r)
      BY <2>3, <3>2, <3>3 DEF RowKept
    <3> QED BY <2>1, <3>1, <3>4, WrittenKept
  <2>6. CASE CalendarWrites
    <3>1. PICK until \in HoldStamp: \/ Write(r, RearmHeldRequest(rows[r], until))
                                    \/ Write(r, SetHoldUntil(rows[r], until))
      BY <2>0, <2>6 DEF CalendarWrites, HoldStamp, Stamp
    <3>2. CASE Write(r, SetHoldUntil(rows[r], until))
      <4>1. /\ SetHoldUntil(rows[r], until).status = rows[r].status
            /\ SetHoldUntil(rows[r], until).gid = rows[r].gid
            /\ SetHoldUntil(rows[r], until).transport = rows[r].transport
        BY <2>2 DEF Row, SetHoldUntil
      <4> QED BY <2>1, <2>2, <3>2, <4>1, SameRungsKept, WrittenKept
    <3>3. CASE Write(r, RearmHeldRequest(rows[r], until))
      <4>1. /\ RearmHeldRequest(rows[r], until).transport = rows[r].transport
            /\ rows[r].transport \in Nat
            /\ rows[r].status # "failed" => RearmHeldRequest(rows[r], until) = rows[r]
        BY <2>2 DEF Row, RearmHeldRequest
      <4>2. rows'[r] = RearmHeldRequest(rows[r], until) => RowKept(r)
        BY <2>3, <3>1, <4>1 DEF RowKept
      <4> QED BY <2>1, <3>3, <4>2, WrittenKept
    <3> QED BY <3>1, <3>2, <3>3
  <2> QED BY <1>2, <2>4, <2>5, <2>6 DEF OperatorGoesOn
<1> QED BY <1>1, <1>2

LEMMA TickRows ==
  ASSUME Inv, NEW r \in Grabs, Tick(r)
  PROVE  \A g \in Grabs: RowKept(g)
<1>1. rows[r] \in Row
  BY RowTyped DEF Inv
<1>2. PICK row \in {[rows[r] EXCEPT !.retryAfter = "due"], [rows[r] EXCEPT !.hold = "due"]}:
        Write(r, row)
  BY DEF Tick
<1>3. row.status = rows[r].status /\ row.gid = rows[r].gid /\ row.transport = rows[r].transport
  BY <1>1, <1>2 DEF Row
<1> QED BY <1>1, <1>2, <1>3, SameRungsKept, WrittenKept

LEMMA RestartRows ==
  ASSUME Inv, Restart
  PROVE  \A g \in Grabs: RowKept(g)
<1>1. TAKE g \in Grabs
<1>2. /\ rows[g] \in Row
      /\ \/ rows'[g] = rows[g]
         \/ rows'[g] = ParkForShutdownResume(rows[g]) /\ rows[g].status = "queued"
  BY RowTyped DEF Restart, Inv
<1>3. CASE rows'[g] = rows[g]
  BY <1>2, <1>3, SameRungsKept
<1>4. CASE rows'[g] = ParkForShutdownResume(rows[g]) /\ rows[g].status = "queued"
  <2>1. /\ rows'[g].gid = rows[g].gid /\ rows'[g].transport = rows[g].transport
        /\ rows[g].transport \in Nat
    BY <1>2, <1>4 DEF Row, ParkForShutdownResume
  <2> QED BY <1>4, <2>1 DEF RowKept
<1> QED BY <1>2, <1>3, <1>4

LEMMA NextRows ==
  ASSUME DrainAlone, Inv, OneWriter, [Next]_vars
  PROVE  \A g \in Grabs: RowKept(g)
<1>1. ASSUME UNCHANGED rows PROVE \A g \in Grabs: RowKept(g)
  BY <1>1, SameRowsKept
<1>2. CASE \E w \in Drivers: Work(w)
  BY <1>2, WorkRows
<1>3. CASE NewRequest \/ RequestGoesOn
  BY <1>3, RequestRows
<1>4. CASE \E h \in Gids: Engine(h) \/ Callback(h)
  BY <1>1, <1>4, CallbackRows DEF Engine, DownloadFails, DownloadCompletes, DismissComplete
<1>5. CASE OperatorBegins \/ OperatorGoesOn
  BY <1>5, OperatorRows
<1>6. CASE \E g \in Grabs: Tick(g)
  BY <1>6, TickRows
<1>7. CASE Restart
  BY <1>7, RestartRows
<1>8. CASE UNCHANGED vars
  BY <1>1, <1>8 DEF vars
<1> QED BY <1>2, <1>3, <1>4, <1>5, <1>6, <1>7, <1>8 DEF Next

\* FinishedStaysFinished: imported is for good, and failed until the operator asks
\* again. The callbacks write without looking again (grabs.MarkImportedIfNot is the
\* only conditional write among them); what they looked up is still in flight.
THEOREM FinishedRowsStay ==
  ASSUME DrainAlone
  PROVE  Spec => FinishedStaysFinished
<1>1. ASSUME Inv, OneWriter, [Next]_vars
      PROVE  [\A g \in Grabs:
                /\ rows[g].status = "imported" => rows'[g].status = "imported"
                /\ rows[g].status = "failed" =>
                     \/ rows'[g].status = "failed"
                     \/ \E until \in HoldStamp: rows'[g] = RearmHeldRequest(rows[g], until)]_vars
  BY <1>1, NextRows DEF RowKept
<1> QED BY <1>1, InvHolds, OneWriterHolds, PTL DEF FinishedStaysFinished, Spec

\* RungsFollowTheDownload: one failure, heard by the callback and by a restarted
\* loop, costs one rung, and no write leaves the counter of an older download
\* behind (grabs.Relaunch, grabs.ParkWithBackoff).
THEOREM RungsFollow ==
  ASSUME DrainAlone
  PROVE  Spec => RungsFollowTheDownload
<1>1. ASSUME Inv, OneWriter, [Next]_vars
      PROVE  [\A g \in Grabs:
                /\ rows'[g].transport > rows[g].transport
                     => \/ rows[g].status = "queued"
                        \/ rows[g].status = "pending_retry" /\ rows[g].retryAfter = "due"
                /\ rows'[g].transport < rows[g].transport => rows'[g].gid # rows[g].gid]_vars
  BY <1>1, NextRows DEF RowKept
<1> QED BY <1>1, InvHolds, OneWriterHolds, PTL DEF RungsFollowTheDownload, Spec

\* LiveDownloadKept: with no Promote, no pass, callback or request at all takes a
\* GID off its row while the GID's download runs.
THEOREM LiveDownloadsKept ==
  ASSUME DrainAlone
  PROVE  Spec => LiveDownloadKept
<1>1. ASSUME Inv, OneWriter, [Next]_vars
      PROVE  [\A g \in Grabs:
                LET h == rows[g].gid IN
                h # NoGid /\ rows'[g].gid # h /\ rows'[g] # PromoteToFront(rows[g])
                  => job'[h] \notin Live]_vars
  BY <1>1, NextRows DEF RowKept
<1> QED BY <1>1, InvHolds, OneWriterHolds, PTL DEF LiveDownloadKept, Spec

-----------------------------------------------------------------------------
(* What a step may do to a directory *)

DirectoryKept(h) ==
  job[h] \in Live /\ job'[h] \in Live /\ staging[h] # "none" => staging'[h] # "none"

\* Only a GID whose download is over, or is ended with it, is wiped.
LEMMA WipedKept ==
  ASSUME NEW h, \A k \in Gids \ {h}: staging'[k] = staging[k],
         job[h] \notin Live \/ job'[h] \notin Live \/ staging'[h] # "none"
  PROVE  \A k \in Gids: DirectoryKept(k)
BY DEF DirectoryKept

LEMMA LaunchKept ==
  ASSUME Inv, NEW h \in Gids,
         \/ RelaunchNZB(h) \/ StartDownload(h) \/ UNCHANGED staging
         \/ \E g \in Grabs: AddNZB(h, g)
  PROVE  \A k \in Gids: DirectoryKept(k)
<1>1. \/ \A k \in Gids: staging'[k] = staging[k]
      \/ staging'[h] # "none" /\ \A k \in Gids \ {h}: staging'[k] = staging[k]
  BY DEF Inv, EngineInv, StagingState, RelaunchNZB, StartDownload, AddNZB
<1> QED BY <1>1, WipedKept DEF DirectoryKept

LEMMA ContentKept ==
  ASSUME Inv, NEW s, s.row \in Grabs, s.gid \in Gids, job[s.gid] \notin Live,
         ParkContentFailure(s)
  PROVE  \A k \in Gids: DirectoryKept(k)
BY ContentParked, WipedKept

LEMMA WorkDirectories ==
  ASSUME DrainAlone, Inv, OneWriter, NEW w \in Drivers, Work(w)
  PROVE  \A k \in Gids: DirectoryKept(k)
<1>1. ASSUME UNCHANGED staging PROVE \A k \in Gids: DirectoryKept(k)
  BY <1>1 DEF DirectoryKept
<1>2. ASSUME NEW s \in workers[w].todo, Takes(w, "reconcile", s)
      PROVE  s.row \in Grabs /\ s.gid \in Gids /\ job[s.gid] = "none"
  <2>1. Serves(w, s)
    BY <1>2 DEF Takes, Serves
  <2> QED BY <1>2, <2>1, ServedRow, ListedRow DEF Takes, Dead
<1>3. CASE Reconcile(w)
  <2>0. PICK c: c = workers[w].cur
    OBVIOUS
  <2>1. workers[w].at \in {"importing", "restoring"} =>
          /\ c.row \in Grabs /\ c.gid \in Gids
          /\ workers[w].at = "importing" => job[c.gid] = "none"
    BY <2>0 DEF OneWriter, DriverFits, Handles, Dead
  <2>2. ASSUME NEW s \in workers[w].todo,
               \/ ReconcileSkips(w, s) \/ ReconcileFindsHollow(w, s)
               \/ ReconcileStartsImport(w, s) \/ ReconcileRelaunches(w, s)
               \/ ReconcileFetchFails(w, s)
        PROVE  \A k \in Gids: DirectoryKept(k)
    <3>1. s.row \in Grabs /\ s.gid \in Gids /\ job[s.gid] = "none"
      BY <1>2, <2>2 DEF ReconcileSkips, ReconcileFindsHollow, ReconcileStartsImport,
                        ReconcileRelaunches, ReconcileFetchFails
    <3>2. ParkContentFailure(s) \/ RelaunchNZB(s.gid) \/ UNCHANGED staging
      BY <2>2 DEF ReconcileSkips, ReconcileFindsHollow, ReconcileStartsImport,
                  ReconcileRelaunches, ReconcileFetchFails, engine
    <3> QED BY <3>1, <3>2, ContentKept, LaunchKept DEF Live
  <2>3. CASE ReconcileImports(w)
    <3>1. c.row \in Grabs /\ c.gid \in Gids /\ job[c.gid] = "none"
      BY <2>1, <2>3 DEF ReconcileImports, At
    <3>2. \/ staging' = [staging EXCEPT ![c.gid] = "none"]
          \/ ParkContentFailure(c) \/ RelaunchNZB(c.gid) \/ UNCHANGED staging
      BY <2>0, <2>3 DEF ReconcileImports
    <3>3. CASE staging' = [staging EXCEPT ![c.gid] = "none"]
      BY <3>1, <3>3, WipedKept DEF Inv, EngineInv, Live
    <3> QED BY <3>1, <3>2, <3>3, ContentKept, LaunchKept DEF Live
  <2> QED BY <1>1, <1>3, <2>2, <2>3
      DEF Reconcile, Restored, RestoreRejected, StartDownload
<1>4. CASE Resume(w)
  <2>1. ASSUME NEW s \in workers[w].todo, ResumeRelaunches(w, s)
        PROVE  \A k \in Gids: DirectoryKept(k)
    <3>1. s.gid \in Gids /\ RelaunchNZB(s.gid)
      BY <2>1, ListedRow DEF ResumeRelaunches, Takes
    <3> QED BY <3>1, LaunchKept
  <2> QED BY <1>1, <1>4, <2>1
      DEF Resume, ResumeFindsLive, ResumeFetchFails, Resumed, ResumeRejected, Rearm,
          StartDownload, engine
<1>5. CASE AutoGrab(w)
  <2>1. ASSUME NEW s \in workers[w].todo, SearchDispatches(w, s)
        PROVE  \A k \in Gids: DirectoryKept(k)
    <3>1. s.row \in Grabs
      BY InHand, DriversAreWorkers DEF Inv, Snapshots
    <3> QED BY <2>1, <3>1, LaunchKept DEF SearchDispatches
  <2>2. CASE DispatchRejected(w)
    <3>0. PICK h: h = workers[w].cur.gid
      OBVIOUS
    <3>1. /\ DropJob(h) /\ staging' = [staging EXCEPT ![h] = "none"] /\ h \in Gids
      BY <2>2, <3>0 DEF DispatchRejected, At, OneWriter, DriverFits, Handles
    <3> QED BY <3>1, EngineWritten, WipedKept DEF Live
  <2> QED BY <1>1, <1>5, <2>1, <2>2
      DEF AutoGrab, GateBlocks, SearchParks, PickFetchFails, DispatchPrechecked,
          RecordDispatch, PickSetsGid, PickQueues, StartDownload, engine
<1>6. CASE Schedule(w)
  <2>1. \A s \in workers[w].todo: ~Sweep(w, s)
    BY ListedRow DEF Sweep, Takes
  <2> QED BY <1>1, <1>6, <2>1
      DEF Schedule, RefreshHold, Supersede, Hygiene, Terminate, engine
<1>7. CASE ListPass(w) \/ NoFreeSlot(w)
  BY <1>1, <1>7 DEF ListPass, NoFreeSlot, engine
<1> QED BY <1>3, <1>4, <1>5, <1>6, <1>7 DEF Work

LEMMA RequestDirectories ==
  ASSUME Inv, OneWriter, NewRequest \/ RequestGoesOn
  PROVE  \A k \in Gids: DirectoryKept(k)
<1>1. ASSUME UNCHANGED staging PROVE \A k \in Gids: DirectoryKept(k)
  BY <1>1 DEF DirectoryKept
<1>2. ASSUME NEW g \in Grabs, NEW h \in Gids, RequestDispatches(g, h)
      PROVE  \A k \in Gids: DirectoryKept(k)
  BY <1>2, LaunchKept DEF RequestDispatches
<1>3. CASE RequestRejected
  <2>0. PICK h: h = workers["request"].cur.gid
    OBVIOUS
  <2>1. DropJob(h) /\ staging' = [staging EXCEPT ![h] = "none"] /\ h \in Gids
    BY <1>3, <2>0 DEF RequestRejected, At, OneWriter, RequestFits
  <2> QED BY <2>1, EngineWritten, WipedKept DEF Live
<1> QED BY <1>1, <1>2, <1>3
    DEF NewRequest, RequestFindsNothing, RequestGoesOn, RequestPrechecked, RequestParks,
        RequestCreates, RequestSetsOrigin, RequestSetsGid, StartDownload, engine

LEMMA EngineDirectories ==
  ASSUME Inv, OneWriter, NEW h \in Gids, Engine(h) \/ Callback(h)
  PROVE  \A k \in Gids: DirectoryKept(k)
<1>1. ASSUME UNCHANGED staging PROVE \A k \in Gids: DirectoryKept(k)
  BY <1>1 DEF DirectoryKept
<1>2. CASE DownloadCompletes(h)
  <2>1. staging' = [staging EXCEPT ![h] = "ready"]
    BY <1>2 DEF DownloadCompletes
  <2> QED BY <2>1, WipedKept DEF Inv, EngineInv
<1>3. CASE ErrorApplies(h) \/ CompleteImports(h)
  <2>0. PICK s: s = callback[h].snap
    OBVIOUS
  <2>1. s.row \in Grabs /\ s.gid = h /\ job[h] \notin Live
    BY <1>3, <2>0 DEF ErrorApplies, CompleteImports, OneWriter, EngineFits
  <2>2. \/ ParkContentFailure(s) \/ UNCHANGED staging
        \/ staging' = [staging EXCEPT ![h] = "none"]
    BY <1>3, <2>0 DEF ErrorApplies, ApplyFailure, CompleteImports
  <2>3. CASE staging' = [staging EXCEPT ![h] = "none"]
    BY <2>1, <2>3, WipedKept DEF Inv, EngineInv
  <2> QED BY <1>1, <2>1, <2>2, <2>3, ContentKept
<1> QED BY <1>1, <1>2, <1>3
    DEF Engine, DownloadFails, DismissComplete, Callback, ErrorLooksUp, CompleteLooksUp

LEMMA NextDirectories ==
  ASSUME DrainAlone, Inv, OneWriter, [Next]_vars
  PROVE  \A k \in Gids: DirectoryKept(k)
<1>1. ASSUME UNCHANGED staging PROVE \A k \in Gids: DirectoryKept(k)
  BY <1>1 DEF DirectoryKept
<1>2. CASE OperatorBegins
  <2>1. ASSUME NEW h \in Gids, Cancel(h) PROVE \A k \in Gids: DirectoryKept(k)
    <3>1. DropJob(h) /\ staging' = [staging EXCEPT ![h] = "none"]
      BY <2>1 DEF Cancel
    <3> QED BY <3>1, EngineWritten, WipedKept DEF Live
  <2> QED BY <1>1, <1>2, <2>1
      DEF OperatorBegins, Promote, Unmonitor, CalendarCreates, CalendarFinds, engine
<1>3. CASE OperatorGoesOn
  BY <1>1, <1>3 DEF OperatorGoesOn, UnmonitorSchedules, Terminate, CalendarWrites, engine
<1>4. CASE \E g \in Grabs: Tick(g)
  BY <1>1, <1>4 DEF Tick, engine
<1>5. CASE Restart
  BY <1>1, <1>5 DEF Restart
<1>6. CASE UNCHANGED vars
  BY <1>1, <1>6 DEF vars
<1> QED BY <1>2, <1>3, <1>4, <1>5, <1>6, WorkDirectories, RequestDirectories,
           EngineDirectories DEF Next

\* LiveStagingKept: DeleteFiles of a GID is called by the passes and the callbacks
\* from what they read before; none of them deletes the directory of a download that
\* has since begun again under the same GID.
THEOREM LiveDirectoriesKept ==
  ASSUME DrainAlone
  PROVE  Spec => LiveStagingKept
<1>1. ASSUME Inv, OneWriter, [Next]_vars
      PROVE  [\A h \in Gids: job[h] \in Live /\ job'[h] \in Live /\ staging[h] # "none"
                => staging'[h] # "none"]_vars
  BY <1>1, NextDirectories DEF DirectoryKept
<1> QED BY <1>1, InvHolds, OneWriterHolds, PTL DEF LiveStagingKept, Spec
=============================================================================
