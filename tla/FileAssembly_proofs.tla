------------------------ MODULE FileAssembly_proofs ------------------------
(***************************************************************************)
(* Proofs about FileAssembly and NntpPool, for any number of articles, any  *)
(* numbering of them, any window, any connections and attempts, and with    *)
(* any Broadcast falling between a check and its wait: every invariant of   *)
(* the two modules. Nothing is assumed of fairness.                         *)
(***************************************************************************)
EXTENDS FileAssembly, TLAPS, FiniteSetTheorems

-----------------------------------------------------------------------------
(* The pool *)

Sockets == {u \in Users: conn[u] \in {"dials", "open"}}
PoolInv == PoolTyped /\ TokensAreSockets

LEMMA SocketsFinite == IsFiniteSet(Sockets) /\ Cardinality(Sockets) \in Nat
BY UsersAssumption, FS_Subset, FS_CardinalityType DEF Sockets

\* How a step of one user changes the number of sockets.
LEMMA SocketOpens ==
  ASSUME PoolTyped, NEW u \in Users, conn[u] \in {"none", "asks"},
         NEW s \in {"dials", "open"}, Goes(u, s)
  PROVE  conn' \in [Users -> ConnState] /\ Cardinality(Sockets') = Cardinality(Sockets) + 1
<1>1. conn' \in [Users -> ConnState] BY DEF PoolTyped, Goes, ConnState
<1>2. Sockets' = Sockets \union {u} /\ u \notin Sockets
  BY DEF PoolTyped, Goes, Sockets
<1> QED BY <1>1, <1>2, SocketsFinite, FS_AddElement

LEMMA SocketGoes ==
  ASSUME PoolTyped, NEW u \in Users, conn[u] \in {"dials", "open"}, Goes(u, "none")
  PROVE  /\ conn' \in [Users -> ConnState]
         /\ Cardinality(Sockets') = Cardinality(Sockets) - 1
         /\ Cardinality(Sockets') \in Nat
<1>1. conn' \in [Users -> ConnState] BY DEF PoolTyped, Goes, ConnState
<1>2. Sockets' = Sockets \ {u} /\ u \in Sockets
  BY DEF PoolTyped, Goes, Sockets
<1>3. IsFiniteSet(Sockets') /\ Cardinality(Sockets') = Cardinality(Sockets) - 1
  BY <1>2, SocketsFinite, FS_RemoveElement
<1> QED BY <1>1, <1>3, FS_CardinalityType

LEMMA SocketStays ==
  ASSUME PoolTyped, NEW u \in Users, NEW s \in ConnState, Goes(u, s),
         s \in {"dials", "open"} <=> conn[u] \in {"dials", "open"}
  PROVE  conn' \in [Users -> ConnState] /\ Cardinality(Sockets') = Cardinality(Sockets)
<1>1. conn' \in [Users -> ConnState] BY DEF PoolTyped, Goes, ConnState
<1>2. Sockets' = Sockets BY DEF PoolTyped, Goes, Sockets
<1> QED BY <1>1, <1>2

PoolStep(u) ==
  \/ Asks(u) \/ TakesIdle(u) \/ TakesToken(u) \/ StopsAsking(u) \/ Connects(u)
  \/ DialFails(u) \/ Puts(u, TRUE) \/ Puts(u, FALSE) \/ PutsBroken(u)

LEMMA PoolFacts ==
  PoolInv <=> /\ PoolTyped
              /\ live = idle + Cardinality(Sockets) /\ live <= MaxConns
              /\ closed => idle = 0
BY DEF PoolInv, TokensAreSockets, Sockets

LEMMA PoolFactsNext ==
  ASSUME PoolTyped', live' = idle' + Cardinality(Sockets'), live' <= MaxConns,
         closed' => idle' = 0
  PROVE  PoolInv'
BY DEF PoolInv, TokensAreSockets, Sockets

LEMMA UserKeepsPool ==
  ASSUME PoolInv, NEW u \in Users, PoolStep(u)
  PROVE  PoolInv'
<1> USE SocketsFinite, MaxConnsAssumption
<1>0. /\ PoolTyped /\ live = idle + Cardinality(Sockets) /\ live <= MaxConns
      /\ closed => idle = 0
  BY PoolFacts
<1>1. CASE Asks(u)
  <2>1. CASE idle > 0
    <3>1. conn[u] \in {"none", "asks"} /\ Goes(u, "open") /\ UNCHANGED <<live, closed>>
          /\ idle' = idle - 1
      BY <1>1, <2>1 DEF Asks
    <3> QED BY <1>0, <2>1, <3>1, SocketOpens, PoolFactsNext DEF PoolTyped
  <2>2. CASE ~(idle > 0)
    <3>1. conn[u] = "none" /\ Goes(u, "asks") /\ UNCHANGED <<idle, live, closed>>
      BY <1>1, <2>2 DEF Asks
    <3>2. conn' \in [Users -> ConnState] /\ Cardinality(Sockets') = Cardinality(Sockets)
      BY <1>0, <3>1, SocketStays DEF ConnState
    <3> QED BY <1>0, <3>1, <3>2, PoolFactsNext DEF PoolTyped
  <2> QED BY <2>1, <2>2
<1>2. CASE TakesIdle(u)
  BY <1>0, <1>2, SocketOpens, PoolFactsNext DEF TakesIdle, PoolTyped
<1>3. CASE TakesToken(u)
  BY <1>0, <1>3, SocketOpens, PoolFactsNext DEF TakesToken, PoolTyped
<1>4. CASE StopsAsking(u)
  <2>1. conn' \in [Users -> ConnState] /\ Cardinality(Sockets') = Cardinality(Sockets)
    BY <1>0, <1>4, SocketStays DEF StopsAsking, ConnState
  <2> QED BY <1>0, <1>4, <2>1, PoolFactsNext DEF StopsAsking, PoolTyped
<1>5. CASE Connects(u)
  <2>1. conn' \in [Users -> ConnState] /\ Cardinality(Sockets') = Cardinality(Sockets)
    BY <1>0, <1>5, SocketStays DEF Connects, ConnState
  <2> QED BY <1>0, <1>5, <2>1, PoolFactsNext DEF Connects, PoolTyped
<1>6. CASE DialFails(u)
  BY <1>0, <1>6, SocketGoes, PoolFactsNext DEF DialFails, PoolTyped
<1>7. CASE Puts(u, TRUE) \/ Puts(u, FALSE)
  <2>1. conn[u] = "open" /\ Goes(u, "none") /\ UNCHANGED closed
        /\ \/ idle' = idle + 1 /\ live' = live /\ ~closed
           \/ live' = live - 1 /\ idle' = idle
    BY <1>7 DEF Puts
  <2>2. /\ conn' \in [Users -> ConnState]
        /\ Cardinality(Sockets') = Cardinality(Sockets) - 1
        /\ Cardinality(Sockets') \in Nat
    BY <1>0, <2>1, SocketGoes
  <2> QED BY <1>0, <2>1, <2>2, PoolFactsNext DEF PoolTyped
<1>8. CASE PutsBroken(u)
  <2>1. conn[u] = "open" /\ Goes(u, "none") /\ UNCHANGED closed
        /\ idle' = 0 /\ live' = live - idle - 1
    BY <1>8 DEF PutsBroken
  <2>2. /\ conn' \in [Users -> ConnState]
        /\ Cardinality(Sockets') = Cardinality(Sockets) - 1
        /\ Cardinality(Sockets') \in Nat
    BY <1>0, <2>1, SocketGoes
  <2> QED BY <1>0, <2>1, <2>2, PoolFactsNext DEF PoolTyped
<1> QED BY <1>1, <1>2, <1>3, <1>4, <1>5, <1>6, <1>7, <1>8 DEF PoolStep

LEMMA CloseKeepsPool ==
  ASSUME PoolInv, Close
  PROVE  PoolInv'
<1>1. Sockets' = Sockets BY DEF Close, Sockets
<1>2. Cardinality(Sockets) \in Nat BY SocketsFinite
<1> QED
  BY <1>1, <1>2, PoolFacts, PoolFactsNext, MaxConnsAssumption DEF Close, PoolTyped

LEMMA StillPoolInv ==
  ASSUME PoolInv, UNCHANGED poolVars
  PROVE  PoolInv'
BY DEF PoolInv, PoolTyped, TokensAreSockets, poolVars

LEMMA PoolStarts ==
  ASSUME PoolInit
  PROVE  PoolInv
<1>1. Sockets = {} BY DEF PoolInit, Sockets
<1>2. Cardinality(Sockets) = 0 BY <1>1, FS_EmptySet
<1>3. PoolTyped BY DEF PoolInit, PoolTyped, ConnState
<1>4. live = 0 /\ idle = 0 BY DEF PoolInit
<1> QED BY <1>2, <1>3, <1>4, PoolFacts, MaxConnsAssumption

-----------------------------------------------------------------------------
(* The invariant of the assembly *)

Fetches(i) == fetch[i] \notin {"ready", "done"}
Past == {"gate", "fetching", "elsewhere", "arrived"}

Typed ==
  /\ number \in [Users -> Users] /\ covered \in SUBSET Users
  /\ fetch \in [Users -> FetchState] /\ tries \in [Users -> 0..Attempts]
  /\ got \in [Users -> 0..Segments]
  /\ writer \in WriterState /\ nextWrite \in 0..Segments /\ written \in SUBSET Users
  /\ groupErr \in Errors /\ writeErr \in Errors
  /\ waker \in {"armed", "gone"} /\ cancelled \in BOOLEAN /\ shut \in BOOLEAN

\* A connection belongs to a fetch that has an attempt left or under way.
TriesInv ==
  \A i \in Users:
    /\ fetch[i] # "fetching" => conn[i] = "none"
    /\ fetch[i] = "fetching" /\ conn[i] = "none" => tries[i] < Attempts
    /\ fetch[i] \in {"ready", "window", "dozing", "waiting", "gate"} => tries[i] = 0

\* An article's body is on its way, in the map, or written: never two of these.
BodyInv ==
  /\ \A i \in Users: Fetches(i) => i \notin covered /\ i \notin written /\ got[number[i]] # i
  /\ \A i \in Users: got[number[i]] = i => fetch[i] = "done" /\ i \notin covered /\ i \notin written
  /\ \A n \in Users: got[n] # NoArticle => number[got[n]] = n
  /\ \A i \in covered: i \in written <=> i <= nextWrite
  /\ Cardinality(written) = nextWrite

WindowInv ==
  \A i \in Users:
    /\ fetch[i] \in Past \/ got[number[i]] = i => i <= nextWrite + MaxConc
    /\ Distinct /\ (Fetches(i) \/ got[number[i]] = i) => nextWrite < i

PhaseInv ==
  /\ writer = "seeding" => /\ \A i \in Users: fetch[i] = "ready" /\ got[i] = NoArticle
                           /\ written = {} /\ nextWrite = 0 /\ groupErr = "none"
  /\ writer \in {"seeding", "check", "dozing", "waiting", "writing"} => writeErr = "none"
  /\ writer \in {"failing", "rousing"} => writeErr # "none"
  /\ writer \in {"joining", "ended"} /\ writeErr = "none" => nextWrite = Segments
  /\ 1 \in covered \/ \A i \in covered: number[i] # number[1]

\* Who reports a cancellation, unless the download is cancelled, does so after
\* someone else's failure.
CauseInv ==
  /\ groupErr = "canceled" => cancelled \/ writeErr = "failed"
  /\ writeErr = "canceled" => cancelled \/ groupErr = "failed"

Inv ==
  /\ PoolInv /\ Typed /\ TriesInv /\ BodyInv /\ WindowInv /\ PhaseInv /\ CauseInv

LEMMA UsersAre == /\ Users = 1..Segments /\ Segments \in Nat \ {0} /\ Users \subseteq Nat
                  /\ NoArticle = 0 /\ NoArticle \notin Users /\ 1 \in Users
                  /\ MaxConc \in Nat \ {0} /\ Attempts \in Nat \ {0}
BY SegmentsAssumption, MaxConcAssumption, AttemptsAssumption DEF NoArticle

LEMMA WrittenFinite == Typed => IsFiniteSet(written) /\ Cardinality(written) \in Nat
BY UsersAssumption, FS_Subset, FS_CardinalityType DEF Typed

LEMMA InitHolds == Init => Inv
<1> SUFFICES ASSUME Init PROVE Inv OBVIOUS
<1> USE UsersAre
<1>1. PoolInv BY PoolStarts DEF Init
<1>2. Typed
  <2>1. number \in [Users -> Users] /\ covered \in SUBSET Users BY DEF Init, Sorted
  <2>2. fetch \in [Users -> FetchState] BY DEF Init, FetchState
  <2>3. tries \in [Users -> 0..Attempts] BY DEF Init
  <2>4. got \in [Users -> 0..Segments] BY DEF Init
  <2>5. writer \in WriterState /\ groupErr \in Errors /\ writeErr \in Errors
    BY DEF Init, WriterState, Errors
  <2>6. nextWrite \in 0..Segments /\ written \in SUBSET Users BY DEF Init
  <2>7. waker \in {"armed", "gone"} /\ cancelled \in BOOLEAN /\ shut \in BOOLEAN BY DEF Init
  <2> QED BY <2>1, <2>2, <2>3, <2>4, <2>5, <2>6, <2>7 DEF Typed
<1>3. TriesInv BY DEF Init, TriesInv, PoolInit
<1>4. BodyInv
  <2>1. Cardinality({}) = 0 BY FS_EmptySet
  <2> QED BY <1>2, <2>1 DEF Init, BodyInv, Fetches, Typed
<1>5. WindowInv BY <1>2 DEF Init, WindowInv, Fetches, Past, Typed
<1>6. PhaseInv BY DEF Init, PhaseInv
<1>7. CauseInv BY DEF Init, CauseInv
<1> QED BY <1>1, <1>2, <1>3, <1>4, <1>5, <1>6, <1>7 DEF Inv

-----------------------------------------------------------------------------
(* Steps that leave the bodies where they are *)

\* No fetch begins but within the window.
Quiet ==
  /\ UNCHANGED <<setup, got, nextWrite, written>>
  /\ \A i \in Users:
       /\ fetch[i] = "done" => fetch'[i] = "done"
       /\ fetch'[i] \notin {"ready", "done"} => Fetches(i)
       /\ fetch'[i] \in Past => fetch[i] \in Past \/ InWindow(i)

LEMMA QuietKeeps ==
  ASSUME Typed, BodyInv, WindowInv, Quiet
  PROVE  BodyInv' /\ WindowInv'
<1>1. UNCHANGED <<number, covered, got, nextWrite, written>> BY DEF Quiet, setup
<1>2. Distinct' <=> Distinct BY <1>1 DEF Distinct
<1>3. \A i \in Users: Fetches(i)' => Fetches(i) BY DEF Quiet, Fetches
<1>4. BodyInv'
  <2>1. \A i \in Users: Fetches(i)' => i \notin covered /\ i \notin written /\ got[number[i]] # i
    BY <1>3 DEF BodyInv
  <2>2. \A i \in Users: got[number[i]] = i
                        => fetch'[i] = "done" /\ i \notin covered /\ i \notin written
    BY DEF BodyInv, Quiet
  <2> QED BY <1>1, <2>1, <2>2 DEF BodyInv
<1>5. WindowInv'
  <2>1. ASSUME NEW i \in Users, fetch'[i] \in Past \/ got[number[i]] = i
        PROVE  i <= nextWrite + MaxConc
    BY <2>1 DEF WindowInv, Quiet, InWindow
  <2>2. ASSUME NEW i \in Users, Distinct, Fetches(i)' \/ got[number[i]] = i
        PROVE  nextWrite < i
    BY <1>3, <2>2 DEF WindowInv
  <2> QED BY <1>1, <1>2, <2>1, <2>2 DEF WindowInv
<1> QED BY <1>4, <1>5

-----------------------------------------------------------------------------
(* A goroutine that fetches *)

Alone(i) ==
  /\ fetch'[i] # "fetching" => conn'[i] = "none"
  /\ fetch'[i] = "fetching" /\ conn'[i] = "none" => tries'[i] < Attempts
  /\ fetch'[i] \in {"ready", "window", "dozing", "waiting", "gate"} => tries'[i] = 0

\* What every step of it does, but the one that stores the body.
FetchStep(i) ==
  /\ UNCHANGED <<setup, got, writer, nextWrite, written, writeErr, waker, cancelled, shut>>
  /\ Fetches(i)
  /\ \E s \in FetchState \ {"ready"}:
       /\ fetch' = [fetch EXCEPT ![i] = s]
       /\ s \in Past => fetch[i] \in Past \/ InWindow(i)
  /\ tries' \in [Users -> 0..Attempts]
  /\ \A k \in Users \ {i}: tries'[k] = tries[k] /\ conn'[k] = conn[k]
  /\ Alone(i)
  /\ PoolStep(i) \/ UNCHANGED poolVars
  /\ \/ groupErr' = groupErr
     \/ groupErr = "none" /\ groupErr' = "failed"
     \/ groupErr = "none" /\ groupErr' = "canceled" /\ Done

LEMMA FetchStepKeeps ==
  ASSUME Inv, NEW i \in Users, FetchStep(i)
  PROVE  Inv'
<1> USE UsersAre
<1>1. /\ Typed /\ PoolInv /\ TriesInv /\ BodyInv /\ WindowInv /\ PhaseInv /\ CauseInv
  BY DEF Inv
<1>2. /\ UNCHANGED <<number, covered, got, writer, nextWrite, written, writeErr, waker,
                     cancelled, shut>>
      /\ Fetches(i)
  BY DEF FetchStep, setup
<1>3. PICK s \in FetchState \ {"ready"}:
        /\ fetch' = [fetch EXCEPT ![i] = s]
        /\ s \in Past => fetch[i] \in Past \/ InWindow(i)
  BY DEF FetchStep
<1>4. fetch' \in [Users -> FetchState] /\ fetch'[i] = s
      /\ \A k \in Users \ {i}: fetch'[k] = fetch[k]
  BY <1>1, <1>3 DEF Typed
<1>5. PoolInv' BY <1>1, UserKeepsPool, StillPoolInv DEF FetchStep
<1>6. groupErr' \in Errors BY <1>1 DEF FetchStep, Typed, Errors
<1>7. Typed'
  <2>1. tries' \in [Users -> 0..Attempts] BY DEF FetchStep
  <2> QED BY <1>1, <1>2, <1>4, <1>6, <2>1 DEF Typed
<1>8. TriesInv'
  <2>1. ASSUME NEW k \in Users, k # i
        PROVE  fetch'[k] = fetch[k] /\ tries'[k] = tries[k] /\ conn'[k] = conn[k]
    BY <1>4, <2>1 DEF FetchStep
  <2>2. Alone(i) BY DEF FetchStep
  <2> QED BY <1>1, <2>1, <2>2 DEF TriesInv, Alone
<1>9. Quiet
  <2>1. ASSUME NEW k \in Users
        PROVE  /\ fetch[k] = "done" => fetch'[k] = "done"
               /\ fetch'[k] \notin {"ready", "done"} => Fetches(k)
               /\ fetch'[k] \in Past => fetch[k] \in Past \/ InWindow(k)
    <3>1. CASE k = i BY <1>2, <1>3, <1>4, <3>1 DEF Fetches
    <3>2. CASE k # i BY <1>4, <3>2 DEF Fetches
    <3> QED BY <3>1, <3>2
  <2> QED BY <1>2, <2>1 DEF Quiet, setup
<1>10. BodyInv' /\ WindowInv' BY <1>1, <1>9, QuietKeeps
<1>11. writer # "seeding" BY <1>1, <1>2 DEF PhaseInv, Fetches
<1>12. PhaseInv' BY <1>1, <1>2, <1>11 DEF PhaseInv
<1>13. CauseInv'
  <2>1. Done => cancelled \/ groupErr # "none" \/ writeErr # "none"
    BY DEF Done, FetchCancelled
  <2>2. \/ groupErr' = groupErr
        \/ groupErr = "none" /\ groupErr' = "failed"
        \/ groupErr = "none" /\ groupErr' = "canceled" /\ Done
    BY DEF FetchStep
  <2>3. writeErr \in {"none", "canceled", "failed"} BY <1>1 DEF Typed, Errors
  <2>4. (groupErr = "canceled" => cancelled \/ writeErr = "failed")
        /\ (writeErr = "canceled" => cancelled \/ groupErr = "failed")
    BY <1>1 DEF CauseInv
  <2>5. cancelled' = cancelled /\ writeErr' = writeErr BY <1>2
  <2>6. CASE cancelled BY <2>5, <2>6 DEF CauseInv
  <2>7. CASE ~cancelled
    <3>1. groupErr' = "canceled" => writeErr = "failed"
      <4>1. CASE groupErr' = groupErr BY <2>4, <2>7, <4>1
      <4>2. CASE groupErr' = "failed" BY <4>2
      <4>3. CASE groupErr = "none" /\ Done BY <2>1, <2>3, <2>4, <2>7, <4>3
      <4> QED BY <2>2, <4>1, <4>2, <4>3
    <3>2. writeErr = "canceled" => groupErr' = "failed" BY <2>2, <2>4, <2>7
    <3> QED BY <2>5, <3>1, <3>2 DEF CauseInv
  <2> QED BY <2>6, <2>7
<1> QED BY <1>5, <1>7, <1>8, <1>10, <1>12, <1>13 DEF Inv

\* Every step of a fetch is one of these, or stores its body.
LEMMA FetchersStep ==
  ASSUME Inv, NEW i \in Users,
         \/ LooksAtWindow(i) \/ FetcherWaits(i) \/ PassesGate(i) \/ Aborts(i) \/ Attempt(i)
         \/ GetsConnection(i) \/ Breaks(i) \/ IsMissing(i) \/ BodyArrives(i) \/ OthersAnswer(i)
  PROVE  FetchStep(i)
<1> USE UsersAre
<1>1. /\ Typed /\ TriesInv /\ PoolTyped BY DEF Inv, PoolInv
<1>2. /\ fetch[i] # "fetching" => conn[i] = "none"
      /\ fetch[i] = "fetching" /\ conn[i] = "none" => tries[i] < Attempts
      /\ fetch[i] \in {"ready", "window", "dozing", "waiting", "gate"} => tries[i] = 0
      /\ tries[i] \in 0..Attempts /\ fetch[i] \in FetchState
      /\ conn \in [Users -> ConnState] /\ tries \in [Users -> 0..Attempts]
  BY <1>1 DEF TriesInv, Typed, PoolTyped
<1> DEFINE Sets(s) == /\ fetch' = [fetch EXCEPT ![i] = s]
                      /\ fetch \in [Users -> FetchState]
           Group == \/ groupErr' = groupErr
                    \/ groupErr = "none" /\ groupErr' = "failed"
                    \/ groupErr = "none" /\ groupErr' = "canceled" /\ Done
           Rest == UNCHANGED <<setup, got, writer, nextWrite, written, writeErr, waker,
                               cancelled, shut>>
\* What remains to be shown once it is known where the fetch goes.
<1>3. ASSUME NEW s \in FetchState \ {"ready"}, Sets(s),
             s \in Past => fetch[i] \in Past \/ InWindow(i),
             fetch[i] \notin {"ready", "done"}, Rest, Group,
             PoolStep(i) \/ UNCHANGED poolVars,
             \A k \in Users \ {i}: tries'[k] = tries[k] /\ conn'[k] = conn[k],
             tries' \in [Users -> 0..Attempts],
             s # "fetching" => conn'[i] = "none",
             s = "fetching" /\ conn'[i] = "none" => tries'[i] < Attempts,
             s \in {"window", "dozing", "waiting", "gate"} => tries'[i] = 0
      PROVE  FetchStep(i)
  <2>1. fetch'[i] = s BY <1>3
  <2>2. Alone(i) BY <1>3, <2>1 DEF Alone
  <2> QED BY <1>3, <2>2 DEF FetchStep, Fetches
<1> DEFINE Keeps == UNCHANGED <<poolVars, tries>>
<1>4. Keeps => /\ \A k \in Users \ {i}: tries'[k] = tries[k] /\ conn'[k] = conn[k]
               /\ conn'[i] = conn[i] /\ tries'[i] = tries[i] /\ tries' \in [Users -> 0..Attempts]
               /\ UNCHANGED poolVars
  BY <1>2 DEF poolVars
<1>5. ASSUME NEW s, Goes(i, s)
      PROVE  /\ conn'[i] = s
             /\ \A k \in Users \ {i}: conn'[k] = conn[k]
  BY <1>2, <1>5 DEF Goes
<1>6. fetch \in [Users -> FetchState] BY <1>1 DEF Typed
<1>17. /\ \A t \in FetchState: t \in {"window", "dozing", "waiting", "done"} => t \notin Past
      /\ {"gate", "fetching", "elsewhere", "arrived"} = Past
      /\ \A t \in {"window", "dozing", "waiting", "done", "gate", "fetching", "elsewhere",
                   "arrived"}: t \in FetchState \ {"ready"}
  BY DEF FetchState, Past
<1> HIDE DEF Sets, Group, Rest, Keeps
<1>7. CASE LooksAtWindow(i)
  <2>1. Keeps /\ Rest /\ fetch[i] = "window" BY <1>7 DEF LooksAtWindow, Rest, Keeps
  <2>2. CASE Done
    <3>1. Sets("done") /\ Group
      BY <1>6, <1>7, <2>2 DEF LooksAtWindow, Returns, Moves, Sets, Group
    <3> QED BY <1>17, <1>2, <1>3, <1>4, <2>1, <3>1
  <2>3. CASE ~Done /\ InWindow(i)
    <3>1. Sets("gate") /\ Group BY <1>6, <1>7, <2>3 DEF LooksAtWindow, Moves, Sets, Group
    <3> QED BY <1>17, <1>2, <1>3, <1>4, <2>1, <2>3, <3>1
  <2>4. CASE ~Done /\ ~InWindow(i)
    <3>1. Sets("dozing") /\ Group BY <1>6, <1>7, <2>4 DEF LooksAtWindow, Moves, Sets, Group
    <3> QED BY <1>17, <1>2, <1>3, <1>4, <2>1, <3>1
  <2> QED BY <2>2, <2>3, <2>4
<1>8. CASE FetcherWaits(i)
  <2>1. Keeps /\ Rest /\ Group /\ fetch[i] = "dozing" /\ Sets("waiting")
    BY <1>6, <1>8 DEF FetcherWaits, Moves, Sets, Group, Rest, Keeps
  <2> QED BY <1>17, <1>2, <1>3, <1>4, <2>1
<1>9. CASE PassesGate(i)
  <2>1. Keeps /\ Rest /\ Group /\ fetch[i] = "gate" /\ Sets("fetching")
    BY <1>6, <1>9 DEF PassesGate, Moves, Sets, Group, Rest, Keeps
  <2> QED BY <1>17, <1>2, <1>3, <1>4, <2>1
<1>10. CASE Aborts(i)
  <2>1. /\ UNCHANGED tries /\ Rest /\ fetch[i] \in {"gate", "elsewhere", "fetching"}
        /\ Sets("done") /\ Group
    BY <1>6, <1>10 DEF Aborts, Returns, Moves, Sets, Group, Rest
  <2>2. CASE UNCHANGED poolVars /\ conn[i] = "none"
    <3>1. Keeps BY <2>1, <2>2 DEF Keeps
    <3> QED BY <1>17, <1>2, <1>3, <1>4, <2>1, <2>2, <3>1
  <2>3. CASE StopsAsking(i) \/ DialFails(i)
    <3>1. Goes(i, "none") BY <2>3 DEF StopsAsking, DialFails
    <3>2. PoolStep(i) BY <2>3 DEF PoolStep
    <3> QED BY <1>17, <1>2, <1>3, <1>5, <2>1, <3>1, <3>2
  <2> QED BY <1>2, <1>10, <2>2, <2>3 DEF Aborts
<1>11. CASE Attempt(i)
  <2>1. /\ Rest /\ Group /\ fetch[i] = "fetching" /\ conn[i] = "none"
    BY <1>11 DEF Attempt, Group, Rest
  <2>2. CASE Asks(i) /\ tries' = [tries EXCEPT ![i] = @ + 1] /\ UNCHANGED fetch
    <3>1. Sets("fetching") BY <1>6, <2>1, <2>2 DEF Sets
    <3>2. /\ tries' \in [Users -> 0..Attempts]
          /\ \A k \in Users \ {i}: tries'[k] = tries[k]
      BY <1>2, <2>1, <2>2
    <3>3. Goes(i, "open") \/ Goes(i, "asks") BY <2>2 DEF Asks
    <3>4. PoolStep(i) BY <2>2 DEF PoolStep
    <3> QED BY <1>17, <1>3, <1>5, <2>1, <3>1, <3>2, <3>3, <3>4
  <2>3. CASE Moves(i, "elsewhere") /\ UNCHANGED <<poolVars, tries>>
    BY <1>17, <1>2, <1>3, <1>4, <1>6, <2>1, <2>3 DEF Sets, Group, Keeps, Moves
  <2> QED BY <1>11, <2>2, <2>3 DEF Attempt
<1>12. CASE GetsConnection(i)
  <2>1. Rest /\ Group /\ UNCHANGED <<fetch, tries>> BY <1>12 DEF GetsConnection, Group, Rest
  <2>2. /\ conn[i] \in {"asks", "dials"}
        /\ Goes(i, "open") \/ Goes(i, "dials")
    BY <1>12 DEF GetsConnection, TakesIdle, TakesToken, Connects
  <2>3. PoolStep(i) BY <1>12 DEF GetsConnection, PoolStep
  <2>4. fetch[i] = "fetching" /\ Sets("fetching") BY <1>2, <1>6, <2>1, <2>2 DEF Sets
  <2> QED BY <1>17, <1>2, <1>3, <1>5, <2>1, <2>2, <2>3, <2>4
<1>13. CASE Breaks(i)
  <2>1. Rest /\ Group /\ UNCHANGED tries BY <1>13 DEF Breaks, Group, Rest
  <2>2. conn[i] \in {"dials", "open"} /\ Goes(i, "none")
    BY <1>13 DEF Breaks, DialFails, PutsBroken
  <2>3. PoolStep(i) BY <1>13 DEF Breaks, PoolStep
  <2>4. fetch[i] = "fetching" BY <1>2, <2>2
  <2>5. \/ tries[i] < Attempts /\ UNCHANGED fetch
        \/ Moves(i, "elsewhere")
    BY <1>13 DEF Breaks
  <2>6. CASE tries[i] < Attempts /\ UNCHANGED fetch
    <3>1. Sets("fetching") BY <1>6, <2>4, <2>6 DEF Sets
    <3> QED BY <1>17, <1>2, <1>3, <1>5, <2>1, <2>2, <2>3, <2>4, <2>6, <3>1
  <2>7. CASE Moves(i, "elsewhere")
    <3>1. Sets("elsewhere") BY <1>6, <2>7 DEF Moves, Sets
    <3> QED BY <1>17, <1>2, <1>3, <1>5, <2>1, <2>2, <2>3, <2>4, <3>1
  <2> QED BY <2>5, <2>6, <2>7
<1>14. CASE IsMissing(i)
  <2>1. Rest /\ Group /\ UNCHANGED tries /\ Sets("elsewhere")
    BY <1>6, <1>14 DEF IsMissing, Moves, Sets, Group, Rest
  <2>2. conn[i] = "open" /\ Goes(i, "none") BY <1>14 DEF IsMissing, Puts
  <2>3. PoolStep(i) BY <1>14 DEF IsMissing, PoolStep
  <2>4. fetch[i] = "fetching" BY <1>2, <2>2
  <2> QED BY <1>17, <1>2, <1>3, <1>5, <2>1, <2>2, <2>3, <2>4
<1>15. CASE BodyArrives(i)
  <2>1. Rest /\ UNCHANGED tries BY <1>15 DEF BodyArrives, Rest
  <2>2. conn[i] = "open" /\ Goes(i, "none") BY <1>15 DEF BodyArrives, Puts
  <2>3. PoolStep(i) BY <1>15 DEF BodyArrives, PoolStep
  <2>4. fetch[i] = "fetching" BY <1>2, <2>2
  <2>5. Group /\ (Sets("arrived") \/ Sets("done"))
    BY <1>6, <1>15 DEF BodyArrives, Moves, Returns, Sets, Group
  <2> QED BY <1>17, <1>2, <1>3, <1>5, <2>1, <2>2, <2>3, <2>4, <2>5
<1>16. CASE OthersAnswer(i)
  <2>1. Keeps /\ Rest /\ fetch[i] = "elsewhere" BY <1>16 DEF OthersAnswer, Rest, Keeps
  <2>2. Group /\ (Sets("arrived") \/ Sets("done"))
    BY <1>6, <1>16 DEF OthersAnswer, Moves, Returns, Sets, Group
  <2> QED BY <1>17, <1>2, <1>3, <1>4, <2>1, <2>2
<1> QED BY <1>7, <1>8, <1>9, <1>10, <1>11, <1>12, <1>13, <1>14, <1>15, <1>16

-----------------------------------------------------------------------------
(* The writer and those around it, when no body moves *)

\* Some of those that wait look again, and no connection is touched.
Rests ==
  /\ UNCHANGED <<poolVars, setup, tries, got, nextWrite, written, groupErr>>
  /\ fetch' = fetch \/ fetch' = Woken(fetch)

LEMMA WokenFacts ==
  ASSUME Typed
  PROVE  /\ Woken(fetch) \in [Users -> FetchState]
         /\ \A i \in Users: \/ Woken(fetch)[i] = fetch[i]
                            \/ fetch[i] = "waiting" /\ Woken(fetch)[i] = "window"
         /\ WokenWriter \in WriterState
         /\ \/ WokenWriter = writer
            \/ writer = "waiting" /\ WokenWriter = "check"
BY DEF Typed, Woken, WokenWriter, FetchState, WriterState

LEMMA RestsKeeps ==
  ASSUME Inv, Rests, writer' \in WriterState, writeErr' \in Errors,
         waker' \in {"armed", "gone"}, cancelled' \in BOOLEAN, shut' \in BOOLEAN
  PROVE  PoolInv' /\ Typed' /\ TriesInv' /\ BodyInv' /\ WindowInv'
<1>1. Typed /\ PoolInv /\ TriesInv /\ BodyInv /\ WindowInv BY DEF Inv
<1>2. /\ UNCHANGED <<number, covered, tries, got, nextWrite, written, groupErr, conn>>
      /\ UNCHANGED poolVars
  BY DEF Rests, setup, poolVars
<1>3. /\ fetch' \in [Users -> FetchState]
      /\ \A i \in Users: \/ fetch'[i] = fetch[i]
                         \/ fetch[i] = "waiting" /\ fetch'[i] = "window"
  BY <1>1, WokenFacts DEF Rests, Typed
<1>4. PoolInv' BY <1>1, <1>2, StillPoolInv
<1>5. Typed' BY <1>1, <1>2, <1>3 DEF Typed
<1>6. TriesInv' BY <1>1, <1>2, <1>3 DEF TriesInv
<1>7. Quiet
  <2>1. ASSUME NEW i \in Users
        PROVE  /\ fetch[i] = "done" => fetch'[i] = "done"
               /\ fetch'[i] \notin {"ready", "done"} => Fetches(i)
               /\ fetch'[i] \in Past => fetch[i] \in Past \/ InWindow(i)
    BY <1>3 DEF Fetches, Past
  <2> QED BY <1>2, <2>1 DEF Quiet, setup
<1>8. BodyInv' /\ WindowInv' BY <1>1, <1>7, QuietKeeps
<1> QED BY <1>4, <1>5, <1>6, <1>8

LEMMA WriterKeeps ==
  ASSUME Inv, Writes \/ Misses \/ WriterWaits \/ HasNoLength \/ CancelsFetches \/ Rouses
              \/ HasWritten \/ Joins
  PROVE  Inv'
<1>1. Typed /\ PhaseInv /\ CauseInv BY DEF Inv
<1>2. /\ writeErr \in {"none", "canceled", "failed"} /\ writeErr \in Errors
      /\ groupErr \in {"none", "canceled", "failed"} /\ writer \in WriterState
      /\ waker \in {"armed", "gone"} /\ cancelled \in BOOLEAN /\ shut \in BOOLEAN
  BY <1>1 DEF Typed, Errors
<1>3. \A w \in {"check", "dozing", "waiting", "failing", "rousing", "joining", "ended"}:
        w \in WriterState
  BY DEF WriterState
<1>4. "canceled" \in Errors /\ "failed" \in Errors BY DEF Errors
<1>5. /\ Rests /\ UNCHANGED <<setup, groupErr, cancelled, shut, nextWrite>>
      /\ waker' = waker \/ waker' = "gone"
  <2>1. CASE Writes \/ Misses \/ WriterWaits \/ HasNoLength
    BY <2>1 DEF Writes, Misses, WriterWaits, HasNoLength, Rests
  <2>2. CASE CancelsFetches \/ Rouses
    BY <2>2 DEF CancelsFetches, Rouses, Rests
  <2>3. CASE HasWritten \/ Joins
    BY <2>3 DEF HasWritten, Joins, Rests
  <2> QED BY <2>1, <2>2, <2>3
<1>6. /\ writer # "seeding"
      /\ writer' \in {"check", "dozing", "waiting", "failing", "rousing", "joining", "ended"}
      /\ writeErr' = writeErr \/ writeErr' \in {"canceled", "failed"}
  BY DEF Writes, Misses, WriterWaits, HasNoLength, CancelsFetches, Rouses, HasWritten, Joins,
         Checking
<1>7. PoolInv' /\ Typed' /\ TriesInv' /\ BodyInv' /\ WindowInv'
  BY <1>2, <1>3, <1>4, <1>5, <1>6, RestsKeeps
<1>8. /\ writer' \in {"check", "dozing", "waiting"} => writeErr' = writeErr /\ writeErr = "none"
      /\ writer' \in {"failing", "rousing"} => writeErr' # "none"
      /\ writer' \in {"joining", "ended"} /\ writeErr' = "none" => nextWrite = Segments
  <2>1. CASE Writes \/ Misses \/ WriterWaits \/ HasNoLength
    BY <1>1, <2>1 DEF Writes, Misses, WriterWaits, HasNoLength, Checking, PhaseInv
  <2>2. CASE CancelsFetches BY <1>1, <2>2 DEF CancelsFetches, PhaseInv
  <2>3. CASE Rouses
    <3>1. writer = "rousing" /\ writer' = "joining" /\ writeErr' = writeErr
      BY <2>3 DEF Rouses
    <3>2. writeErr # "none" BY <1>1, <3>1 DEF PhaseInv
    <3> QED BY <3>1, <3>2
  <2>4. CASE HasWritten BY <2>4 DEF HasWritten
  <2>5. CASE Joins BY <1>1, <2>5 DEF Joins, PhaseInv
  <2> QED BY <2>1, <2>2, <2>3, <2>4, <2>5
<1>9. PhaseInv' BY <1>1, <1>5, <1>6, <1>8 DEF PhaseInv, setup
<1>10. CauseInv'
  <2>1. CASE writeErr' = writeErr BY <1>1, <1>5, <2>1 DEF CauseInv
  <2>2. CASE writeErr' # writeErr /\ writeErr' = "failed"
    BY <1>5, <2>2 DEF CauseInv
  <2>3. CASE writeErr' # writeErr /\ writeErr' = "canceled"
    <3>1. writer = "check" /\ Done
      BY <2>3 DEF Writes, Misses, WriterWaits, HasNoLength, CancelsFetches, Rouses,
                  HasWritten, Joins, Checking
    <3>2. writeErr = "none" BY <1>1, <3>1 DEF PhaseInv
    <3>3. cancelled \/ groupErr = "failed" \/ groupErr = "canceled"
      BY <1>2, <3>1, <3>2 DEF Done, FetchCancelled
    <3>4. groupErr = "canceled" => cancelled BY <1>1, <3>2 DEF CauseInv
    <3>5. cancelled \/ (groupErr = "failed" /\ groupErr # "canceled") BY <3>3, <3>4
    <3> QED BY <1>5, <2>3, <3>5 DEF CauseInv
  <2> QED BY <1>6, <2>1, <2>2, <2>3
<1> QED BY <1>7, <1>9, <1>10 DEF Inv

LEMMA OthersKeep ==
  ASSUME Inv, Wakes \/ Cancel \/ PauseOrResume
  PROVE  Inv'
<1>1. Typed /\ PhaseInv /\ CauseInv BY DEF Inv
<1>2. /\ writeErr \in Errors /\ writer \in WriterState
      /\ waker \in {"armed", "gone"} /\ cancelled \in BOOLEAN /\ shut \in BOOLEAN
  BY <1>1 DEF Typed
<1>3. /\ Rests /\ UNCHANGED <<setup, got, written, groupErr, writeErr, nextWrite>>
      /\ waker' = waker \/ waker' = "gone"
      /\ cancelled' = cancelled \/ cancelled' = TRUE
  <2>1. CASE Wakes BY <2>1 DEF Wakes, Rests
  <2>2. CASE Cancel BY <2>2 DEF Cancel, Rests
  <2>3. CASE PauseOrResume BY <2>3 DEF PauseOrResume, Rests
  <2> QED BY <2>1, <2>2, <2>3
<1>4. writer' = writer \/ (writer = "waiting" /\ writer' = "check")
  BY <1>1, WokenFacts DEF Wakes, Cancel, PauseOrResume
<1>5. writer' \in WriterState BY <1>2, <1>4 DEF WriterState
<1>6. shut' \in BOOLEAN /\ cancelled' \in BOOLEAN
  BY <1>2, <1>3 DEF Wakes, Cancel, PauseOrResume
<1>7. PoolInv' /\ Typed' /\ TriesInv' /\ BodyInv' /\ WindowInv'
  BY <1>2, <1>3, <1>5, <1>6, RestsKeeps
<1>8. writer = "seeding" => fetch' = fetch BY DEF Wakes, Cancel, PauseOrResume
<1>9. PhaseInv' BY <1>1, <1>3, <1>4, <1>8 DEF PhaseInv, setup
<1>10. CauseInv' BY <1>1, <1>3 DEF CauseInv
<1> QED BY <1>7, <1>9, <1>10 DEF Inv

LEMMA PoolClosesKeeps ==
  ASSUME Inv, PoolCloses
  PROVE  Inv'
<1>1. PoolInv' BY CloseKeepsPool DEF Inv, PoolCloses
<1>2. UNCHANGED <<number, covered, fetch, tries, got, writer, nextWrite, written, groupErr,
                  writeErr, waker, cancelled, shut, conn>>
  BY DEF PoolCloses, Close, setup
<1>3. Typed' BY <1>2 DEF Inv, Typed
<1>4. TriesInv' BY <1>2 DEF Inv, TriesInv
<1>5. Quiet BY <1>2 DEF Quiet, setup, Fetches
<1>6. BodyInv' /\ WindowInv' BY <1>5, QuietKeeps DEF Inv
<1>7. PhaseInv' BY <1>2 DEF Inv, PhaseInv
<1>8. CauseInv' BY <1>2 DEF Inv, CauseInv
<1> QED BY <1>1, <1>3, <1>4, <1>6, <1>7, <1>8 DEF Inv

LEMMA SeedFailsKeeps ==
  ASSUME Inv, SeedFails
  PROVE  Inv'
<1>1. Typed /\ PoolInv /\ TriesInv /\ BodyInv /\ WindowInv /\ PhaseInv /\ CauseInv
  BY DEF Inv
<1>2. /\ UNCHANGED <<number, covered, tries, got, nextWrite, written, groupErr, cancelled,
                     shut, conn>>
      /\ UNCHANGED poolVars /\ writer' = "ended" /\ waker' = "gone"
      /\ fetch' = [i \in Users |-> "done"]
      /\ writeErr' = "failed" \/ (writeErr' = "canceled" /\ cancelled)
      /\ writer = "seeding"
  BY DEF SeedFails, setup, poolVars
<1>3. PoolInv' BY <1>1, <1>2, StillPoolInv
<1>4. Typed'
  <2>1. fetch' \in [Users -> FetchState] /\ writer' \in WriterState /\ writeErr' \in Errors
    BY <1>2 DEF FetchState, WriterState, Errors
  <2> QED BY <1>1, <1>2, <2>1 DEF Typed
<1>5. \A i \in Users: fetch[i] = "ready" BY <1>1, <1>2 DEF PhaseInv
<1>6. TriesInv' BY <1>1, <1>2, <1>5 DEF TriesInv
<1>7. Quiet BY <1>2 DEF Quiet, setup, Past
<1>8. BodyInv' /\ WindowInv' BY <1>1, <1>7, QuietKeeps
<1>9. PhaseInv' BY <1>1, <1>2 DEF PhaseInv
<1>10. groupErr = "none" BY <1>1, <1>2 DEF PhaseInv
<1>11. CauseInv' BY <1>2, <1>10 DEF CauseInv
<1> QED BY <1>3, <1>4, <1>6, <1>8, <1>9, <1>11 DEF Inv

-----------------------------------------------------------------------------
(* The steps that move bodies *)

LEMMA StoresKeeps ==
  ASSUME Inv, NEW i \in Users, Stores(i)
  PROVE  Inv'
<1> USE UsersAre
<1>1. Typed /\ PoolInv /\ TriesInv /\ BodyInv /\ WindowInv /\ PhaseInv /\ CauseInv
  BY DEF Inv
<1>2. /\ UNCHANGED <<number, covered, tries, nextWrite, written, groupErr, writeErr, waker,
                     cancelled, shut, conn>>
      /\ UNCHANGED poolVars /\ fetch[i] = "arrived" /\ writer' = WokenWriter
      /\ fetch' = Woken([fetch EXCEPT ![i] = "done"])
      /\ got' = [got EXCEPT ![number[i]] = i]
  BY DEF Stores, setup, poolVars
<1>3. number[i] \in Users /\ number \in [Users -> Users] /\ got \in [Users -> 0..Segments]
  BY <1>1 DEF Typed
<1>4. /\ fetch' \in [Users -> FetchState] /\ fetch'[i] = "done"
      /\ \A k \in Users \ {i}: \/ fetch'[k] = fetch[k]
                               \/ fetch[k] = "waiting" /\ fetch'[k] = "window"
  BY <1>1, <1>2 DEF Woken, Typed, FetchState
<1>5. /\ got' \in [Users -> 0..Segments] /\ got'[number[i]] = i
      /\ \A n \in Users: n # number[i] => got'[n] = got[n]
  BY <1>2, <1>3
<1>6. /\ WokenWriter \in WriterState
      /\ \/ WokenWriter = writer
         \/ writer = "waiting" /\ WokenWriter = "check"
  BY <1>1, WokenFacts
<1>7. PoolInv' BY <1>1, <1>2, StillPoolInv
<1>8. Typed' BY <1>1, <1>2, <1>4, <1>5, <1>6 DEF Typed
<1>9. TriesInv'
  <2>1. conn[i] = "none" BY <1>1, <1>2 DEF TriesInv
  <2> QED BY <1>1, <1>2, <1>4, <2>1 DEF TriesInv
<1>10. Fetches(i) /\ i \notin covered /\ i \notin written
  BY <1>1, <1>2 DEF Fetches, BodyInv
<1>11. \A k \in Users: Fetches(k)' => k # i /\ Fetches(k) BY <1>4 DEF Fetches
<1>12. \A k \in Users: got'[number[k]] = k => k = i \/ got[number[k]] = k
  BY <1>3, <1>5
<1>13. BodyInv'
  <2>1. \A k \in Users: Fetches(k)' => k \notin covered /\ k \notin written
                                       /\ got'[number[k]] # k
    BY <1>1, <1>11, <1>12 DEF BodyInv
  <2>2. \A k \in Users: got'[number[k]] = k
                        => fetch'[k] = "done" /\ k \notin covered /\ k \notin written
    BY <1>1, <1>4, <1>10, <1>12 DEF BodyInv
  <2>3. \A n \in Users: got'[n] # NoArticle => number[got'[n]] = n
    BY <1>1, <1>5 DEF BodyInv
  <2> QED BY <1>1, <1>2, <2>1, <2>2, <2>3 DEF BodyInv
<1>14. WindowInv'
  <2>1. Distinct' <=> Distinct BY <1>2 DEF Distinct
  <2>2. \A k \in Users: fetch'[k] \in Past => fetch[k] \in Past BY <1>4 DEF Past
  <2>3. fetch[i] \in Past BY <1>2 DEF Past
  <2>4. \A k \in Users: fetch'[k] \in Past \/ got'[number[k]] = k => k <= nextWrite + MaxConc
    BY <1>1, <1>12, <2>2, <2>3 DEF WindowInv
  <2>5. \A k \in Users: Distinct /\ (Fetches(k)' \/ got'[number[k]] = k) => nextWrite < k
    BY <1>1, <1>10, <1>11, <1>12 DEF WindowInv
  <2> QED BY <1>2, <2>1, <2>4, <2>5 DEF WindowInv
<1>15. PhaseInv'
  <2>1. writer # "seeding" BY <1>1, <1>2 DEF PhaseInv
  <2> QED BY <1>1, <1>2, <1>6, <2>1 DEF PhaseInv
<1>16. CauseInv' BY <1>1, <1>2 DEF CauseInv
<1> QED BY <1>7, <1>8, <1>9, <1>13, <1>14, <1>15, <1>16 DEF Inv

LEMMA SpawnsKeeps ==
  ASSUME Inv, Spawns
  PROVE  Inv'
<1> USE UsersAre
<1>1. Typed /\ PoolInv /\ TriesInv /\ BodyInv /\ WindowInv /\ PhaseInv /\ CauseInv
  BY DEF Inv
<1> DEFINE seed == 1 \notin covered
           skips(i) == i \in covered \/ (seed /\ number[i] = number[1])
<1>2. /\ UNCHANGED <<number, covered, tries, nextWrite, written, groupErr, writeErr, waker,
                     cancelled, shut, conn>>
      /\ UNCHANGED poolVars /\ writer = "seeding" /\ writer' = "check"
      /\ fetch' = [i \in Users |-> IF skips(i) THEN "done" ELSE "window"]
      /\ got' = IF seed THEN [got EXCEPT ![number[1]] = 1] ELSE got
  BY DEF Spawns, setup, poolVars
<1>3. /\ \A i \in Users: fetch[i] = "ready" /\ got[i] = NoArticle
      /\ written = {} /\ nextWrite = 0 /\ writeErr = "none"
  BY <1>1, <1>2 DEF PhaseInv
<1>4. number[1] \in Users /\ number \in [Users -> Users] /\ got \in [Users -> 0..Segments]
  BY <1>1 DEF Typed
<1>5. /\ fetch' \in [Users -> FetchState]
      /\ \A i \in Users: fetch'[i] = IF skips(i) THEN "done" ELSE "window"
  BY <1>2 DEF FetchState
<1>6. /\ got' \in [Users -> 0..Segments]
      /\ \A n \in Users: got'[n] = IF seed /\ n = number[1] THEN 1 ELSE NoArticle
  BY <1>2, <1>3, <1>4
<1> HIDE DEF seed
<1>7. \A i \in Users: got'[number[i]] = i => seed /\ i = 1
  BY <1>4, <1>6
<1>8. \A i \in Users: Fetches(i)' => ~skips(i) BY <1>5 DEF Fetches
<1>9. PoolInv' BY <1>1, <1>2, StillPoolInv
<1>10. Typed'
  <2>1. writer' \in WriterState BY <1>2 DEF WriterState
  <2> QED BY <1>1, <1>2, <1>5, <1>6, <2>1 DEF Typed
<1>11. TriesInv'
  <2>1. \A i \in Users: conn[i] = "none" /\ tries[i] = 0 BY <1>1, <1>3 DEF TriesInv
  <2> QED BY <1>2, <1>5, <2>1 DEF TriesInv
<1>12. BodyInv'
  <2>1. \A i \in Users: Fetches(i)' => i \notin covered /\ i \notin written
                                       /\ got'[number[i]] # i
    BY <1>3, <1>7, <1>8
  <2>2. \A i \in Users: got'[number[i]] = i
                        => fetch'[i] = "done" /\ i \notin covered /\ i \notin written
    BY <1>3, <1>5, <1>7 DEF seed
  <2>3. \A n \in Users: got'[n] # NoArticle => number[got'[n]] = n BY <1>6
  <2> QED BY <1>1, <1>2, <2>1, <2>2, <2>3 DEF BodyInv
<1>13. WindowInv'
  <2>1. \A i \in Users: fetch'[i] \notin Past BY <1>5 DEF Past
  <2>2. \A i \in Users: got'[number[i]] = i => i <= nextWrite + MaxConc BY <1>3, <1>7
  <2>3. \A i \in Users: nextWrite < i BY <1>3
  <2> QED BY <1>2, <2>1, <2>2, <2>3 DEF WindowInv
<1>14. PhaseInv' BY <1>1, <1>2, <1>3 DEF PhaseInv
<1>15. CauseInv' BY <1>1, <1>2 DEF CauseInv
<1> QED BY <1>9, <1>10, <1>11, <1>12, <1>13, <1>14, <1>15 DEF Inv

\* The writer takes one article, fetched or of the sidecar, and moves on.
Moved(b) ==
  /\ UNCHANGED <<poolVars, setup, tries, groupErr, writeErr, waker, cancelled, shut>>
  /\ writer = "check" /\ writer' \in {"check", "writing"} /\ nextWrite < Segments
  /\ nextWrite' = nextWrite + 1 /\ written' = written \union {b} /\ b \notin written
  /\ fetch' = Woken(fetch) /\ fetch[b] \in {"ready", "done"}
  /\ got' \in [Users -> 0..Segments]
  /\ \A n \in Users: got'[n] = got[n] \/ got'[n] = NoArticle
  /\ got'[number[b]] # b
  /\ \A i \in covered: i = b <=> i = nextWrite + 1
  /\ Distinct => b = nextWrite + 1

LEMMA MovedKeeps ==
  ASSUME Inv, NEW b \in Users, Moved(b)
  PROVE  Inv'
<1> USE UsersAre
<1>1. Typed /\ PoolInv /\ TriesInv /\ BodyInv /\ WindowInv /\ PhaseInv /\ CauseInv
  BY DEF Inv
<1>2. /\ UNCHANGED <<number, covered, tries, groupErr, writeErr, waker, cancelled, shut, conn>>
      /\ UNCHANGED poolVars
      /\ writer = "check" /\ writer' \in {"check", "writing"} /\ nextWrite < Segments
      /\ nextWrite' = nextWrite + 1 /\ written' = written \union {b} /\ b \notin written
      /\ fetch[b] \in {"ready", "done"} /\ nextWrite \in 0..Segments /\ nextWrite \in Nat
      /\ written \in SUBSET Users /\ number \in [Users -> Users]
  <2>1. /\ nextWrite \in 0..Segments /\ written \in SUBSET Users
        /\ number \in [Users -> Users]
    BY <1>1 DEF Typed
  <2>2. /\ UNCHANGED <<number, covered, tries, groupErr, writeErr, waker, cancelled, shut, conn>>
        /\ UNCHANGED poolVars
    BY DEF Moved, setup, poolVars
  <2>3. nextWrite \in Nat BY <2>1
  <2>4. /\ writer = "check" /\ writer' \in {"check", "writing"} /\ nextWrite < Segments
        /\ nextWrite' = nextWrite + 1 /\ written' = written \union {b} /\ b \notin written
        /\ fetch[b] \in {"ready", "done"}
    BY DEF Moved
  <2> QED BY <2>1, <2>2, <2>3, <2>4
<1>3. /\ fetch' \in [Users -> FetchState]
      /\ \A i \in Users: \/ fetch'[i] = fetch[i]
                         \/ fetch[i] = "waiting" /\ fetch'[i] = "window"
  BY <1>1, WokenFacts DEF Moved
<1>4. /\ got' \in [Users -> 0..Segments]
      /\ \A n \in Users: got'[n] = got[n] \/ got'[n] = NoArticle
      /\ got'[number[b]] # b
  BY DEF Moved
<1>5. \A i \in Users: Fetches(i)' => Fetches(i) /\ i # b BY <1>2, <1>3 DEF Fetches
<1>6. ASSUME NEW i \in Users, got'[number[i]] = i
      PROVE  got[number[i]] = i /\ i # b
  <2>1. number[i] \in Users /\ i # NoArticle BY <1>2
  <2> QED BY <1>4, <1>6, <2>1
<1>7. PoolInv' BY <1>1, <1>2, StillPoolInv
<1>8. Typed'
  <2>1. writer' \in WriterState BY <1>2 DEF WriterState
  <2>2. nextWrite' \in 0..Segments /\ written' \in SUBSET Users BY <1>2
  <2> QED BY <1>1, <1>2, <1>3, <1>4, <2>1, <2>2 DEF Typed
<1>9. TriesInv' BY <1>1, <1>2, <1>3 DEF TriesInv
<1>10. BodyInv'
  <2>1. \A i \in Users: Fetches(i)' => i \notin covered /\ i \notin written'
                                       /\ got'[number[i]] # i
    BY <1>1, <1>2, <1>5, <1>6 DEF BodyInv
  <2>2. ASSUME NEW i \in Users, got'[number[i]] = i
        PROVE  fetch'[i] = "done" /\ i \notin covered /\ i \notin written'
    <3>1. got[number[i]] = i /\ i # b BY <1>6, <2>2
    <3>2. fetch[i] = "done" /\ i \notin covered /\ i \notin written BY <1>1, <3>1 DEF BodyInv
    <3> QED BY <1>2, <1>3, <3>1, <3>2
  <2>3. \A n \in Users: got'[n] # NoArticle => number[got'[n]] = n
    BY <1>1, <1>4 DEF BodyInv
  <2>4. ASSUME NEW i \in covered
        PROVE  i \in written' <=> i <= nextWrite'
    <3>1. i \in Users BY <1>1 DEF Typed
    <3>2. i \in written <=> i <= nextWrite BY <1>1 DEF BodyInv
    <3>3. i = b <=> i = nextWrite + 1 BY DEF Moved
    <3>4. i \in written' <=> i \in written \/ i = b BY <1>2
    <3>5. i <= nextWrite + 1 <=> i <= nextWrite \/ i = nextWrite + 1
      <4>1. i \in Nat /\ nextWrite \in Nat BY <1>2, <3>1
      <4> QED BY <4>1
    <3>6. nextWrite' = nextWrite + 1 BY <1>2
    <3> QED BY <3>2, <3>3, <3>4, <3>5, <3>6
  <2>5. Cardinality(written') = nextWrite'
    BY <1>1, <1>2, WrittenFinite, FS_AddElement DEF BodyInv
  <2> QED BY <1>2, <2>1, <2>2, <2>3, <2>4, <2>5 DEF BodyInv
<1>11. WindowInv'
  <2>1. Distinct' <=> Distinct BY <1>2 DEF Distinct
  <2>2. \A i \in Users: fetch'[i] \in Past => fetch[i] \in Past BY <1>3 DEF Past
  <2>3. \A i \in Users: fetch'[i] \in Past \/ got'[number[i]] = i => i <= nextWrite + MaxConc
    BY <1>1, <1>6, <2>2 DEF WindowInv
  <2>4. ASSUME NEW i \in Users, Distinct, Fetches(i)' \/ got'[number[i]] = i
        PROVE  nextWrite + 1 < i
    <3>1. nextWrite < i /\ i # b BY <1>1, <1>5, <1>6, <2>4 DEF WindowInv
    <3>2. b = nextWrite + 1 BY <2>4 DEF Moved
    <3> QED BY <1>2, <3>1, <3>2
  <2>5. \A i \in Users: i <= nextWrite + MaxConc => i <= nextWrite' + MaxConc BY <1>2
  <2> QED BY <1>2, <2>1, <2>3, <2>4, <2>5 DEF WindowInv
<1>12. PhaseInv' BY <1>1, <1>2 DEF PhaseInv
<1>13. CauseInv' BY <1>1, <1>2 DEF CauseInv
<1> QED BY <1>7, <1>8, <1>9, <1>10, <1>11, <1>12, <1>13 DEF Inv

LEMMA WriterMoves ==
  ASSUME Inv, Skips \/ Takes
  PROVE  Inv'
<1> USE UsersAre
<1>1. Typed /\ BodyInv BY DEF Inv
<1>2. /\ Checking /\ Current \in Users /\ Current = nextWrite + 1 /\ nextWrite < Segments
      /\ got \in [Users -> 0..Segments] /\ number \in [Users -> Users]
      /\ covered \in SUBSET Users
  <2>1. Checking BY DEF Skips, Takes
  <2>2. /\ nextWrite \in 0..Segments /\ got \in [Users -> 0..Segments]
        /\ number \in [Users -> Users] /\ covered \in SUBSET Users
    BY <1>1 DEF Typed
  <2>3. nextWrite < Segments BY <2>1 DEF Checking
  <2>4. nextWrite + 1 \in Users BY <2>2, <2>3
  <2> QED BY <2>1, <2>2, <2>3, <2>4 DEF Current
<1>3. CASE Skips
  <2>1. Current \in covered BY <1>3 DEF Skips
  <2>2. ~(Current <= nextWrite) BY <1>1, <1>2 DEF Typed
  <2>3. Current \notin written BY <1>1, <2>1, <2>2 DEF BodyInv
  <2>4. fetch[Current] \in {"ready", "done"} /\ got[number[Current]] # Current
    BY <1>1, <1>2, <2>1 DEF BodyInv, Fetches
  <2>5. Moved(Current)
    BY <1>2, <1>3, <2>3, <2>4 DEF Moved, Skips, Checking
  <2> QED BY <1>2, <2>5, MovedKeeps
<1>4. CASE Takes
  <2> DEFINE b == got[number[Current]]
  <2>1. Current \notin covered /\ b # NoArticle BY <1>4 DEF Takes, HasBody
  <2>2. b \in Users /\ number[Current] \in Users BY <1>2, <2>1
  <2>3. number[b] = number[Current] BY <1>1, <2>1, <2>2 DEF BodyInv
  <2>4. fetch[b] = "done" /\ b \notin covered /\ b \notin written
    BY <1>1, <2>2, <2>3 DEF BodyInv
  <2>5. /\ got' = [got EXCEPT ![number[Current]] = NoArticle]
        /\ written' = written \union {b} /\ writer = "check" /\ writer' = "writing"
        /\ nextWrite' = nextWrite + 1 /\ fetch' = Woken(fetch)
        /\ UNCHANGED <<poolVars, setup, tries, groupErr, writeErr, waker, cancelled, shut>>
    BY <1>2, <1>4 DEF Takes, Checking
  <2>6. /\ got' \in [Users -> 0..Segments] /\ got'[number[b]] # b
        /\ \A n \in Users: got'[n] = got[n] \/ got'[n] = NoArticle
    <3>1. NoArticle \in 0..Segments /\ b # NoArticle BY <2>1, UsersAre
    <3> HIDE DEF b
    <3> QED BY <1>2, <2>2, <2>3, <2>5, <3>1
  <2>7. \A i \in covered: i = b <=> i = nextWrite + 1 BY <1>2, <2>1, <2>4
  <2>8. Distinct => b = nextWrite + 1 BY <1>2, <2>2, <2>3 DEF Distinct
  <2> HIDE DEF b
  <2>9. Moved(b) BY <1>2, <2>4, <2>5, <2>6, <2>7, <2>8 DEF Moved
  <2> QED BY <2>2, <2>9, MovedKeeps
<1> QED BY <1>3, <1>4

-----------------------------------------------------------------------------
(* The theorems *)

LEMMA StillHolds ==
  ASSUME Inv, UNCHANGED vars
  PROVE  Inv'
<1>1. UNCHANGED <<poolVars, conn, number, covered, fetch, tries, got, writer, nextWrite,
                  written, groupErr, writeErr, waker, cancelled, shut>>
  BY DEF vars, setup, poolVars
<1>2. PoolInv' BY <1>1, StillPoolInv DEF Inv
<1>3. Typed' BY <1>1 DEF Inv, Typed
<1>4. TriesInv' BY <1>1 DEF Inv, TriesInv
<1>5. Quiet BY <1>1 DEF Quiet, setup, Fetches
<1>6. BodyInv' /\ WindowInv' BY <1>5, QuietKeeps DEF Inv
<1>7. PhaseInv' BY <1>1 DEF Inv, PhaseInv
<1>8. CauseInv' BY <1>1 DEF Inv, CauseInv
<1> QED BY <1>2, <1>3, <1>4, <1>6, <1>7, <1>8 DEF Inv

LEMMA NextKeeps ==
  ASSUME Inv, [Next]_vars
  PROVE  Inv'
<1>1. ASSUME NEW i \in Users, Fetcher(i)
      PROVE  Inv'
  <2>1. CASE Stores(i) BY <2>1, StoresKeeps
  <2>2. CASE ~Stores(i)
    BY <1>1, <2>2, FetchersStep, FetchStepKeeps DEF Fetcher
  <2> QED BY <2>1, <2>2
<1>2. CASE Writer BY <1>2, SpawnsKeeps, SeedFailsKeeps, WriterMoves, WriterKeeps DEF Writer
<1>3. CASE Wakes \/ Cancel \/ PauseOrResume BY <1>3, OthersKeep
<1>4. CASE PoolCloses BY <1>4, PoolClosesKeeps
<1>5. CASE UNCHANGED vars BY <1>5, StillHolds
<1> QED BY <1>1, <1>2, <1>3, <1>4, <1>5 DEF Next

LEMMA Invariant == Spec => []Inv
<1>1. Init => Inv BY InitHolds
<1>2. Inv /\ [Next]_vars => Inv' BY NextKeeps
<1> QED BY <1>1, <1>2, PTL DEF Spec

\* Every variable of the assembly and of its pool keeps its type, and no article is
\* tried more often on a server than maxSegmentAttemptsPerServer.
THEOREM TypeCorrect == Spec => []TypeOK
<1>1. Inv => TypeOK BY DEF Inv, PoolInv, Typed, TypeOK
<1> QED BY <1>1, Invariant, PTL

\* However dials and reads fail, and whenever the pool is closed, every token is a
\* socket.
THEOREM PoolAccounts == Spec => []TokensAreSockets
<1>1. Inv => TokensAreSockets BY DEF Inv, PoolInv
<1> QED BY <1>1, Invariant, PTL

\* For a file of any length, window and connections: bodies in memory and fetches
\* under way fill the window at most, and besides it the writer holds one body.
THEOREM BodiesBounded == Spec => []BodiesAreBounded
<1>1. Inv => BodiesAreBounded
  <2> SUFFICES ASSUME Inv, Distinct PROVE BodiesAreBounded BY DEF BodiesAreBounded
  <2> DEFINE Ahead == OnTheWay \union Buffered
             Window == (nextWrite + 1)..(nextWrite + MaxConc)
  <2>1. nextWrite \in Nat BY UsersAre DEF Inv, Typed
  <2>2. Ahead \subseteq Window
    <3>1. ASSUME NEW i \in Ahead PROVE i \in Nat /\ nextWrite < i /\ i <= nextWrite + MaxConc
      BY <3>1, UsersAre DEF Inv, WindowInv, Past, Fetches, OnTheWay, Buffered
    <3> QED BY <2>1, <3>1, UsersAre
  <2>3. IsFiniteSet(Window) /\ Cardinality(Window) = MaxConc
    BY <2>1, UsersAre, FS_Interval
  <2>4. IsFiniteSet(Ahead) /\ Cardinality(Ahead) \in Nat /\ Cardinality(Ahead) <= MaxConc
    BY <2>2, <2>3, FS_Subset, FS_CardinalityType
  <2>5. CASE writer = "writing"
    <3>1. InHand = {nextWrite} /\ nextWrite \notin Ahead BY <2>1, <2>2, <2>5 DEF InHand
    <3>2. Cardinality(InHand) = 1 BY <3>1, FS_Singleton
    <3>3. Cardinality(Ahead \union {nextWrite}) = Cardinality(Ahead) + 1
      BY <2>4, <3>1, FS_AddElement
    <3> HIDE DEF Ahead
    <3>4. Cardinality(Ahead \union InHand) <= MaxConc + Cardinality(InHand)
      BY <2>4, <3>1, <3>2, <3>3, UsersAre
    <3> QED BY <3>4 DEF BodiesAreBounded, Ahead
  <2>6. CASE writer # "writing"
    <3>1. InHand = {} BY <2>6 DEF InHand
    <3>2. Cardinality(InHand) = 0 BY <3>1, FS_EmptySet
    <3> HIDE DEF Ahead
    <3>3. Cardinality(Ahead \union InHand) <= MaxConc + Cardinality(InHand)
      BY <2>4, <3>1, <3>2, UsersAre
    <3> QED BY <3>3 DEF BodiesAreBounded, Ahead
  <2> QED BY <2>5, <2>6
<1> QED BY <1>1, Invariant, PTL

\* A file reported whole has every article, at every numbering and with every sidecar.
THEOREM WholeFiles == Spec => []OkIsWhole
<1>1. Inv => OkIsWhole
  <2> SUFFICES ASSUME Inv, writer = "ended", Outcome = "none" PROVE written = Users
    BY DEF OkIsWhole
  <2>1. writeErr = "none" BY DEF Outcome
  <2>2. nextWrite = Segments BY <2>1 DEF Inv, PhaseInv
  <2>3. Cardinality(written) = Cardinality(Users)
    <3>1. Cardinality(Users) = Segments BY UsersAre, FS_Interval
    <3> QED BY <2>2, <3>1 DEF Inv, BodyInv
  <2> QED BY <2>3, UsersAssumption, FS_Subset DEF Inv, Typed
<1> QED BY <1>1, Invariant, PTL

\* A failure is never reported as a cancellation.
THEOREM CausesSurvive == Spec => []CauseSurvives
<1>1. Inv => CauseSurvives
  <2> SUFFICES ASSUME Inv, Outcome = "canceled" PROVE cancelled BY DEF CauseSurvives
  <2>1. \/ writeErr = "none" /\ groupErr = "canceled"
        \/ writeErr = "canceled" /\ groupErr # "failed"
    BY DEF Outcome
  <2> QED BY <2>1 DEF Inv, CauseInv
<1> QED BY <1>1, Invariant, PTL

=============================================================================
