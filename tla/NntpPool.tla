------------------------------ MODULE NntpPool ------------------------------
(***************************************************************************)
(* The connections to one news server, internal/usenet/pool.go: a channel   *)
(* of idle connections and a channel of tokens, one for each live socket.   *)
(***************************************************************************)
EXTENDS Naturals, FiniteSets

CONSTANTS
  Users,     \* the fetches that use the pool
  MaxConns

ASSUME UsersAssumption == IsFiniteSet(Users)
ASSUME MaxConnsAssumption == MaxConns \in Nat \ {0}

VARIABLES
  idle,    \* connections in the idle channel
  live,    \* tokens taken
  closed,
  conn     \* how far each user is with its connection

poolVars == <<idle, live, closed, conn>>

ConnState == {"none", "asks", "dials", "open"}

PoolInit ==
  /\ idle = 0 /\ live = 0 /\ closed = FALSE
  /\ conn = [u \in Users |-> "none"]

Goes(u, state) == conn' = [conn EXCEPT ![u] = state]

-----------------------------------------------------------------------------

\* getCtx: an idle connection first, else wait for one or for a token.
Asks(u) ==
  /\ conn[u] = "none" /\ ~closed
  /\ IF idle > 0 THEN Goes(u, "open") /\ idle' = idle - 1
                 ELSE Goes(u, "asks") /\ UNCHANGED idle
  /\ UNCHANGED <<live, closed>>

TakesIdle(u) ==
  /\ conn[u] = "asks" /\ idle > 0
  /\ idle' = idle - 1 /\ Goes(u, "open")
  /\ UNCHANGED <<live, closed>>

\* The pool may have been closed since the user asked.
TakesToken(u) ==
  /\ conn[u] = "asks" /\ live < MaxConns
  /\ live' = live + 1 /\ Goes(u, "dials")
  /\ UNCHANGED <<idle, closed>>

StopsAsking(u) ==
  /\ conn[u] = "asks"
  /\ Goes(u, "none")
  /\ UNCHANGED <<idle, live, closed>>

Connects(u) ==
  /\ conn[u] = "dials"
  /\ Goes(u, "open")
  /\ UNCHANGED <<idle, live, closed>>

\* Mutant: a failed dial keeps its token.
DialFailsWithToken(u) ==
  /\ conn[u] = "dials"
  /\ Goes(u, "none")
  /\ UNCHANGED <<idle, live, closed>>

\* Or is given up, on a cancellation or nntpDialTimeout: the token goes back while
\* the dial goes on without it.
DialFails(u) ==
  /\ conn[u] = "dials"
  /\ live' = live - 1 /\ Goes(u, "none")
  /\ UNCHANGED <<idle, closed>>

\* put: a connection that failed, or outlived its pool, is closed.
Puts(u, ok) ==
  /\ conn[u] = "open"
  /\ Goes(u, "none")
  /\ IF ok /\ ~closed /\ idle < MaxConns
     THEN idle' = idle + 1 /\ UNCHANGED live
     ELSE live' = live - 1 /\ UNCHANGED idle
  /\ UNCHANGED closed

\* put and invalidateIdle, after a transport failure: the idle ones go too.
PutsBroken(u) ==
  /\ conn[u] = "open"
  /\ Goes(u, "none")
  /\ idle' = 0 /\ live' = live - idle - 1
  /\ UNCHANGED closed

\* close, when SetSubscriptions retires the server.
Close ==
  /\ ~closed
  /\ closed' = TRUE
  /\ idle' = 0 /\ live' = live - idle
  /\ UNCHANGED conn

-----------------------------------------------------------------------------
(* Properties *)

PoolTyped ==
  /\ idle \in Nat /\ live \in Nat
  /\ closed \in BOOLEAN
  /\ conn \in [Users -> ConnState]

\* Every token stands for a socket, parked, dialled or in use: no failure on any
\* path shrinks the pool for good, and a retired pool parks nothing that nobody
\* would close any more.
TokensAreSockets ==
  /\ live = idle + Cardinality({u \in Users: conn[u] \in {"dials", "open"}})
  /\ live <= MaxConns
  /\ closed => idle = 0

=============================================================================
