-------------------------- MODULE MCGrabLifecycle --------------------------
EXTENDS GrabLifecycle, TLC

Referenced(h) ==
  \/ \E g \in Grabs: rows[g].gid = h
  \/ \E w \in Workers: workers[w].cur.gid = h
                       \/ \E s \in workers[w].todo: s.gid = h
  \/ callback[h].state # "none"
  \/ job[h] \in Live

ForReferenced(f, default) == [h \in Gids |-> IF Referenced(h) THEN f[h] ELSE default]

View == <<rows, workers, callback, restarts,
          ForReferenced(job, "none"), ForReferenced(staging, "none"),
          ForReferenced(owner, NoGrab)>>

GidSymmetry == Permutations(Gids)
=============================================================================
