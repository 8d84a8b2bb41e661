CONSTANTS
  Paths = {1, 2}
  NoPath = NoPath
  WatchScans = {w}
  ManualScans = {m}
  ScheduledScans = {s}
  Requests = {r}
  Kinds = {"apply", "dismiss"}
  MaxId = 6
  Budgets <- Convergence

SPECIFICATION FairSpec
PROPERTIES FileIsProposed PhantomGoes
CHECK_DEADLOCK FALSE
