CONSTANTS
  Paths = {1, 2}
  NoPath = NoPath
  WatchScans = {w}
  ManualScans = {}
  ScheduledScans = {}
  Requests = {r}
  Kinds = {"apply", "batch", "delete", "dismiss", "repick", "undo", "move"}
  MaxId = 5
  Budgets <- Decisions

SPECIFICATION Spec
INVARIANTS TypeOK
PROPERTIES CommitSparesResults SeenRowsKeepTheirId
CHECK_DEADLOCK FALSE
