CONSTANTS
  h1 = h1
  h2 = h2
  j1 = j1
  j2 = j2
  c1 = c1
  NoGid = NoGid
  NoJob = NoJob
  Gids <- MCGids
  Jobs <- MCJobs
  Callers <- MCCallers
  MaxConcurrentDownloads = 1
  Articles = 1
  Operators = {"cancel", "pause", "relaunch", "wipe"}
  Races = {}
SPECIFICATION Spec
INVARIANTS TypeOK SlotsAreHeld ToldOnce UnpausedJobRuns SilenceIsNoticed
PROPERTY ContractKept
SYMMETRY Identical
VIEW VisibleState
CHECK_DEADLOCK FALSE
