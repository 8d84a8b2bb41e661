SPECIFICATION Spec
CONSTANTS
  Grabs = {g1, g2}
  Movies = {g2}
  SearchPicks = {g1}
  Loops = {"drain"}
  Failure = {"transport", "content", "removed"}
  Operators = {"unmonitor"}
  MaxRestarts = 2
  EarlyRequests = FALSE
  Gids = {h1, h2}
  MaxTransportRetries = 2
  NoGid = NoGid
  NoGrab = NoGrab
  g1 = g1
  g2 = g2
  h1 = h1
  h2 = h2
VIEW View
SYMMETRY GidSymmetry
INVARIANTS
  TransportRungsBounded
  ResumableHasStaging
PROPERTIES
  LiveDownloadKept
  FinishedStaysFinished
  RungsFollowTheDownload
CHECK_DEADLOCK FALSE
