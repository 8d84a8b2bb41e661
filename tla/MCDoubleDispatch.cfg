SPECIFICATION Spec
CONSTANTS
  Grabs = {g1}
  Movies = {}
  SearchPicks = {g1}
  Loops = {"retry", "drain"}
  Failure = {"transport"}
  Operators = {}
  MaxRestarts = 0
  EarlyRequests = TRUE
  Gids = {h1, h2}
  MaxTransportRetries = 1
  NoGid = NoGid
  NoGrab = NoGrab
  g1 = g1
  h1 = h1
  h2 = h2
VIEW View
SYMMETRY GidSymmetry
INVARIANTS
  OneLiveDownloadPerGrab
CHECK_DEADLOCK FALSE
