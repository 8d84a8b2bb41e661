SPECIFICATION Spec
CONSTANTS
  Grabs = {g1, g2}
  Movies = {g2}
  SearchPicks = {g1}
  Loops = {"drain"}
  Failure = {"transport", "content", "removed", "other"}
  Operators = {"cancel", "calendar"}
  MaxRestarts = 0
  EarlyRequests = TRUE
  Gids = {h1, h2}
  MaxTransportRetries = 1
  NoGid = NoGid
  NoGrab = NoGrab
  g1 = g1
  g2 = g2
  h1 = h1
  h2 = h2
VIEW View
SYMMETRY GidSymmetry
INVARIANTS
  TypeOK
  OneGrabPerDownload
  OneLiveDownloadPerGrab
  QueuedRowHasDownload
  ParkedRowIsScheduled
PROPERTIES
  LiveStagingKept
  EngineContractKept
CHECK_DEADLOCK FALSE
