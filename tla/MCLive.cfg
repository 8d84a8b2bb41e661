SPECIFICATION FairSpec
CONSTANTS
  Grabs = {g1}
  Movies = {g1}
  SearchPicks = {}
  Loops = {"retry"}
  Failure = {"transport", "content"}
  Operators = {"promote"}
  MaxRestarts = 1
  EarlyRequests = TRUE
  Gids = {h1}
  MaxTransportRetries = 1
  NoGid = NoGid
  NoGrab = NoGrab
  g1 = g1
  h1 = h1
PROPERTIES
  RecordedDownloadEnds
  DueRowIsServed
CHECK_DEADLOCK FALSE
