SPECIFICATION Spec
CONSTANTS
  Files = {f1, f2, f3}
  Names = {inbox, inbox2, title, titleMp4, alt, alt2}
  Source <- MCSource
  Canonical <- MCCanonical
  Alternate <- MCAlternate
  Tier <- MCTier
  Size <- MCSize
  TitleFolder = {title, titleMp4, alt, alt2}
  Tagged = {}
  Workers = {w1}
  UndoEnabled = FALSE
  ScansOverlap = FALSE
  Depth = 1
  MaxId = 5
  MaxItems = 2
  MaxFailures = 0
  NoFile = NoFile
  f1 = f1
  f2 = f2
  f3 = f3
  inbox = inbox
  inbox2 = inbox2
  title = title
  titleMp4 = titleMp4
  alt = alt
  alt2 = alt2
INVARIANTS
  TypeOK
  TitleHasItsFile
  LibraryFileTracked
  BestCopyIsPrimary
CHECK_DEADLOCK FALSE
