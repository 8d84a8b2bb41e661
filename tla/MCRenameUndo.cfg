SPECIFICATION Spec
CONSTANTS
  Files = {f1, f3}
  Names = {inbox, inbox2, title, titleMp4, alt, alt2}
  Source <- MCSource
  Canonical <- MCCanonical
  Alternate <- MCAlternate
  Tier <- MCTier
  Size <- MCSize
  TitleFolder = {title, titleMp4, alt, alt2}
  Tagged = {}
  Workers = {w1}
  UndoEnabled = TRUE
  ScansOverlap = TRUE
  Depth = 2
  MaxId = 3
  MaxItems = 2
  MaxFailures = 1
  NoFile = NoFile
  f1 = f1
  f2 = f2
  f3 = f3
  inbox = inbox
  inbox2 = inbox2
  title = title
  titleMp4 = titleMp4
  alt = alt
  alt2 = alt2
INVARIANTS
  NoFileLost
  UndoMovesOwnFile
  UndoCanFinish
  AppliedFileTracked
CHECK_DEADLOCK FALSE
