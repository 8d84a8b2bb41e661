SPECIFICATION FairSpec
CONSTANTS
  Files = {f1, f2}
  Names = {inbox, inbox2, title, titleMp4, alt, alt2}
  Source <- MCSource
  Canonical <- MCCanonical
  Alternate <- MCAlternate
  Tier <- MCTier
  Size <- MCSize
  TitleFolder = {title, titleMp4, alt, alt2}
  Tagged = {title, titleMp4, alt, alt2}
  Workers = {w1, w2}
  UndoEnabled = FALSE
  ScansOverlap = TRUE
  Depth = 1
  MaxId = 2
  MaxItems = 1
  MaxFailures = 1
  NoFile = NoFile
  f1 = f1
  f2 = f2
  f3 = f3
  inbox = inbox
  inbox2 = inbox2
  title = title
  titleMp4 = titleMp4
  alt = alt
  alt2 = alt2
PROPERTIES
  TaggedFileIsCatalogued
CHECK_DEADLOCK FALSE
