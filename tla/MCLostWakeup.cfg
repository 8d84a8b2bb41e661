CONSTANTS
  Users <- MCUsers
  Segments = 2
  MaxConc = 1
  MaxConns = 1
  Attempts = 1
  Races = {"wakeup"}
SPECIFICATION Spec
PROPERTY CancelUnblocks
CHECK_DEADLOCK FALSE
