CONSTANTS
  Users <- MCUsers
  Segments = 3
  MaxConc = 2
  MaxConns = 2
  Attempts = 2
  Races = {}
SPECIFICATION Spec
INVARIANTS TypeOK TokensAreSockets BodiesAreBounded OkIsWhole CauseSurvives
PROPERTIES AssemblyEnds
CHECK_DEADLOCK FALSE
