SPECIFICATION GetSpec
CONSTANTS
  LastVersion = 2
  None = None
  Torn = Torn
  Pieces = 2
  Tries = 2
CHECK_DEADLOCK FALSE
INVARIANTS ProgramSurvives OutcomeIsTrue OneRelease
PROPERTY LeftoversGo
