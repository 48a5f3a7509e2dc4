CONSTANTS
  Handler = {h1, h2}
  DaemonFlag = FALSE
  PostedModes = {TRUE}
  SaveMayFail = TRUE
SPECIFICATION LiveSpec
INVARIANTS TypeOK TimersFollowMode ManualExcludesActive
PROPERTIES RestartKeepsMode ToggleIsAnswered ToggleIsHeard
