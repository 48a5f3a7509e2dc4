CONSTANTS
  Job = {j1, j2}
  Handler = {h1, h2}
  NoHandler = NoHandler
  NoJob = NoJob
SPECIFICATION LiveSpec
INVARIANTS AtMostOneRunning OverlapOnlyAfterCancel GoneIsOver SuccessIsTrue
PROPERTIES CancelSticks CancelTakesEffect
CHECK_DEADLOCK FALSE
