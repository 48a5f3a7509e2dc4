CONSTANTS
  Job = {j1}
  Handler = {h1, h2}
  NoHandler = NoHandler
  NoJob = NoJob
  BatchSize = 2
  MaxTasks = 3
SPECIFICATION PipeLiveSpec
INVARIANTS NothingLeftBehind NothingLost BatchBounded
PROPERTIES RefinesJobs CancelStopsPublishing
CHECK_DEADLOCK FALSE
