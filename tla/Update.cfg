CONSTANTS
  Caller = {h1, h2}
  Update = {u1, u2}
  NoUpdate = NoUpdate
SPECIFICATION LiveSpec
INVARIANTS OneAtATime StateIsTheFlows
PROPERTIES RefinesFlow UpdatesEnd
CHECK_DEADLOCK FALSE
