SPECIFICATION PSpec
CONSTANTS
  Stream = {s1}
  Buffer = 2
  MaxUpdates = 2
INVARIANTS NoSendOnClosed OnlyEndsComeLate
PROPERTY EndIsHeard
CHECK_DEADLOCK FALSE
