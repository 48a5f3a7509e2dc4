SPECIFICATION Spec
CONSTANTS
  IP = {i1, i2, i3}
  Pusher = {timer, job}
SYMMETRY Addressless
CHECK_DEADLOCK FALSE
INVARIANTS SuccessMeansPublished
PROPERTY KeptThroughout
