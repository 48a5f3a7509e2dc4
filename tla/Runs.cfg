SPECIFICATION Spec
CONSTANTS
  Key = {k1, k2, k3}
  Foreign = {k3}
  MaxScore = 1
  Handler = {h1}
  LastSecond = 1
  Absent = Absent
  Broken = Broken
  MaxDBSize = 1
  BatchSize = 1
  TopN = 1
  MaxRetries = 2
SYMMETRY KeySymmetry
INVARIANTS TypeOK PublishedOrAlarmed WrittenOnce ClearIsRecoverable
