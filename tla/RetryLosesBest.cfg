SPECIFICATION Spec
CONSTANTS
  Key = {k1, k2}
  Foreign = {}
  MaxScore = 2
  Handler = {}
  LastSecond = 1
  Absent = Absent
  Broken = Broken
  MaxDBSize = 2
  BatchSize = 1
  TopN = 1
  MaxRetries = 3
INVARIANT BestIsPublished
