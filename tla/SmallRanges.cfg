SPECIFICATION CollectionSpec
CONSTANTS
  NumRanges = 2
  Size <- MCSize
  Custom = {c1}
  Listed <- MCListed
  Lines <- MCLines
  Settings <- OneSetting
  DefaultCount = 2
  SamplesPerCIDR = 2
  MaxRounds = 2
CHECK_DEADLOCK FALSE
INVARIANTS EveryRangeSampled
