SPECIFICATION CollectionSpec
CONSTANTS
  NumRanges = 2
  Size <- MCSize
  Custom = {c1}
  Listed <- MCListed
  Lines <- MCLines
  Settings <- MCSettings
  DefaultCount = 2
  SamplesPerCIDR = 1
  MaxRounds = 2
CHECK_DEADLOCK FALSE
INVARIANTS QuotasFit SourcesKept
