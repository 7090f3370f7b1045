CONSTANTS
  Party = {p1}
  Threshold = 1
  CtThresholds = {1, 2}
  batch_size = 2
  MaxCts = 3
  KeySpace = {15, 20}
  FieldOrder = 23
  ChunkRadix = 4
  NumChunks = 3
  Weight <- MCWeight
  l = 2
  max_dlog_exponent = 7
  MarkersRange = 8
  Word = 64
  DebugAssertions = TRUE
SPECIFICATION FairSpec
INVARIANTS TypeOK SlotSumsInRange CheckedSumIsSolved ReleasedBatchIsUniform KeyRecovered
PROPERTY HonestCallReleases
