CONSTANTS
  Party = {p1, p2, p3}
  Threshold = 2
  CtThresholds = {2}
  batch_size = 2
  MaxCts = 2
  KeySpace = {7}
  FieldOrder = 13
  ChunkRadix = 16
  NumChunks = 1
  Weight <- MCWeight
  l = 1
  max_dlog_exponent = 31
  MarkersRange = 32
  Word = 64
  DebugAssertions = FALSE
SPECIFICATION Spec
INVARIANT HonestCallDecrypts
PROPERTY ReleaseSpec
SYMMETRY MCSymmetry
