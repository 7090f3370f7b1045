CONSTANTS
  Q = 17
  Scalar <- MCScalar
  Zero = 0
  One = 1
  Add <- MCAdd
  Neg <- MCNeg
  Mul <- MCMul
  batch_size = 3
  MaxCts = 4
  KeySpace = {0, 1, 6}
  fft_size = 8
  omega = 2
  SizeInv = 15
SPECIFICATION FftSpec
INVARIANTS TypeOK PuncturedEvalAgrees PuncturedSlotIsZero PuncturedKeyEvaluates OnlyPuncturedKeySurvives InOrderNeverPanics OversizedBatchFails FftAgreesInOrder FftFullBatchDecrypts
CHECK_DEADLOCK FALSE
