CONSTANTS
  Q = 17
  Scalar <- MCScalar
  Zero = 0
  One = 1
  Add <- MCAdd
  Neg <- MCNeg
  Mul <- MCMul
  n = 4
  l = 2
  top_gen = 2
  n_inv = 13
  top_inv = 15
  Taus = {0, 3, 4}
  Generators <- MCGenerators
  Gammas = {5}
  SecretKeys = {3, 11}
  Thresholds = {0, 2, 5}
  Nonces <- MCNonces
  Messages <- MCMessages
  MaxCts = 2
  Misfiled = {0}
SPECIFICATION Spec
INVARIANTS TypeOK HintsAgree QuorumOpens ThresholdEnforced OneWrongShareSpoils
CHECK_DEADLOCK FALSE
