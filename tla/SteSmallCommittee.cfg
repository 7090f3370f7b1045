CONSTANTS
  Q = 17
  Scalar <- MCScalar
  Zero = 0
  One = 1
  Add <- MCAdd
  Neg <- MCNeg
  Mul <- MCMul
  n = 4
  l = 2
  top_gen = 2
  n_inv = 13
  top_inv = 15
  Taus = {3}
  Generators <- MCGenerators
  Gammas = {5}
  SecretKeys = {3, 11}
  Thresholds = {2}
  Nonces <- MCNonces
  Messages <- MCMessages
  MaxCts = 2
  Misfiled = {}
SPECIFICATION Spec
INVARIANT SmallCommitteeDecrypts
CHECK_DEADLOCK FALSE
