CONSTANTS
  m = 3
  crs_n = 3
  k = 1
  Machine = {d1, d2}
  MaxSet = 3
SPECIFICATION Spec
INVARIANT SameSubsetSameKey
CHECK_DEADLOCK FALSE
