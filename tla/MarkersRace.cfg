CONSTANTS
  Process = {p, q}
  batch_sizes <- MCBatchSizes
  max_chunk_value = 1
  NumGiants = 2
  NumBabies = 2
  MaxFaults = 0
SPECIFICATION Spec
INVARIANT LookupFailsOnlyOutOfRange
