CONSTANTS
  m = 4
  crs_n = 3
  k = 2
  Machine = {d1}
  MaxSet = 4
SPECIFICATION FairSpec
INVARIANTS TypeOK FullCommitteeAligned OverfullOnlyPanics OnlyLeftoversRecomputed
PROPERTY EveryCallEnds
CHECK_DEADLOCK FALSE
