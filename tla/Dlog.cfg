CONSTANTS
  Order = 457
  NumGiants = 8
  NumBabies = 2
  Word = 64
  Conjugations = {1, 18, 109, 127, 133, 134, 323, 324, 330, 348, 439, 456}
SPECIFICATION FairSpec
INVARIANTS TypeOK SolveSound SolveComplete SpuriousOnlyByConjugates
PROPERTY EveryCallReturns
