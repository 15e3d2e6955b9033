CONSTANTS
  Dongles = {d1, d2}
  Ranges <- SomeRanges
  Sizes = {110}
  Word = 144
  Faults = {"noreply", "fcd"}
SPECIFICATION FairSpec
INVARIANTS
  
  PassedHasAllBlocks
PROPERTY Terminates
