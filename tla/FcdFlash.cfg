CONSTANTS
  Dongles = {d1, d2}
  Ranges <- AnyRanges
  Sizes = {120, 310}
  Word = 160
  Faults = {"lost", "noreply", "unplug", "slow"}
SPECIFICATION Spec
SYMMETRY Symmetry
INVARIANTS
  TypeOK
  InBounds
  PointerInStep
  PassedIsProgrammed
  OneAtATime
