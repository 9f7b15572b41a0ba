CONSTANTS
  p1 = p1
  p2 = p2
  alg = alg
  none = none
  zero = zero
  a = a
  Proc <- OneProc
  Root = p1
  NoProc = none
  Alg <- OneAlg
  NoAlg = none
  Block <- TwoBlocks
  NoBlock = none
  Zero = zero
  Faults <- AllFaults
  Sizes <- AllSizes
  MaxReseed = 3
  TestAt = 2
  MaxChunk = 2
  MaxSeed = 4
  MaxDebt = 1
SPECIFICATION Spec
INVARIANTS SeedBudget
PROPERTIES FatalSilences PredictionResistance KeepsContract
CHECK_DEADLOCK FALSE
