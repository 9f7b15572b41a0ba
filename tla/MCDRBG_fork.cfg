CONSTANTS
  p1 = p1
  p2 = p2
  alg = alg
  none = none
  zero = zero
  a = a
  Proc <- TwoProcs
  Root = p1
  NoProc = none
  Alg <- OneAlg
  NoAlg = none
  Block <- TwoBlocks
  NoBlock = none
  Zero = zero
  Faults <- NoFaults
  Sizes <- SmallOnly
  MaxReseed = 2
  TestAt = 2
  MaxChunk = 1
  MaxSeed = 3
  MaxDebt = 1
SPECIFICATION Spec
PROPERTIES FreshOutput
CHECK_DEADLOCK FALSE
