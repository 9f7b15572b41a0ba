CONSTANTS
  w1 = w1
  w2 = w2
  Ctx <- TwoCtx
SPECIFICATION Spec
SYMMETRY Threads
INVARIANTS InnerOwned AttachAnswers
