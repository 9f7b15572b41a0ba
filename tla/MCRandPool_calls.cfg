CONSTANTS
  nobody = nobody
  Thread <- Threads
  Nobody = nobody
  MaxSlots = 2
  Faulty = TRUE
  Sizes <- AnySize
  LongSeed = TRUE
SPECIFICATION FairSpec
INVARIANT OneInside
PROPERTIES KeyFromNewSeed Released
CHECK_DEADLOCK FALSE
