CONSTANTS
  t1 = t1
  t2 = t2
  t3 = t3
  Thread <- Threads
  TestAt = 3
  MaxDebt = 3
SPECIFICATION Spec
INVARIANTS Covered
CHECK_DEADLOCK FALSE
