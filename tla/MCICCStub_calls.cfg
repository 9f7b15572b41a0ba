CONSTANTS
  u1 = u1
  u2 = u2
  u3 = u3
  User <- Users
  Paths = 2
SPECIFICATION FairSpec
INVARIANTS NoDanglingContext RefCountExact MutexExists NoLibraryLeak
PROPERTIES RefusalsHaveStatus IsLibraryHolders CallsReturn
