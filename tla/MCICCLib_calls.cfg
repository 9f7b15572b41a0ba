CONSTANTS
  u1 = u1
  u2 = u2
  User <- Users
  Loader = loader
SPECIFICATION FairSpec
INVARIANTS RandomRestored NoConstantKeys DisabledForGood ServiceAfterPOST
PROPERTIES IsFIPSModule EventuallyDisabled
CHECK_DEADLOCK FALSE
