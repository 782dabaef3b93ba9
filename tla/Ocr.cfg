SPECIFICATION FairSpec
CONSTANTS
  i1 = i1
  i2 = i2
  r1 = r1
  r2 = r2
  s1 = s1
  None = None
  Call <- MCCall
  Kind <- MCKind
INVARIANTS
  TypeOK
  NothingLeaks
  InUseIsOpen
  PassedIsTrue
PROPERTIES
  CallsReturn
CHECK_DEADLOCK FALSE
