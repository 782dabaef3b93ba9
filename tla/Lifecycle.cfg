SPECIFICATION Spec
CONSTANTS
  i1 = i1
  i2 = i2
  h1 = h1
  two = two
  unset = unset
  None = None
  Inv = {i1, i2}
  Helper = {h1}
  Run <- MCRun
  Units <- MCUnits
  MaxUnit = 2
SYMMETRY Goroutines
INVARIANTS
  TypeOK
  OneProviderMethod
  UnitsOnce
  AtMostOneStaleCallback
PROPERTIES
  PanicNeedsCleanup
  ImplementsContract
CHECK_DEADLOCK FALSE
