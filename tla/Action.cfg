SPECIFICATION FairSpec
CONSTANTS
  q1 = q1
  q2 = q2
  q3 = q3
  Main = Main
  None = None
  Id <- MCId
  MaxConc = 2
INVARIANTS
  TypeOK
  OneResponse
  WholeFrames
  QuietWhenStopping
PROPERTIES
  LeavingReturns
  CancelledIsReleased
CHECK_DEADLOCK FALSE
