SPECIFICATION FairSpec
CONSTANTS
  q1 = q1
  q2 = q2
  q3 = q3
  Main = Main
  None = None
  Id <- MCId
  MaxConc = 2
PROPERTIES
  ContextEndsServe
CHECK_DEADLOCK FALSE
