SPECIFICATION OpenFairSpec
CONSTANTS
  sdk = sdk
  foreign = foreign
  c1 = c1
  r1 = r1
  Side <- MCSide
  Local = sdk
  Call <- MCCall
  Caller <- MCCaller
  MaxPending = 1
  OutCap = 1
  SlotCap = 1
  WireCap = 1
  ReplyBody = {"good"}
INVARIANTS
  TypeOK
PROPERTIES
  NothingAfterRefusal
  OpenHandlersEnd
  OpenCallsEnd
CHECK_DEADLOCK FALSE
