SPECIFICATION Spec
CONSTANTS
  host = host
  plugin = plugin
  h1 = h1
  h2 = h2
  Side <- MCSide
  Call <- OneWayCall
  Caller <- OneWayCaller
  MaxPending = 2
  OutCap = 2
  SlotCap = 2
  WireCap = 2
  ReplyBody = {"good", "huge"}
SYMMETRY OneWaySymmetry
INVARIANTS
  CancelBehindRequest
  AtMostOneMissedByClose
  SlotAccounting
  NeverDuplicates
PROPERTIES
  ImplementsRpc
CHECK_DEADLOCK FALSE
