SPECIFICATION ComposedSpec
CONSTANTS
  hostEnd = hostEnd
  pluginEnd = pluginEnd
  prepare = prepare
  callback = callback
  only = only
  None = None
  Provider = Provider
  Side <- MCSide
  Call <- MCCall
  Caller <- MCCaller
  HostCall <- MCHostCall
  Asks <- MCAsks
  Callback <- MCCallback
  Run <- MCRun
  Units <- MCUnits
  MaxUnit = 0
  MaxPending = 1
  OutCap = 1
  SlotCap = 1
  WireCap = 1
  ReplyBody = {"good", "bad"}
INVARIANTS
  FreeWhenBack
PROPERTIES
  CallsReturn
  CloseSpreads
  ProviderLetsGo
CHECK_DEADLOCK FALSE
