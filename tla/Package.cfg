SPECIFICATION MCSpec
CONSTANTS
  right = right
  wrong = wrong
  None = None
  Torn = Torn
  Build <- MCBuild
  ForHost = {right}
  VersionText <- MCVersionText
  Others <- Ordered
  MaxVersion <- MCMaxVersion
  MaxRebuild = 2
INVARIANTS
  LoadedIsOneBuild
  WrittenLoads
  ParseIsGrammar
  CompareIsPrecedence
CHECK_DEADLOCK FALSE
