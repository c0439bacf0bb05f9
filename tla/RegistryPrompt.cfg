SPECIFICATION PageSpec
CONSTANTS
  api = api
  apiSlash = apiSlash
  apiSlashes = apiSlashes
  apiSub = apiSub
  apiSlashSub = apiSlashSub
  apiSpace = apiSpace
  apiSpaceSlash = apiSpaceSlash
  app = app
  slash = slash
  noHost = noHost
  Handler = {h1}
  RouteId = {r1, r2, r3, r4}
  Path <- MCThreePaths
  Target <- MCTarget
  Overlap <- MCThreeOverlap
  NormalizePath <- MCThreeNormalizePath
  ParseTarget <- MCParseTarget
  Faults <- MCNoFaults
  Ops <- MCAllOps
PROPERTY PromptOnlyOnStartup
