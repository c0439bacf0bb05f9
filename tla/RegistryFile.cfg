SPECIFICATION Spec
CONSTANTS
  api = api
  apiSlash = apiSlash
  apiSlashes = apiSlashes
  apiSub = apiSub
  apiSlashSub = apiSlashSub
  apiSpace = apiSpace
  apiSpaceSlash = apiSpaceSlash
  app = app
  slash = slash
  noHost = noHost
  Handler = {h1, h2}
  RouteId = {r1, r2, r3, r4}
  Path <- MCThreePaths
  Target <- MCSomeTargets
  Overlap <- MCThreeOverlap
  NormalizePath <- MCThreeNormalizePath
  ParseTarget <- MCParseTarget
  Faults <- MCFileFaults
  Ops <- MCAllOps
SYMMETRY MCSymmetry
INVARIANTS IndexAgrees MountsMatchRoutes ReadableCheckpointComplete RestoreAllOrNothing
PROPERTY ImplementsRouteTable
