SPECIFICATION PageSpec
CONSTANTS
  api = api
  apiSlash = apiSlash
  apiSlashes = apiSlashes
  apiSub = apiSub
  apiSlashSub = apiSlashSub
  apiSpace = apiSpace
  apiSpaceSlash = apiSpaceSlash
  app = app
  slash = slash
  noHost = noHost
  Handler = {h1}
  RouteId = {r1, r2}
  Path <- MCSpacePath
  Target <- MCTargets
  Overlap <- MCSpaceOverlap
  NormalizePath <- MCSpaceNormalizePath
  ParseTarget <- MCParseTargets
  Faults <- MCNoFaults
  Ops <- MCAllOps
SYMMETRY MCSymmetry
INVARIANTS PageTypeOK RestoreAsPreviewed
PROPERTY RestoreIsExact
