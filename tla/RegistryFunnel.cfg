SPECIFICATION Spec
CONSTANTS
  api = api
  apiSlash = apiSlash
  apiSlashes = apiSlashes
  apiSub = apiSub
  apiSlashSub = apiSlashSub
  apiSpace = apiSpace
  apiSpaceSlash = apiSpaceSlash
  app = app
  slash = slash
  noHost = noHost
  Handler = {h1, h2}
  RouteId = {r1, r2, r3, r4}
  Path <- MCPath
  Target <- MCTarget
  Overlap <- MCOverlap
  NormalizePath <- MCNormalizePath
  ParseTarget <- MCParseTarget
  Faults <- MCFunnelFaults
  Ops <- MCAllOps
SYMMETRY MCSymmetry
INVARIANTS TypeOK RoutesDisjoint MountsMatchRoutes CheckpointExact CheckpointDisjoint
