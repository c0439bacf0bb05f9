SPECIFICATION FairSpec
CONSTANTS
  api = api
  apiSlash = apiSlash
  apiSlashes = apiSlashes
  apiSub = apiSub
  apiSlashSub = apiSlashSub
  apiSpace = apiSpace
  apiSpaceSlash = apiSpaceSlash
  app = app
  slash = slash
  noHost = noHost
  Handler = {h1, h2}
  RouteId = {r1, r2, r3}
  Path <- MCTwoPaths
  Target <- MCTarget
  Overlap <- MCTwoOverlap
  NormalizePath <- MCTwoNormalizePath
  ParseTarget <- MCParseTarget
  Faults <- MCFunnelFaults
  Ops <- MCAddRestore
PROPERTIES CallsReturn ShutdownCompletes
