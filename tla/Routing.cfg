SPECIFICATION RouteSpec
CONSTANTS
  Char = {"/", "a", " "}
  MaxLen = 4
  MaxRoutes = 3
  TargetChar = {"/", "a", " ", "8", ":"}
  MaxTarget = 4
INVARIANTS TypeOK MatchIsUnique RoutesServeTheirMounts DocumentedTargets TargetsReturn
