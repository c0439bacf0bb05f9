SPECIFICATION RouteSpec
CONSTANTS
  Char = {"/", "a"}
  MaxLen = 4
  MaxRoutes = 2
  TargetChar = {"/", "a", " ", "8", ":"}
  MaxTarget = 4
INVARIANT TargetsRestorable
