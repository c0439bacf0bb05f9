SPECIFICATION Spec
CONSTANTS
  Char = {"/", "a"}
  MaxLen = 4
  MaxRoutes = 2
INVARIANT MatchIsUnambiguous
