SPECIFICATION Spec
CONSTANTS
  Sizes = {0, 10, 15}
  Policies <- LookedUp
  IntMax = 15
  SizeMax = 63
  TabAddr = {t1, t2}
  EntryAddr = {e1, e2}
  MaxVariables = 2
  UserGrades = {0, 3}
  MaxGarbage = 1
  MayFail = {}
  Null = Null
  Wild = Wild
CHECK_DEADLOCK FALSE
INVARIANT VariablesKeepSegments
