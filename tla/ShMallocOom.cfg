SPECIFICATION MallocSpec
CONSTANTS
  Sizes = {0, 4, 10, 12, 15, 16, 32, 37, 60}
  Policies <- AllPolicies
  IntMax = 15
  SizeMax = 63
  TabAddr = {t1, t2}
  MayFail = {"table", "desc", "rest", "full"}
  Null = Null
  Wild = Wild
CHECK_DEADLOCK FALSE
INVARIANT FailureContained
