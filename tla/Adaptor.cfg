SPECIFICATION Spec
CONSTANTS
  Action = "getloc"
  Segments = {"getloc", "cgi"}
  Names = {"a"}
  MaxPath = 3
  MaxQuery = 2
  MaxChain = 2
INVARIANTS ReachesAction InterceptorsBracket OneHeader
CHECK_DEADLOCK FALSE
