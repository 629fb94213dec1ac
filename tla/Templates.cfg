SPECIFICATION Spec
CONSTANTS
  Variables = {"v", "b"}
  Sections = {"s", "r"}
  Includes = {"i"}
  Filenames = {"page", "part"}
  MaxDicts = 7
  Values <- MCValues
  Situations <- MCSituations
  NewTexts <- MCNewTexts
  Written <- MCWritten
  Tree <- MCTree
  Shtml = {"page"}
INVARIANTS ParsedRight ExpandedRight FreshTemplates
PROPERTY CopiesAlike
CHECK_DEADLOCK FALSE
