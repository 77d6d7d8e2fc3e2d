CONSTANTS
  Absent = Absent
  nil = nil
  NoPattern = nil
  NoParams = NoParams
  Depth <- ExtDepth
  Size <- ExtSize
  Ids = {"m1"}
  Patterns = {"item", "items", "call", "amount", "count", "when", "age", "choose", "quote"}
  Body <- ExtBody
  Exprs <- ExtExprs
  Defs = {}
  InitialDefs <- ExtInitial
  Resources = {}
  Overriding = {}
  TopPatterns = {"item", "items", "call", "amount", "count", "when", "age", "choose", "quote"}
  ArgSets <- ExtArgs
  Functions = {"F"}
  Results = {}
  Outcomes <- ExtOutcomes
  UseIsolating = TRUE
  MaxTimeValue = 1
  MaxPlaceables = 4
SPECIFICATION FairSpec
PROPERTIES NoMatchIsReported
