CONSTANTS
  Absent = Absent
  nil = nil
  NoPattern = nil
  NoParams = NoParams
  Depth <- NestedDepth
  Size <- NestedSize
  Ids = {"m1"}
  Patterns = {"nested"}
  Body <- NestedBody
  Exprs <- NestedExprs
  Defs = {}
  InitialDefs <- ExtInitial
  Resources = {}
  Overriding = {}
  TopPatterns = {"nested"}
  ArgSets <- NestedArgs
  Functions = {"F"}
  Results = {}
  Outcomes <- Works
  UseIsolating = TRUE
  MaxTimeValue = 1
  MaxPlaceables = 4
SPECIFICATION Spec
INVARIANTS OptionErrorsReported
