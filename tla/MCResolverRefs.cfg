CONSTANTS
  Absent = Absent
  nil = nil
  NoPattern = nil
  NoParams = NoParams
  Depth <- RefDepth
  Size <- RefSize
  Ids = {"m1", "m2", "t1", "t2"}
  Patterns = {"hello", "again", "single", "plain", "label", "brand", "case", "loop", "pick", "none"}
  Body <- RefBody
  Exprs <- RefExprs
  Defs <- RefDefs
  InitialDefs <- RefInitial
  Resources <- AllResources
  Overriding = {TRUE, FALSE}
  TopPatterns = {"hello", "again", "label", "pick", "plain", nil}
  ArgSets <- RefArgs
  Functions = {}
  Results = {}
  Outcomes <- Works
  UseIsolating = TRUE
  MaxTimeValue = 1
  MaxPlaceables = 6
SPECIFICATION FairSpec
INVARIANTS TypeOK DirtyIsActive ExpansionBound ParamsOfInnermostTerm LimitIsFatal
  IsolationBalanced FallbacksReported
PROPERTIES AlwaysReturns EveryStepCounts
