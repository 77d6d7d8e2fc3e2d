CONSTANTS
  Lower <- Low
  Upper <- Upp
  Digit <- Dig
  MaxDepth = 2
  EntryAt <- GetEntry
  Sources <- NestedSources
SPECIFICATION SpecAll
INVARIANT NestingBounded
CHECK_DEADLOCK FALSE
