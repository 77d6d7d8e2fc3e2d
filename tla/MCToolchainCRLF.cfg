CONSTANTS
  Lower <- Low
  Upper <- Upp
  Digit <- Dig
  MaxDepth = 2
  EntryAt <- GetEntry
  Sources <- CRLFSources
SPECIFICATION SpecAll
INVARIANT NothingLost
CHECK_DEADLOCK FALSE
