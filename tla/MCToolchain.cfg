CONSTANTS
  Lower <- Low
  Upper <- Upp
  Digit <- Dig
  MaxDepth = 2
  EntryAt <- GetEntry
  Sources <- MCSources
SPECIFICATION SpecAll
INVARIANTS TypeOK NothingLost CommentsAttached ErrorsAreLocal RoundTrip EntryIsFirst ParsersAgree TransformIsWalk
PROPERTIES Advances
CHECK_DEADLOCK FALSE
