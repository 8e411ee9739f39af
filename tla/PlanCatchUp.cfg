SPECIFICATION Spec
CONSTANTS
  Plans <- MCPlans
  Shapes <- MCShapes
  Span = 2
  ArmedAt = 1
  AtrLength = 2
  Lookback = 2
  MaxBars = 5
INVARIANTS
  TypeOK
  CatchUpIsPrompt
  BreakMeetsContract
  EntryInSequence
  ReversalNeverSwallowed
CHECK_DEADLOCK FALSE
