\* Three interactions of one agent whose pushes are repeated, late and lost.
SPECIFICATION PromptSpec
CONSTANTS
  r1 = r1
  r2 = r2
  r3 = r3
  Requests = {r1, r2, r3}
  Memories <- MCMemories
  Length <- MCLength
  Traits <- MCTraits
  Retrievals <- MCRetrievals
  MaxStamp = 2
  MaxTurns = 2
  MaxLate = 1
  MaxEntries = 3
  Attempts = 2
  NoPrompt = NoPrompt
SYMMETRY MCSymmetry
INVARIANTS
  PromptTypeOK
  LeftOutOnlyByBetter
  MemoriesFitTheirBudget
PROPERTY LatestTurnsAreShown
CHECK_DEADLOCK FALSE
