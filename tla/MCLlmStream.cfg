\* Every body of up to three lines, for the three providers and both handlers.
SPECIFICATION FairSpec
CONSTANTS
  w1 = w1
  w2 = w2
  MaxLines = 3
  Providers = {"openai", "ollama", "mock"}
  Bodies <- MCBodies
  Words = {w1, w2}
  Blank = Blank
  Cap = 2
  NoAnswer = NoAnswer
INVARIANTS
  TypeOK
  ClientIsToldTheTruth
  ShortOnlyForAbsentClients
PROPERTY StreamEnds
CHECK_DEADLOCK FALSE
