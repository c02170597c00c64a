\* Two callers against a service that restarts, blocks and fails.
SPECIFICATION FairSpec
CONSTANTS
  c1 = c1
  c2 = c2
  mixed = mixed
  blank = blank
  Callers = {c1, c2}
  Texts = {mixed, blank}
  BlankTexts = {blank}
  Cues <- MCCues
  Hits <- MCHits
  Replies <- MCReplies
  TopK = 3
  MaxBacklog = 3
INVARIANTS
  TypeOK
  AnswersKeepTheirSource
  StrongestLabelWins
PROPERTY CallersReturn
CHECK_DEADLOCK FALSE
