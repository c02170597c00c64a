\* The default configuration and edited versions of it, valid and invalid.
SPECIFICATION Spec
CONSTANTS
  States <- DefaultStates
  Neutral = "neutral"
  Stimuli <- DefaultStimuli
  Configs <- EditedConfigs
  MaxNow = 6
INVARIANTS
  TypeOK
  SearchFindsReachable
PROPERTIES
  DwellRespected
  NobodyIsTrapped
CHECK_DEADLOCK FALSE
