\* Three interactions, two of which store a memory, and the collector.
SPECIFICATION FairSpec
CONSTANTS
  Turns = {1, 2, 3}
  Intensity <- MCIntensity
  Valence <- MCValence
  IntensityThreshold = 9
  FrequencyThreshold = 10
  ValenceThreshold = 8
  Attempts = 2
  GCAccessThreshold = 1
  BatchSize = 1
  MaxLate = 1
  Absent = Absent
INVARIANTS
  TypeOK
  CountNeverExceedsAccesses
  CollectedIsGone
PROPERTIES
  DemotedOnlyByResentUpsert
  StaleIsCollected
CHECK_DEADLOCK FALSE
