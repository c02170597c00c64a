\* What the phase document and the collector's tests say of L3 memories.
SPECIFICATION Spec
CONSTANTS
  Turns = {1, 2, 3}
  Intensity <- MCIntensity
  Valence <- MCValence
  IntensityThreshold = 9
  FrequencyThreshold = 10
  ValenceThreshold = 8
  Attempts = 2
  GCAccessThreshold = 1
  BatchSize = 1
  MaxLate = 1
  Absent = Absent
PROPERTY L3IsNeverCollected
CHECK_DEADLOCK FALSE
