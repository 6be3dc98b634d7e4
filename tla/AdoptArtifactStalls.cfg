\* Two attempts, the first of which may be silent for a while and go on.
SPECIFICATION Spec
CONSTANTS
  MaxAttempts = 2
  Environments <- LongSilence
  NULL = NULL
PROPERTIES
  AdoptionIsStable
CHECK_DEADLOCK FALSE
