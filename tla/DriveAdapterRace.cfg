\* Two projectors of one task and its one file, no answer is lost.
SPECIFICATION Spec
CONSTANTS
  Callers = {c1, c2}
  Puts = {}
  LargeDigests = {}
  Projections <- OfTask
  Clipped <- First120
  Envelopes = {}
  PageSize = 1
  MaxFiles = 1
  MaxCalls = 3
  MaxLosses = 0
  None = None
PROPERTIES
  ProjectionIsMonotonic
CHECK_DEADLOCK FALSE
