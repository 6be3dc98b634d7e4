\* Two callers, three calls, three files, and one lost answer; pages of one
\* change, so that every reading is interleaved with other changes.
SPECIFICATION Spec
CONSTANTS
  Callers = {c1, c2}
  Puts <- SomePuts
  LargeDigests <- Large
  Projections <- OfBoth
  Clipped <- First120
  Envelopes = {"m"}
  PageSize = 1
  MaxFiles = 3
  MaxCalls = 3
  MaxLosses = 1
  None = None
SYMMETRY Symmetry
INVARIANTS
  RefsStayReadable
  ObserverMissesNothing
PROPERTIES
  ProjectionGoesForward
CHECK_DEADLOCK FALSE
