\* Requests one at a time, and two requests in flight; the event log is cut at
\* three events so that the cut is reached.
SPECIFICATION Spec
CONSTANTS
  p1 = p1
  p2 = p2
  a1 = a1
  a2 = a2
  k1 = k1
  r1 = r1
  r2 = r2
  Requests = {p1, p2}
  Attempts = {a1, a2}
  Packets = {k1}
  RequestIds = {r1, r2}
  Patches <- SomePatches
  EventCap = 3
  MaxSeq = 6
  Modes <- BothModes
  NULL = NULL
  Kept = Kept
SYMMETRY Symmetry
INVARIANTS
  TypeOK
  LogExplainsState
  AckedEventsStay
PROPERTIES
  TerminalIsImmutableInTurn
CHECK_DEADLOCK FALSE
