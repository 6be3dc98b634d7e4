\* Two requests in flight.
SPECIFICATION Spec
CONSTANTS
  p1 = p1
  p2 = p2
  a1 = a1
  a2 = a2
  k1 = k1
  r1 = r1
  r2 = r2
  Requests = {p1, p2}
  Attempts = {a1, a2}
  Packets = {k1}
  RequestIds = {r1, r2}
  Patches <- SomePatches
  EventCap = 3
  MaxSeq = 6
  Modes <- OverlapOnly
  NULL = NULL
  Kept = Kept
PROPERTIES
  TerminalIsImmutable
CHECK_DEADLOCK FALSE
