\* A run any client may have started: the cancel may come before the task.
SPECIFICATION FairSpec
CONSTANTS
  t1 = t1
  t2 = t2
  d1 = d1
  d2 = d2
  d3 = d3
  r1 = r1
  r2 = r2
  Tasks = {t1, t2}
  DeltaIds = {d1, d2, d3}
  RequestIds = {r1, r2}
  MaxTurns = 4
  SubmitFirst = FALSE
  NULL = NULL
PROPERTIES
  TerminalIsFinal
CHECK_DEADLOCK FALSE
