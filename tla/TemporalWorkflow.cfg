\* A run started by Update-With-Start: two capsules, three deltas, request ids
\* the agent may use again, up to three rounds of input.
SPECIFICATION FairSpec
CONSTANTS
  t1 = t1
  t2 = t2
  d1 = d1
  d2 = d2
  d3 = d3
  r1 = r1
  r2 = r2
  Tasks = {t1, t2}
  DeltaIds = {d1, d2, d3}
  RequestIds = {r1, r2}
  MaxTurns = 4
  SubmitFirst = TRUE
  NULL = NULL
INVARIANTS
  TypeOK
  AdoptedWasVerified
  CompletedWasAdopted
  ContextIsComplete
  WaitIsAnswerable
  EarlyCancelPreventsAdoption
PROPERTIES
  ImplementsLifecycle
  TerminalIsFinal
  CancelEndsRun
  AcceptedDeltaIsUsed
  TaskProgresses
CHECK_DEADLOCK FALSE
