\* Four attempts; file errors and lost answers, and either lock
\* files left behind or attempts that run side by side.
SPECIFICATION Spec
CONSTANTS
  MaxAttempts = 4
  Environments <- OneFaultAtATime
  NULL = NULL
INVARIANTS
  TypeOK
  MutualExclusion
  AdoptionHasReceipt
  OneAdoptionReported
PROPERTIES
  ImplementsLedger
  FencedOffWritesNothing
  AdoptionIsStable
CHECK_DEADLOCK FALSE
