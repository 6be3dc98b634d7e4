\* Two commits of main beside the first one, two of the provider branch, and
\* a clock that passes the TTL.
SPECIFICATION Spec
CONSTANTS
  TTL = 1
  MaxCommits = 3
  MaxProvider = 2
  MaxTime = 3
  None = None
INVARIANTS
  AnswerIsCoherent
CHECK_DEADLOCK FALSE
