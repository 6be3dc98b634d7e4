\* Two runs and two clients: either both clients make two calls and nothing
\* fails, or one makes four, with any agent and any fault. A reader sees the
\* last two events (128 in the code).
SPECIFICATION Spec
CONSTANTS
  Runs = {r1, r2}
  Clients = {c1, c2}
  Submissions <- Capsules
  Requests = {"n"}
  Deltas <- SomeDeltas
  Environments <- CrowdOrTrouble
  Window = 2
  None = None
INVARIANTS
  TypeOK
  OneRunWorks
  ContextHookIsFree
  InboxMatchesHook
  CandidateUsesEveryDelta
  AcceptedRunIsMine
PROPERTIES
  SeenNeverRegresses
  ImplementsLifecycle
SYMMETRY Symmetry
CHECK_DEADLOCK FALSE
