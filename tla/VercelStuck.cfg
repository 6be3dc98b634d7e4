\* One emission may fail for good.
SPECIFICATION FairSpec
CONSTANTS
  Runs = {r1}
  Clients = {c1}
  Submissions <- Capsules
  Requests = {"n"}
  Deltas <- SomeDeltas
  Environments <- EmissionFails
  Window = 2
  None = None
PROPERTIES
  AppliedDeltaResumes
CHECK_DEADLOCK FALSE
