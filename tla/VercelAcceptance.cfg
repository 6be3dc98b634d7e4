\* The probe, a run and another one that must never be started.
SPECIFICATION AcceptanceSpec
CONSTANTS
  Runs = {r1, r2}
  Clients = {probe}
  Probe = probe
  Task <- Capsule
  Submissions <- Capsules
  Requests = {"n"}
  Deltas <- ProbeDeltas
  Environments <- Deployed
  Window = 2
  None = None
PROPERTIES
  AcceptancePasses
  AppliedDeltaResumes
CHECK_DEADLOCK FALSE
