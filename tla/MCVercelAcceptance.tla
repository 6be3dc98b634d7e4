------------------------- MODULE MCVercelAcceptance -------------------------
(* The fixture agent, and steps that the engine may make twice.             *)
EXTENDS VercelAcceptance

Capsule == [attempt |-> "a", digest |-> "h"]
Capsules == {Capsule}
ProbeDeltas ==
  [id : {"stale", "valid"}, attempt : {"a"}, request : {"n"}, seq : {0, 1}]
Deployed ==
  {[agent |-> "fixture", faults |-> {"again"}, turns |-> 1, runs |-> Runs,
    calls |-> [c \in Clients |-> 0]]}
=============================================================================
