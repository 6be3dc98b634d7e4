--------------------------- MODULE MCVercelBackend ---------------------------
(* Two capsules of one attempt, and two deltas: one for its first need, one  *)
(* for its second.                                                           *)
EXTENDS VercelBackend, TLC

Capsules == {[attempt |-> "a", digest |-> "h1"], [attempt |-> "a", digest |-> "h2"]}

Delta(i, n) == [id |-> i, attempt |-> "a", request |-> "n", seq |-> n]
SomeDeltas == {Delta("d1", 0), Delta("d2", 1)}

\* Two clients share the task, the agent is the fixture and nothing fails; or
\* one client has one run, with any agent and any fault.
Crowd ==
  {[agent |-> "fixture", faults |-> {}, turns |-> 1, runs |-> Runs,
    calls |-> [c \in Clients |-> 2]]}
Trouble ==
  {[agent |-> "any", faults |-> {"again", "emit", "step"}, turns |-> 2, runs |-> {r},
    calls |-> [d \in Clients |-> IF d = c THEN 4 ELSE 0]] : r \in Runs, c \in Clients}
CrowdOrTrouble == Crowd \cup Trouble

\* A start and a delta, and emissions that fail.
EmissionFails ==
  {[agent |-> "fixture", faults |-> {"emit"}, turns |-> 1, runs |-> Runs,
    calls |-> [c \in Clients |-> 2]]}

Symmetry == {p @@ q : p \in Permutations(Clients), q \in Permutations(Runs)}
=============================================================================
