--------------------------- MODULE MCDriveAdapter ---------------------------
(* Two references to the same bytes, one to a large artifact, an envelope,   *)
(* and snapshots of two tasks: one has an id of 120 characters, the other a  *)
(* longer id that begins with it.                                            *)
EXTENDS DriveAdapter, TLC

SomePuts ==
  {[digest |-> "h1", media |-> "json"], [digest |-> "h1", media |-> "text"],
   [digest |-> "h2", media |-> "json"]}
Large == {"h2"}

First120 == [id \in {"task", "task-with-more"} |-> "task"]
Snapshots(id, seqs) == {[task |-> id, state_seq |-> n, state |-> "WORKING"] : n \in seqs}
OfBoth == Snapshots("task", 1 .. 2) \cup Snapshots("task-with-more", {1})
\* The first is for a race over one file. With the second, and two files, one
\* caller alone writes a stale projection.
OfTask == Snapshots("task", 1 .. 3)
OfLonger == Snapshots("task-with-more", 1 .. 2)

Symmetry == Permutations(Callers)
=============================================================================
