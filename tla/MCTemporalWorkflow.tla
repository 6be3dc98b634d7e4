------------------------- MODULE MCTemporalWorkflow -------------------------
(* Small instances of TemporalWorkflow: see the .cfg files.  A delta made  *)
(* for another capsule, request or sequence is what the validator refuses. *)
EXTENDS TemporalWorkflow, TLC

CONSTANTS t1, t2, d1, d2, d3, r1, r2
=============================================================================
