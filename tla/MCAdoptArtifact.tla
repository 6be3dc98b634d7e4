--------------------------- MODULE MCAdoptArtifact ---------------------------
(* The environments the runs of AdoptArtifact allow.                        *)
EXTENDS AdoptArtifact

\* Lock files are left behind, or attempts overlap.
OneFaultAtATime == {{"crash", "leak"}, {"overlap"}}

\* An attempt stays silent past its heartbeat timeout and past staleMs.
LongSilence == {{"overlap", "stall"}}
=============================================================================
