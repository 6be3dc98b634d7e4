------------------------- MODULE MCCloudflareKernel -------------------------
(* One task object, two requests in flight beside submit and cancel.       *)
EXTENDS CloudflareKernel, TLC

CONSTANTS p1, p2, a1, a2, k1, r1, r2

\* No patch; a need, or none any more; another attempt with a state, which must
\* not be taken over.
SomePatches ==
  {NoPatch, NoNeed} \cup {[NoPatch EXCEPT !.context_need = r] : r \in RequestIds}
    \cup {[NoPatch EXCEPT !.attempt = a, !.state = "COMPLETED"] : a \in Attempts}

BothModes == BOOLEAN
OverlapOnly == {TRUE}

Symmetry == Permutations(Requests) \cup Permutations(Attempts) \cup Permutations(RequestIds)
=============================================================================
