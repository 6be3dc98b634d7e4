------------------------ MODULE TaskLifecycleProofs ------------------------
(***************************************************************************)
(* Proofs about the task contract.  They hold of every backend shown to    *)
(* implement it.                                                           *)
(***************************************************************************)
EXTENDS TaskLifecycle, FiniteSetTheorems, TLAPS

\* A move leads to a state of the table.
LEMMA TypeStep == TypeOK /\ [Next]_lifecycle => TypeOK'
<1>. SUFFICES ASSUME TypeOK, [Next]_lifecycle PROVE TypeOK'
  OBVIOUS
<1>1. CASE Submit
  BY <1>1 DEF Submit, TypeOK
<1>2. ASSUME NEW to \in TASK_STATES, Move(to)
      PROVE  TypeOK'
  BY <1>2 DEF Move, TypeOK
<1>3. CASE BeginTurn
  BY <1>3 DEF BeginTurn, TypeOK
<1>4. ASSUME NEW d \in DeltaIds, ApplyDelta(d)
      PROVE  TypeOK'
  <2>1. "WORKING" \in TASK_STATES
    BY DEF TASK_STATES
  <2>. QED
    BY <1>4, <2>1 DEF ApplyDelta, TypeOK
<1>5. CASE UNCHANGED lifecycle
  BY <1>5 DEF lifecycle, TypeOK
<1>. QED
  BY <1>1, <1>2, <1>3, <1>4, <1>5 DEF Next

\* Every task of the contract has a state of the table and counts in naturals.
THEOREM TypeCorrect == Spec => []TypeOK
<1>1. Init => TypeOK
  BY DEF Init, TypeOK, TASK_STATES
<1>. QED
  BY <1>1, TypeStep, PTL DEF Spec

\* The table has no row for a terminal state, and neither a submit, a turn nor
\* a delta is legal in one.
THEOREM TerminalIsAbsorbing == Spec => TerminalAbsorbs
<1>1. TypeOK /\ [Next]_lifecycle => [(state \in TERMINAL_STATES) => UNCHANGED lifecycle]_lifecycle
  <2>. SUFFICES ASSUME Next, state \in TERMINAL_STATES PROVE FALSE
    OBVIOUS
  <2>1. state \in TASK_STATES /\ TRANSITIONS[state] = {}
    BY DEF TASK_STATES, TRANSITIONS
  <2>2. state # "SUBMITTED" /\ state # "WORKING" /\ state # "INPUT_REQUIRED"
    BY DEF TERMINAL_STATES
  <2>. QED
    BY <2>1, <2>2 DEF Next, Submit, Move, BeginTurn, ApplyDelta
<1>. QED
  BY <1>1, TypeCorrect, PTL DEF Spec, TerminalAbsorbs

\* context_seq is compared with what a delta expects, so it has to be the
\* number of the deltas accepted before, for every history of the task.
THEOREM DeltasCounted == Spec => []ContextSeqCountsDeltas
<1>1. Init => ContextSeqCountsDeltas
  BY FS_EmptySet DEF Init, ContextSeqCountsDeltas
<1>2. ContextSeqCountsDeltas /\ [Next]_lifecycle => ContextSeqCountsDeltas'
  <2>. SUFFICES ASSUME ContextSeqCountsDeltas, [Next]_lifecycle
                PROVE  ContextSeqCountsDeltas'
    OBVIOUS
  <2>1. ASSUME NEW d \in DeltaIds, ApplyDelta(d)
        PROVE  ContextSeqCountsDeltas'
    <3>1. /\ d \notin applied
          /\ applied' = applied \cup {d}
          /\ context_seq' = context_seq + 1
      BY <2>1 DEF ApplyDelta
    <3>. QED
      BY <3>1, FS_AddElement DEF ContextSeqCountsDeltas
  <2>2. CASE UNCHANGED <<context_seq, applied>>
    BY <2>2 DEF ContextSeqCountsDeltas
  <2>3. UNCHANGED <<context_seq, applied>> \/ \E d \in DeltaIds : ApplyDelta(d)
    BY DEF Next, Submit, Move, BeginTurn, lifecycle
  <2>. QED
    BY <2>1, <2>2, <2>3
<1>. QED
  BY <1>1, <1>2, PTL DEF Spec
=============================================================================
