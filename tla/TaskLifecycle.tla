--------------------------- MODULE TaskLifecycle ---------------------------
(***************************************************************************)
(* What the shared contract (packages/contracts/src/task-state.js) promises*)
(* of one task, whichever backend runs it: the legal state moves, a        *)
(* state_seq that counts every visible change, and context deltas that are *)
(* accepted by compare-and-swap on context_seq, each delta_id once.        *)
(* The backends are detailed specifications of this one.                   *)
(***************************************************************************)
EXTENDS Naturals, FiniteSets

CONSTANT DeltaIds          \* identities a context delta may carry

VARIABLES
  state,                   \* snapshot.state
  state_seq,               \* snapshot.state_seq, 0 until the task is submitted
  context_seq,             \* snapshot.context_seq
  applied                  \* the set of snapshot.applied_delta_ids

lifecycle == <<state, state_seq, context_seq, applied>>

TERMINAL_STATES == {"COMPLETED", "FAILED", "CANCELED"}

TASK_STATES ==
  {"SUBMITTED", "COMPILING_CONTEXT", "WORKING", "INPUT_REQUIRED",
   "VERIFYING", "ADOPTING"} \cup TERMINAL_STATES

\* The successors of each non-terminal state other than FAILED and CANCELED,
\* which every one of them has; a terminal state has none.
Forward ==
  [SUBMITTED         |-> {"COMPILING_CONTEXT"},
   COMPILING_CONTEXT |-> {"WORKING"},
   WORKING           |-> {"INPUT_REQUIRED", "VERIFYING"},
   INPUT_REQUIRED    |-> {"WORKING"},
   VERIFYING         |-> {"ADOPTING"},
   ADOPTING          |-> {"COMPLETED"}]

TRANSITIONS ==
  [s \in TASK_STATES |->
     IF s \in TERMINAL_STATES THEN {} ELSE Forward[s] \cup {"FAILED", "CANCELED"}]

TypeOK ==
  /\ state \in TASK_STATES
  /\ state_seq \in Nat
  /\ context_seq \in Nat
  /\ applied \in SUBSET DeltaIds

-----------------------------------------------------------------------------
Init ==
  /\ state = "SUBMITTED"
  /\ state_seq = 0
  /\ context_seq = 0
  /\ applied = {}

\* The task is accepted: visible, still SUBMITTED.
Submit ==
  /\ state = "SUBMITTED"
  /\ state_seq = 0
  /\ state_seq' = 1
  /\ UNCHANGED <<state, context_seq, applied>>

\* A move the transition table allows. Waiting for input ends only with a
\* delta (ApplyDelta) or with a terminal state.
Move(to) ==
  /\ to \in TRANSITIONS[state]
  /\ state = "INPUT_REQUIRED" => to \in TERMINAL_STATES
  /\ state' = to
  /\ state_seq' = state_seq + 1
  /\ UNCHANGED <<context_seq, applied>>

\* The next agent turn of a task that is WORKING already: counted, but not
\* a move of the table, which has no WORKING -> WORKING.
BeginTurn ==
  /\ state = "WORKING"
  /\ state_seq' = state_seq + 1
  /\ UNCHANGED <<state, context_seq, applied>>

\* A delta made against the current context_seq is accepted, once.
ApplyDelta(d) ==
  /\ state = "INPUT_REQUIRED"
  /\ d \notin applied
  /\ state' = "WORKING"
  /\ state_seq' = state_seq + 1
  /\ context_seq' = context_seq + 1
  /\ applied' = applied \cup {d}

Next ==
  \/ Submit
  \/ \E to \in TASK_STATES : Move(to)
  \/ BeginTurn
  \/ \E d \in DeltaIds : ApplyDelta(d)

Spec == Init /\ [][Next]_lifecycle

-----------------------------------------------------------------------------
\* A terminal task never reopens and nothing of it is counted any more.
TerminalAbsorbs ==
  [][(state \in TERMINAL_STATES) => UNCHANGED lifecycle]_lifecycle

\* No delta is applied twice and none is forgotten: context_seq, which the
\* next delta must name, is the number of distinct deltas accepted.
ContextSeqCountsDeltas ==
  IsFiniteSet(applied) /\ context_seq = Cardinality(applied)
=============================================================================
