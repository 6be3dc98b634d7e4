-------------------------- MODULE TemporalWorkflow --------------------------
(***************************************************************************)
(* One run of runAgentTaskWorkflow (workflows/temporal/src/workflows.js).  *)
(*                                                                         *)
(* A workflow run is one JavaScript thread: the main coroutine executes    *)
(* from one await to the next without interruption, and an Update handler, *)
(* which has no await, executes at once after its validator.  So every     *)
(* action here is one handler, or the stretch of the main coroutine from   *)
(* the await named by pc to the following one.  What happens between two   *)
(* stretches is everyone else: updates, the activity's own work, the       *)
(* failure of all its attempts, cancellation of the run.                   *)
(*                                                                         *)
(* A conversation with the agent is abstracted to the deltas it has seen:  *)
(* a compiled context is the sequence of delta_ids merged into it, and a   *)
(* candidate artifact is named by the turn and the context it came from.   *)
(***************************************************************************)
EXTENDS Naturals, Sequences, FiniteSets

CONSTANTS
  Tasks,          \* task capsules that may be submitted under this workflow id;
                  \* a capsule stands for its execution_hash and its
                  \* logical_attempt_id
  DeltaIds,       \* identities of context deltas
  RequestIds,     \* request_ids the agent may give a context need
  MaxTurns,       \* bound: the agent asks for input only in earlier turns
  SubmitFirst,    \* TRUE: runs are started by the runner's Update-With-Start,
                  \* so submitTask is the first update a run sees.  FALSE: any
                  \* client may start the run and cancel it before that
  NULL            \* JavaScript's null

ASSUME TemporalAssumption ==
  /\ MaxTurns \in Nat \ {0}
  /\ SubmitFirst \in BOOLEAN
  /\ NULL \notin Tasks \cup DeltaIds \cup RequestIds

VARIABLES
  snapshot,         \* the object the query and every update return
  pendingDelta,     \* accepted delta the main coroutine has not consumed
  cancelRequested,
  pc,               \* the await the main coroutine stands at
  call,             \* arguments of the activity it waits for
  scheduled,        \* arguments of the adoptArtifact activities ever scheduled
  adopted           \* candidates whose adoption the effect ledger records

vars == <<snapshot, pendingDelta, cancelRequested, pc, call, scheduled, adopted>>

LifecycleStates == {"SUBMITTED", "COMPILING_CONTEXT", "WORKING", "INPUT_REQUIRED",
                    "VERIFYING", "ADOPTING", "COMPLETED", "FAILED", "CANCELED"}

isTerminal(s) == s \in {"COMPLETED", "FAILED", "CANCELED"}

Contexts == Seq(DeltaIds)

Candidates == [turn : Nat, context : Contexts, n : {1, 2}]

Reports == [subject : Candidates, decision : {"PASS", "FAIL"}]

Errors == {"CANCELED_BY_REQUEST", "TEMPORAL_CANCELED", "AGENT_FAILED",
           "VERIFICATION_FAILED", "WORKFLOW_FAILED"}

Snapshots ==
  [task                    : Tasks \cup {NULL},
   state                   : LifecycleStates,
   terminal                : BOOLEAN,
   state_seq               : Nat,
   context_seq             : Nat,
   turn_no                 : Nat,
   context_need            : RequestIds \cup {NULL},
   compiled_context_ref    : Contexts \cup {NULL},
   candidate_artifact_refs : Seq(Candidates),
   verification_report_ref : Reports \cup {NULL},
   adoption_ref            : Candidates \cup {NULL},
   applied_delta_ids       : Seq(DeltaIds),
   error                   : Errors \cup {NULL}]

\* The fields activities take, with the snapshot as it was at the call.
Calls ==
  [turn_no    : Nat,
   compiled   : Contexts \cup {NULL},
   delta      : DeltaIds \cup {NULL},
   candidates : Seq(Candidates),
   report     : Reports \cup {NULL}]

Activities == {"compileContext", "runAgentTurn", "mergeContextDelta",
               "verifyCandidate", "adoptArtifact"}

Awaits == Activities \cup {"awaitSubmit", "awaitInput", "returned"}

TypeOK ==
  /\ snapshot \in Snapshots
  /\ pendingDelta \in DeltaIds \cup {NULL}
  /\ cancelRequested \in BOOLEAN
  /\ pc \in Awaits
  /\ call \in Calls
  /\ scheduled \in SUBSET Calls
  /\ adopted \in SUBSET Candidates

-----------------------------------------------------------------------------
initialSnapshot ==
  [task                    |-> NULL,
   state                   |-> "SUBMITTED",
   terminal                |-> FALSE,
   state_seq               |-> 0,
   context_seq             |-> 0,
   turn_no                 |-> 0,
   context_need            |-> NULL,
   compiled_context_ref    |-> NULL,
   candidate_artifact_refs |-> <<>>,
   verification_report_ref |-> NULL,
   adoption_ref            |-> NULL,
   applied_delta_ids       |-> <<>>,
   error                   |-> NULL]

\* (Variants named Bug... are mistakes this code could contain.  Nothing uses
\* them here: they show which property would notice.)

BugTerminalMoves(s, to, patched) ==
  [patched EXCEPT !.state = to, !.terminal = isTerminal(to), !.state_seq = @ + 1]

BugTerminalTakesPatch(s, to, patched) ==
  IF isTerminal(s.state) THEN patched
  ELSE [patched EXCEPT !.state = to, !.terminal = isTerminal(to), !.state_seq = @ + 1]

\* transition(to, patch) in snapshot s, where patched is s with the patch in
\* it.  A terminal snapshot drops the patch too.
Transition(s, to, patched) ==
  IF isTerminal(s.state) THEN s
  ELSE [patched EXCEPT !.state = to, !.terminal = isTerminal(to), !.state_seq = @ + 1]

\* The two ways to end without a result, with the code they leave.
Fail(s, code) == Transition(s, "FAILED", [s EXCEPT !.error = code])
Cancel(code) == Transition(snapshot, "CANCELED", [snapshot EXCEPT !.error = code])

Return == pc' = "returned"

BugCallTurnBefore(s, delta) ==
  [turn_no    |-> s.turn_no - 1,
   compiled   |-> s.compiled_context_ref,
   delta      |-> delta,
   candidates |-> s.candidate_artifact_refs,
   report     |-> s.verification_report_ref]

\* The arguments an activity is called with are read from snapshot s; only
\* mergeContextDelta takes a delta.
Call(s, delta) ==
  [turn_no    |-> s.turn_no,
   compiled   |-> s.compiled_context_ref,
   delta      |-> delta,
   candidates |-> s.candidate_artifact_refs,
   report     |-> s.verification_report_ref]

Schedule(activity, s, delta) ==
  /\ pc' = activity
  /\ call' = Call(s, delta)

-----------------------------------------------------------------------------
(* Update handlers.  A handler runs while the run is open.                 *)

\* submitTask: the same capsule again answers with the snapshot, another one
\* fails validation with TASK_CONFLICT; neither changes anything.
SubmitTask(task) ==
  /\ pc # "returned"
  /\ snapshot.task = NULL
  /\ snapshot' = [snapshot EXCEPT !.task = task, !.state = "SUBMITTED", !.state_seq = 1]
  /\ UNCHANGED <<pendingDelta, cancelRequested, pc, call, scheduled, adopted>>

\* The delta_ids the snapshot lists as applied.
appliedDeltas ==
  {snapshot.applied_delta_ids[i] : i \in 1 .. Len(snapshot.applied_delta_ids)}

\* assertDeltaAllowed, in its order; task stands for task_id and
\* logical_attempt_id.
assertDeltaAllowed(delta) ==
  /\ snapshot.state = "INPUT_REQUIRED"
  /\ delta.task = snapshot.task
  /\ delta.request_id = snapshot.context_need
  /\ delta.expected_seq = snapshot.context_seq
  /\ delta.delta_id \notin appliedDeltas

ApplyContextDelta(delta) ==
  /\ pc # "returned"
  /\ assertDeltaAllowed(delta)
  /\ pendingDelta' = delta.delta_id
  /\ snapshot' = [snapshot EXCEPT !.state = "WORKING",
                                  !.state_seq = @ + 1,
                                  !.context_seq = @ + 1,
                                  !.context_need = NULL,
                                  !.applied_delta_ids = Append(@, delta.delta_id)]
  /\ UNCHANGED <<cancelRequested, pc, call, scheduled, adopted>>

RequestCancel ==
  /\ pc # "returned"
  /\ ~cancelRequested
  /\ SubmitFirst => snapshot.task # NULL
  /\ cancelRequested' = TRUE
  /\ snapshot' = Cancel("CANCELED_BY_REQUEST")
  /\ UNCHANGED <<pendingDelta, pc, call, scheduled, adopted>>

-----------------------------------------------------------------------------
(* The main coroutine.                                                     *)

BugStartIgnoresCancel == snapshot.task # NULL /\ ~cancelRequested

\* The wait for the task ends with a submit or a cancel.
startCondition == snapshot.task # NULL \/ cancelRequested

\* compileContext is scheduled, unless there was a cancel.
Start ==
  /\ pc = "awaitSubmit"
  /\ startCondition
  /\ IF cancelRequested
       THEN Return /\ UNCHANGED <<snapshot, call>>
       ELSE /\ snapshot' = Transition(snapshot, "COMPILING_CONTEXT", snapshot)
            /\ Schedule("compileContext", snapshot', NULL)
  /\ UNCHANGED <<pendingDelta, cancelRequested, scheduled, adopted>>

\* The head of the loop, reached with compiled as the new context.
NextTurn(compiled) ==
  LET s == [snapshot EXCEPT !.compiled_context_ref = compiled]
  IN  IF cancelRequested
        THEN Return /\ snapshot' = s /\ UNCHANGED call
        ELSE /\ snapshot' = Transition(s, "WORKING", [s EXCEPT !.turn_no = @ + 1])
             /\ Schedule("runAgentTurn", snapshot', NULL)

ContextCompiled ==
  /\ pc = "compileContext"
  /\ NextTurn(<<>>)
  /\ UNCHANGED <<pendingDelta, cancelRequested, scheduled, adopted>>

BugNeedNotShown(request_id) ==
  /\ pc = "runAgentTurn"
  /\ call.turn_no < MaxTurns
  /\ snapshot' = Transition(snapshot, "INPUT_REQUIRED", snapshot)
  /\ pc' = "awaitInput"
  /\ UNCHANGED <<pendingDelta, cancelRequested, call, scheduled, adopted>>

\* runAgentTurn answered: the agent needs context,
TurnNeedsInput(request_id) ==
  /\ pc = "runAgentTurn"
  /\ call.turn_no < MaxTurns
  /\ snapshot' = Transition(snapshot, "INPUT_REQUIRED",
                            [snapshot EXCEPT !.context_need = request_id])
  /\ pc' = "awaitInput"
  /\ UNCHANGED <<pendingDelta, cancelRequested, call, scheduled, adopted>>

\* or gives up,
TurnFailed ==
  /\ pc = "runAgentTurn"
  /\ snapshot' = Fail(snapshot, "AGENT_FAILED")
  /\ Return
  /\ UNCHANGED <<pendingDelta, cancelRequested, call, scheduled, adopted>>

\* or has produced count candidates; none is an invalid output, which the
\* coroutine throws to its own catch.
TurnCompleted(count) ==
  LET outputs == [i \in 1 .. count |->
                    [turn |-> call.turn_no, context |-> call.compiled, n |-> i]]
  IN  /\ pc = "runAgentTurn"
      /\ IF count = 0
           THEN snapshot' = Fail(snapshot, "WORKFLOW_FAILED") /\ Return /\ UNCHANGED call
           ELSE /\ snapshot' = Transition(snapshot, "VERIFYING",
                                 [snapshot EXCEPT !.candidate_artifact_refs = outputs])
                /\ Schedule("verifyCandidate", snapshot', NULL)
      /\ UNCHANGED <<pendingDelta, cancelRequested, scheduled, adopted>>

BugWaitIgnoresCancel == pendingDelta # NULL

\* The wait for input ends with a delta or a cancel.
inputCondition == pendingDelta # NULL \/ cancelRequested

\* mergeContextDelta is scheduled with the delta, whose slot is freed.
InputArrived ==
  /\ pc = "awaitInput"
  /\ inputCondition
  /\ IF cancelRequested
       THEN Return /\ UNCHANGED <<pendingDelta, call>>
       ELSE Schedule("mergeContextDelta", snapshot, pendingDelta) /\ pendingDelta' = NULL
  /\ UNCHANGED <<snapshot, cancelRequested, scheduled, adopted>>

BugMergeIsDropped ==
  /\ pc = "mergeContextDelta"
  /\ NextTurn(call.compiled)
  /\ UNCHANGED <<pendingDelta, cancelRequested, scheduled, adopted>>

ContextMerged ==
  /\ pc = "mergeContextDelta"
  /\ NextTurn(Append(call.compiled, call.delta))
  /\ UNCHANGED <<pendingDelta, cancelRequested, scheduled, adopted>>

BugEmptyPasses(candidates, passed) == TRUE

\* verifyCandidate passes nothing when it is given no candidate.
mayAnswer(candidates, passed) == candidates = <<>> => ~passed

\* verifyCandidate answered.  Only the first candidate is looked at.
\* adoptArtifact is scheduled on a pass,
\* whatever has been requested meanwhile.
CandidateVerified(passed) ==
  LET report == IF call.candidates = <<>> THEN NULL
                ELSE [subject |-> call.candidates[1],
                      decision |-> IF passed THEN "PASS" ELSE "FAIL"]
      s == [snapshot EXCEPT !.verification_report_ref = report]
  IN  /\ pc = "verifyCandidate"
      /\ mayAnswer(call.candidates, passed)
      /\ IF passed
           THEN /\ snapshot' = Transition(s, "ADOPTING", s)
                /\ Schedule("adoptArtifact", snapshot', NULL)
                /\ scheduled' = scheduled \cup {call'}
           ELSE /\ snapshot' = Fail(s, "VERIFICATION_FAILED")
                /\ Return
                /\ UNCHANGED <<call, scheduled>>
      /\ UNCHANGED <<pendingDelta, cancelRequested, adopted>>

BugCompletedEarly ==
  /\ pc = "adoptArtifact"
  /\ snapshot' = Transition(snapshot, "COMPLETED",
                   [snapshot EXCEPT !.adoption_ref = call.candidates[1]])
  /\ Return
  /\ UNCHANGED <<pendingDelta, cancelRequested, call, scheduled, adopted>>

\* adoptArtifact answered: the ledger holds the adoption.
Adopted ==
  /\ pc = "adoptArtifact"
  /\ call.candidates[1] \in adopted
  /\ snapshot' = Transition(snapshot, "COMPLETED",
                   [snapshot EXCEPT !.adoption_ref = call.candidates[1]])
  /\ Return
  /\ UNCHANGED <<pendingDelta, cancelRequested, call, scheduled, adopted>>

\* Every attempt of the awaited activity failed or timed out.
ActivityFailed ==
  /\ pc \in Activities
  /\ snapshot' = Fail(snapshot, "WORKFLOW_FAILED")
  /\ Return
  /\ UNCHANGED <<pendingDelta, cancelRequested, call, scheduled, adopted>>

\* The run itself is canceled: the pending await throws.  Inside the try the
\* snapshot becomes CANCELED; the first await is outside it.
RunCanceled ==
  /\ pc # "returned"
  /\ snapshot' = IF pc = "awaitSubmit" THEN snapshot
                 ELSE Cancel("TEMPORAL_CANCELED")
  /\ Return
  /\ UNCHANGED <<pendingDelta, cancelRequested, call, scheduled, adopted>>

-----------------------------------------------------------------------------
BugAdoptsLast(input) ==
  /\ input \in scheduled
  /\ input.report # NULL
  /\ input.report.decision = "PASS"
  /\ input.report.subject = input.candidates[1]
  /\ adopted' = adopted \cup {input.candidates[Len(input.candidates)]}
  /\ UNCHANGED <<snapshot, pendingDelta, cancelRequested, pc, call, scheduled>>

\* An attempt of a scheduled adoptArtifact writes the ledger; it refuses a
\* candidate the report does not cover (assertAdoptable).  A timed-out attempt
\* may do so after the workflow has stopped waiting for it.
AdoptEffect(input) ==
  /\ input \in scheduled
  /\ input.report # NULL
  /\ input.report.decision = "PASS"
  /\ input.report.subject = input.candidates[1]
  /\ adopted' = adopted \cup {input.candidates[1]}
  /\ UNCHANGED <<snapshot, pendingDelta, cancelRequested, pc, call, scheduled>>

-----------------------------------------------------------------------------
Init ==
  /\ snapshot = initialSnapshot
  /\ pendingDelta = NULL
  /\ cancelRequested = FALSE
  /\ pc = "awaitSubmit"
  /\ call = Call(initialSnapshot, NULL)
  /\ scheduled = {}
  /\ adopted = {}

\* The outcome of the activity the coroutine waits for.
ActivityAnswers ==
  \/ ContextCompiled
  \/ \E r \in RequestIds : TurnNeedsInput(r)
  \/ TurnFailed
  \/ \E count \in 0 .. 2 : TurnCompleted(count)
  \/ ContextMerged
  \/ \E passed \in BOOLEAN : CandidateVerified(passed)
  \/ Adopted
  \/ ActivityFailed

Next ==
  \/ \E task \in Tasks : SubmitTask(task)
  \/ \E id \in DeltaIds, task \in Tasks, r \in RequestIds, seq \in 0 .. MaxTurns :
       ApplyContextDelta([delta_id |-> id, task |-> task, request_id |-> r,
                          expected_seq |-> seq])
  \/ RequestCancel
  \/ Start
  \/ InputArrived
  \/ ActivityAnswers
  \/ RunCanceled
  \/ \E input \in scheduled : AdoptEffect(input)

Spec == Init /\ [][Next]_vars

\* Temporal resumes a coroutine whose condition holds, and an activity that
\* neither answers nor fails is ended by its scheduleToCloseTimeout.  Nothing
\* is assumed of clients: no update need ever come.
Fairness == WF_vars(Start) /\ WF_vars(InputArrived) /\ WF_vars(ActivityAnswers)

FairSpec == Spec /\ Fairness

-----------------------------------------------------------------------------
(* Properties.                                                             *)

\* The workflow is one implementation of the task contract: transition() never
\* consults the table of legal moves, and still takes no other.
Lifecycle == INSTANCE TaskLifecycle
  WITH state       <- snapshot.state,
       state_seq   <- snapshot.state_seq,
       context_seq <- snapshot.context_seq,
       applied     <- appliedDeltas

ImplementsLifecycle == Lifecycle!Spec

\* No unverified artifact is adopted: whatever the ledger records, also after
\* a cancel or by an attempt that outlived the run, is the first candidate of
\* the agent's last turn and the report passed exactly that one.
AdoptedWasVerified ==
  \A c \in adopted :
    /\ snapshot.candidate_artifact_refs # <<>>
    /\ c = snapshot.candidate_artifact_refs[1]
    /\ c.turn = snapshot.turn_no
    /\ snapshot.verification_report_ref = [subject |-> c, decision |-> "PASS"]

\* A COMPLETED snapshot tells the truth: its adoption is in the ledger, its
\* report covers it and nothing went wrong.  Workflow code after the last
\* await and the ledger are two processes.
CompletedWasAdopted ==
  snapshot.state = "COMPLETED" =>
    /\ snapshot.adoption_ref \in adopted
    /\ snapshot.verification_report_ref.subject = snapshot.adoption_ref
    /\ snapshot.error = NULL

\* The agent is never asked to continue without a delta the task accepted:
\* the context of a running turn, and of every candidate, is what the accepted
\* deltas add up to, in the order they were accepted.
ContextIsComplete ==
  /\ pc = "runAgentTurn" => call.compiled = snapshot.applied_delta_ids
  /\ \A i \in 1 .. Len(snapshot.candidate_artifact_refs) :
       snapshot.candidate_artifact_refs[i].context = snapshot.applied_delta_ids

\* The two threads of a run agree on the wait: while nothing has arrived for a
\* coroutine that waits for input, the snapshot admits a delta that answers.
\* Otherwise the task would wait for what every validator refuses.
WaitIsAnswerable ==
  pc = "awaitInput" /\ pendingDelta = NULL /\ ~cancelRequested =>
    /\ snapshot.context_need \in RequestIds
    /\ \A d \in DeltaIds \ appliedDeltas :
         assertDeltaAllowed([delta_id     |-> d,
                             task         |-> snapshot.task,
                             request_id   |-> snapshot.context_need,
                             expected_seq |-> snapshot.context_seq])

\* A cancel that comes before the task has a candidate wins: nothing is
\* adopted afterwards, although the coroutine goes on to verifyCandidate.
EarlyCancelPreventsAdoption ==
  snapshot.state = "CANCELED" /\ snapshot.candidate_artifact_refs = <<>> =>
    scheduled = {} /\ adopted = {}

\* What a client has been told of a terminal task stays: its state, its error
\* and its adoption, whatever the coroutine still has in flight.
TerminalIsFinal ==
  [][isTerminal(snapshot.state) =>
       /\ snapshot'.state = snapshot.state
       /\ snapshot'.error = snapshot.error
       /\ snapshot'.adoption_ref = snapshot.adoption_ref
       /\ snapshot'.state_seq = snapshot.state_seq]_vars

\* A cancel request ends the run, however far the coroutine has got: no await
\* of it outlives the answer or the timeout of one activity per stage.
CancelEndsRun == cancelRequested ~> pc = "returned"

\* A delta accepted from a client is used: an agent turn starts with it in its
\* context, or the run ends.
AcceptedDeltaIsUsed ==
  \A d \in DeltaIds :
    pendingDelta = d ~>
      \/ pc = "returned"
      \/ /\ pc = "runAgentTurn"
         /\ \E i \in 1 .. Len(call.compiled) : call.compiled[i] = d

\* Every run that has its task ends, or waits for a client with a need the
\* client can see.
TaskProgresses ==
  snapshot.task # NULL ~>
    pc = "returned" \/ (pc = "awaitInput" /\ snapshot.state = "INPUT_REQUIRED")
=============================================================================
