--------------------------- MODULE VercelWorkflow ---------------------------
(***************************************************************************)
(* The Vercel Workflow runs of one task_id: runAgentTaskOnVercel in        *)
(* deploy/vercel-chatgpt-app/workflows/run-agent-task.js, with what the    *)
(* engine keeps for them (status, hooks, projection stream).               *)
(*                                                                         *)
(* A run is deterministic between its steps, which the engine makes again  *)
(* until they are recorded, so a crash of the process is invisible but for *)
(* a step made twice.  An action is a run going from one await to the next;*)
(* pc names the await it stands at.  Each of the four "emit" awaits is the *)
(* step emitProjectionStep at another place of the code, with another      *)
(* error handler around it.                                                *)
(***************************************************************************)
EXTENDS Naturals, Sequences

CONSTANTS
  Runs,            \* ids of the runs that may be started for the task
  Submissions,     \* the capsules: records [attempt, digest]
  Requests,        \* request ids an agent may give to its needs
  Deltas,          \* context deltas: records [id, attempt, request, seq]
  Environments,    \* what a behaviour may meet: records, see Environment
  Window,          \* maxEvents of readLatestSnapshotFromRun (128 in the code)
  None

\* agent: the fixture of the repository, or any agent the workflow provides
\* for. faults: "again", a step is made once more; "emit", an emission fails for
\* good; "step", another step does. Bounds: the agent asks for input in at most
\* turns turns; only members of runs are started.
Environment(e) ==
  /\ e.agent \in {"fixture", "any"}
  /\ e.faults \subseteq {"again", "emit", "step"}
  /\ e.turns \in Nat
  /\ e.runs \subseteq Runs

ASSUME VercelAssumption ==
  /\ \A e \in Environments : Environment(e)
  /\ Window \in Nat \ {0}
  /\ None \notin Runs /\ None \notin Submissions /\ None \notin Requests
  /\ \A d \in Deltas : None # <<d.attempt, d.request, d.seq>>

VARIABLES
  env,             \* the environment of this behaviour
  status,          \* status[r]: run.status, "none" before start()
  task,            \* task[r]: the capsule the run was started with
  pc,              \* pc[r]: the await the run stands at
  snap,            \* snap[r]: the workflow's snapshot
  stream,          \* stream[r]: the last Window projection events of the run
  owner,           \* the run that holds the owner hook of the task, or None
  hook,            \* hook[r]: token of the run's context hook, or None
  inbox            \* inbox[r]: deltas resumed on it and not looked at yet

runVars == <<env, status, task, pc, snap, stream, owner, hook, inbox>>

TERMINAL_STATES == {"COMPLETED", "FAILED", "CANCELED"}
STATUSES == {"none", "running", "completed", "failed", "cancelled"}
Emitting == {"emit", "emitDelta", "emitReject", "emitFailed"}
Awaits == Emitting \cup
  {"claim", "compile", "agent", "hook", "delta", "merge", "verify", "adopt", "done"}
DeltaIds == {d.id : d \in Deltas}

-----------------------------------------------------------------------------
(* Snapshots.  compiled, candidate, report and adoption stand for the       *)
(* artifact references: a compiled context is the sequence of delta ids     *)
(* merged into it, the others the context the candidate was made from.      *)

\* Before the run's own first snapshot; also what a reader starts from when
\* it has found none.
NoSnapshot ==
  [task |-> None, state |-> "SUBMITTED", state_seq |-> 0, context_seq |-> 0,
   turn_no |-> 0, need |-> None, compiled |-> None, applied |-> <<>>,
   candidate |-> None, report |-> None, adoption |-> None]

initialVercelSnapshot(t) == [NoSnapshot EXCEPT !.task = t, !.state_seq = 1]

Terminal(s) == s.state \in TERMINAL_STATES

\* That the moves made with it are legal (validateTransition) is what the
\* refinement of TaskLifecycle below says.
transitionVercelSnapshot(s, to) ==
  IF Terminal(s) THEN s
  ELSE [s EXCEPT !.state = to, !.state_seq = @ + 1]

BugTurnNotCounted(s) ==
  IF Terminal(s) THEN s
  ELSE [s EXCEPT !.state = "WORKING", !.state_seq = @ + 1,
                 !.turn_no = IF s.state = "WORKING" THEN @ ELSE @ + 1]

\* A turn of a task that is WORKING already is counted, not a transition.
beginAgentTurn(s) ==
  IF Terminal(s) THEN s
  ELSE [s EXCEPT !.state = "WORKING", !.state_seq = @ + 1, !.turn_no = @ + 1]

BugSequenceUnchecked(s, d) ==
  CASE s.state # "INPUT_REQUIRED"        -> "NOT_INPUT_REQUIRED"
    [] s.task.attempt # d.attempt        -> "ATTEMPT_MISMATCH"
    [] s.need # d.request                -> "REQUEST_MISMATCH"
    [] OTHER                             -> "VALID"

\* The error a delta is refused with, in the order of the checks.
validateContextDelta(s, d) ==
  CASE s.state # "INPUT_REQUIRED"        -> "NOT_INPUT_REQUIRED"
    [] s.task.attempt # d.attempt        -> "ATTEMPT_MISMATCH"
    [] s.need # d.request                -> "REQUEST_MISMATCH"
    [] s.context_seq # d.seq             -> "STALE_SEQUENCE"
    [] \E i \in 1 .. Len(s.applied) : s.applied[i] = d.id -> "DUPLICATE_DELTA"
    [] OTHER                             -> "VALID"

BugContextSeqKept(s, d) ==
  [s EXCEPT !.state = "WORKING", !.state_seq = @ + 1,
            !.need = None, !.applied = Append(@, d.id)]

applyContextDelta(s, d) ==
  [s EXCEPT !.state = "WORKING", !.state_seq = @ + 1, !.context_seq = @ + 1,
            !.need = None, !.applied = Append(@, d.id)]

BugTokenWithoutSequence(s) == <<s.task.attempt, s.need>>

\* All hooks belong to the one task: its id is left out of the tokens.
contextHookToken(s) == <<s.task.attempt, s.need, s.context_seq>>

-----------------------------------------------------------------------------
(* The projection stream and how it is read.                               *)

snapshotProjection(s) == [kind |-> "TASK_SNAPSHOT", snapshot |-> s]
rejectionProjection(s) == [kind |-> "CONTEXT_DELTA_REJECTED", snapshot |-> s]

\* Nothing but the last Window events is ever read again.
Keep(events) ==
  IF Len(events) <= Window THEN events
  ELSE SubSeq(events, Len(events) - Window + 1, Len(events))

\* The range read is fixed by one look at the tail index.
readLatestSnapshot(events) ==
  LET found == {i \in 1 .. Len(events) : events[i].kind = "TASK_SNAPSHOT"}
  IN  IF found = {} THEN NoSnapshot
      ELSE events[CHOOSE i \in found : \A j \in found : j <= i].snapshot

BugBaseDropped(s, st) ==
  IF Terminal(s) \/ st \notin {"cancelled", "failed"} THEN s
  ELSE [NoSnapshot EXCEPT !.state = IF st = "cancelled" THEN "CANCELED" ELSE "FAILED",
                          !.state_seq = 1]

synthesizeSnapshot(s, st) ==
  IF Terminal(s) \/ st \notin {"cancelled", "failed"} THEN s
  ELSE [s EXCEPT !.state = IF st = "cancelled" THEN "CANCELED" ELSE "FAILED",
                 !.state_seq = @ + 1]

-----------------------------------------------------------------------------
Init ==
  /\ env \in Environments
  /\ status = [r \in Runs |-> "none"]
  /\ task = [r \in Runs |-> None]
  /\ pc = [r \in Runs |-> "done"]
  /\ snap = [r \in Runs |-> NoSnapshot]
  /\ stream = [r \in Runs |-> <<>>]
  /\ owner = None
  /\ hook = [r \in Runs |-> None]
  /\ inbox = [r \in Runs |-> <<>>]

\* start(runAgentTaskOnVercel, [task])
StartRun(r, t) ==
  /\ status[r] = "none" /\ r \in env.runs
  /\ status' = [status EXCEPT ![r] = "running"]
  /\ task' = [task EXCEPT ![r] = t]
  /\ pc' = [pc EXCEPT ![r] = "claim"]
  /\ UNCHANGED <<env, snap, stream, owner, hook, inbox>>

\* The run ends and the engine releases its hooks, disposed of or not.
End(r, st, await, s) ==
  /\ status' = [status EXCEPT ![r] = st]
  /\ pc' = [pc EXCEPT ![r] = await]
  /\ snap' = [snap EXCEPT ![r] = s]
  /\ owner' = IF owner = r THEN None ELSE owner
  /\ hook' = [hook EXCEPT ![r] = None]
  /\ inbox' = [inbox EXCEPT ![r] = <<>>]

\* The run goes on to another await; hooks stay as they are.
Goto(r, await, s) ==
  /\ pc' = [pc EXCEPT ![r] = await]
  /\ snap' = [snap EXCEPT ![r] = s]
  /\ UNCHANGED <<status, owner, hook, inbox>>

\* contextHook.dispose(): deltas still waiting are dropped without a word.
GotoDisposing(r, await, s) ==
  /\ pc' = [pc EXCEPT ![r] = await]
  /\ snap' = [snap EXCEPT ![r] = s]
  /\ hook' = [hook EXCEPT ![r] = None]
  /\ inbox' = [inbox EXCEPT ![r] = <<>>]
  /\ UNCHANGED <<status, owner>>

\* The outer catch: a snapshot that is terminal already is returned, any
\* other becomes FAILED and is emitted.
Throw(r) ==
  IF Terminal(snap[r]) THEN End(r, "completed", "done", snap[r])
  ELSE GotoDisposing(r, "emitFailed", transitionVercelSnapshot(snap[r], "FAILED"))

BugConflictIgnored(r) ==
  /\ status[r] = "running" /\ pc[r] = "claim"
  /\ owner' = r
  /\ pc' = [pc EXCEPT ![r] = "emit"]
  /\ snap' = [snap EXCEPT ![r] = initialVercelSnapshot(task[r])]
  /\ UNCHANGED <<env, status, task, stream, hook, inbox>>

\* createHook(owner token) and getConflict: the run gets the task, or returns
\* a duplicate record that names the run which has it.
ClaimTask(r) ==
  /\ status[r] = "running" /\ pc[r] = "claim"
  /\ IF owner = None
     THEN /\ owner' = r
          /\ pc' = [pc EXCEPT ![r] = "emit"]
          /\ snap' = [snap EXCEPT ![r] = initialVercelSnapshot(task[r])]
          /\ UNCHANGED <<status, hook, inbox>>
     ELSE End(r, "completed", "done", snap[r])
  /\ UNCHANGED <<env, task, stream>>

-----------------------------------------------------------------------------
(* emitProjectionStep                                                      *)

Event(r) ==
  IF pc[r] = "emitReject" THEN rejectionProjection(snap[r])
  ELSE snapshotProjection(snap[r])

Write(r) == stream' = [stream EXCEPT ![r] = Keep(Append(@, Event(r)))]

\* What follows an emission of the main line, by the state emitted.
AfterEmit ==
  [COMPILING_CONTEXT |-> "compile", WORKING |-> "agent", INPUT_REQUIRED |-> "hook",
   VERIFYING |-> "verify", ADOPTING |-> "adopt"]

Emit(r) ==
  /\ status[r] = "running" /\ pc[r] \in Emitting
  /\ Write(r)
  /\ LET s == snap[r] IN
     \/ pc[r] = "emitDelta" /\ Goto(r, "merge", s)
     \/ pc[r] = "emitReject" /\ Goto(r, "delta", s)
     \/ /\ pc[r] \in {"emit", "emitFailed"}
        /\ \/ Terminal(s) /\ End(r, "completed", "done", s)
           \/ /\ s.state = "SUBMITTED"
              /\ Goto(r, "emit", transitionVercelSnapshot(s, "COMPILING_CONTEXT"))
           \/ s.state \in DOMAIN AfterEmit /\ Goto(r, AfterEmit[s.state], s)
  /\ UNCHANGED <<env, task>>

\* The event is written but the step is not recorded, so it is made again
\* (bound: once).
EmitAgain(r) ==
  /\ "again" \in env.faults
  /\ status[r] = "running" /\ pc[r] \in Emitting
  /\ ~ (stream[r] # <<>> /\ stream[r][Len(stream[r])] = Event(r))
  /\ Write(r)
  /\ UNCHANGED <<env, status, task, pc, snap, owner, hook, inbox>>

\* The step has used up its retries and throws. The first emission, and the
\* one inside the outer catch, have no handler. The one of an accepted delta
\* has the handler meant for invalid deltas, which reports a rejection and
\* waits for the next delta, with a snapshot that is WORKING.
EmitFails(r) ==
  /\ "emit" \in env.faults
  /\ status[r] = "running" /\ pc[r] \in Emitting
  /\ LET unhandled == \/ pc[r] = "emitFailed"
                      \/ pc[r] = "emit" /\ snap[r].state = "SUBMITTED"
     IN  \/ pc[r] = "emitDelta" /\ Goto(r, "emitReject", snap[r])
         \/ unhandled /\ End(r, "failed", "done", snap[r])
         \/ pc[r] # "emitDelta" /\ ~ unhandled /\ Throw(r)
  /\ UNCHANGED <<env, task, stream>>

-----------------------------------------------------------------------------
(* The other steps                                                         *)

\* A context into which no delta has been merged, then one with another delta.
compileContextStep == <<>>
mergeContextDeltaStep(compiled, delta) == Append(compiled, delta)

CompileContext(r) ==
  /\ status[r] = "running" /\ pc[r] = "compile"
  /\ Goto(r, "emit", beginAgentTurn([snap[r] EXCEPT !.compiled = compileContextStep]))
  /\ UNCHANGED <<env, task, stream>>

BugAgentForgetsContext(s) ==
  IF s.turn_no = 1 \/ s.applied # <<>> THEN {"INPUT_REQUIRED"} ELSE {"COMPLETED"}

\* runAgentTurnStep. The fixture asks once, in turn 1, and completes in turn 2.
AgentOutcomes(s) ==
  IF env.agent = "any"
  THEN {"COMPLETED", "FAILED"} \cup
       (IF s.turn_no <= env.turns THEN {"INPUT_REQUIRED"} ELSE {})
  ELSE IF s.turn_no = 1 /\ s.applied = <<>> THEN {"INPUT_REQUIRED"}
  ELSE {"COMPLETED"}

RunAgentTurn(r) ==
  /\ status[r] = "running" /\ pc[r] = "agent"
  /\ \E outcome \in AgentOutcomes(snap[r]), n \in Requests :
       Goto(r, "emit",
         CASE outcome = "INPUT_REQUIRED" ->
                [transitionVercelSnapshot(snap[r], "INPUT_REQUIRED") EXCEPT !.need = n]
           [] outcome = "FAILED" -> transitionVercelSnapshot(snap[r], "FAILED")
           [] outcome = "COMPLETED" ->
                [transitionVercelSnapshot(snap[r], "VERIFYING")
                   EXCEPT !.candidate = snap[r].compiled])
  /\ UNCHANGED <<env, task, stream>>

\* createHook(context token) and getConflict.
CreateContextHook(r) ==
  LET token == contextHookToken(snap[r]) IN
  /\ status[r] = "running" /\ pc[r] = "hook"
  /\ IF \E q \in Runs : hook[q] = token
     THEN Throw(r)                                \* CONTEXT_HOOK_CONFLICT
     ELSE /\ hook' = [hook EXCEPT ![r] = token]
          /\ pc' = [pc EXCEPT ![r] = "delta"]
          /\ UNCHANGED <<status, snap, owner, inbox>>
  /\ UNCHANGED <<env, task, stream>>

\* One round of the loop over the hook: the delta is validated again, against
\* the workflow's own snapshot.
TakeDelta(r) ==
  /\ status[r] = "running" /\ pc[r] = "delta" /\ inbox[r] # <<>>
  /\ LET d == Head(inbox[r])
         valid == validateContextDelta(snap[r], d) = "VALID"
     IN  /\ pc' = [pc EXCEPT ![r] = IF valid THEN "emitDelta" ELSE "emitReject"]
         /\ snap' = IF valid THEN [snap EXCEPT ![r] = applyContextDelta(@, d)] ELSE snap
  /\ inbox' = [inbox EXCEPT ![r] = Tail(@)]
  /\ UNCHANGED <<env, status, task, stream, owner, hook>>

BugMergeSkipped(r) ==
  /\ status[r] = "running" /\ pc[r] = "merge"
  /\ GotoDisposing(r, "emit", beginAgentTurn(snap[r]))
  /\ UNCHANGED <<env, task, stream>>

\* The merge, then the finally that disposes of the hook, then the head of the
\* loop.
MergeContextDelta(r) ==
  /\ status[r] = "running" /\ pc[r] = "merge"
  /\ LET last == snap[r].applied[Len(snap[r].applied)]
     IN  GotoDisposing(r, "emit",
           beginAgentTurn([snap[r] EXCEPT !.compiled = mergeContextDeltaStep(@, last)]))
  /\ UNCHANGED <<env, task, stream>>

\* The fixture passes every candidate.
verifyCandidateStep == IF env.agent = "any" THEN BOOLEAN ELSE {TRUE}

VerifyCandidate(r) ==
  /\ status[r] = "running" /\ pc[r] = "verify"
  /\ \E passed \in verifyCandidateStep :
       Goto(r, "emit",
         transitionVercelSnapshot([snap[r] EXCEPT !.report = snap[r].candidate],
                                  IF passed THEN "ADOPTING" ELSE "FAILED"))
  /\ UNCHANGED <<env, task, stream>>

\* assertAdoptable: the report is about the candidate. The effect record is
\* the step's own, so its claim is always the first.
adoptArtifactStep(s) == s.report = s.candidate

AdoptArtifact(r) ==
  /\ status[r] = "running" /\ pc[r] = "adopt"
  /\ IF adoptArtifactStep(snap[r])
     THEN Goto(r, "emit", [transitionVercelSnapshot(snap[r], "COMPLETED")
                             EXCEPT !.adoption = snap[r].candidate])
     ELSE Throw(r)
  /\ UNCHANGED <<env, task, stream>>

\* A step throws for good, or the agent's answer is not one the code accepts.
StepFails(r) ==
  /\ "step" \in env.faults
  /\ status[r] = "running" /\ pc[r] \in {"compile", "agent", "merge", "verify", "adopt"}
  /\ Throw(r)
  /\ UNCHANGED <<env, task, stream>>

-----------------------------------------------------------------------------
(* From outside: cancellation.                                             *)

\* run.cancel(): the coroutine stops where it stands, without its catch and
\* finally. A step in flight is not stopped with it.
CancelRun(r) ==
  /\ status[r] = "running"
  /\ End(r, "cancelled", IF pc[r] \in Emitting THEN pc[r] ELSE "done", snap[r])
  /\ UNCHANGED <<env, task, stream>>

LateEmit(r) ==
  /\ status[r] = "cancelled" /\ pc[r] \in Emitting
  /\ Write(r)
  /\ pc' = [pc EXCEPT ![r] = "done"]
  /\ UNCHANGED <<env, status, task, snap, owner, hook, inbox>>

RunStep(r) ==
  \/ ClaimTask(r)
  \/ Emit(r)
  \/ CompileContext(r)
  \/ RunAgentTurn(r)
  \/ CreateContextHook(r)
  \/ TakeDelta(r)
  \/ MergeContextDelta(r)
  \/ VerifyCandidate(r)
  \/ AdoptArtifact(r)

RunFault(r) == EmitAgain(r) \/ EmitFails(r) \/ StepFails(r) \/ LateEmit(r)

-----------------------------------------------------------------------------
(* Properties of the runs.                                                 *)

Snapshots ==
  [task : Submissions \cup {None}, state : TERMINAL_STATES \cup DOMAIN AfterEmit \cup {"SUBMITTED"},
   state_seq : Nat, context_seq : Nat, turn_no : Nat, need : Requests \cup {None},
   compiled : Seq(DeltaIds) \cup {None}, applied : Seq(DeltaIds),
   candidate : Seq(DeltaIds) \cup {None}, report : Seq(DeltaIds) \cup {None},
   adoption : Seq(DeltaIds) \cup {None}]

Events == [kind : {"TASK_SNAPSHOT", "CONTEXT_DELTA_REJECTED"}, snapshot : Snapshots]

\* Every variable of the engine keeps its type.
TypeOK ==
  /\ status \in [Runs -> STATUSES]
  /\ task \in [Runs -> Submissions \cup {None}]
  /\ pc \in [Runs -> Awaits]
  /\ snap \in [Runs -> Snapshots]
  /\ stream \in [Runs -> Seq(Events)]
  /\ owner \in Runs \cup {None}
  /\ \A r \in Runs : hook[r] = None \/ Len(hook[r]) = 3
  /\ inbox \in [Runs -> Seq(Deltas)]

\* Between the owner check and its end a run works on the task.
Working(r) == status[r] = "running" /\ pc[r] # "claim"

\* However starts, ends and cancellations interleave, two runs of the task
\* never work on it at once: getConflict is checked before anything else.
OneRunWorks == \A r, q \in Runs : Working(r) /\ Working(q) => r = q

\* CONTEXT_HOOK_CONFLICT cannot happen: by the time a run waits for context, no
\* other run, not even a cancelled one of the same attempt, holds its token.
ContextHookIsFree ==
  \A r, q \in Runs :
    status[r] = "running" /\ pc[r] = "hook" =>
      hook[q] = None \/ hook[q] # contextHookToken(snap[r])

\* Whatever reached a run's inbox, checked by a client against a projection
\* that may be old and even of another run, names the attempt, the need and
\* the context_seq the run's hook was made for.
InboxMatchesHook ==
  \A r \in Runs : \A i \in 1 .. Len(inbox[r]) :
    hook[r] = <<inbox[r][i].attempt, inbox[r][i].request, inbox[r][i].seq>>

\* A candidate is made from a context that every accepted delta was merged
\* into, in the order of acceptance, and nothing else is verified or adopted.
CandidateUsesEveryDelta ==
  \A r \in Runs :
    /\ snap[r].candidate # None => snap[r].candidate = snap[r].applied
    /\ snap[r].state = "COMPLETED" =>
         snap[r].adoption = snap[r].applied /\ snap[r].report = snap[r].applied

\* What the engine's status and the workflow's snapshot say of the run.
Current(r) == synthesizeSnapshot(snap[r], status[r])

\* An accepted delta resumes the agent: the next turn begins, unless the run
\* fails or is cancelled.
AppliedDeltaResumes ==
  \A r \in Runs :
    (snap[r].context_seq = snap[r].turn_no /\ snap[r].context_seq > 0)
      ~> (snap[r].turn_no > snap[r].context_seq \/ Current(r).state \in {"FAILED", "CANCELED"})

Life(r) == INSTANCE TaskLifecycle WITH
  state <- Current(r).state,
  state_seq <- Current(r).state_seq,
  context_seq <- Current(r).context_seq,
  applied <- {Current(r).applied[i] : i \in 1 .. Len(Current(r).applied)}

\* Each run, cancelled or failed by the engine at any await, follows the task
\* contract: no illegal transition is ever asked for.
ImplementsLifecycle ==
  /\ \A r \in Runs : Life(r)!Init
  /\ [][\A r \in Runs : [Life(r)!Next]_(Life(r)!lifecycle)]_runVars
=============================================================================
