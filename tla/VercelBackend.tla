---------------------------- MODULE VercelBackend ----------------------------
(***************************************************************************)
(* The API in front of the runs of one task_id: start, get, context and    *)
(* cancel of deploy/vercel-chatgpt-app/lib/vercel-workflow-backend.js, each*)
(* call by its awaits, interleaved with other calls and with the runs.     *)
(* The gateway's routes and tools forward to these four functions.         *)
(***************************************************************************)
EXTENDS VercelWorkflow, FiniteSets

CONSTANT Clients

\* Bound: a client begins env.calls[c] calls.
ASSUME BackendAssumption == \A e \in Environments : e.calls \in [Clients -> Nat]

VARIABLES
  call,            \* call[c]: the call client c has open, by its next await
  answer,          \* answer[c]: what the last finished call of c returned
  seen,            \* seen[c]: the last snapshot c was shown, and of which run
  calls            \* calls[c]: how many calls c has begun

clientVars == <<call, answer, seen, calls>>
vars == <<runVars, clientVars>>

Idle == [at |-> "idle"]
At(c, await) == call[c].at = await
NoAnswer == [result |-> "none"]

Begin(c, request) ==
  /\ At(c, "idle")
  /\ call' = [call EXCEPT ![c] = request]
  /\ answer' = [answer EXCEPT ![c] = NoAnswer]

Continue(c, request) ==
  /\ call' = [call EXCEPT ![c] = request]
  /\ UNCHANGED calls

Return(c, result) ==
  /\ answer' = [answer EXCEPT ![c] = result]
  /\ Continue(c, Idle)

BackendInit ==
  /\ Init
  /\ call = [c \in Clients |-> Idle]
  /\ answer = [c \in Clients |-> NoAnswer]
  /\ seen = [c \in Clients |-> [run |-> None, snapshot |-> NoSnapshot]]
  /\ calls = [c \in Clients |-> 0]

-----------------------------------------------------------------------------
(* startVercelWorkflow                                                     *)

\* The owner lookup decides between joining the run that has the task and
\* starting another one.
Submit(c, t) ==
  /\ Begin(c, IF owner # None
              THEN [at |-> "snapshot", task |-> t, run |-> owner, created |-> None]
              ELSE [at |-> "start", task |-> t])
  /\ UNCHANGED <<runVars, seen>>

CreateRun(c) ==
  /\ At(c, "start")
  /\ \E r \in Runs :
       /\ StartRun(r, call[c].task)
       /\ Continue(c, [at |-> "owner", task |-> call[c].task, created |-> r])
  /\ UNCHANGED <<answer, seen>>

\* waitForTaskOwner: found at some poll, or not found at the last one, when
\* the run just created is taken for the owner.
WaitForTaskOwner(c) ==
  /\ At(c, "owner")
  /\ Continue(c, [at |-> "snapshot", task |-> call[c].task, created |-> call[c].created,
                  run |-> IF owner # None THEN owner ELSE call[c].created])
  /\ UNCHANGED <<runVars, answer, seen>>

Accepted(c, s) ==
  [result |-> "accepted", task |-> call[c].task, run |-> call[c].run, snapshot |-> s.task # None,
   replay |-> call[c].run # call[c].created]

BugSubmissionUnchecked(c) ==
  /\ At(c, "snapshot")
  /\ Return(c, Accepted(c, readLatestSnapshot(stream[call[c].run])))
  /\ UNCHANGED <<runVars, seen>>

\* waitForFirstSnapshot and assertSameSubmission. The wait may end without a
\* snapshot, after its last poll or because the run has ended, and then there
\* is nothing to compare.
ConfirmSubmission(c) ==
  LET s == readLatestSnapshot(stream[call[c].run]) IN
  /\ At(c, "snapshot")
  /\ Return(c, IF s.task \in {None, call[c].task} THEN Accepted(c, s)
               ELSE [result |-> "TASK_CONFLICT"])
  /\ UNCHANGED <<runVars, seen>>

-----------------------------------------------------------------------------
(* getVercelWorkflow and applyContextDeltaToVercelWorkflow                 *)

\* Both begin by awaiting run.status; d is None for a plain get.
ReadStatus(c, r, d) ==
  /\ status[r] # "none"
  /\ Begin(c, [at |-> "projection", run |-> r, status |-> status[r], delta |-> d])
  /\ UNCHANGED <<runVars, seen>>

\* The projection is read after the status. Of a completed run the returned
\* snapshot is taken; a duplicate returns none.
Shown(c) ==
  LET r == call[c].run
      s == IF call[c].status = "completed" /\ snap[r].task # None THEN snap[r]
           ELSE readLatestSnapshot(stream[r])
  IN  synthesizeSnapshot(s, call[c].status)

ReadProjection(c) ==
  /\ At(c, "projection")
  /\ seen' = [seen EXCEPT ![c] = [run |-> call[c].run, snapshot |-> Shown(c)]]
  /\ LET d == call[c].delta
         verdict == IF d = None THEN "shown" ELSE validateContextDelta(Shown(c), d)
     IN  IF verdict = "VALID"
         THEN /\ Continue(c, [at |-> "lookup", run |-> call[c].run, delta |-> d,
                              token |-> contextHookToken(Shown(c))])
              /\ UNCHANGED answer
         ELSE Return(c, [result |-> verdict])
  /\ UNCHANGED runVars

\* getHookByToken: the hook must be there and belong to the run asked for.
LookupHook(c) ==
  /\ At(c, "lookup")
  /\ IF hook[call[c].run] = call[c].token
     THEN /\ Continue(c, [call[c] EXCEPT !.at = "resume"])
          /\ UNCHANGED answer
     ELSE Return(c, [result |-> IF \E q \in Runs : hook[q] = call[c].token
                                THEN "CONTEXT_HOOK_OWNER_MISMATCH"
                                ELSE "CONTEXT_HOOK_NOT_READY"])
  /\ UNCHANGED <<runVars, seen>>

\* resumeHook: the payload goes to whichever run holds the token by now, which
\* the answer is checked against only afterwards.
ResumeHook(c) ==
  /\ At(c, "resume")
  /\ \/ /\ \A q \in Runs : hook[q] # call[c].token
        /\ Return(c, [result |-> "HOOK_NOT_FOUND"])
        /\ UNCHANGED inbox
     \/ \E q \in Runs :
          /\ hook[q] = call[c].token
          /\ inbox' = [inbox EXCEPT ![q] = Append(@, call[c].delta)]
          /\ Return(c, [result |-> IF q = call[c].run THEN "resumed"
                                   ELSE "CONTEXT_RESUME_OWNER_MISMATCH"])
  /\ UNCHANGED <<env, status, task, pc, snap, stream, owner, hook, seen>>

\* cancelVercelWorkflow
Cancel(c, r) ==
  /\ Begin(c, Idle)
  /\ CancelRun(r)
  /\ UNCHANGED seen

-----------------------------------------------------------------------------
ClientStep(c) ==
  \/ CreateRun(c)
  \/ WaitForTaskOwner(c)
  \/ ConfirmSubmission(c)
  \/ ReadProjection(c)
  \/ LookupHook(c)
  \/ ResumeHook(c)

ClientCall(c) ==
  /\ calls[c] < env.calls[c]
  /\ calls' = [calls EXCEPT ![c] = @ + 1]
  /\ \/ \E t \in Submissions : Submit(c, t)
     \/ \E r \in Runs, d \in Deltas \cup {None} : ReadStatus(c, r, d)
     \/ \E r \in Runs : Cancel(c, r)

Next ==
  \/ \E r \in Runs : (RunStep(r) \/ RunFault(r)) /\ UNCHANGED clientVars
  \/ \E c \in Clients : ClientStep(c) \/ ClientCall(c)

Spec == BackendInit /\ [][Next]_vars

\* The engine goes on with every run; clients need not call.
FairSpec == Spec /\ \A r \in Runs : WF_vars(RunStep(r) /\ UNCHANGED clientVars)

-----------------------------------------------------------------------------
(* Properties of what clients are told.                                    *)

\* The window holds nothing but rejections: the reader finds no snapshot.
Flooded(r) ==
  Len(stream[r]) = Window /\ \A i \in 1 .. Window : stream[r][i].kind # "TASK_SNAPSHOT"

\* A client that asks again never sees a run go back, neither to an earlier
\* state_seq nor from a terminal state to a live one, although status,
\* projection and returned value are read apart and steps are made twice or
\* finish after a cancellation. Only a window full of rejections can do that.
SeenNeverRegresses ==
  [][\A c \in Clients :
       seen'[c].run = seen[c].run =>
         \/ /\ seen[c].snapshot.state_seq <= seen'[c].snapshot.state_seq
            /\ Terminal(seen[c].snapshot) => Terminal(seen'[c].snapshot)
         \/ seen[c].run # None /\ Flooded(seen[c].run)]_vars

\* A start that is answered with a snapshot names a run that was started with
\* the caller's own submission and has had the task, whoever started it.
AcceptedRunIsMine ==
  \A c \in Clients :
    answer[c].result = "accepted" /\ answer[c].snapshot =>
      /\ task[answer[c].run] = answer[c].task
      /\ snap[answer[c].run].task = answer[c].task
=============================================================================
