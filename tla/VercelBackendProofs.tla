------------------------ MODULE VercelBackendProofs ------------------------
(***************************************************************************)
(* What holds of the runs of a task and of the clients of the Vercel       *)
(* backend for any number of both, any agent, deltas and faults, and any   *)
(* window.  In three parts, each with an invariant of its own:             *)
(*                                                                         *)
(*   Inv: a run works on the task only while it holds the owner hook, it   *)
(*   has a context hook only while it waits at one, and what clients carry *)
(*   and send fits the token they found;                                   *)
(*                                                                         *)
(*   SnapshotInv: by Fits, which states a snapshot may be in at the await  *)
(*   a run stands at, and how far its context has been merged then;        *)
(*                                                                         *)
(*   ReaderInv: what the window holds and what clients were shown is not   *)
(*   later than what a reader finds next.                                  *)
(***************************************************************************)
EXTENDS VercelBackend, SequenceTheorems, WellFoundedInduction, TLAPS

\* The awaits at which a run has its context hook.
HookAwaits == {"delta", "emitDelta", "emitReject", "merge"}

Functions ==
  /\ DOMAIN status = Runs /\ DOMAIN pc = Runs /\ DOMAIN snap = Runs
  /\ DOMAIN hook = Runs /\ DOMAIN inbox = Runs
  /\ \A r \in Runs : inbox[r] \in Seq(Deltas)

OwnerWorks == \A r \in Runs : Working(r) => owner = r
HookWaits ==
  \A r \in Runs :
    IF hook[r] = None THEN inbox[r] = <<>>
    ELSE status[r] = "running" /\ pc[r] \in HookAwaits

RunInv == Functions /\ OwnerWorks /\ HookWaits /\ InboxMatchesHook

\* A client past the validation carries a delta that fits the token it has.
ClientInv ==
  /\ DOMAIN call = Clients
  /\ \A c \in Clients :
       /\ At(c, "projection") => call[c].delta \in Deltas \cup {None}
       /\ call[c].at \in {"lookup", "resume"} =>
            /\ call[c].delta \in Deltas
            /\ call[c].token =
                 <<call[c].delta.attempt, call[c].delta.request, call[c].delta.seq>>

Inv == RunInv /\ ClientInv

-----------------------------------------------------------------------------
(* The ways a run moves on.                                                *)

LEMMA EndKeeps ==
  ASSUME NEW r \in Runs, NEW st, NEW await, NEW s,
         RunInv, st # "running", End(r, st, await, s)
  PROVE  RunInv'
<1> USE VercelAssumption DEF RunInv, End
<1>1. Functions'
  BY DEF Functions
<1>2. OwnerWorks'
  BY DEF Functions, OwnerWorks, Working
<1>3. HookWaits'
  BY DEF Functions, HookWaits
<1>4. InboxMatchesHook'
  BY DEF Functions, InboxMatchesHook
<1> QED BY <1>1, <1>2, <1>3, <1>4

LEMMA GotoKeeps ==
  ASSUME NEW r \in Runs, NEW await, NEW s,
         RunInv, Working(r), await # "claim",
         hook[r] # None => await \in HookAwaits,
         Goto(r, await, s)
  PROVE  RunInv'
<1> USE DEF RunInv, Goto
<1>1. Functions'
  BY DEF Functions
<1>2. OwnerWorks'
  BY DEF Functions, OwnerWorks, Working
<1>3. HookWaits'
  BY DEF Functions, HookWaits
<1>4. InboxMatchesHook'
  BY DEF Functions, InboxMatchesHook
<1> QED BY <1>1, <1>2, <1>3, <1>4

LEMMA GotoDisposingKeeps ==
  ASSUME NEW r \in Runs, NEW await, NEW s,
         RunInv, Working(r), await # "claim",
         GotoDisposing(r, await, s)
  PROVE  RunInv'
<1> USE DEF RunInv, GotoDisposing
<1>1. Functions'
  BY DEF Functions
<1>2. OwnerWorks'
  BY DEF Functions, OwnerWorks, Working
<1>3. HookWaits'
  BY DEF Functions, HookWaits
<1>4. InboxMatchesHook'
  BY DEF Functions, InboxMatchesHook
<1> QED BY <1>1, <1>2, <1>3, <1>4

LEMMA ThrowKeeps ==
  ASSUME NEW r \in Runs, RunInv, Working(r), Throw(r)
  PROVE  RunInv'
BY EndKeeps, GotoDisposingKeeps DEF Throw

\* What concerns neither the runs' places nor their hooks.
LEMMA FramedKeeps ==
  ASSUME RunInv, UNCHANGED <<status, pc, snap, owner, hook, inbox>>
  PROVE  RunInv'
BY DEF RunInv, Functions, OwnerWorks, Working, HookWaits, InboxMatchesHook

-----------------------------------------------------------------------------
(* The actions of the runs.                                                *)

LEMMA StartKeeps ==
  ASSUME NEW r \in Runs, NEW t, RunInv, StartRun(r, t)
  PROVE  RunInv'
<1> USE DEF RunInv, StartRun
<1>1. Functions'
  BY DEF Functions
<1>2. OwnerWorks'
  BY DEF Functions, OwnerWorks, Working
<1>3. HookWaits'
  BY DEF Functions, HookWaits
<1>4. InboxMatchesHook'
  BY DEF Functions, InboxMatchesHook
<1> QED BY <1>1, <1>2, <1>3, <1>4

LEMMA ClaimKeeps ==
  ASSUME NEW r \in Runs, RunInv, ClaimTask(r)
  PROVE  RunInv'
<1>1. CASE owner # None
  <2>1. End(r, "completed", "done", snap[r])
    BY <1>1 DEF ClaimTask
  <2> QED BY <2>1, EndKeeps
<1>2. CASE owner = None
  <2> USE <1>2, VercelAssumption DEF RunInv, ClaimTask
  <2>1. Functions'
    BY DEF Functions
  <2>2. OwnerWorks'
    BY DEF Functions, OwnerWorks, Working
  <2>3. HookWaits'
    BY DEF Functions, HookWaits, HookAwaits
  <2>4. InboxMatchesHook'
    BY DEF Functions, InboxMatchesHook
  <2> QED BY <2>1, <2>2, <2>3, <2>4
<1> QED BY <1>1, <1>2

LEMMA EmitKeeps ==
  ASSUME NEW r \in Runs, RunInv, Emit(r)
  PROVE  RunInv'
<1> DEFINE s == snap[r]
<1>1. Working(r)
  BY DEF Emit, Emitting, Working
<1>2. CASE pc[r] = "emitDelta" /\ Goto(r, "merge", s)
  BY <1>1, <1>2, GotoKeeps DEF HookAwaits
<1>3. CASE pc[r] = "emitReject" /\ Goto(r, "delta", s)
  BY <1>1, <1>3, GotoKeeps DEF HookAwaits
<1>4. CASE pc[r] \in {"emit", "emitFailed"}
  <2>1. hook[r] = None
    BY <1>4 DEF RunInv, HookWaits, HookAwaits
  <2>2. CASE End(r, "completed", "done", s)
    BY <2>2, EndKeeps
  <2>3. CASE Goto(r, "emit", transitionVercelSnapshot(s, "COMPILING_CONTEXT"))
    BY <1>1, <2>1, <2>3, GotoKeeps
  <2>4. CASE s.state \in DOMAIN AfterEmit /\ Goto(r, AfterEmit[s.state], s)
    <3>1. AfterEmit[s.state] # "claim"
      BY <2>4 DEF AfterEmit
    <3> QED BY <1>1, <2>1, <2>4, <3>1, GotoKeeps
  <2> QED BY <1>4, <2>2, <2>3, <2>4 DEF Emit
<1> QED BY <1>2, <1>3, <1>4 DEF Emit

LEMMA EmitFailsKeeps ==
  ASSUME NEW r \in Runs, RunInv, EmitFails(r)
  PROVE  RunInv'
<1>1. Working(r)
  BY DEF EmitFails, Emitting, Working
<1>2. CASE pc[r] = "emitDelta" /\ Goto(r, "emitReject", snap[r])
  BY <1>1, <1>2, GotoKeeps DEF HookAwaits
<1>3. CASE End(r, "failed", "done", snap[r])
  BY <1>3, EndKeeps
<1>4. CASE Throw(r)
  BY <1>1, <1>4, ThrowKeeps
<1> QED BY <1>2, <1>3, <1>4 DEF EmitFails

LEMMA StepKeeps ==
  ASSUME NEW r \in Runs, RunInv,
         \/ CompileContext(r) \/ RunAgentTurn(r) \/ VerifyCandidate(r)
         \/ AdoptArtifact(r) \/ MergeContextDelta(r) \/ StepFails(r)
  PROVE  RunInv'
<1>1. CASE CompileContext(r)
  <2>1. Working(r) /\ hook[r] = None
    BY <1>1 DEF CompileContext, Working, RunInv, HookWaits, HookAwaits
  <2>2. PICK s : Goto(r, "emit", s)
    BY <1>1 DEF CompileContext
  <2> QED BY <2>1, <2>2, GotoKeeps
<1>2. CASE RunAgentTurn(r)
  <2>1. Working(r) /\ hook[r] = None
    BY <1>2 DEF RunAgentTurn, Working, RunInv, HookWaits, HookAwaits
  <2>2. PICK s : Goto(r, "emit", s)
    BY <1>2 DEF RunAgentTurn
  <2> QED BY <2>1, <2>2, GotoKeeps
<1>3. CASE VerifyCandidate(r)
  <2>1. Working(r) /\ hook[r] = None
    BY <1>3 DEF VerifyCandidate, Working, RunInv, HookWaits, HookAwaits
  <2>2. PICK s : Goto(r, "emit", s)
    BY <1>3 DEF VerifyCandidate
  <2> QED BY <2>1, <2>2, GotoKeeps
<1>4. CASE AdoptArtifact(r)
  <2>1. Working(r) /\ hook[r] = None
    BY <1>4 DEF AdoptArtifact, Working, RunInv, HookWaits, HookAwaits
  <2>2. CASE Throw(r)
    BY <2>1, <2>2, ThrowKeeps
  <2>3. CASE \E s : Goto(r, "emit", s)
    <3>1. PICK s : Goto(r, "emit", s)
      BY <2>3
    <3> QED BY <2>1, <3>1, GotoKeeps
  <2> QED BY <1>4, <2>2, <2>3 DEF AdoptArtifact
<1>5. CASE MergeContextDelta(r)
  <2>1. Working(r)
    BY <1>5 DEF MergeContextDelta, Working
  <2>2. PICK s : GotoDisposing(r, "emit", s)
    BY <1>5 DEF MergeContextDelta
  <2> QED BY <2>1, <2>2, GotoDisposingKeeps
<1>6. CASE StepFails(r)
  BY <1>6, ThrowKeeps DEF StepFails, Working
<1> QED BY <1>1, <1>2, <1>3, <1>4, <1>5, <1>6

LEMMA CreateContextHookKeeps ==
  ASSUME NEW r \in Runs, RunInv, CreateContextHook(r)
  PROVE  RunInv'
<1> DEFINE token == contextHookToken(snap[r])
<1>1. Working(r) /\ hook[r] = None /\ inbox[r] = <<>>
  BY DEF CreateContextHook, Working, RunInv, HookWaits, HookAwaits
<1>2. CASE \E q \in Runs : hook[q] = token
  <2>1. Throw(r)
    BY <1>2 DEF CreateContextHook
  <2> QED BY <1>1, <2>1, ThrowKeeps
<1>3. CASE ~ \E q \in Runs : hook[q] = token
  <2>1. /\ hook' = [hook EXCEPT ![r] = token]
        /\ pc' = [pc EXCEPT ![r] = "delta"]
        /\ status[r] = "running"
        /\ UNCHANGED <<status, snap, owner, inbox>>
    BY <1>3 DEF CreateContextHook
  <2> HIDE DEF token
  <2> USE <1>1, <2>1 DEF RunInv
  <2>2. Functions'
    BY DEF Functions
  <2>3. OwnerWorks'
    BY DEF Functions, OwnerWorks, Working
  <2>4. HookWaits'
    BY DEF Functions, HookWaits, HookAwaits
  <2>5. InboxMatchesHook'
    BY DEF Functions, InboxMatchesHook
  <2> QED BY <2>2, <2>3, <2>4, <2>5
<1> QED BY <1>2, <1>3

\* What is left of an inbox when its head is taken.
LEMMA TailElements ==
  ASSUME NEW S, NEW s \in Seq(S), s # <<>>
  PROVE  /\ Len(Tail(s)) = Len(s) - 1
         /\ \A j \in 1 .. Len(Tail(s)) : Tail(s)[j] = s[j + 1]
BY HeadTailProperties

LEMMA TakeDeltaKeeps ==
  ASSUME NEW r \in Runs, RunInv, TakeDelta(r)
  PROVE  RunInv'
<1>1. /\ status[r] = "running" /\ pc[r] = "delta" /\ inbox[r] # <<>>
      /\ inbox' = [inbox EXCEPT ![r] = Tail(@)]
      /\ UNCHANGED <<status, owner, hook>>
  BY DEF TakeDelta
<1>2. PICK await \in {"emitDelta", "emitReject"} : pc' = [pc EXCEPT ![r] = await]
  BY DEF TakeDelta
<1>3. DOMAIN snap' = DOMAIN snap
  BY DEF TakeDelta
<1> USE <1>1, <1>2 DEF RunInv
<1>4. Functions'
  BY <1>3 DEF Functions
<1>5. OwnerWorks'
  BY DEF Functions, OwnerWorks, Working
<1>6. HookWaits'
  BY DEF Functions, HookWaits, HookAwaits
<1>7. InboxMatchesHook'
  <2> SUFFICES ASSUME NEW q \in Runs, NEW i \in 1 .. Len(inbox'[q])
               PROVE  hook[q] = <<inbox'[q][i].attempt, inbox'[q][i].request, inbox'[q][i].seq>>
    BY DEF InboxMatchesHook
  <2>1. CASE q = r
    <3>1. inbox[r] \in Seq(Deltas) /\ inbox'[r] = Tail(inbox[r]) /\ inbox[r] # <<>>
      BY DEF Functions
    <3>2. /\ Len(inbox'[r]) = Len(inbox[r]) - 1
          /\ \A j \in 1 .. Len(inbox'[r]) : inbox'[r][j] = inbox[r][j + 1]
      BY <3>1, TailElements
    <3>3. i + 1 \in 1 .. Len(inbox[r]) /\ inbox'[r][i] = inbox[r][i + 1]
      BY <2>1, <3>1, <3>2
    <3> QED BY <2>1, <3>3 DEF InboxMatchesHook
  <2>2. CASE q # r
    BY <2>2 DEF InboxMatchesHook, Functions
  <2> QED BY <2>1, <2>2
<1> QED BY <1>4, <1>5, <1>6, <1>7

LEMMA LateEmitKeeps ==
  ASSUME NEW r \in Runs, RunInv, LateEmit(r)
  PROVE  RunInv'
BY DEF LateEmit, RunInv, Functions, OwnerWorks, Working, HookWaits, InboxMatchesHook

LEMMA RunStepKeeps ==
  ASSUME NEW r \in Runs, RunInv, RunStep(r) \/ RunFault(r)
  PROVE  RunInv'
<1>1. CASE EmitAgain(r)
  BY <1>1, FramedKeeps DEF EmitAgain
<1> QED
  BY <1>1, ClaimKeeps, EmitKeeps, EmitFailsKeeps, StepKeeps, CreateContextHookKeeps,
     TakeDeltaKeeps, LateEmitKeeps
  DEF RunStep, RunFault

-----------------------------------------------------------------------------
(* The actions of the clients.                                             *)

LEMMA CallKeeps ==
  ASSUME NEW c \in Clients, NEW x, ClientInv,
         call' = [call EXCEPT ![c] = x], x.at \notin {"projection", "lookup", "resume"}
  PROVE  ClientInv'
BY DEF ClientInv, At

LEMMA ReadProjectionKeeps ==
  ASSUME NEW c \in Clients, Inv, ReadProjection(c)
  PROVE  Inv'
<1> DEFINE d == call[c].delta
<1>1. RunInv'
  BY FramedKeeps DEF ReadProjection, runVars, Inv
<1>2. d \in Deltas \cup {None}
  BY DEF ReadProjection, Inv, ClientInv
<1>3. CASE d # None /\ validateContextDelta(Shown(c), d) = "VALID"
  <2> DEFINE x == [at |-> "lookup", run |-> call[c].run, delta |-> d,
                   token |-> contextHookToken(Shown(c))]
  <2>1. call' = [call EXCEPT ![c] = x]
    BY <1>3 DEF ReadProjection, Continue
  <2>2. contextHookToken(Shown(c)) = <<d.attempt, d.request, d.seq>>
    <3> HIDE DEF d
    <3> QED BY <1>3 DEF validateContextDelta, contextHookToken
  <2>3. d \in Deltas
    BY <1>2, <1>3
  <2> QED BY <1>1, <2>1, <2>2, <2>3 DEF Inv, ClientInv, At
<1>4. CASE ~ (d # None /\ validateContextDelta(Shown(c), d) = "VALID")
  <2>1. call' = [call EXCEPT ![c] = Idle]
    BY <1>4 DEF ReadProjection, Continue, Return
  <2> QED BY <1>1, <2>1, CallKeeps DEF Inv, Idle
<1> QED BY <1>3, <1>4

LEMMA LookupHookKeeps ==
  ASSUME NEW c \in Clients, Inv, LookupHook(c)
  PROVE  Inv'
<1>1. RunInv'
  BY FramedKeeps DEF LookupHook, runVars, Inv
<1>2. CASE call' = [call EXCEPT ![c] = [call[c] EXCEPT !.at = "resume"]]
  BY <1>1, <1>2 DEF LookupHook, Inv, ClientInv, At
<1>3. CASE call' = [call EXCEPT ![c] = Idle]
  BY <1>1, <1>3, CallKeeps DEF Inv, Idle
<1> QED BY <1>2, <1>3 DEF LookupHook, Continue, Return

LEMMA ResumeHookKeeps ==
  ASSUME NEW c \in Clients, Inv, ResumeHook(c)
  PROVE  Inv'
<1> DEFINE d == call[c].delta
<1>1. call' = [call EXCEPT ![c] = Idle] /\ UNCHANGED <<status, pc, snap, owner, hook>>
  BY DEF ResumeHook, Return, Continue
<1>2. d \in Deltas /\ call[c].token = <<d.attempt, d.request, d.seq>>
  BY DEF ResumeHook, At, Inv, ClientInv
<1>3. ClientInv'
  BY <1>1, CallKeeps DEF Inv, Idle
<1>4. CASE UNCHANGED inbox
  BY <1>1, <1>3, <1>4, FramedKeeps DEF Inv
<1>5. CASE \E q \in Runs : /\ hook[q] = call[c].token
                           /\ inbox' = [inbox EXCEPT ![q] = Append(@, d)]
  <2>1. PICK q \in Runs : /\ hook[q] = call[c].token
                          /\ inbox' = [inbox EXCEPT ![q] = Append(@, d)]
    BY <1>5
  <2>2. hook[q] # None
    BY <1>2, <2>1, VercelAssumption
  <2> HIDE DEF d
  <2> USE <1>1, <2>1 DEF Inv, RunInv
  <2>3. Functions'
    BY <1>2 DEF Functions
  <2>4. OwnerWorks'
    BY DEF OwnerWorks, Working
  <2>5. HookWaits'
    BY <2>2 DEF HookWaits, Functions
  <2>6. InboxMatchesHook'
    <3> SUFFICES ASSUME NEW p \in Runs, NEW i \in 1 .. Len(inbox'[p])
                 PROVE  hook[p] = <<inbox'[p][i].attempt, inbox'[p][i].request, inbox'[p][i].seq>>
      BY DEF InboxMatchesHook
    <3>1. inbox[p] \in Seq(Deltas)
      BY DEF Functions
    <3>2. CASE p = q /\ i = Len(inbox[p]) + 1
      BY <1>2, <3>1, <3>2 DEF Functions
    <3>3. CASE p = q /\ i # Len(inbox[p]) + 1
      <4>1. i \in 1 .. Len(inbox[p]) /\ inbox'[p][i] = inbox[p][i]
        BY <1>2, <3>1, <3>3 DEF Functions
      <4> QED BY <4>1 DEF InboxMatchesHook
    <3>4. CASE p # q
      BY <3>4 DEF InboxMatchesHook, Functions
    <3> QED BY <3>2, <3>3, <3>4
  <2> QED BY <1>3, <2>3, <2>4, <2>5, <2>6
<1> QED BY <1>4, <1>5 DEF ResumeHook

LEMMA ClientStepKeeps ==
  ASSUME NEW c \in Clients, Inv, ClientStep(c)
  PROVE  Inv'
<1>1. CASE CreateRun(c)
  <2>1. PICK r \in Runs :
           /\ StartRun(r, call[c].task)
           /\ Continue(c, [at |-> "owner", task |-> call[c].task, created |-> r])
    BY <1>1 DEF CreateRun
  <2> QED BY <2>1, StartKeeps, CallKeeps DEF Inv, Continue
<1>2. CASE WaitForTaskOwner(c)
  <2> DEFINE x == [at |-> "snapshot", task |-> call[c].task, created |-> call[c].created,
                   run |-> IF owner # None THEN owner ELSE call[c].created]
  <2>1. RunInv'
    BY <1>2, FramedKeeps DEF WaitForTaskOwner, runVars, Inv
  <2>2. call' = [call EXCEPT ![c] = x] /\ x.at = "snapshot"
    BY <1>2 DEF WaitForTaskOwner, Continue
  <2> HIDE DEF x
  <2> QED BY <2>1, <2>2, CallKeeps DEF Inv
<1>3. CASE ConfirmSubmission(c)
  BY <1>3, FramedKeeps, CallKeeps DEF ConfirmSubmission, Return, Continue, Inv, runVars, Idle
<1> QED
  BY <1>1, <1>2, <1>3, ReadProjectionKeeps, LookupHookKeeps, ResumeHookKeeps DEF ClientStep

LEMMA ClientCallKeeps ==
  ASSUME NEW c \in Clients, Inv, ClientCall(c)
  PROVE  Inv'
<1>1. CASE \E t \in Submissions : Submit(c, t)
  <2>1. PICK t \in Submissions : Submit(c, t)
    BY <1>1
  <2>2. RunInv'
    BY <2>1, FramedKeeps DEF Submit, runVars, Inv
  <2>3. ClientInv'
    <3> DEFINE x == IF owner # None
                    THEN [at |-> "snapshot", task |-> t, run |-> owner, created |-> None]
                    ELSE [at |-> "start", task |-> t]
    <3>1. call' = [call EXCEPT ![c] = x] /\ x.at \in {"snapshot", "start"}
      BY <2>1 DEF Submit, Begin
    <3> HIDE DEF x
    <3> QED BY <3>1, CallKeeps DEF Inv
  <2> QED BY <2>2, <2>3 DEF Inv
<1>2. CASE \E r \in Runs, d \in Deltas \cup {None} : ReadStatus(c, r, d)
  <2>1. PICK r \in Runs, d \in Deltas \cup {None} : ReadStatus(c, r, d)
    BY <1>2
  <2>2. RunInv'
    BY <2>1, FramedKeeps DEF ReadStatus, runVars, Inv
  <2>3. ClientInv'
    BY <2>1 DEF ReadStatus, Begin, Inv, ClientInv, At
  <2> QED BY <2>2, <2>3 DEF Inv
<1>3. CASE \E r \in Runs : Cancel(c, r)
  <2>1. PICK r \in Runs : Cancel(c, r)
    BY <1>3
  <2>2. RunInv'
    BY <2>1, EndKeeps DEF Cancel, CancelRun, Inv
  <2>3. ClientInv'
    BY <2>1, CallKeeps DEF Cancel, Begin, Inv, Idle
  <2> QED BY <2>2, <2>3 DEF Inv
<1> QED BY <1>1, <1>2, <1>3 DEF ClientCall

-----------------------------------------------------------------------------
LEMMA InvInit == BackendInit => Inv
<1> SUFFICES ASSUME BackendInit PROVE Inv
  OBVIOUS
<1> USE DEF BackendInit, Init
<1>1. Functions
  BY DEF Functions
<1>2. OwnerWorks
  BY DEF OwnerWorks, Working
<1>3. HookWaits
  BY DEF HookWaits
<1>4. InboxMatchesHook
  BY DEF InboxMatchesHook
<1>5. ClientInv
  BY DEF ClientInv, At, Idle
<1> QED BY <1>1, <1>2, <1>3, <1>4, <1>5 DEF Inv, RunInv

LEMMA InvNext == Inv /\ [Next]_vars => Inv'
<1> SUFFICES ASSUME Inv, [Next]_vars PROVE Inv'
  OBVIOUS
<1>1. CASE \E r \in Runs : (RunStep(r) \/ RunFault(r)) /\ UNCHANGED clientVars
  BY <1>1, RunStepKeeps DEF Inv, ClientInv, At, clientVars
<1>2. CASE \E c \in Clients : ClientStep(c) \/ ClientCall(c)
  BY <1>2, ClientStepKeeps, ClientCallKeeps
<1>3. CASE UNCHANGED vars
  BY <1>3, FramedKeeps DEF Inv, ClientInv, At, vars, runVars, clientVars
<1> QED BY <1>1, <1>2, <1>3 DEF Next

THEOREM InvAlways == Spec => []Inv
BY InvInit, InvNext, PTL DEF Spec

\* Two runs of the task never work on it at once, for any number of runs.
THEOREM OneRunWorksAlways == Spec => []OneRunWorks
<1>1. Inv => OneRunWorks
  BY DEF Inv, RunInv, OwnerWorks, OneRunWorks
<1> QED BY <1>1, InvAlways, PTL

\* CONTEXT_HOOK_CONFLICT never happens, for any number of runs and clients.
THEOREM ContextHookIsFreeAlways == Spec => []ContextHookIsFree
<1>1. Inv => ContextHookIsFree
  <2> SUFFICES ASSUME Inv, NEW r \in Runs, NEW q \in Runs,
                      status[r] = "running", pc[r] = "hook", hook[q] # None
               PROVE  FALSE
    BY DEF ContextHookIsFree
  <2>1. status[q] = "running" /\ pc[q] \in HookAwaits
    BY DEF Inv, RunInv, HookWaits
  <2>2. owner = r /\ owner = q
    BY <2>1 DEF Inv, RunInv, OwnerWorks, Working, HookAwaits
  <2> QED BY <2>1, <2>2 DEF HookAwaits
<1> QED BY <1>1, InvAlways, PTL

\* A delta never reaches a run that waits for another one.
THEOREM InboxMatchesHookAlways == Spec => []InboxMatchesHook
<1>1. Inv => InboxMatchesHook
  BY DEF Inv, RunInv
<1> QED BY <1>1, InvAlways, PTL

-----------------------------------------------------------------------------
(* What a start is answered with.  The second invariant: whatever a run     *)
(* says of its task, in its snapshot or in its stream, is the capsule it was*)
(* started with.                                                            *)

SaysItsTask(r) ==
  /\ "task" \in DOMAIN snap[r]
  /\ snap[r].task \in {None, task[r]}
  /\ pc[r] \notin {"claim", "done"} => snap[r].task = task[r]
  /\ status[r] = "none" => snap[r].task = None /\ stream[r] = <<>> /\ pc[r] = "done"
  /\ stream[r] # <<>> => snap[r].task = task[r]
  /\ \E S : stream[r] \in Seq(S) /\ \A e \in S : e.snapshot.task = task[r]

Started(r) == r \in Runs /\ status[r] # "none"

TaskInv ==
  /\ DOMAIN status = Runs /\ DOMAIN task = Runs /\ DOMAIN pc = Runs
  /\ DOMAIN snap = Runs /\ DOMAIN stream = Runs
  /\ owner # None => Started(owner)
  /\ \A r \in Runs : SaysItsTask(r)

AnswerInv ==
  /\ DOMAIN call = Clients /\ DOMAIN answer = Clients
  /\ \A c \in Clients :
       /\ At(c, "owner") => Started(call[c].created)
       /\ At(c, "snapshot") => Started(call[c].run)
       /\ answer[c].result = "accepted" /\ answer[c].snapshot =>
            /\ Started(answer[c].run)
            /\ task[answer[c].run] = answer[c].task
            /\ snap[answer[c].run].task = answer[c].task

\* Of some natural numbers one is the least.
LEMMA LeastExists ==
  ASSUME NEW T, T \subseteq Nat, T # {}
  PROVE  \E i \in T : \A j \in T : i <= j
<1> DEFINE R == OpToRel(<, Nat)
<1>1. IsWellFoundedOn(R, Nat)
  BY NatLessThanWellFounded
<1>2. \A x, y \in Nat : x < y => <<x, y>> \in R
  BY DEF OpToRel
<1>3. PICK i \in T : \A j \in T : ~ (<<j, i>> \in R)
  <2> HIDE DEF R
  <2> QED BY <1>1, WFMin
<1> HIDE DEF R
<1>4. ASSUME NEW j \in T PROVE i <= j
  <2>1. i \in Nat /\ j \in Nat /\ ~ (j < i)
    BY <1>2, <1>3
  <2> QED BY <2>1
<1> QED BY <1>4

\* Of some numbers from 1 to n one is the greatest.
LEMMA GreatestExists ==
  ASSUME NEW n \in Nat, NEW T, T \subseteq 1 .. n, T # {}
  PROVE  \E i \in T : \A j \in T : j <= i
<1> DEFINE U == {n - i : i \in T}
<1>0. U \subseteq Nat /\ U # {}
  <2>1. \A i \in T : n - i \in Nat
    OBVIOUS
  <2>2. U # {}
    <3>1. PICK i \in T : TRUE
      OBVIOUS
    <3> QED BY <3>1
  <2> QED BY <2>1, <2>2
<1>1. PICK x \in U : \A y \in U : x <= y
  <2> HIDE DEF U
  <2> QED BY <1>0, LeastExists
<1>2. PICK i \in T : x = n - i
  OBVIOUS
<1>3. \A j \in T : n - i <= n - j
  BY <1>1, <1>2
<1> QED BY <1>2, <1>3

\* What is kept of a stream is made of what was in it and of the new event.
LEMMA KeepElements ==
  ASSUME NEW S, NEW events \in Seq(S), NEW e \in S
  PROVE  Keep(Append(events, e)) \in Seq(S)
<1> DEFINE s == Append(events, e)
<1>1. s \in Seq(S) /\ Len(s) \in Nat
  OBVIOUS
<1> SUFFICES Keep(s) \in Seq(S)
  OBVIOUS
<1> HIDE DEF s
<1>2. CASE Len(s) <= Window
  BY <1>1, <1>2 DEF Keep
<1>3. CASE ~ (Len(s) <= Window)
  <2>1. Window \in Nat \ {0}
    BY VercelAssumption
  <2>2. \A i \in Len(s) - Window + 1 .. Len(s) : s[i] \in S
    BY <1>1, <1>3, <2>1
  <2>3. SubSeq(s, Len(s) - Window + 1, Len(s)) \in Seq(S)
    BY <1>1, <2>1, <2>2, SubSeqProperties
  <2> QED BY <1>3, <2>3 DEF Keep
<1> QED BY <1>2, <1>3

\* A snapshot read from a stream is one of its events, if it is not none.
LEMMA LatestIsAnEvent ==
  ASSUME NEW S, NEW events \in Seq(S)
  PROVE  \/ readLatestSnapshot(events) = NoSnapshot
         \/ events # <<>> /\ \E e \in S : readLatestSnapshot(events) = e.snapshot
<1> DEFINE found == {i \in 1 .. Len(events) : events[i].kind = "TASK_SNAPSHOT"}
<1>1. CASE found = {}
  BY <1>1 DEF readLatestSnapshot
<1>2. CASE found # {}
  <2> DEFINE i == CHOOSE i \in found : \A j \in found : j <= i
  <2>1. found \subseteq 1 .. Len(events) /\ Len(events) \in Nat
    OBVIOUS
  <2>2. \E m \in found : \A j \in found : j <= m
    <3> HIDE DEF found
    <3> QED BY <1>2, <2>1, GreatestExists
  <2>3. i \in found
    <3> HIDE DEF found
    <3> QED BY <2>2
  <2>4. readLatestSnapshot(events) = events[i].snapshot
    BY <1>2 DEF readLatestSnapshot
  <2>5. events[i] \in S /\ events # <<>>
    <3> HIDE DEF i
    <3> QED BY <2>3
  <2> QED BY <2>4, <2>5
<1> QED BY <1>1, <1>2

\* At most an event that says the task is written to the stream of r.
StreamSays(r) ==
  \/ UNCHANGED stream
  \/ /\ snap[r].task = task[r]
     /\ \E e : /\ e.snapshot = snap[r]
               /\ stream' = [stream EXCEPT ![r] = Keep(Append(@, e))]

LEMMA StreamStaysTrue ==
  ASSUME NEW r \in Runs, NEW q \in Runs, TaskInv, StreamSays(r)
  PROVE  /\ DOMAIN stream' = Runs
         /\ \E S : stream'[q] \in Seq(S) /\ \A e \in S : e.snapshot.task = task[q]
         /\ stream'[q] = stream[q] \/ (q = r /\ snap[q].task = task[q])
<1>1. CASE stream' = stream
  BY <1>1 DEF TaskInv, SaysItsTask
<1>2. CASE q # r
  BY <1>2 DEF TaskInv, SaysItsTask, StreamSays
<1>3. CASE q = r /\ stream' # stream
  <2>1. PICK e : /\ e.snapshot = snap[r]
                 /\ stream' = [stream EXCEPT ![r] = Keep(Append(@, e))]
    BY <1>3 DEF StreamSays
  <2>2. snap[r].task = task[r]
    BY <1>3 DEF StreamSays
  <2>3. PICK S : stream[r] \in Seq(S) /\ \A f \in S : f.snapshot.task = task[r]
    BY DEF TaskInv, SaysItsTask
  <2> DEFINE T == S \cup {e}
  <2>4. stream[r] \in Seq(T) /\ e \in T /\ \A f \in T : f.snapshot.task = task[r]
    BY <2>1, <2>2, <2>3
  <2>5. stream'[r] \in Seq(T)
    <3> HIDE DEF T
    <3> QED BY <2>1, <2>4, KeepElements DEF TaskInv
  <2> HIDE DEF T
  <2> QED BY <1>3, <2>1, <2>2, <2>4, <2>5 DEF TaskInv
<1> QED BY <1>1, <1>2, <1>3

\* No run but r moves.
MovesOnly(r) ==
  /\ DOMAIN status' = Runs /\ DOMAIN pc' = Runs /\ DOMAIN snap' = Runs
  /\ \A q \in Runs :
       q # r => status'[q] = status[q] /\ pc'[q] = pc[q] /\ snap'[q] = snap[q]
  /\ owner' \in {owner, None, r}
  /\ UNCHANGED task

\* A step keeps the invariant, and nothing that was said of a task is unsaid.
TaskStep ==
  /\ TaskInv'
  /\ \A r \in Runs :
       /\ snap'[r].task \in {snap[r].task, task'[r]}
       /\ status[r] # "none" => status'[r] # "none" /\ task'[r] = task[r]

\* A run that goes on, or ends, and says no other task than before.
LEMMA MoveKeepsTask ==
  ASSUME NEW r \in Runs, TaskInv, MovesOnly(r), StreamSays(r),
         status'[r] # "none",
         "task" \in DOMAIN snap'[r],
         \/ snap'[r].task = task[r]
         \/ snap'[r].task = snap[r].task /\ pc'[r] \in {"claim", "done"}
  PROVE  TaskStep
<1>1. (owner # None => Started(owner))'
  BY DEF TaskInv, Started, MovesOnly
<1>2. ASSUME NEW q \in Runs PROVE SaysItsTask(q)'
  <2>1. /\ \E S : stream'[q] \in Seq(S) /\ \A e \in S : e.snapshot.task = task[q]
        /\ stream'[q] = stream[q] \/ (q = r /\ snap[q].task = task[q])
    BY StreamStaysTrue
  <2>2. CASE q = r
    BY <2>1, <2>2 DEF TaskInv, SaysItsTask, MovesOnly
  <2>3. CASE q # r
    BY <2>1, <2>3 DEF TaskInv, SaysItsTask, MovesOnly
  <2> QED BY <2>2, <2>3
<1>3. DOMAIN stream' = Runs
  BY StreamStaysTrue
<1>4. TaskInv'
  BY <1>1, <1>2, <1>3 DEF TaskInv, MovesOnly
<1> QED BY <1>4 DEF TaskStep, TaskInv, MovesOnly

\* The three ways a run moves on, with a snapshot that says its task.
LEMMA EndKeepsTask ==
  ASSUME NEW r \in Runs, NEW st, NEW await, NEW s,
         TaskInv, st # "none", "task" \in DOMAIN s,
         s.task = task[r] \/ (s.task = snap[r].task /\ await \in {"claim", "done"}),
         End(r, st, await, s), UNCHANGED task, StreamSays(r)
  PROVE  TaskStep
BY MoveKeepsTask DEF End, MovesOnly, TaskInv

LEMMA GotoKeepsTask ==
  ASSUME NEW r \in Runs, NEW await, NEW s,
         TaskInv, status[r] # "none", "task" \in DOMAIN s, s.task = task[r],
         Goto(r, await, s) \/ GotoDisposing(r, await, s), UNCHANGED task, StreamSays(r)
  PROVE  TaskStep
BY MoveKeepsTask DEF Goto, GotoDisposing, MovesOnly, TaskInv

\* Transitions, turns and deltas leave the task of a snapshot alone.
LEMMA TaskKept ==
  ASSUME NEW s, "task" \in DOMAIN s, NEW to, NEW d
  PROVE  /\ "task" \in DOMAIN transitionVercelSnapshot(s, to)
         /\ transitionVercelSnapshot(s, to).task = s.task
         /\ "task" \in DOMAIN beginAgentTurn(s) /\ beginAgentTurn(s).task = s.task
         /\ "task" \in DOMAIN applyContextDelta(s, d) /\ applyContextDelta(s, d).task = s.task
BY DEF transitionVercelSnapshot, beginAgentTurn, applyContextDelta

LEMMA ThrowKeepsTask ==
  ASSUME NEW r \in Runs, TaskInv, status[r] # "none",
         "task" \in DOMAIN snap[r], snap[r].task = task[r],
         Throw(r), UNCHANGED task, UNCHANGED stream
  PROVE  TaskStep
<1>1. StreamSays(r)
  BY DEF StreamSays
<1> QED BY <1>1, EndKeepsTask, GotoKeepsTask, TaskKept DEF Throw

\* At every await but the first a run has a snapshot of its task.
LEMMA AtWorkSaysTask ==
  ASSUME NEW r \in Runs, TaskInv, pc[r] \notin {"claim", "done"}
  PROVE  "task" \in DOMAIN snap[r] /\ snap[r].task = task[r]
BY DEF TaskInv, SaysItsTask

LEMMA ClaimKeepsTask ==
  ASSUME NEW r \in Runs, TaskInv, ClaimTask(r)
  PROVE  TaskStep
<1>1. StreamSays(r) /\ UNCHANGED task /\ status[r] = "running"
  BY DEF ClaimTask, StreamSays
<1>2. CASE owner = None
  BY <1>1, <1>2, MoveKeepsTask
  DEF ClaimTask, MovesOnly, TaskInv, initialVercelSnapshot, NoSnapshot
<1>3. CASE owner # None
  BY <1>1, <1>3, EndKeepsTask DEF ClaimTask, TaskInv, SaysItsTask
<1> QED BY <1>2, <1>3

LEMMA EmitKeepsTask ==
  ASSUME NEW r \in Runs, TaskInv, Emit(r)
  PROVE  TaskStep
<1> DEFINE s == snap[r]
<1>1. /\ status[r] = "running" /\ UNCHANGED task
      /\ "task" \in DOMAIN s /\ s.task = task[r]
  BY AtWorkSaysTask DEF Emit, Emitting
<1>2. StreamSays(r)
  BY <1>1 DEF Emit, Write, Event, StreamSays, snapshotProjection, rejectionProjection
<1>3. CASE \E await, x : x \in {s, transitionVercelSnapshot(s, "COMPILING_CONTEXT")} /\ Goto(r, await, x)
  BY <1>1, <1>2, <1>3, GotoKeepsTask, TaskKept
<1>4. CASE End(r, "completed", "done", s)
  BY <1>1, <1>2, <1>4, EndKeepsTask
<1> QED BY <1>3, <1>4 DEF Emit

LEMMA EmitAgainKeepsTask ==
  ASSUME NEW r \in Runs, TaskInv, EmitAgain(r) \/ LateEmit(r)
  PROVE  TaskStep
<1>1. "task" \in DOMAIN snap[r] /\ snap[r].task = task[r] /\ status[r] # "none"
  BY AtWorkSaysTask DEF EmitAgain, LateEmit, Emitting
<1>2. StreamSays(r)
  BY <1>1 DEF EmitAgain, LateEmit, Write, Event, StreamSays, snapshotProjection, rejectionProjection
<1> QED BY <1>1, <1>2, MoveKeepsTask DEF EmitAgain, LateEmit, MovesOnly, TaskInv

LEMMA EmitFailsKeepsTask ==
  ASSUME NEW r \in Runs, TaskInv, EmitFails(r)
  PROVE  TaskStep
<1>1. /\ status[r] = "running" /\ UNCHANGED task /\ UNCHANGED stream /\ StreamSays(r)
      /\ "task" \in DOMAIN snap[r] /\ snap[r].task = task[r]
  BY AtWorkSaysTask DEF EmitFails, Emitting, StreamSays
<1>2. CASE Goto(r, "emitReject", snap[r])
  BY <1>1, <1>2, GotoKeepsTask
<1>3. CASE End(r, "failed", "done", snap[r])
  BY <1>1, <1>3, EndKeepsTask
<1>4. CASE Throw(r)
  BY <1>1, <1>4, ThrowKeepsTask
<1> QED BY <1>2, <1>3, <1>4 DEF EmitFails

LEMMA StepKeepsTask ==
  ASSUME NEW r \in Runs, TaskInv,
         \/ CompileContext(r) \/ RunAgentTurn(r) \/ VerifyCandidate(r)
         \/ AdoptArtifact(r) \/ MergeContextDelta(r) \/ StepFails(r)
  PROVE  TaskStep
<1>1. /\ status[r] = "running" /\ UNCHANGED task /\ UNCHANGED stream /\ StreamSays(r)
      /\ "task" \in DOMAIN snap[r] /\ snap[r].task = task[r]
  BY AtWorkSaysTask
  DEF CompileContext, RunAgentTurn, VerifyCandidate, AdoptArtifact, MergeContextDelta,
      StepFails, StreamSays
<1>2. ASSUME NEW x, "task" \in DOMAIN x, x.task = task[r],
             Goto(r, "emit", x) \/ GotoDisposing(r, "emit", x)
      PROVE  TaskStep
  BY <1>1, <1>2, GotoKeepsTask
<1>3. CASE Throw(r)
  BY <1>1, <1>3, ThrowKeepsTask
<1>4. CASE CompileContext(r)
  BY <1>1, <1>2, <1>4, TaskKept DEF CompileContext
<1>5. CASE RunAgentTurn(r)
  <2>1. PICK x : /\ Goto(r, "emit", x)
                 /\ \/ \E n : x = [transitionVercelSnapshot(snap[r], "INPUT_REQUIRED")
                                   EXCEPT !.need = n]
                    \/ x = transitionVercelSnapshot(snap[r], "FAILED")
                    \/ x = [transitionVercelSnapshot(snap[r], "VERIFYING")
                              EXCEPT !.candidate = snap[r].compiled]
    <3>1. PICK outcome \in {"INPUT_REQUIRED", "FAILED", "COMPLETED"}, n \in Requests :
            Goto(r, "emit",
              CASE outcome = "INPUT_REQUIRED" ->
                     [transitionVercelSnapshot(snap[r], "INPUT_REQUIRED") EXCEPT !.need = n]
                [] outcome = "FAILED" -> transitionVercelSnapshot(snap[r], "FAILED")
                [] outcome = "COMPLETED" ->
                     [transitionVercelSnapshot(snap[r], "VERIFYING")
                        EXCEPT !.candidate = snap[r].compiled])
      BY <1>5 DEF RunAgentTurn, AgentOutcomes
    <3> QED BY <3>1
  <2>2. "task" \in DOMAIN x /\ x.task = task[r]
    BY <1>1, <2>1, TaskKept
  <2> QED BY <1>2, <2>1, <2>2
<1>6. CASE VerifyCandidate(r)
  <2>1. PICK x : Goto(r, "emit", x) /\ "task" \in DOMAIN x /\ x.task = task[r]
    BY <1>1, <1>6, TaskKept DEF VerifyCandidate
  <2> QED BY <1>2, <2>1
<1>7. CASE AdoptArtifact(r)
  <2>1. CASE snap[r].report = snap[r].candidate
    BY <1>1, <1>2, <1>7, <2>1, TaskKept DEF AdoptArtifact, adoptArtifactStep
  <2> QED BY <1>3, <1>7, <2>1 DEF AdoptArtifact, adoptArtifactStep
<1>8. CASE MergeContextDelta(r)
  BY <1>1, <1>2, <1>8, TaskKept DEF MergeContextDelta
<1> QED BY <1>3, <1>4, <1>5, <1>6, <1>7, <1>8 DEF StepFails

LEMMA HookKeepsTask ==
  ASSUME NEW r \in Runs, TaskInv, CreateContextHook(r) \/ TakeDelta(r)
  PROVE  TaskStep
<1>1. /\ status[r] = "running" /\ UNCHANGED task /\ UNCHANGED stream /\ StreamSays(r)
      /\ "task" \in DOMAIN snap[r] /\ snap[r].task = task[r]
  BY AtWorkSaysTask DEF CreateContextHook, TakeDelta, StreamSays
<1>2. CASE CreateContextHook(r)
  <2>1. CASE Throw(r)
    BY <1>1, <2>1, ThrowKeepsTask
  <2>2. CASE pc' = [pc EXCEPT ![r] = "delta"] /\ UNCHANGED <<status, snap, owner, inbox>>
    BY <1>1, <2>2, MoveKeepsTask DEF MovesOnly, TaskInv
  <2> QED BY <1>2, <2>1, <2>2 DEF CreateContextHook
<1>3. CASE TakeDelta(r)
  <2>1. "task" \in DOMAIN snap'[r] /\ snap'[r].task = task[r]
    BY <1>1, <1>3, TaskKept DEF TakeDelta, TaskInv
  <2> QED BY <1>1, <1>3, <2>1, MoveKeepsTask DEF TakeDelta, MovesOnly, TaskInv
<1> QED BY <1>2, <1>3

LEMMA CancelKeepsTask ==
  ASSUME NEW r \in Runs, TaskInv, CancelRun(r)
  PROVE  TaskStep
<1>1. UNCHANGED task /\ StreamSays(r) /\ "task" \in DOMAIN snap[r]
  BY DEF CancelRun, StreamSays, TaskInv, SaysItsTask
<1>2. CASE pc[r] \in Emitting
  BY <1>1, <1>2, EndKeepsTask, AtWorkSaysTask DEF CancelRun, Emitting
<1>3. CASE pc[r] \notin Emitting
  BY <1>1, <1>3, EndKeepsTask DEF CancelRun
<1> QED BY <1>2, <1>3

LEMMA StartKeepsTask ==
  ASSUME NEW r \in Runs, NEW t, TaskInv, StartRun(r, t)
  PROVE  TaskStep
<1>1. (owner # None => Started(owner))'
  BY DEF TaskInv, Started, StartRun
<1>2. ASSUME NEW q \in Runs PROVE SaysItsTask(q)'
  <2>1. CASE q = r
    <3>1. stream'[q] \in Seq({}) /\ \A e \in {} : e.snapshot.task = task'[q]
      BY <2>1 DEF TaskInv, SaysItsTask, StartRun
    <3> QED BY <2>1, <3>1 DEF TaskInv, SaysItsTask, StartRun
  <2>2. CASE q # r
    BY <2>2 DEF TaskInv, SaysItsTask, StartRun
  <2> QED BY <2>1, <2>2
<1>3. TaskInv'
  BY <1>1, <1>2 DEF TaskInv, StartRun
<1> QED BY <1>3 DEF TaskStep, TaskInv, StartRun

LEMMA SameRunsKeepTask ==
  ASSUME TaskInv, UNCHANGED <<status, task, pc, snap, stream, owner>>
  PROVE  TaskStep
BY DEF TaskStep, TaskInv, SaysItsTask, Started

LEMMA RunStepKeepsTask ==
  ASSUME NEW r \in Runs, TaskInv, RunStep(r) \/ RunFault(r)
  PROVE  TaskStep
BY ClaimKeepsTask, EmitKeepsTask, EmitAgainKeepsTask, EmitFailsKeepsTask, StepKeepsTask,
   HookKeepsTask
DEF RunStep, RunFault

LEMMA ClientKeepsTask ==
  ASSUME NEW c \in Clients, TaskInv, ClientStep(c) \/ ClientCall(c)
  PROVE  TaskStep
<1>1. CASE CreateRun(c)
  BY <1>1, StartKeepsTask DEF CreateRun
<1>2. CASE \E r \in Runs : Cancel(c, r)
  BY <1>2, CancelKeepsTask DEF Cancel
<1>3. CASE WaitForTaskOwner(c) \/ ConfirmSubmission(c) \/ ReadProjection(c) \/ LookupHook(c)
  BY <1>3, SameRunsKeepTask
  DEF WaitForTaskOwner, ConfirmSubmission, ReadProjection, LookupHook, runVars
<1>4. CASE ResumeHook(c)
  BY <1>4, SameRunsKeepTask DEF ResumeHook
<1>5. CASE \/ \E t \in Submissions : Submit(c, t)
           \/ \E r \in Runs, d \in Deltas \cup {None} : ReadStatus(c, r, d)
  BY <1>5, SameRunsKeepTask DEF Submit, ReadStatus, runVars
<1> QED BY <1>1, <1>2, <1>3, <1>4, <1>5 DEF ClientStep, ClientCall

-----------------------------------------------------------------------------
(* The answers.                                                            *)

AcceptedOf(a) ==
  a.result = "accepted" /\ a.snapshot =>
    Started(a.run) /\ task[a.run] = a.task /\ snap[a.run].task = a.task

CallOf(x) ==
  /\ x.at = "owner" => Started(x.created)
  /\ x.at = "snapshot" => Started(x.run)

\* What was started stays so, and what was accepted.
LEMMA StartedStays ==
  ASSUME TaskInv, TaskStep
  PROVE  /\ \A r : Started(r) => Started(r)'
         /\ \A a : AcceptedOf(a) => AcceptedOf(a)'
         /\ \A x : CallOf(x) => CallOf(x)'
BY DEF TaskStep, Started, AcceptedOf, CallOf

\* One call goes on; its answer may be new.
LEMMA OneCallKeeps ==
  ASSUME NEW c \in Clients, NEW x, NEW a, TaskInv, TaskStep, AnswerInv,
         CallOf(x)', AcceptedOf(a)',
         call' = [call EXCEPT ![c] = x],
         answer' = [answer EXCEPT ![c] = a] \/ UNCHANGED answer
  PROVE  AnswerInv'
BY StartedStays DEF AnswerInv, At, CallOf, AcceptedOf

LEMMA NoCallKeeps ==
  ASSUME TaskInv, TaskStep, AnswerInv, UNCHANGED <<call, answer>>
  PROVE  AnswerInv'
BY StartedStays DEF AnswerInv, At, CallOf, AcceptedOf

LEMMA ConfirmAnswers ==
  ASSUME NEW c \in Clients, TaskInv, AnswerInv, ConfirmSubmission(c)
  PROVE  AnswerInv'
<1> DEFINE r == call[c].run
           s == readLatestSnapshot(stream[r])
           a == IF s.task \in {None, call[c].task} THEN Accepted(c, s)
                ELSE [result |-> "TASK_CONFLICT"]
<1>1. TaskStep
  BY ClientKeepsTask DEF ClientStep
<1>2. call' = [call EXCEPT ![c] = Idle] /\ answer' = [answer EXCEPT ![c] = a]
  BY DEF ConfirmSubmission, Return, Continue
<1>3. Started(r)
  BY DEF ConfirmSubmission, AnswerInv
<1>4. PICK S : stream[r] \in Seq(S) /\ \A e \in S : e.snapshot.task = task[r]
  BY <1>3 DEF TaskInv, SaysItsTask, Started
<1>5. s.task = None \/ (s.task = task[r] /\ snap[r].task = task[r])
  <2>1. CASE s = NoSnapshot
    BY <2>1 DEF NoSnapshot
  <2>2. CASE stream[r] # <<>> /\ \E e \in S : s = e.snapshot
    BY <1>3, <1>4, <2>2 DEF TaskInv, SaysItsTask, Started
  <2> QED BY <1>4, <2>1, <2>2, LatestIsAnEvent
<1>6. AcceptedOf(a)
  <2> HIDE DEF s
  <2> QED BY <1>3, <1>5 DEF AcceptedOf, Accepted
<1>7. PICK b : b = a
  OBVIOUS
<1>8. AcceptedOf(b)'
  <2>1. AcceptedOf(b)
    <3> HIDE DEF a
    <3> QED BY <1>6, <1>7
  <2> QED BY <1>1, <2>1, StartedStays
<1>9. CallOf(Idle)'
  BY DEF CallOf, Idle
<1>10. answer' = [answer EXCEPT ![c] = b]
  <2> HIDE DEF a
  <2> QED BY <1>2, <1>7
<1> QED BY <1>1, <1>2, <1>8, <1>9, <1>10, OneCallKeeps

\* The call goes on and is not answered yet.
LEMMA NoAnswerKeeps ==
  ASSUME NEW c \in Clients, NEW x, TaskInv, TaskStep, AnswerInv, CallOf(x)',
         call' = [call EXCEPT ![c] = x], UNCHANGED answer
  PROVE  AnswerInv'
BY StartedStays DEF AnswerInv, At, CallOf, AcceptedOf

\* Any other answer accepts nothing.
LEMMA OtherAnswersKeep ==
  ASSUME NEW c \in Clients, NEW x, NEW a, TaskInv, TaskStep, AnswerInv,
         a.result # "accepted", CallOf(x)',
         call' = [call EXCEPT ![c] = x],
         answer' = [answer EXCEPT ![c] = a]
  PROVE  AnswerInv'
<1>1. AcceptedOf(a)'
  BY DEF AcceptedOf
<1> QED BY <1>1, OneCallKeeps

LEMMA RefusalsKeep ==
  ASSUME NEW c \in Clients, NEW refusal, TaskInv, TaskStep, AnswerInv,
         refusal # "accepted", Return(c, [result |-> refusal])
  PROVE  AnswerInv'
<1>1. PICK a : a = [result |-> refusal]
  OBVIOUS
<1>2. PICK x : x = Idle
  OBVIOUS
<1>3. CallOf(x)' /\ a.result # "accepted"
  BY <1>1, <1>2 DEF CallOf, Idle
<1>4. call' = [call EXCEPT ![c] = x] /\ answer' = [answer EXCEPT ![c] = a]
  BY <1>1, <1>2 DEF Return, Continue
<1> QED BY <1>3, <1>4, OtherAnswersKeep

LEMMA VerdictIsNoAcceptance ==
  ASSUME NEW s, NEW d
  PROVE  validateContextDelta(s, d) # "accepted"
BY DEF validateContextDelta

LEMMA ClientStepAnswers ==
  ASSUME NEW c \in Clients, TaskInv, AnswerInv, ClientStep(c)
  PROVE  AnswerInv'
<1>1. TaskStep
  BY ClientKeepsTask
<1>2. ASSUME NEW x, x.at \notin {"owner", "snapshot"} PROVE CallOf(x)'
  BY <1>2 DEF CallOf
<1>3. CASE CreateRun(c)
  <2>1. PICK r \in Runs :
           /\ StartRun(r, call[c].task)
           /\ Continue(c, [at |-> "owner", task |-> call[c].task, created |-> r])
    BY <1>3 DEF CreateRun
  <2>2. PICK x : x = [at |-> "owner", task |-> call[c].task, created |-> r]
    OBVIOUS
  <2>3. Started(r)'
    BY <2>1 DEF StartRun, Started, TaskInv
  <2>4. CallOf(x)'
    BY <2>2, <2>3 DEF CallOf
  <2>5. call' = [call EXCEPT ![c] = x] /\ UNCHANGED answer
    BY <1>3, <2>1, <2>2 DEF Continue, CreateRun
  <2> QED BY <1>1, <2>4, <2>5, NoAnswerKeeps
<1>4. CASE WaitForTaskOwner(c)
  <2>1. PICK x : /\ x = [at |-> "snapshot", task |-> call[c].task, created |-> call[c].created,
                         run |-> IF owner # None THEN owner ELSE call[c].created]
                 /\ call' = [call EXCEPT ![c] = x] /\ UNCHANGED answer
    BY <1>4 DEF WaitForTaskOwner, Continue
  <2>2. CallOf(x)
    BY <1>4, <2>1 DEF CallOf, WaitForTaskOwner, AnswerInv, TaskInv
  <2>3. CallOf(x)'
    BY <1>1, <2>2, StartedStays
  <2> QED BY <1>1, <2>1, <2>3, NoAnswerKeeps
<1>5. CASE ConfirmSubmission(c)
  BY <1>5, ConfirmAnswers
<1>6. CASE ReadProjection(c)
  <2>1. PICK v : v = IF call[c].delta = None THEN "shown"
                     ELSE validateContextDelta(Shown(c), call[c].delta)
    OBVIOUS
  <2>2. v # "accepted"
    BY <2>1, VerdictIsNoAcceptance
  <2>3. PICK x : x = [at |-> "lookup", run |-> call[c].run, delta |-> call[c].delta,
                      token |-> contextHookToken(Shown(c))]
    OBVIOUS
  <2>4. \/ Continue(c, x) /\ UNCHANGED answer
        \/ Return(c, [result |-> v])
    BY <1>6, <2>1, <2>3 DEF ReadProjection
  <2>5. CASE Continue(c, x) /\ UNCHANGED answer
    <3>1. CallOf(x)'
      BY <2>3 DEF CallOf
    <3> QED BY <1>1, <2>5, <3>1, NoAnswerKeeps DEF Continue
  <2> QED BY <1>1, <2>2, <2>4, <2>5, RefusalsKeep
<1>7. CASE LookupHook(c)
  <2>1. PICK v : v = IF \E q \in Runs : hook[q] = call[c].token
                     THEN "CONTEXT_HOOK_OWNER_MISMATCH" ELSE "CONTEXT_HOOK_NOT_READY"
    OBVIOUS
  <2>2. v # "accepted"
    BY <2>1
  <2>3. PICK x : x = [call[c] EXCEPT !.at = "resume"]
    OBVIOUS
  <2>4. \/ Continue(c, x) /\ UNCHANGED answer
        \/ Return(c, [result |-> v])
    BY <1>7, <2>1, <2>3 DEF LookupHook
  <2>5. CASE Continue(c, x) /\ UNCHANGED answer
    <3>1. CallOf(x)'
      <4>1. CASE "at" \in DOMAIN call[c]
        BY <2>3, <4>1 DEF CallOf
      <4>2. CASE "at" \notin DOMAIN call[c]
        BY <2>3, <4>2, <1>7 DEF CallOf, LookupHook, At
      <4> QED BY <4>1, <4>2
    <3> QED BY <1>1, <2>5, <3>1, NoAnswerKeeps DEF Continue
  <2> QED BY <1>1, <2>2, <2>4, <2>5, RefusalsKeep
<1>8. CASE ResumeHook(c)
  <2>1. PICK v : v \in {"HOOK_NOT_FOUND", "resumed", "CONTEXT_RESUME_OWNER_MISMATCH"}
                 /\ Return(c, [result |-> v])
    BY <1>8 DEF ResumeHook
  <2> QED BY <1>1, <2>1, RefusalsKeep
<1> QED BY <1>3, <1>4, <1>5, <1>6, <1>7, <1>8 DEF ClientStep

LEMMA ClientCallAnswers ==
  ASSUME NEW c \in Clients, TaskInv, AnswerInv, ClientCall(c)
  PROVE  AnswerInv'
<1>1. TaskStep
  BY ClientKeepsTask
<1>2. PICK x : Begin(c, x) /\ CallOf(x)
  <2>1. CASE \E t \in Submissions : Submit(c, t)
    BY <2>1 DEF Submit, CallOf, TaskInv
  <2>2. CASE \E r \in Runs, d \in Deltas \cup {None} : ReadStatus(c, r, d)
    BY <2>2 DEF ReadStatus, CallOf
  <2>3. CASE \E r \in Runs : Cancel(c, r)
    BY <2>3 DEF Cancel, CallOf, Idle
  <2> QED BY <2>1, <2>2, <2>3 DEF ClientCall
<1>3. CallOf(x)'
  BY <1>1, <1>2, StartedStays
<1>4. PICK a : a = NoAnswer
  OBVIOUS
<1>5. a.result # "accepted"
  BY <1>4 DEF NoAnswer
<1>6. call' = [call EXCEPT ![c] = x] /\ answer' = [answer EXCEPT ![c] = a]
  BY <1>2, <1>4 DEF Begin
<1> QED BY <1>1, <1>3, <1>5, <1>6, OtherAnswersKeep

LEMMA AnswersInit == BackendInit => TaskInv /\ AnswerInv
<1> SUFFICES ASSUME BackendInit PROVE TaskInv /\ AnswerInv
  OBVIOUS
<1>1. ASSUME NEW r \in Runs PROVE SaysItsTask(r)
  <2>1. stream[r] \in Seq({}) /\ \A e \in {} : e.snapshot.task = task[r]
    BY DEF BackendInit, Init
  <2>2. \E S : stream[r] \in Seq(S) /\ \A e \in S : e.snapshot.task = task[r]
    BY <2>1
  <2>3. snap[r] = NoSnapshot /\ stream[r] = <<>> /\ pc[r] = "done"
    BY DEF BackendInit, Init
  <2>4. "task" \in DOMAIN snap[r] /\ snap[r].task = None
    BY <2>3 DEF NoSnapshot
  <2> QED BY <2>2, <2>3, <2>4 DEF SaysItsTask
<1>2. TaskInv
  BY <1>1 DEF BackendInit, Init, TaskInv
<1>3. AnswerInv
  BY DEF BackendInit, AnswerInv, At, Idle, NoAnswer
<1> QED BY <1>2, <1>3

LEMMA AnswersNext == TaskInv /\ AnswerInv /\ [Next]_vars => TaskInv' /\ AnswerInv'
<1> SUFFICES ASSUME TaskInv, AnswerInv, [Next]_vars PROVE TaskInv' /\ AnswerInv'
  OBVIOUS
<1>1. CASE \E r \in Runs : (RunStep(r) \/ RunFault(r)) /\ UNCHANGED clientVars
  BY <1>1, RunStepKeepsTask, NoCallKeeps DEF clientVars, TaskStep
<1>2. CASE \E c \in Clients : ClientStep(c) \/ ClientCall(c)
  BY <1>2, ClientKeepsTask, ClientStepAnswers, ClientCallAnswers DEF TaskStep
<1>3. CASE UNCHANGED vars
  BY <1>3, SameRunsKeepTask, NoCallKeeps DEF vars, runVars, clientVars, TaskStep
<1> QED BY <1>1, <1>2, <1>3 DEF Next

\* A start that is answered with a snapshot names a run that works on the
\* caller's own submission, however many callers, capsules and runs there are.
THEOREM AcceptedRunIsMineAlways == Spec => []AcceptedRunIsMine
<1>1. AnswerInv => AcceptedRunIsMine
  BY DEF AnswerInv, AcceptedRunIsMine
<1> QED BY <1>1, AnswersInit, AnswersNext, PTL DEF Spec

-----------------------------------------------------------------------------
(* The snapshots of the runs.                                              *)

States == TERMINAL_STATES \cup DOMAIN AfterEmit \cup {"SUBMITTED"}

\* The states the snapshot of an open run is in, by the await it stands at.
\* A delta whose emission failed leaves a run WORKING in the loop over the hook.
StatesAt ==
  [claim |-> {"SUBMITTED"}, compile |-> {"COMPILING_CONTEXT"}, agent |-> {"WORKING"},
   hook |-> {"INPUT_REQUIRED"}, delta |-> {"INPUT_REQUIRED", "WORKING"},
   merge |-> {"WORKING"}, verify |-> {"VERIFYING"}, adopt |-> {"ADOPTING"},
   emit |-> States, emitDelta |-> {"WORKING"},
   emitReject |-> {"INPUT_REQUIRED", "WORKING"}, emitFailed |-> {"FAILED"}, done |-> {}]

StandsAt(st, await, s) ==
  /\ st = "running" => s.state \in StatesAt[await]
  /\ st = "none" \/ await = "claim" => s = NoSnapshot
  /\ st = "completed" => Terminal(s) \/ s = NoSnapshot

\* From an accepted delta to its merge the context lags one delta behind.
ContextIsMerged(await, s) ==
  /\ s.state \in {"SUBMITTED", "COMPILING_CONTEXT"} => s.applied = <<>>
  /\ s.state = "INPUT_REQUIRED" => s.compiled = s.applied
  /\ s.state = "WORKING" /\ await \in {"emit", "agent"} => s.compiled = s.applied
  /\ await \in {"emitDelta", "merge"} =>
       /\ s.compiled \in Seq(DeltaIds)
       /\ \E d \in DeltaIds : s.applied = Append(s.compiled, d)

CandidateIsContext(s) ==
  /\ s.candidate # None =>
       s.candidate = s.applied /\ s.state \in {"VERIFYING", "ADOPTING", "COMPLETED", "FAILED"}
  /\ s.state \in {"VERIFYING", "ADOPTING", "COMPLETED"} => s.candidate = s.applied
  /\ s.state \in {"ADOPTING", "COMPLETED"} => s.report = s.candidate
  /\ s.state = "COMPLETED" => s.adoption = s.candidate

Fits(st, await, s) ==
  /\ st \in STATUSES /\ await \in Awaits /\ s \in Snapshots
  /\ StandsAt(st, await, s)
  /\ ContextIsMerged(await, s)
  /\ CandidateIsContext(s)

\* Runs are what they are said to be.
SnapInv ==
  /\ status \in [Runs -> STATUSES] /\ pc \in [Runs -> Awaits] /\ snap \in [Runs -> Snapshots]
  /\ task \in [Runs -> Submissions \cup {None}]
  /\ \A r \in Runs : Fits(status[r], pc[r], snap[r])
  /\ \A r \in Runs : status[r] # "none" => task[r] \in Submissions

-----------------------------------------------------------------------------
(* How a snapshot follows another.                                         *)

SameContext(s, t) == t.context_seq = s.context_seq /\ t.applied = s.applied

\* A submission, a move of the table, another turn, a delta.
Follows(s, t) ==
  \/ /\ s = NoSnapshot /\ t.state = "SUBMITTED" /\ t.state_seq = 1 /\ SameContext(s, t)
  \/ /\ ~ Terminal(s) /\ t.state_seq = s.state_seq + 1
     /\ \/ SameContext(s, t) /\ <<s.state, t.state>> \in
             {<<"SUBMITTED", "COMPILING_CONTEXT">>, <<"COMPILING_CONTEXT", "WORKING">>,
              <<"WORKING", "INPUT_REQUIRED">>, <<"WORKING", "VERIFYING">>,
              <<"WORKING", "WORKING">>,
              <<"VERIFYING", "ADOPTING">>, <<"ADOPTING", "COMPLETED">>}
        \/ SameContext(s, t) /\ t.state = "FAILED"
        \/ /\ s.state = "INPUT_REQUIRED" /\ t.state = "WORKING"
           /\ t.context_seq = s.context_seq + 1
           /\ \E d \in DeltaIds :
                /\ t.applied = Append(s.applied, d)
                /\ \A i \in 1 .. Len(s.applied) : s.applied[i] # d

\* Snapshots, with what the provers need not look into left open.
SnapshotsOver(contexts, states) ==
  [task : Submissions \cup {None}, state : states,
   state_seq : Nat, context_seq : Nat, turn_no : Nat, need : Requests \cup {None},
   compiled : contexts \cup {None}, applied : contexts, candidate : contexts \cup {None},
   report : contexts \cup {None}, adoption : contexts \cup {None}]

LEMMA SnapshotsAre ==
  \E contexts, states :
    /\ contexts = Seq(DeltaIds) /\ states = States
    /\ Snapshots = SnapshotsOver(contexts, states)
BY DEF Snapshots, SnapshotsOver, States

\* What the task and the context of a snapshot are is not changed by any of
\* the updates but those that say so.
SameButState(s, t) ==
  /\ t.task = s.task /\ t.need = s.need /\ t.compiled = s.compiled
  /\ t.candidate = s.candidate /\ t.report = s.report /\ t.adoption = s.adoption

LEMMA CountsAre ==
  ASSUME NEW s \in Snapshots
  PROVE  s.state_seq + 1 \in Nat /\ s.context_seq + 1 \in Nat /\ s.turn_no + 1 \in Nat
BY SnapshotsAre DEF SnapshotsOver

LEMMA TransitionFields ==
  ASSUME NEW s \in Snapshots, NEW to \in States, ~ Terminal(s)
  PROVE  LET t == transitionVercelSnapshot(s, to)
         IN  /\ t \in Snapshots /\ t.state = to /\ t.state_seq = s.state_seq + 1
             /\ SameContext(s, t) /\ SameButState(s, t)
<1>1. PICK C, S : to \in S /\ Snapshots = SnapshotsOver(C, S)
  BY SnapshotsAre
<1>2. PICK n \in Nat : n = s.state_seq + 1
  BY CountsAre
<1>3. transitionVercelSnapshot(s, to) = [s EXCEPT !.state = to, !.state_seq = n]
  BY <1>2 DEF transitionVercelSnapshot
<1>4. s \in SnapshotsOver(C, S) /\ to \in S
  BY <1>1
<1>5. LET t == [s EXCEPT !.state = to, !.state_seq = n]
      IN  /\ t \in SnapshotsOver(C, S) /\ t.state = to /\ t.state_seq = n
          /\ SameContext(s, t) /\ SameButState(s, t)
  BY <1>4 DEF SnapshotsOver, SameContext, SameButState
<1> QED BY <1>1, <1>2, <1>3, <1>5

LEMMA TurnFields ==
  ASSUME NEW s \in Snapshots, ~ Terminal(s)
  PROVE  LET t == beginAgentTurn(s)
         IN  /\ t \in Snapshots /\ t.state = "WORKING" /\ t.state_seq = s.state_seq + 1
             /\ SameContext(s, t) /\ SameButState(s, t)
<1>1. "WORKING" \in States
  BY DEF States, AfterEmit
<1>2. PICK C, S : "WORKING" \in S /\ Snapshots = SnapshotsOver(C, S)
  BY <1>1, SnapshotsAre
<1>3. PICK n \in Nat, m \in Nat : n = s.state_seq + 1 /\ m = s.turn_no + 1
  BY CountsAre
<1>4. beginAgentTurn(s) = [s EXCEPT !.state = "WORKING", !.state_seq = n, !.turn_no = m]
  BY <1>3 DEF beginAgentTurn
<1>5. s \in SnapshotsOver(C, S) /\ "WORKING" \in S
  BY <1>2
<1>6. LET t == [s EXCEPT !.state = "WORKING", !.state_seq = n, !.turn_no = m]
      IN  /\ t \in SnapshotsOver(C, S) /\ t.state = "WORKING" /\ t.state_seq = n
          /\ SameContext(s, t) /\ SameButState(s, t)
  BY <1>5 DEF SnapshotsOver, SameContext, SameButState
<1> QED BY <1>2, <1>3, <1>4, <1>6

LEMMA DeltaFields ==
  ASSUME NEW s \in Snapshots, NEW d \in Deltas
  PROVE  LET t == applyContextDelta(s, d)
         IN  /\ t \in Snapshots /\ t.state = "WORKING" /\ t.state_seq = s.state_seq + 1
             /\ t.context_seq = s.context_seq + 1 /\ t.applied = Append(s.applied, d.id)
             /\ t.compiled = s.compiled /\ t.candidate = s.candidate
<1>1. "WORKING" \in States /\ d.id \in DeltaIds
  BY DEF States, AfterEmit, DeltaIds
<1>2. PICK a : a = Append(s.applied, d.id)
  OBVIOUS
<1>3. s.applied \in Seq(DeltaIds)
  BY SnapshotsAre DEF SnapshotsOver
<1>4. PICK C, S : /\ C = Seq(DeltaIds) /\ "WORKING" \in S
                  /\ Snapshots = SnapshotsOver(C, S)
  BY <1>1, SnapshotsAre
<1>5. a \in C
  BY <1>1, <1>2, <1>3, <1>4
<1>6. PICK n \in Nat, m \in Nat : n = s.state_seq + 1 /\ m = s.context_seq + 1
  BY CountsAre
<1>7. applyContextDelta(s, d) =
        [s EXCEPT !.state = "WORKING", !.state_seq = n, !.context_seq = m,
                  !.need = None, !.applied = a]
  BY <1>2, <1>6 DEF applyContextDelta
<1>8. s \in SnapshotsOver(C, S) /\ "WORKING" \in S
  BY <1>4
<1>9. LET t == [s EXCEPT !.state = "WORKING", !.state_seq = n, !.context_seq = m,
                         !.need = None, !.applied = a]
      IN  /\ t \in SnapshotsOver(C, S) /\ t.state = "WORKING" /\ t.state_seq = n
          /\ t.context_seq = m /\ t.applied = a
          /\ t.compiled = s.compiled /\ t.candidate = s.candidate
  BY <1>5, <1>8 DEF SnapshotsOver
<1> QED BY <1>2, <1>4, <1>6, <1>7, <1>9

\* The references a step adds to a snapshot.
LEMMA ReferenceFields ==
  ASSUME NEW s \in Snapshots, NEW a \in Seq(DeltaIds) \cup {None},
         NEW n \in Requests \cup {None}
  PROVE  /\ LET t == [s EXCEPT !.compiled = a]
            IN  /\ t \in Snapshots /\ SameContext(s, t) /\ t.compiled = a
                /\ t.state = s.state /\ t.state_seq = s.state_seq
                /\ t.candidate = s.candidate
         /\ LET t == [s EXCEPT !.candidate = a]
            IN  /\ t \in Snapshots /\ SameContext(s, t) /\ t.candidate = a
                /\ t.state = s.state /\ t.state_seq = s.state_seq
         /\ LET t == [s EXCEPT !.report = a]
            IN  /\ t \in Snapshots /\ SameContext(s, t) /\ t.report = a
                /\ t.state = s.state /\ t.state_seq = s.state_seq
                /\ t.candidate = s.candidate
         /\ LET t == [s EXCEPT !.adoption = a]
            IN  /\ t \in Snapshots /\ SameContext(s, t) /\ t.adoption = a
                /\ t.state = s.state /\ t.state_seq = s.state_seq
                /\ t.candidate = s.candidate /\ t.report = s.report
         /\ LET t == [s EXCEPT !.need = n]
            IN  /\ t \in Snapshots /\ SameContext(s, t)
                /\ t.state = s.state /\ t.state_seq = s.state_seq
                /\ t.compiled = s.compiled /\ t.candidate = s.candidate
<1>1. PICK C, S : /\ a \in C \cup {None} /\ Snapshots = SnapshotsOver(C, S)
  BY SnapshotsAre
<1> QED BY <1>1 DEF SnapshotsOver, SameContext

LEMMA FirstSnapshots ==
  ASSUME NEW k \in Submissions \cup {None}
  PROVE  /\ NoSnapshot \in Snapshots
         /\ LET t == initialVercelSnapshot(k)
            IN  /\ t \in Snapshots /\ t.state = "SUBMITTED" /\ t.state_seq = 1
                /\ SameContext(NoSnapshot, t) /\ t.applied = <<>>
                /\ t.candidate = None
<1>1. <<>> \in Seq(DeltaIds) /\ "SUBMITTED" \in States
  BY DEF States
<1>2. PICK C, S : /\ <<>> \in C /\ "SUBMITTED" \in S /\ Snapshots = SnapshotsOver(C, S)
  BY <1>1, SnapshotsAre
<1> QED BY <1>2 DEF NoSnapshot, initialVercelSnapshot, SnapshotsOver, SameContext

-----------------------------------------------------------------------------
(* How a run moves: to an await its snapshot fits, and with a snapshot that *)
(* follows.                                                                *)

RunFollows(st, s, to, t) ==
  \/ t = s /\ to = st
  \/ t = s /\ st = "none" /\ to = "running"
  \/ t = s /\ st = "running" /\ to \in {"failed", "cancelled"}
  \/ t = s /\ st = "running" /\ to = "completed" /\ (Terminal(s) \/ s = NoSnapshot)
  \/ st = "running" /\ to = "running" /\ Follows(s, t)

Moved(r, st, await, t) ==
  /\ status' = [status EXCEPT ![r] = st]
  /\ pc' = [pc EXCEPT ![r] = await]
  /\ snap' = [snap EXCEPT ![r] = t]

Moves(r) ==
  \E st, await, t :
    /\ Moved(r, st, await, t)
    /\ Fits(st, await, t)
    /\ RunFollows(status[r], snap[r], st, t)

LEMMA FitsHere ==
  ASSUME NEW r \in Runs, SnapInv
  PROVE  Fits(status[r], pc[r], snap[r]) /\ snap[r] \in Snapshots
BY DEF SnapInv, Fits

LEMMA GotoMoves ==
  ASSUME NEW r \in Runs, NEW await, NEW t, SnapInv, status[r] = "running",
         Goto(r, await, t) \/ GotoDisposing(r, await, t),
         Fits("running", await, t), t = snap[r] \/ Follows(snap[r], t)
  PROVE  Moves(r)
<1>1. Moved(r, "running", await, t)
  BY DEF Goto, GotoDisposing, Moved, SnapInv
<1>2. RunFollows(status[r], snap[r], "running", t)
  BY DEF RunFollows
<1> QED BY <1>1, <1>2 DEF Moves

\* A run that ends keeps its snapshot, and fits in it.
LEMMA EndMoves ==
  ASSUME NEW r \in Runs, NEW st \in {"failed", "cancelled", "completed"},
         NEW await \in Emitting \cup {"done"},
         SnapInv, status[r] = "running", End(r, st, await, snap[r]),
         await # "done" => await = pc[r],
         st = "completed" => Terminal(snap[r]) \/ snap[r] = NoSnapshot
  PROVE  Moves(r)
<1>1. Moved(r, st, await, snap[r])
  BY DEF End, Moved, SnapInv
<1>2. RunFollows(status[r], snap[r], st, snap[r])
  BY DEF RunFollows
<1>3. Fits(st, await, snap[r])
  <2>1. st \in STATUSES /\ await \in Awaits /\ snap[r] \in Snapshots
    BY FitsHere DEF STATUSES, Awaits
  <2>2. StandsAt(st, await, snap[r])
    BY DEF StandsAt, Emitting
  <2>3. ContextIsMerged(await, snap[r])
    BY FitsHere DEF Fits, ContextIsMerged
  <2> QED BY <2>1, <2>2, <2>3, FitsHere DEF Fits
<1> QED BY <1>1, <1>2, <1>3 DEF Moves

\* FAILED fits wherever it is emitted.
LEMMA FailedFits ==
  ASSUME NEW s \in Snapshots, CandidateIsContext(s), ~ Terminal(s),
         NEW await \in {"emit", "emitFailed"}
  PROVE  LET t == transitionVercelSnapshot(s, "FAILED")
         IN  Fits("running", await, t) /\ Follows(s, t)
<1>1. "FAILED" \in States
  BY DEF States, TERMINAL_STATES
<1>2. PICK t : t = transitionVercelSnapshot(s, "FAILED")
  OBVIOUS
<1>3. /\ t \in Snapshots /\ t.state = "FAILED" /\ t.state_seq = s.state_seq + 1
      /\ SameContext(s, t) /\ SameButState(s, t)
  BY <1>1, <1>2, TransitionFields
<1>4. StandsAt("running", await, t)
  BY <1>1, <1>3 DEF StandsAt, StatesAt
<1>5. ContextIsMerged(await, t)
  BY <1>3 DEF ContextIsMerged
<1>6. CandidateIsContext(t)
  BY <1>3 DEF CandidateIsContext, SameContext, SameButState
<1>7. Fits("running", await, t)
  BY <1>3, <1>4, <1>5, <1>6 DEF Fits, STATUSES, Awaits, Emitting
<1>8. Follows(s, t)
  BY <1>3 DEF Follows
<1> QED BY <1>2, <1>7, <1>8

LEMMA ThrowMoves ==
  ASSUME NEW r \in Runs, SnapInv, status[r] = "running", Throw(r)
  PROVE  Moves(r)
<1>1. CASE Terminal(snap[r])
  BY <1>1, EndMoves DEF Throw
<1>2. CASE ~ Terminal(snap[r])
  <2>1. CandidateIsContext(snap[r]) /\ snap[r] \in Snapshots
    BY FitsHere DEF Fits
  <2> QED BY <1>2, <2>1, FailedFits, GotoMoves DEF Throw
<1> QED BY <1>1, <1>2

-----------------------------------------------------------------------------
(* The actions of the runs.                                                *)

LEMMA StartMoves ==
  ASSUME NEW r \in Runs, NEW k \in Submissions, SnapInv, StartRun(r, k)
  PROVE  Moves(r)
<1>1. Fits("none", pc[r], snap[r])
  BY FitsHere DEF StartRun
<1>2. snap[r] = NoSnapshot
  BY <1>1 DEF Fits, StandsAt
<1>3. Moved(r, "running", "claim", snap[r])
  BY DEF StartRun, Moved, SnapInv
<1>4. RunFollows(status[r], snap[r], "running", snap[r])
  BY DEF StartRun, RunFollows
<1>5. StandsAt("running", "claim", snap[r])
  BY <1>2 DEF StandsAt, StatesAt, NoSnapshot
<1>6. ContextIsMerged("claim", snap[r])
  BY <1>2 DEF ContextIsMerged, NoSnapshot
<1>7. Fits("running", "claim", snap[r])
  BY <1>1, <1>5, <1>6 DEF Fits, STATUSES, Awaits
<1> QED BY <1>3, <1>4, <1>7 DEF Moves

LEMMA ClaimMoves ==
  ASSUME NEW r \in Runs, SnapInv, ClaimTask(r)
  PROVE  Moves(r)
<1>1. status[r] = "running" /\ pc[r] = "claim" /\ snap[r] = NoSnapshot
  BY FitsHere DEF ClaimTask, Fits, StandsAt
<1>2. CASE owner # None
  BY <1>1, <1>2, EndMoves DEF ClaimTask
<1>3. CASE owner = None
  <2>1. PICK t : t = initialVercelSnapshot(task[r])
    OBVIOUS
  <2>2. task[r] \in Submissions \cup {None}
    BY DEF SnapInv
  <2>3. /\ t \in Snapshots /\ t.state = "SUBMITTED" /\ t.state_seq = 1
        /\ SameContext(NoSnapshot, t) /\ t.applied = <<>> /\ t.candidate = None
    BY <2>1, <2>2, FirstSnapshots
  <2>4. Moved(r, "running", "emit", t)
    BY <1>1, <1>3, <2>1 DEF ClaimTask, Moved, SnapInv
  <2>5. RunFollows(status[r], snap[r], "running", t)
    BY <1>1, <2>3 DEF RunFollows, Follows
  <2>6. Fits("running", "emit", t)
    BY <2>3 DEF Fits, StandsAt, StatesAt, States, ContextIsMerged, CandidateIsContext,
                STATUSES, Awaits, Emitting
  <2> QED BY <2>4, <2>5, <2>6 DEF Moves
<1> QED BY <1>2, <1>3

\* The run stands at an await for the snapshot it has.
LEMMA GoesOn ==
  ASSUME NEW r \in Runs, NEW await \in Awaits, SnapInv, status[r] = "running",
         Goto(r, await, snap[r]), await # "claim",
         snap[r].state \in StatesAt[await],
         ContextIsMerged(await, snap[r])
  PROVE  Moves(r)
<1>1. Fits("running", await, snap[r])
  BY FitsHere DEF Fits, StandsAt, STATUSES
<1> QED BY <1>1, GotoMoves

\* The state an open run's snapshot has at its await.
LEMMA StateHere ==
  ASSUME NEW r \in Runs, SnapInv, status[r] = "running"
  PROVE  /\ snap[r].state \in StatesAt[pc[r]]
         /\ snap[r] \in Snapshots
         /\ ContextIsMerged(pc[r], snap[r])
         /\ CandidateIsContext(snap[r])
BY FitsHere DEF Fits, StandsAt

LEMMA EmitMoves ==
  ASSUME NEW r \in Runs, SnapInv, Emit(r)
  PROVE  Moves(r)
<1> DEFINE s == snap[r]
<1>1. status[r] = "running" /\ pc[r] \in Emitting
  BY DEF Emit
<1>2. /\ s.state \in StatesAt[pc[r]] /\ s \in Snapshots
      /\ ContextIsMerged(pc[r], s) /\ CandidateIsContext(s)
  BY <1>1, StateHere
<1> HIDE DEF s
<1>3. CASE pc[r] = "emitDelta" /\ Goto(r, "merge", s)
  <2>1. s.state = "WORKING" /\ ContextIsMerged("merge", s)
    BY <1>2, <1>3 DEF StatesAt, ContextIsMerged
  <2> QED BY <1>1, <1>3, <2>1, GoesOn DEF s, StatesAt, Awaits
<1>4. CASE pc[r] = "emitReject" /\ Goto(r, "delta", s)
  <2>1. s.state \in {"INPUT_REQUIRED", "WORKING"} /\ ContextIsMerged("delta", s)
    BY <1>2, <1>4 DEF StatesAt, ContextIsMerged
  <2> QED BY <1>1, <1>4, <2>1, GoesOn DEF s, StatesAt, Awaits
<1>5. CASE Terminal(s) /\ End(r, "completed", "done", s)
  BY <1>1, <1>5, EndMoves DEF s
<1>6. CASE /\ s.state = "SUBMITTED"
           /\ Goto(r, "emit", transitionVercelSnapshot(s, "COMPILING_CONTEXT"))
  <2>1. "COMPILING_CONTEXT" \in States /\ ~ Terminal(s)
    BY <1>6 DEF States, AfterEmit, Terminal, TERMINAL_STATES
  <2>2. PICK t : t = transitionVercelSnapshot(s, "COMPILING_CONTEXT")
    OBVIOUS
  <2>3. /\ t \in Snapshots /\ t.state = "COMPILING_CONTEXT" /\ t.state_seq = s.state_seq + 1
        /\ SameContext(s, t) /\ SameButState(s, t)
    BY <1>2, <2>1, <2>2, TransitionFields
  <2>4. Fits("running", "emit", t)
    <3>1. StandsAt("running", "emit", t)
      BY <2>1, <2>3 DEF StandsAt, StatesAt
    <3>2. ContextIsMerged("emit", t)
      BY <1>2, <1>6, <2>3 DEF ContextIsMerged, SameContext
    <3>3. CandidateIsContext(t)
      BY <1>2, <1>6, <2>3 DEF CandidateIsContext, SameButState
    <3> QED BY <2>3, <3>1, <3>2, <3>3 DEF Fits, STATUSES, Awaits, Emitting
  <2>5. Follows(s, t)
    BY <1>6, <2>1, <2>3 DEF Follows
  <2> QED BY <1>1, <1>6, <2>2, <2>4, <2>5, GotoMoves DEF s
<1>7. CASE /\ pc[r] \in {"emit", "emitFailed"}
           /\ s.state \in DOMAIN AfterEmit /\ Goto(r, AfterEmit[s.state], s)
  <2>1. pc[r] = "emit"
    BY <1>2, <1>7 DEF StatesAt, AfterEmit
  <2>2. PICK await : await = AfterEmit[s.state]
    OBVIOUS
  <2>3. /\ await \in {"compile", "agent", "hook", "verify", "adopt"}
        /\ s.state \in StatesAt[await]
    BY <1>7, <2>2 DEF AfterEmit, StatesAt
  <2>4. ContextIsMerged(await, s)
    BY <1>2, <2>1, <2>3 DEF ContextIsMerged
  <2> QED BY <1>1, <1>7, <2>2, <2>3, <2>4, GoesOn DEF s, Awaits
<1> QED BY <1>3, <1>4, <1>5, <1>6, <1>7 DEF Emit, s

LEMMA EmitFailsMoves ==
  ASSUME NEW r \in Runs, SnapInv, EmitFails(r)
  PROVE  Moves(r)
<1>1. status[r] = "running" /\ pc[r] \in Emitting
  BY DEF EmitFails
<1>2. CASE pc[r] = "emitDelta" /\ Goto(r, "emitReject", snap[r])
  <2>1. snap[r].state = "WORKING" /\ ContextIsMerged("emitReject", snap[r])
    BY <1>1, <1>2, StateHere DEF StatesAt, ContextIsMerged
  <2> QED BY <1>1, <1>2, <2>1, GoesOn DEF StatesAt, Awaits, Emitting
<1>3. CASE End(r, "failed", "done", snap[r])
  BY <1>1, <1>3, EndMoves
<1>4. CASE Throw(r)
  BY <1>1, <1>4, ThrowMoves
<1> QED BY <1>2, <1>3, <1>4 DEF EmitFails

\* An emission made again, and one that ends after the cancellation.
LEMMA EmitAgainMoves ==
  ASSUME NEW r \in Runs, SnapInv, EmitAgain(r) \/ LateEmit(r)
  PROVE  Moves(r)
<1>1. RunFollows(status[r], snap[r], status[r], snap[r])
  BY DEF RunFollows
<1>2. CASE EmitAgain(r)
  <2>1. Moved(r, status[r], pc[r], snap[r])
    BY <1>2 DEF EmitAgain, Moved, SnapInv
  <2> QED BY <1>1, <2>1, FitsHere DEF Moves
<1>3. CASE LateEmit(r)
  <2>1. Moved(r, status[r], "done", snap[r])
    BY <1>3 DEF LateEmit, Moved, SnapInv
  <2>2. Fits(status[r], "done", snap[r])
    BY <1>3, FitsHere DEF LateEmit, Fits, StandsAt, ContextIsMerged, Awaits
  <2> QED BY <1>1, <2>1, <2>2 DEF Moves
<1> QED BY <1>2, <1>3

LEMMA CompileMoves ==
  ASSUME NEW r \in Runs, SnapInv, CompileContext(r)
  PROVE  Moves(r)
<1> DEFINE s == snap[r]
           u == [s EXCEPT !.compiled = <<>>]
<1>1. status[r] = "running" /\ pc[r] = "compile" /\ Goto(r, "emit", beginAgentTurn(u))
  BY DEF CompileContext, compileContextStep
<1>2. /\ s.state = "COMPILING_CONTEXT" /\ s \in Snapshots
      /\ ContextIsMerged(pc[r], s) /\ CandidateIsContext(s)
  BY <1>1, StateHere DEF StatesAt
<1>3. <<>> \in Seq(DeltaIds)
  OBVIOUS
<1> HIDE DEF s
<1>4. /\ u \in Snapshots /\ SameContext(s, u) /\ u.compiled = <<>>
      /\ u.state = s.state /\ u.state_seq = s.state_seq /\ u.candidate = s.candidate
  BY <1>2, <1>3, ReferenceFields
<1> HIDE DEF u
<1>5. ~ Terminal(s) /\ ~ Terminal(u)
  BY <1>2, <1>4 DEF Terminal, TERMINAL_STATES
<1>6. PICK t : t = beginAgentTurn(u)
  OBVIOUS
<1>7. /\ t \in Snapshots /\ t.state = "WORKING" /\ t.state_seq = u.state_seq + 1
      /\ SameContext(u, t) /\ SameButState(u, t)
  BY <1>4, <1>5, <1>6, TurnFields
<1>8. Fits("running", "emit", t)
  <2>1. StandsAt("running", "emit", t)
    BY <1>7 DEF StandsAt, StatesAt, States, AfterEmit
  <2>2. ContextIsMerged("emit", t)
    BY <1>2, <1>4, <1>7 DEF ContextIsMerged, SameContext, SameButState
  <2>3. CandidateIsContext(t)
    BY <1>2, <1>4, <1>7 DEF CandidateIsContext, SameButState
  <2> QED BY <1>7, <2>1, <2>2, <2>3 DEF Fits, STATUSES, Awaits, Emitting
<1>9. Follows(s, t)
  BY <1>2, <1>4, <1>5, <1>7 DEF Follows, SameContext
<1> QED BY <1>1, <1>6, <1>8, <1>9, GotoMoves DEF s

LEMMA AgentMoves ==
  ASSUME NEW r \in Runs, SnapInv, RunAgentTurn(r)
  PROVE  Moves(r)
<1> DEFINE s == snap[r]
<1>1. status[r] = "running" /\ pc[r] = "agent"
  BY DEF RunAgentTurn
<1>2. /\ s.state = "WORKING" /\ s \in Snapshots /\ s.compiled = s.applied
      /\ CandidateIsContext(s)
  BY <1>1, StateHere DEF StatesAt, ContextIsMerged
<1>3. PICK outcome \in {"INPUT_REQUIRED", "FAILED", "COMPLETED"}, n \in Requests :
        Goto(r, "emit",
          CASE outcome = "INPUT_REQUIRED" ->
                 [transitionVercelSnapshot(s, "INPUT_REQUIRED") EXCEPT !.need = n]
            [] outcome = "FAILED" -> transitionVercelSnapshot(s, "FAILED")
            [] outcome = "COMPLETED" ->
                 [transitionVercelSnapshot(s, "VERIFYING") EXCEPT !.candidate = s.compiled])
  BY DEF RunAgentTurn, AgentOutcomes
<1> HIDE DEF s
<1>4. ~ Terminal(s) /\ {"INPUT_REQUIRED", "VERIFYING"} \subseteq States
  BY <1>2 DEF Terminal, TERMINAL_STATES, States, AfterEmit
<1>5. CASE outcome = "INPUT_REQUIRED"
  <2>1. PICK u : u = transitionVercelSnapshot(s, "INPUT_REQUIRED")
    OBVIOUS
  <2>2. /\ u \in Snapshots /\ u.state = "INPUT_REQUIRED" /\ u.state_seq = s.state_seq + 1
        /\ SameContext(s, u) /\ SameButState(s, u)
    BY <1>2, <1>4, <2>1, TransitionFields
  <2>3. PICK t : t = [u EXCEPT !.need = n]
    OBVIOUS
  <2>4. /\ t \in Snapshots /\ SameContext(u, t) /\ t.state = u.state
        /\ t.state_seq = u.state_seq /\ t.compiled = u.compiled /\ t.candidate = u.candidate
    <3>1. None \in Seq(DeltaIds) \cup {None} /\ n \in Requests \cup {None}
      OBVIOUS
    <3> QED BY <2>2, <2>3, <3>1, ReferenceFields
  <2>5. Fits("running", "emit", t)
    <3>1. StandsAt("running", "emit", t)
      BY <1>4, <2>2, <2>4 DEF StandsAt, StatesAt
    <3>2. ContextIsMerged("emit", t)
      BY <1>2, <2>2, <2>4 DEF ContextIsMerged, SameContext, SameButState
    <3>3. CandidateIsContext(t)
      BY <1>2, <2>2, <2>4 DEF CandidateIsContext, SameButState
    <3> QED BY <2>4, <3>1, <3>2, <3>3 DEF Fits, STATUSES, Awaits, Emitting
  <2>6. Follows(s, t)
    BY <1>2, <1>4, <2>2, <2>4 DEF Follows, SameContext
  <2>7. Goto(r, "emit", t)
    BY <1>3, <1>5, <2>1, <2>3
  <2> QED BY <1>1, <2>5, <2>6, <2>7, GotoMoves DEF s
<1>6. CASE outcome = "FAILED"
  <2>1. Goto(r, "emit", transitionVercelSnapshot(s, "FAILED"))
    BY <1>3, <1>6
  <2> QED BY <1>1, <1>2, <1>4, <2>1, FailedFits, GotoMoves DEF s
<1>7. CASE outcome = "COMPLETED"
  <2>1. PICK u : u = transitionVercelSnapshot(s, "VERIFYING")
    OBVIOUS
  <2>2. /\ u \in Snapshots /\ u.state = "VERIFYING" /\ u.state_seq = s.state_seq + 1
        /\ SameContext(s, u) /\ SameButState(s, u)
    BY <1>2, <1>4, <2>1, TransitionFields
  <2>3. PICK t : t = [u EXCEPT !.candidate = s.compiled]
    OBVIOUS
  <2>4. s.compiled \in Seq(DeltaIds) \cup {None}
    BY <1>2, SnapshotsAre DEF SnapshotsOver
  <2>5. /\ t \in Snapshots /\ SameContext(u, t) /\ t.candidate = s.compiled
        /\ t.state = u.state /\ t.state_seq = u.state_seq
    BY <2>2, <2>3, <2>4, ReferenceFields
  <2>6. Fits("running", "emit", t)
    <3>1. StandsAt("running", "emit", t)
      BY <1>4, <2>2, <2>5 DEF StandsAt, StatesAt
    <3>2. ContextIsMerged("emit", t)
      BY <2>2, <2>5 DEF ContextIsMerged
    <3>3. CandidateIsContext(t)
      BY <1>2, <2>2, <2>5 DEF CandidateIsContext, SameContext
    <3> QED BY <2>5, <3>1, <3>2, <3>3 DEF Fits, STATUSES, Awaits, Emitting
  <2>7. Follows(s, t)
    BY <1>2, <1>4, <2>2, <2>5 DEF Follows, SameContext
  <2>8. Goto(r, "emit", t)
    BY <1>3, <1>7, <2>1, <2>3
  <2> QED BY <1>1, <2>6, <2>7, <2>8, GotoMoves DEF s
<1> QED BY <1>5, <1>6, <1>7

LEMMA CreateContextHookMoves ==
  ASSUME NEW r \in Runs, SnapInv, CreateContextHook(r)
  PROVE  Moves(r)
<1>1. status[r] = "running" /\ pc[r] = "hook"
  BY DEF CreateContextHook
<1>2. CASE Throw(r)
  BY <1>1, <1>2, ThrowMoves
<1>3. CASE pc' = [pc EXCEPT ![r] = "delta"] /\ UNCHANGED <<status, snap, owner, inbox>>
  <2>1. Moved(r, "running", "delta", snap[r])
    BY <1>1, <1>3 DEF Moved, SnapInv
  <2>2. RunFollows(status[r], snap[r], "running", snap[r])
    BY <1>1 DEF RunFollows
  <2>3. snap[r].state = "INPUT_REQUIRED" /\ ContextIsMerged("delta", snap[r])
    BY <1>1, StateHere DEF StatesAt, ContextIsMerged
  <2>4. Fits("running", "delta", snap[r])
    BY <1>1, <2>3, FitsHere DEF Fits, StandsAt, StatesAt, Awaits
  <2> QED BY <2>1, <2>2, <2>4 DEF Moves
<1> QED BY <1>2, <1>3 DEF CreateContextHook

LEMMA TakeDeltaMoves ==
  ASSUME NEW r \in Runs, SnapInv, inbox[r] \in Seq(Deltas), TakeDelta(r)
  PROVE  Moves(r)
<1> DEFINE s == snap[r]
<1>1. status[r] = "running" /\ pc[r] = "delta" /\ inbox[r] # <<>>
  BY DEF TakeDelta
<1>2. /\ s.state \in {"INPUT_REQUIRED", "WORKING"} /\ s \in Snapshots
      /\ ContextIsMerged("delta", s) /\ CandidateIsContext(s)
  BY <1>1, StateHere DEF StatesAt
<1>3. PICK d \in Deltas : d = Head(inbox[r])
  BY <1>1, HeadTailProperties
<1>4. CASE validateContextDelta(s, d) = "VALID"
  <2>1. PICK t : t = applyContextDelta(s, d)
    OBVIOUS
  <2>2. Moved(r, "running", "emitDelta", t)
    BY <1>1, <1>3, <1>4, <2>1 DEF TakeDelta, Moved, SnapInv
  <2> HIDE DEF s
  <2>3. /\ t \in Snapshots /\ t.state = "WORKING" /\ t.state_seq = s.state_seq + 1
        /\ t.context_seq = s.context_seq + 1 /\ t.applied = Append(s.applied, d.id)
        /\ t.compiled = s.compiled /\ t.candidate = s.candidate
    BY <1>2, <2>1, DeltaFields
  <2>4. /\ s.state = "INPUT_REQUIRED"
        /\ \A i \in 1 .. Len(s.applied) : s.applied[i] # d.id
    BY <1>4 DEF validateContextDelta
  <2>5. d.id \in DeltaIds
    BY DEF DeltaIds
  <2>6. Follows(s, t)
    BY <2>3, <2>4, <2>5 DEF Follows, Terminal, TERMINAL_STATES
  <2>7. Fits("running", "emitDelta", t)
    <3>1. StandsAt("running", "emitDelta", t)
      BY <2>3 DEF StandsAt, StatesAt
    <3>2. s.compiled = s.applied /\ s.applied \in Seq(DeltaIds)
      BY <1>2, <2>4, SnapshotsAre DEF ContextIsMerged, SnapshotsOver
    <3>3. ContextIsMerged("emitDelta", t)
      BY <2>3, <2>5, <3>2 DEF ContextIsMerged
    <3>4. CandidateIsContext(t)
      BY <1>2, <2>3, <2>4 DEF CandidateIsContext
    <3> QED BY <2>3, <3>1, <3>3, <3>4 DEF Fits, STATUSES, Awaits, Emitting
  <2>8. RunFollows(status[r], snap[r], "running", t)
    BY <1>1, <2>6 DEF RunFollows, s
  <2> QED BY <2>2, <2>7, <2>8 DEF Moves
<1>5. CASE validateContextDelta(s, d) # "VALID"
  <2>1. Moved(r, "running", "emitReject", s)
    BY <1>1, <1>3, <1>5 DEF TakeDelta, Moved, SnapInv
  <2>2. RunFollows(status[r], snap[r], "running", s)
    BY <1>1 DEF RunFollows
  <2>3. Fits("running", "emitReject", s)
    BY <1>1, <1>2, FitsHere DEF Fits, StandsAt, StatesAt, ContextIsMerged, Awaits, Emitting
  <2> QED BY <2>1, <2>2, <2>3 DEF Moves
<1> QED BY <1>4, <1>5

LEMMA MergeMoves ==
  ASSUME NEW r \in Runs, SnapInv, MergeContextDelta(r)
  PROVE  Moves(r)
<1> DEFINE s == snap[r]
           last == s.applied[Len(s.applied)]
           u == [s EXCEPT !.compiled = Append(@, last)]
<1>1. status[r] = "running" /\ pc[r] = "merge" /\ GotoDisposing(r, "emit", beginAgentTurn(u))
  BY DEF MergeContextDelta, mergeContextDeltaStep
<1>2. /\ s.state = "WORKING" /\ s \in Snapshots
      /\ ContextIsMerged("merge", s) /\ CandidateIsContext(s)
  BY <1>1, StateHere DEF StatesAt
<1> HIDE DEF s
<1>3. PICK d \in DeltaIds : s.applied = Append(s.compiled, d) /\ s.compiled \in Seq(DeltaIds)
  BY <1>2 DEF ContextIsMerged
<1>4. last = d
  BY <1>3
<1>5. Append(s.compiled, last) = s.applied /\ s.applied \in Seq(DeltaIds)
  BY <1>3, <1>4
<1>6. u = [s EXCEPT !.compiled = s.applied]
  BY <1>5
<1> HIDE DEF u, last
<1>7. /\ u \in Snapshots /\ SameContext(s, u) /\ u.compiled = s.applied
      /\ u.state = s.state /\ u.state_seq = s.state_seq /\ u.candidate = s.candidate
  BY <1>2, <1>5, <1>6, ReferenceFields
<1>8. ~ Terminal(s) /\ ~ Terminal(u)
  BY <1>2, <1>7 DEF Terminal, TERMINAL_STATES
<1>9. PICK t : t = beginAgentTurn(u)
  OBVIOUS
<1>10. /\ t \in Snapshots /\ t.state = "WORKING" /\ t.state_seq = u.state_seq + 1
       /\ SameContext(u, t) /\ SameButState(u, t)
  BY <1>7, <1>8, <1>9, TurnFields
<1>11. Fits("running", "emit", t)
  <2>1. StandsAt("running", "emit", t)
    BY <1>10 DEF StandsAt, StatesAt, States, AfterEmit
  <2>2. ContextIsMerged("emit", t)
    BY <1>7, <1>10 DEF ContextIsMerged, SameContext, SameButState
  <2>3. CandidateIsContext(t)
    BY <1>2, <1>7, <1>10 DEF CandidateIsContext, SameButState
  <2> QED BY <1>10, <2>1, <2>2, <2>3 DEF Fits, STATUSES, Awaits, Emitting
<1>12. Follows(s, t)
  BY <1>2, <1>7, <1>8, <1>10 DEF Follows, SameContext
<1> QED BY <1>1, <1>9, <1>11, <1>12, GotoMoves DEF s

LEMMA VerifyMoves ==
  ASSUME NEW r \in Runs, SnapInv, VerifyCandidate(r)
  PROVE  Moves(r)
<1> DEFINE s == snap[r]
           u == [s EXCEPT !.report = s.candidate]
<1>1. status[r] = "running" /\ pc[r] = "verify"
  BY DEF VerifyCandidate
<1>2. s.state = "VERIFYING" /\ s \in Snapshots /\ CandidateIsContext(s)
  BY <1>1, StateHere DEF StatesAt
<1>3. PICK to \in {"ADOPTING", "FAILED"} : Goto(r, "emit", transitionVercelSnapshot(u, to))
  BY DEF VerifyCandidate
<1> HIDE DEF s
<1>4. s.candidate \in Seq(DeltaIds) \cup {None}
  BY <1>2, SnapshotsAre DEF SnapshotsOver
<1>5. /\ u \in Snapshots /\ SameContext(s, u) /\ u.report = s.candidate
      /\ u.state = s.state /\ u.state_seq = s.state_seq /\ u.candidate = s.candidate
  BY <1>2, <1>4, ReferenceFields
<1> HIDE DEF u
<1>6. ~ Terminal(s) /\ ~ Terminal(u) /\ to \in States
  BY <1>2, <1>5 DEF Terminal, TERMINAL_STATES, States, AfterEmit
<1>7. PICK t : t = transitionVercelSnapshot(u, to)
  OBVIOUS
<1>8. /\ t \in Snapshots /\ t.state = to /\ t.state_seq = u.state_seq + 1
      /\ SameContext(u, t) /\ SameButState(u, t)
  BY <1>5, <1>6, <1>7, TransitionFields
<1>9. Fits("running", "emit", t)
  <2>1. StandsAt("running", "emit", t)
    BY <1>6, <1>8 DEF StandsAt, StatesAt
  <2>2. ContextIsMerged("emit", t)
    BY <1>8 DEF ContextIsMerged
  <2>3. CandidateIsContext(t)
    BY <1>2, <1>5, <1>8 DEF CandidateIsContext, SameContext, SameButState
  <2> QED BY <1>8, <2>1, <2>2, <2>3 DEF Fits, STATUSES, Awaits, Emitting
<1>10. Follows(s, t)
  BY <1>2, <1>5, <1>6, <1>8 DEF Follows, SameContext
<1> QED BY <1>1, <1>3, <1>7, <1>9, <1>10, GotoMoves DEF s

LEMMA AdoptMoves ==
  ASSUME NEW r \in Runs, SnapInv, AdoptArtifact(r)
  PROVE  Moves(r)
<1> DEFINE s == snap[r]
<1>1. status[r] = "running" /\ pc[r] = "adopt"
  BY DEF AdoptArtifact
<1>2. s.state = "ADOPTING" /\ s \in Snapshots /\ CandidateIsContext(s)
  BY <1>1, StateHere DEF StatesAt
<1>3. Goto(r, "emit", [transitionVercelSnapshot(s, "COMPLETED") EXCEPT !.adoption = s.candidate])
  BY <1>2 DEF AdoptArtifact, adoptArtifactStep, CandidateIsContext
<1> HIDE DEF s
<1>4. ~ Terminal(s) /\ "COMPLETED" \in States
  BY <1>2 DEF Terminal, TERMINAL_STATES, States
<1>5. PICK u : u = transitionVercelSnapshot(s, "COMPLETED")
  OBVIOUS
<1>6. /\ u \in Snapshots /\ u.state = "COMPLETED" /\ u.state_seq = s.state_seq + 1
      /\ SameContext(s, u) /\ SameButState(s, u)
  BY <1>2, <1>4, <1>5, TransitionFields
<1>7. s.candidate \in Seq(DeltaIds) \cup {None}
  BY <1>2, SnapshotsAre DEF SnapshotsOver
<1>8. PICK t : t = [u EXCEPT !.adoption = s.candidate]
  OBVIOUS
<1>9. /\ t \in Snapshots /\ SameContext(u, t) /\ t.adoption = s.candidate
      /\ t.state = u.state /\ t.state_seq = u.state_seq
      /\ t.candidate = u.candidate /\ t.report = u.report
  BY <1>6, <1>7, <1>8, ReferenceFields
<1>10. Fits("running", "emit", t)
  <2>1. StandsAt("running", "emit", t)
    BY <1>4, <1>6, <1>9 DEF StandsAt, StatesAt
  <2>2. ContextIsMerged("emit", t)
    BY <1>6, <1>9 DEF ContextIsMerged
  <2>3. CandidateIsContext(t)
    BY <1>2, <1>6, <1>9 DEF CandidateIsContext, SameContext, SameButState
  <2> QED BY <1>9, <2>1, <2>2, <2>3 DEF Fits, STATUSES, Awaits, Emitting
<1>11. Follows(s, t)
  BY <1>2, <1>4, <1>6, <1>9 DEF Follows, SameContext
<1> QED BY <1>1, <1>3, <1>5, <1>8, <1>10, <1>11, GotoMoves DEF s

LEMMA CancelMoves ==
  ASSUME NEW r \in Runs, SnapInv, CancelRun(r)
  PROVE  Moves(r)
<1>1. CASE pc[r] \in Emitting
  BY <1>1, EndMoves DEF CancelRun
<1>2. CASE pc[r] \notin Emitting
  BY <1>2, EndMoves DEF CancelRun
<1> QED BY <1>1, <1>2

\* Whatever a run does, it moves.
LEMMA RunMoves ==
  ASSUME NEW r \in Runs, SnapInv, inbox[r] \in Seq(Deltas),
         RunStep(r) \/ RunFault(r) \/ CancelRun(r)
  PROVE  Moves(r) /\ UNCHANGED task
<1>1. CASE StepFails(r)
  BY <1>1, ThrowMoves DEF StepFails
<1>2. UNCHANGED task
  BY DEF RunStep, RunFault, ClaimTask, Emit, CompileContext, RunAgentTurn, CreateContextHook,
         TakeDelta, MergeContextDelta, VerifyCandidate, AdoptArtifact, EmitAgain, EmitFails,
         StepFails, LateEmit, CancelRun
<1>3. Moves(r)
  BY <1>1, ClaimMoves, EmitMoves, CompileMoves, AgentMoves, CreateContextHookMoves,
     TakeDeltaMoves, MergeMoves, VerifyMoves, AdoptMoves, EmitAgainMoves, EmitFailsMoves,
     CancelMoves
  DEF RunStep, RunFault
<1> QED BY <1>2, <1>3

\* A run that moves disturbs no other.
LEMMA MovesKeepFits ==
  ASSUME NEW r \in Runs, SnapInv, Moves(r),
         \/ UNCHANGED task /\ status[r] # "none"
         \/ \E k \in Submissions : task' = [task EXCEPT ![r] = k]
  PROVE  SnapInv'
<1>1. PICK st, await, t : Moved(r, st, await, t) /\ Fits(st, await, t)
                          /\ RunFollows(status[r], snap[r], st, t)
  BY DEF Moves
<1>2. st \in STATUSES /\ await \in Awaits /\ t \in Snapshots
  BY <1>1 DEF Fits
<1>3. /\ status' \in [Runs -> STATUSES] /\ pc' \in [Runs -> Awaits]
      /\ snap' \in [Runs -> Snapshots]
  BY <1>1, <1>2 DEF Moved, SnapInv
<1>4. ASSUME NEW q \in Runs PROVE Fits(status'[q], pc'[q], snap'[q])
  <2>1. CASE q = r
    BY <1>1, <2>1 DEF Moved, SnapInv
  <2>2. CASE q # r
    BY <1>1, <2>2 DEF Moved, SnapInv
  <2> QED BY <2>1, <2>2
<1>5. task' \in [Runs -> Submissions \cup {None}]
  BY DEF SnapInv
<1>6. ASSUME NEW q \in Runs, status'[q] # "none" PROVE task'[q] \in Submissions
  BY <1>1, <1>6 DEF Moved, SnapInv
<1> QED BY <1>3, <1>4, <1>5, <1>6 DEF SnapInv

-----------------------------------------------------------------------------
(* The rest of the engine: the owner, the hooks, the inboxes, the streams.  *)

EngineInv ==
  /\ owner \in Runs \cup {None}
  /\ DOMAIN hook = Runs /\ \A r \in Runs : hook[r] = None \/ Len(hook[r]) = 3
  /\ inbox \in [Runs -> Seq(Deltas)]

LEMMA EndKeepsEngine ==
  ASSUME NEW r \in Runs, NEW st, NEW await, NEW s, EngineInv, End(r, st, await, s)
  PROVE  EngineInv'
<1>1. <<>> \in Seq(Deltas)
  OBVIOUS
<1> QED BY <1>1 DEF End, EngineInv

LEMMA GotoKeepsEngine ==
  ASSUME NEW r \in Runs, NEW await, NEW s, EngineInv,
         Goto(r, await, s) \/ GotoDisposing(r, await, s)
  PROVE  EngineInv'
<1>1. <<>> \in Seq(Deltas)
  OBVIOUS
<1> QED BY <1>1 DEF Goto, GotoDisposing, EngineInv

LEMMA ThrowKeepsEngine ==
  ASSUME NEW r \in Runs, EngineInv, Throw(r)
  PROVE  EngineInv'
BY EndKeepsEngine, GotoKeepsEngine DEF Throw

LEMMA RunKeepsEngine ==
  ASSUME NEW r \in Runs, EngineInv, RunStep(r) \/ RunFault(r) \/ CancelRun(r)
  PROVE  EngineInv'
<1>1. CASE ClaimTask(r)
  BY <1>1, EndKeepsEngine DEF ClaimTask, EngineInv
<1>2. CASE Emit(r) \/ EmitFails(r)
  BY <1>2, EndKeepsEngine, GotoKeepsEngine, ThrowKeepsEngine DEF Emit, EmitFails
<1>3. CASE CompileContext(r) \/ RunAgentTurn(r) \/ VerifyCandidate(r) \/ MergeContextDelta(r)
  BY <1>3, GotoKeepsEngine
  DEF CompileContext, RunAgentTurn, VerifyCandidate, MergeContextDelta
<1>4. CASE AdoptArtifact(r) \/ StepFails(r)
  BY <1>4, GotoKeepsEngine, ThrowKeepsEngine DEF AdoptArtifact, StepFails
<1>5. CASE CreateContextHook(r)
  <2>1. CASE Throw(r)
    BY <2>1, ThrowKeepsEngine
  <2>2. CASE /\ hook' = [hook EXCEPT ![r] = contextHookToken(snap[r])]
             /\ UNCHANGED <<owner, inbox>>
    <3>1. Len(contextHookToken(snap[r])) = 3
      BY DEF contextHookToken
    <3> QED BY <2>2, <3>1 DEF EngineInv
  <2> QED BY <1>5, <2>1, <2>2 DEF CreateContextHook
<1>6. CASE TakeDelta(r)
  <2>1. inbox[r] \in Seq(Deltas) /\ inbox[r] # <<>>
    BY <1>6 DEF TakeDelta, EngineInv
  <2>2. Tail(inbox[r]) \in Seq(Deltas)
    BY <2>1, HeadTailProperties
  <2> QED BY <1>6, <2>2 DEF TakeDelta, EngineInv
<1>7. CASE EmitAgain(r) \/ LateEmit(r)
  BY <1>7 DEF EmitAgain, LateEmit, EngineInv
<1>8. CASE CancelRun(r)
  BY <1>8, EndKeepsEngine DEF CancelRun
<1> QED
  BY <1>1, <1>2, <1>3, <1>4, <1>5, <1>6, <1>7, <1>8 DEF RunStep, RunFault

\* What a run writes to its stream, it writes at an emission, open or cancelled.
Wrote(r) ==
  \/ UNCHANGED stream
  \/ status[r] \in {"running", "cancelled"} /\ pc[r] \in Emitting /\ Write(r)

LEMMA RunWrites ==
  ASSUME NEW r \in Runs, RunStep(r) \/ RunFault(r) \/ CancelRun(r)
  PROVE  Wrote(r)
BY DEF Wrote, RunStep, RunFault, ClaimTask, Emit, CompileContext, RunAgentTurn,
       CreateContextHook, TakeDelta, MergeContextDelta, VerifyCandidate, AdoptArtifact,
       EmitAgain, EmitFails, StepFails, LateEmit, CancelRun

\* A client that is to start a run holds a capsule it was called with.
StartInv == \A c \in Clients : At(c, "start") => call[c].task \in Submissions

\* What of a step the snapshots notice: one run moves, or none.
NoRunMoves == UNCHANGED <<status, task, pc, snap, stream>>

OneRunMoves ==
  \E r \in Runs :
    /\ Moves(r) /\ Wrote(r)
    /\ \/ UNCHANGED task /\ status[r] # "none"
       \/ \E k \in Submissions : task' = [task EXCEPT ![r] = k]

LEMMA ActsInOpenRun ==
  ASSUME NEW r \in Runs, RunStep(r) \/ RunFault(r) \/ CancelRun(r)
  PROVE  status[r] # "none"
BY DEF RunStep, RunFault, ClaimTask, Emit, CompileContext, RunAgentTurn, CreateContextHook,
       TakeDelta, MergeContextDelta, VerifyCandidate, AdoptArtifact, EmitAgain, EmitFails,
       StepFails, LateEmit, CancelRun

LEMMA StepMoves ==
  ASSUME SnapInv, EngineInv, StartInv, [Next]_vars
  PROVE  NoRunMoves \/ OneRunMoves
<1>1. ASSUME NEW r \in Runs, RunStep(r) \/ RunFault(r) \/ CancelRun(r)
      PROVE  OneRunMoves
  <2>1. inbox[r] \in Seq(Deltas)
    BY DEF EngineInv
  <2>2. Moves(r) /\ UNCHANGED task /\ Wrote(r) /\ status[r] # "none"
    BY <1>1, <2>1, RunMoves, RunWrites, ActsInOpenRun
  <2> QED BY <2>2 DEF OneRunMoves
<1>2. ASSUME NEW c \in Clients, CreateRun(c) PROVE OneRunMoves
  <2>1. PICK r \in Runs : StartRun(r, call[c].task)
    BY <1>2 DEF CreateRun
  <2>2. call[c].task \in Submissions
    BY <1>2 DEF CreateRun, StartInv
  <2>3. /\ Moves(r) /\ UNCHANGED stream
        /\ task' = [task EXCEPT ![r] = call[c].task]
    BY <2>1, <2>2, StartMoves DEF StartRun
  <2> QED BY <2>2, <2>3 DEF OneRunMoves, Wrote
<1>3. ASSUME NEW c \in Clients, ClientStep(c) \/ ClientCall(c)
      PROVE  NoRunMoves \/ OneRunMoves
  <2>1. CASE \E r \in Runs : Cancel(c, r)
    BY <1>1, <2>1 DEF Cancel
  <2>2. CASE \/ WaitForTaskOwner(c) \/ ConfirmSubmission(c) \/ ReadProjection(c)
             \/ LookupHook(c) \/ ResumeHook(c)
    BY <2>2
    DEF NoRunMoves, WaitForTaskOwner, ConfirmSubmission, ReadProjection, LookupHook, ResumeHook,
        runVars
  <2>3. CASE \/ \E k \in Submissions : Submit(c, k)
             \/ \E r \in Runs, d \in Deltas \cup {None} : ReadStatus(c, r, d)
    BY <2>3 DEF NoRunMoves, Submit, ReadStatus, runVars
  <2> QED BY <1>2, <1>3, <2>1, <2>2, <2>3 DEF ClientStep, ClientCall
<1>4. CASE UNCHANGED vars
  BY <1>4 DEF vars, runVars, NoRunMoves
<1> QED BY <1>1, <1>3, <1>4 DEF Next

LEMMA SnapInvKept ==
  ASSUME SnapInv, EngineInv, StartInv, [Next]_vars
  PROVE  SnapInv'
<1>1. CASE NoRunMoves
  BY <1>1 DEF NoRunMoves, SnapInv
<1>2. CASE OneRunMoves
  BY <1>2, MovesKeepFits DEF OneRunMoves
<1> QED BY <1>1, <1>2, StepMoves

LEMMA EngineInvKept ==
  ASSUME EngineInv, Inv, [Next]_vars
  PROVE  EngineInv'
<1>1. ASSUME NEW c \in Clients, ResumeHook(c) PROVE EngineInv'
  <2>1. call[c].delta \in Deltas
    BY <1>1 DEF ResumeHook, At, Inv, ClientInv
  <2>2. CASE UNCHANGED inbox
    BY <1>1, <2>2 DEF ResumeHook, EngineInv
  <2>3. CASE \E q \in Runs : inbox' = [inbox EXCEPT ![q] = Append(@, call[c].delta)]
    <3>1. PICK q \in Runs : inbox' = [inbox EXCEPT ![q] = Append(@, call[c].delta)]
      BY <2>3
    <3>2. Append(inbox[q], call[c].delta) \in Seq(Deltas)
      BY <2>1 DEF EngineInv
    <3> QED BY <1>1, <3>1, <3>2 DEF ResumeHook, EngineInv
  <2> QED BY <1>1, <2>2, <2>3 DEF ResumeHook
<1>2. ASSUME NEW c \in Clients, ClientStep(c) \/ ClientCall(c)
      PROVE  EngineInv'
  <2>1. CASE CreateRun(c)
    BY <2>1 DEF CreateRun, StartRun, EngineInv
  <2>2. CASE \E r \in Runs : Cancel(c, r)
    BY <2>2, RunKeepsEngine DEF Cancel
  <2>3. CASE WaitForTaskOwner(c) \/ ConfirmSubmission(c) \/ ReadProjection(c) \/ LookupHook(c)
    BY <2>3
    DEF EngineInv, WaitForTaskOwner, ConfirmSubmission, ReadProjection, LookupHook, runVars
  <2>4. CASE \/ \E k \in Submissions : Submit(c, k)
             \/ \E r \in Runs, d \in Deltas \cup {None} : ReadStatus(c, r, d)
    BY <2>4 DEF EngineInv, Submit, ReadStatus, runVars
  <2> QED BY <1>1, <1>2, <2>1, <2>2, <2>3, <2>4 DEF ClientStep, ClientCall
<1>3. CASE UNCHANGED vars
  BY <1>3 DEF vars, runVars, EngineInv
<1> QED BY <1>2, <1>3, RunKeepsEngine DEF Next

\* A client goes on to anything but a start.
LEMMA CallKeepsStart ==
  ASSUME NEW c \in Clients, NEW x, Inv, StartInv, x.at # "start",
         call' = [call EXCEPT ![c] = x]
  PROVE  StartInv'
BY DEF StartInv, At, Inv, ClientInv

LEMMA ReturnKeepsStart ==
  ASSUME NEW c \in Clients, NEW a, Inv, StartInv, Return(c, a)
  PROVE  StartInv'
BY CallKeepsStart DEF Return, Continue, Idle

LEMMA StartInvKept ==
  ASSUME StartInv, Inv, [Next]_vars
  PROVE  StartInv'
<1>1. ASSUME NEW c \in Clients, ClientStep(c) PROVE StartInv'
  <2>1. CASE CreateRun(c)
    BY <2>1, CallKeepsStart DEF CreateRun, Continue
  <2>2. CASE WaitForTaskOwner(c)
    <3>1. PICK x : x = [at |-> "snapshot", task |-> call[c].task, created |-> call[c].created,
                        run |-> IF owner # None THEN owner ELSE call[c].created]
      OBVIOUS
    <3>2. call' = [call EXCEPT ![c] = x]
      BY <2>2, <3>1 DEF WaitForTaskOwner, Continue
    <3>3. x.at = "snapshot"
      BY <3>1
    <3> QED BY <3>2, <3>3, CallKeepsStart
  <2>3. CASE ConfirmSubmission(c)
    BY <2>3, ReturnKeepsStart DEF ConfirmSubmission
  <2>4. CASE ReadProjection(c)
    BY <2>4, CallKeepsStart, ReturnKeepsStart DEF ReadProjection, Continue
  <2>5. CASE LookupHook(c)
    <3>1. CASE Continue(c, [call[c] EXCEPT !.at = "resume"])
      <4>1. PICK x : x = [call[c] EXCEPT !.at = "resume"]
        OBVIOUS
      <4>2. CASE "at" \in DOMAIN call[c]
        BY <3>1, <4>1, <4>2, CallKeepsStart DEF Continue
      <4>3. CASE "at" \notin DOMAIN call[c]
        <5>1. x.at # "start"
          BY <2>5, <4>1, <4>3 DEF LookupHook, At
        <5> QED BY <3>1, <4>1, <5>1, CallKeepsStart DEF Continue
      <4> QED BY <4>2, <4>3
    <3> QED BY <2>5, <3>1, ReturnKeepsStart DEF LookupHook
  <2>6. CASE ResumeHook(c)
    BY <2>6, ReturnKeepsStart DEF ResumeHook
  <2> QED BY <1>1, <2>1, <2>2, <2>3, <2>4, <2>5, <2>6 DEF ClientStep
<1>2. ASSUME NEW c \in Clients, ClientCall(c) PROVE StartInv'
  <2>1. CASE \E k \in Submissions : Submit(c, k)
    <3>1. PICK k \in Submissions : Submit(c, k)
      BY <2>1
    <3>2. PICK x : /\ x = IF owner # None
                           THEN [at |-> "snapshot", task |-> k, run |-> owner, created |-> None]
                           ELSE [at |-> "start", task |-> k]
                   /\ call' = [call EXCEPT ![c] = x]
      BY <3>1 DEF Submit, Begin
    <3>3. x.at = "start" => x.task \in Submissions
      BY <3>2
    <3> HIDE <3>2
    <3>4. call' = [call EXCEPT ![c] = x]
      BY <3>2
    <3> QED BY <3>3, <3>4 DEF StartInv, At, Inv, ClientInv
  <2>2. CASE \E r \in Runs, d \in Deltas \cup {None} : ReadStatus(c, r, d)
    BY <2>2, CallKeepsStart DEF ReadStatus, Begin
  <2>3. CASE \E r \in Runs : Cancel(c, r)
    BY <2>3, CallKeepsStart DEF Cancel, Begin, Idle
  <2> QED BY <1>2, <2>1, <2>2, <2>3 DEF ClientCall
<1>3. CASE UNCHANGED call
  BY <1>3 DEF StartInv, At
<1> QED BY <1>1, <1>2, <1>3 DEF Next, vars, clientVars

SnapshotInv == Inv /\ SnapInv /\ EngineInv /\ StartInv

LEMMA SnapshotInit == BackendInit => SnapshotInv
<1> SUFFICES ASSUME BackendInit PROVE SnapInv /\ EngineInv /\ StartInv
  BY InvInit DEF SnapshotInv
<1>1. NoSnapshot \in Snapshots
  BY FirstSnapshots
<1>2. Fits("none", "done", NoSnapshot)
  BY <1>1
  DEF Fits, StandsAt, ContextIsMerged, CandidateIsContext, NoSnapshot, STATUSES, Awaits
<1>3. SnapInv
  BY <1>1, <1>2 DEF BackendInit, Init, SnapInv, STATUSES, Awaits
<1>4. <<>> \in Seq(Deltas)
  OBVIOUS
<1>5. EngineInv
  BY <1>4 DEF BackendInit, Init, EngineInv
<1>6. StartInv
  BY DEF BackendInit, StartInv, At, Idle
<1> QED BY <1>3, <1>5, <1>6

LEMMA SnapshotInvKept == SnapshotInv /\ [Next]_vars => SnapshotInv'
BY InvNext, SnapInvKept, EngineInvKept, StartInvKept DEF SnapshotInv

\* The snapshots, the engine's records and the calls to start fit together at
\* every moment.
THEOREM SnapshotInvAlways == Spec => []SnapshotInv
BY SnapshotInit, SnapshotInvKept, PTL DEF Spec

\* A candidate, and what is verified and adopted, is the context every accepted
\* delta was merged into, in order, for any number of runs, deltas and turns and
\* whatever fails.
THEOREM CandidateUsesEveryDeltaAlways == Spec => []CandidateUsesEveryDelta
<1>1. SnapshotInv => CandidateUsesEveryDelta
  BY DEF SnapshotInv, SnapInv, Fits, CandidateIsContext, CandidateUsesEveryDelta
<1> QED BY <1>1, SnapshotInvAlways, PTL

-----------------------------------------------------------------------------
(* The types.                                                              *)

LEMMA WrittenIsEvent ==
  ASSUME NEW r \in Runs, SnapInv
  PROVE  Event(r) \in Events
BY DEF SnapInv, Event, Events, rejectionProjection, snapshotProjection

StreamType == stream \in [Runs -> Seq(Events)]

LEMMA StreamTypeKept ==
  ASSUME StreamType, SnapshotInv, [Next]_vars
  PROVE  StreamType'
<1>1. CASE UNCHANGED stream
  BY <1>1 DEF StreamType
<1>2. CASE \E r \in Runs : Write(r)
  <2>1. PICK r \in Runs : Write(r)
    BY <1>2
  <2>2. Event(r) \in Events /\ stream[r] \in Seq(Events)
    BY WrittenIsEvent DEF SnapshotInv, StreamType
  <2>3. Keep(Append(stream[r], Event(r))) \in Seq(Events)
    BY <2>2, KeepElements
  <2> QED BY <2>1, <2>3 DEF Write, StreamType
<1> QED
  BY <1>1, <1>2, StepMoves DEF SnapshotInv, NoRunMoves, OneRunMoves, Wrote

\* Every variable of the engine keeps its type, for any number of runs, any
\* agent and any faults.
THEOREM TypesKept == Spec => []TypeOK
<1>1. BackendInit => StreamType
  <2>1. <<>> \in Seq(Events)
    OBVIOUS
  <2> QED BY <2>1 DEF BackendInit, Init, StreamType
<1>2. SnapshotInv /\ StreamType => TypeOK
  BY DEF SnapshotInv, SnapInv, EngineInv, StreamType, TypeOK
<1> QED BY <1>1, <1>2, StreamTypeKept, SnapshotInvAlways, PTL DEF Spec

-----------------------------------------------------------------------------
(* Each run implements the task contract.                                  *)

Live == States \ TERMINAL_STATES

\* The rows of the table the runs use.
LEMMA TableHas ==
  ASSUME NEW r \in Runs
  PROVE  /\ \A s \in Live : {"FAILED", "CANCELED"} \subseteq Life(r)!TRANSITIONS[s]
         /\ "COMPILING_CONTEXT" \in Life(r)!TRANSITIONS["SUBMITTED"]
         /\ "WORKING" \in Life(r)!TRANSITIONS["COMPILING_CONTEXT"]
         /\ "INPUT_REQUIRED" \in Life(r)!TRANSITIONS["WORKING"]
         /\ "VERIFYING" \in Life(r)!TRANSITIONS["WORKING"]
         /\ "ADOPTING" \in Life(r)!TRANSITIONS["VERIFYING"]
         /\ "COMPLETED" \in Life(r)!TRANSITIONS["ADOPTING"]
         /\ States \subseteq Life(r)!TASK_STATES
         /\ "CANCELED" \in Life(r)!TASK_STATES
<1>1. Live \subseteq Life(r)!TASK_STATES
  BY DEF Live, States, AfterEmit, TERMINAL_STATES, Life!TASK_STATES, Life!TERMINAL_STATES
<1>2. \A s \in Live : /\ s \notin Life(r)!TERMINAL_STATES
                      /\ Life(r)!TRANSITIONS[s] = Life(r)!Forward[s] \cup {"FAILED", "CANCELED"}
  BY <1>1 DEF Live, TERMINAL_STATES, Life!TERMINAL_STATES, Life!TRANSITIONS
<1>3. {"SUBMITTED", "COMPILING_CONTEXT", "WORKING", "VERIFYING", "ADOPTING"} \subseteq Live
  BY DEF Live, States, AfterEmit, TERMINAL_STATES
<1>4. States \subseteq Life(r)!TASK_STATES /\ "CANCELED" \in Life(r)!TASK_STATES
  BY DEF States, AfterEmit, TERMINAL_STATES, Life!TASK_STATES, Life!TERMINAL_STATES
<1> QED BY <1>2, <1>3, <1>4 DEF Life!Forward

\* A run of the contract that ends, whatever state it was in.
LEMMA LifeEnds ==
  ASSUME NEW r \in Runs, NEW to \in {"FAILED", "CANCELED"},
         Current(r).state \in Live, Current(r)'.state = to,
         Current(r)'.state_seq = Current(r).state_seq + 1,
         SameContext(Current(r), Current(r)')
  PROVE  Life(r)!Next
<1>1. to \in Life(r)!TRANSITIONS[Current(r).state] /\ to \in Life(r)!TASK_STATES
  BY TableHas DEF States, TERMINAL_STATES
<1>2. to \in Life(r)!TERMINAL_STATES
  BY DEF Life!TERMINAL_STATES
<1>3. Life(r)!Move(to)
  BY <1>1, <1>2 DEF Life!Move, SameContext
<1> QED BY <1>1, <1>3 DEF Life!Next

LEMMA LifeMoves ==
  ASSUME NEW r \in Runs, NEW to \in States,
         Current(r).state # "INPUT_REQUIRED",
         to \in Life(r)!TRANSITIONS[Current(r).state], Current(r)'.state = to,
         Current(r)'.state_seq = Current(r).state_seq + 1,
         SameContext(Current(r), Current(r)')
  PROVE  Life(r)!Next
<1>1. Life(r)!Move(to)
  BY DEF Life!Move, SameContext
<1>2. to \in Life(r)!TASK_STATES
  BY TableHas
<1> QED BY <1>1, <1>2 DEF Life!Next

LEMMA LifeFollows ==
  ASSUME NEW r \in Runs, NEW s \in Snapshots, NEW t \in Snapshots,
         Current(r) = s, Current(r)' = t, Follows(s, t)
  PROVE  Life(r)!Next
<1>1. CASE s = NoSnapshot /\ t.state = "SUBMITTED" /\ t.state_seq = 1 /\ SameContext(s, t)
  <2>1. s.state = "SUBMITTED" /\ s.state_seq = 0
    BY <1>1 DEF NoSnapshot
  <2>2. Life(r)!Submit
    BY <1>1, <2>1 DEF Life!Submit, SameContext
  <2> QED BY <2>2 DEF Life!Next
<1>2. CASE ~ Terminal(s) /\ t.state_seq = s.state_seq + 1 /\ SameContext(s, t)
           /\ t.state = "FAILED"
  <2>1. s.state \in Live
    BY <1>2, SnapshotsAre DEF SnapshotsOver, Live, Terminal
  <2> QED BY <1>2, <2>1, LifeEnds
<1>3. CASE /\ t.state_seq = s.state_seq + 1 /\ SameContext(s, t)
           /\ <<s.state, t.state>> = <<"WORKING", "WORKING">>
  <2>1. Life(r)!BeginTurn
    BY <1>3 DEF Life!BeginTurn, SameContext
  <2> QED BY <2>1 DEF Life!Next
<1>4. CASE /\ t.state_seq = s.state_seq + 1 /\ SameContext(s, t)
           /\ <<s.state, t.state>> \in
                {<<"SUBMITTED", "COMPILING_CONTEXT">>, <<"COMPILING_CONTEXT", "WORKING">>,
                 <<"WORKING", "INPUT_REQUIRED">>, <<"WORKING", "VERIFYING">>,
                 <<"VERIFYING", "ADOPTING">>, <<"ADOPTING", "COMPLETED">>}
  <2>1. s.state # "INPUT_REQUIRED" /\ t.state \in Life(r)!TRANSITIONS[s.state]
    BY <1>4, TableHas
  <2>2. t.state \in States
    BY SnapshotsAre DEF SnapshotsOver
  <2> QED BY <1>4, <2>1, <2>2, LifeMoves
<1>5. CASE /\ s.state = "INPUT_REQUIRED" /\ t.state = "WORKING"
           /\ t.state_seq = s.state_seq + 1 /\ t.context_seq = s.context_seq + 1
           /\ \E d \in DeltaIds :
                /\ t.applied = Append(s.applied, d)
                /\ \A i \in 1 .. Len(s.applied) : s.applied[i] # d
  <2>1. PICK d \in DeltaIds : /\ t.applied = Append(s.applied, d)
                              /\ \A i \in 1 .. Len(s.applied) : s.applied[i] # d
    BY <1>5
  <2>2. s.applied \in Seq(DeltaIds)
    BY SnapshotsAre DEF SnapshotsOver
  <2> DEFINE old == {s.applied[i] : i \in 1 .. Len(s.applied)}
             new == {t.applied[i] : i \in 1 .. Len(t.applied)}
  <2>3. d \notin old
    BY <2>1
  <2>4. new = old \cup {d}
    <3>1. /\ Len(t.applied) = Len(s.applied) + 1 /\ Len(s.applied) \in Nat
          /\ t.applied[Len(s.applied) + 1] = d
          /\ \A i \in 1 .. Len(s.applied) : t.applied[i] = s.applied[i]
      BY <2>1, <2>2
    <3>2. 1 .. Len(t.applied) = 1 .. Len(s.applied) \cup {Len(s.applied) + 1}
      BY <3>1
    <3> QED BY <3>1, <3>2
  <2>5. Life(r)!ApplyDelta(d)
    <3> HIDE DEF old, new
    <3> QED BY <1>5, <2>3, <2>4 DEF Life!ApplyDelta, old, new
  <2> QED BY <2>5 DEF Life!Next
<1> QED BY <1>1, <1>2, <1>3, <1>4, <1>5 DEF Follows

LEMMA LifeSteps ==
  ASSUME NEW r \in Runs, SnapshotInv, [Next]_vars
  PROVE  [Life(r)!Next]_(Life(r)!lifecycle)
<1>1. CASE Current(r)' = Current(r)
  BY <1>1 DEF Life!lifecycle
<1>2. CASE NoRunMoves
  <2>1. Current(r)' = Current(r)
    BY <1>2 DEF NoRunMoves, Current
  <2> QED BY <1>1, <2>1
<1>3. ASSUME NEW q \in Runs, Moves(q)
      PROVE  [Life(r)!Next]_(Life(r)!lifecycle)
  <2>1. PICK st, await, t : /\ Moved(q, st, await, t)
                            /\ Fits(st, await, t)
                            /\ RunFollows(status[q], snap[q], st, t)
    BY <1>3 DEF Moves
  <2>2. CASE q # r
    <3>1. status'[r] = status[r] /\ snap'[r] = snap[r]
      BY <2>1, <2>2 DEF Moved, SnapshotInv, SnapInv
    <3>2. Current(r)' = Current(r)
      BY <3>1 DEF Current
    <3> QED BY <1>1, <3>2
  <2>3. CASE q = r
    <3> DEFINE s == snap[r]
    <3>1. status'[r] = st /\ snap'[r] = t
      BY <2>1, <2>3 DEF Moved, SnapshotInv, SnapInv
    <3>2. Current(r) = synthesizeSnapshot(s, status[r]) /\ Current(r)' = synthesizeSnapshot(t, st)
      BY <3>1 DEF Current
    <3>3. s \in Snapshots /\ t \in Snapshots
      BY <2>1 DEF Fits, SnapshotInv, SnapInv
    <3> HIDE DEF s
    <3>4. RunFollows(status[r], s, st, t)
      BY <2>1, <2>3 DEF s
    <3>5. CASE st = "running" /\ status[r] = "running" /\ Follows(s, t)
      <4>1. Current(r) = s /\ Current(r)' = t
        BY <3>2, <3>5 DEF synthesizeSnapshot
      <4> QED BY <3>3, <3>5, <4>1, LifeFollows
    <3>6. CASE t = s /\ status[r] = "running" /\ st \in {"failed", "cancelled"} /\ ~ Terminal(s)
      <4>1. PICK to \in {"FAILED", "CANCELED"} :
              to = IF st = "cancelled" THEN "CANCELED" ELSE "FAILED"
        OBVIOUS
      <4>2. PICK n \in Nat : n = s.state_seq + 1
        BY <3>3, CountsAre
      <4>3. Current(r) = s /\ Current(r)' = [s EXCEPT !.state = to, !.state_seq = n]
        BY <3>2, <3>6, <4>1, <4>2 DEF synthesizeSnapshot
      <4>4. s.state \in Live
        BY <3>3, <3>6, SnapshotsAre DEF SnapshotsOver, Live, Terminal
      <4>5. PICK C, S : s \in SnapshotsOver(C, S)
        BY <3>3, SnapshotsAre
      <4>6. PICK u : u = [s EXCEPT !.state = to, !.state_seq = n]
        OBVIOUS
      <4>7. u.state = to /\ u.state_seq = n /\ SameContext(s, u)
        BY <4>5, <4>6 DEF SnapshotsOver, SameContext
      <4> QED BY <4>2, <4>3, <4>4, <4>6, <4>7, LifeEnds
    <3>7. CASE \/ t = s /\ st = status[r]
               \/ t = s /\ status[r] = "none" /\ st = "running"
               \/ t = s /\ status[r] = "running" /\ st = "completed"
               \/ t = s /\ Terminal(s)
      <4>1. CASE t = s /\ st = status[r]
        BY <1>1, <3>2, <4>1
      <4>2. CASE t = s /\ status[r] \in {"none", "running"} /\ st \in {"running", "completed"}
        <5>1. synthesizeSnapshot(t, st) = t /\ synthesizeSnapshot(s, status[r]) = s
          BY <4>2 DEF synthesizeSnapshot
        <5> QED BY <1>1, <3>2, <4>2, <5>1
      <4>3. CASE t = s /\ Terminal(s)
        <5>1. synthesizeSnapshot(t, st) = t /\ synthesizeSnapshot(s, status[r]) = s
          BY <4>3 DEF synthesizeSnapshot
        <5> QED BY <1>1, <3>2, <4>3, <5>1
      <4> QED BY <3>7, <4>1, <4>2, <4>3
    <3> QED BY <3>4, <3>5, <3>6, <3>7 DEF RunFollows
  <2> QED BY <2>2, <2>3
<1> QED BY <1>2, <1>3, StepMoves DEF SnapshotInv, OneRunMoves

\* Whatever a run meets, it implements the task contract, and so does every other
\* run of the same task at the same time: no transition is asked for that the
\* table does not have, for any number of runs and clients.
THEOREM ImplementsLifecycleAlways == Spec => ImplementsLifecycle
<1>1. BackendInit => \A r \in Runs : Life(r)!Init
  <2> SUFFICES ASSUME BackendInit, NEW r \in Runs PROVE Life(r)!Init
    OBVIOUS
  <2>1. Current(r) = NoSnapshot
    BY DEF BackendInit, Init, Current, synthesizeSnapshot
  <2>2. NoSnapshot.state = "SUBMITTED" /\ NoSnapshot.state_seq = 0
        /\ NoSnapshot.context_seq = 0 /\ NoSnapshot.applied = <<>>
    BY DEF NoSnapshot
  <2> QED BY <2>1, <2>2 DEF Life!Init
<1>2. SnapshotInv /\ [Next]_vars
        => [\A r \in Runs : [Life(r)!Next]_(Life(r)!lifecycle)]_runVars
  BY LifeSteps
<1> QED BY <1>1, <1>2, SnapshotInvAlways, PTL DEF Spec, ImplementsLifecycle

-----------------------------------------------------------------------------
(* What clients are shown.  A snapshot is shown without going back when it  *)
(* is not later than the next one; a snapshot of the stream is never later  *)
(* than the run's own.                                                      *)

NotLater(s, t) == s.state_seq <= t.state_seq /\ (Terminal(s) => Terminal(t))

\* The run came from s to t: a terminal snapshot is its last, and a new one.
Precedes(s, t) ==
  /\ s.state_seq <= t.state_seq
  /\ Terminal(s) => t = s
  /\ Terminal(t) /\ ~ Terminal(s) => s.state_seq < t.state_seq

LEMMA SequencesAreNumbers ==
  ASSUME NEW s \in Snapshots
  PROVE  s.state_seq \in Nat
BY SnapshotsAre DEF SnapshotsOver

LEMMA SynthesizedFields ==
  ASSUME NEW s \in Snapshots, NEW st
  PROVE  LET t == synthesizeSnapshot(s, st)
         IN  /\ t \in Snapshots
             /\ Terminal(s) \/ st \notin {"cancelled", "failed"} => t = s
             /\ ~ Terminal(s) /\ st \in {"cancelled", "failed"} =>
                  t.state_seq = s.state_seq + 1 /\ Terminal(t)
<1>1. CASE Terminal(s) \/ st \notin {"cancelled", "failed"}
  BY <1>1 DEF synthesizeSnapshot
<1>2. CASE ~ (Terminal(s) \/ st \notin {"cancelled", "failed"})
  <2>1. PICK to \in {"FAILED", "CANCELED"} :
          to = IF st = "cancelled" THEN "CANCELED" ELSE "FAILED"
    OBVIOUS
  <2>2. PICK n \in Nat : n = s.state_seq + 1
    BY CountsAre
  <2>3. PICK t : t = [s EXCEPT !.state = to, !.state_seq = n]
    OBVIOUS
  <2>4. synthesizeSnapshot(s, st) = t
    BY <1>2, <2>1, <2>2, <2>3 DEF synthesizeSnapshot
  <2>5. to \in States
    BY DEF States, TERMINAL_STATES
  <2>6. PICK C, S : to \in S /\ Snapshots = SnapshotsOver(C, S)
    BY <2>5, SnapshotsAre
  <2>7. s \in SnapshotsOver(C, S) /\ to \in S
    BY <2>6
  <2>8. t \in SnapshotsOver(C, S) /\ t.state_seq = n /\ t.state = to
    BY <2>3, <2>7 DEF SnapshotsOver
  <2>9. Terminal(t)
    BY <2>8 DEF Terminal, TERMINAL_STATES
  <2> QED BY <1>2, <2>2, <2>4, <2>6, <2>8, <2>9
<1> QED BY <1>1, <1>2

\* What the engine adds to a snapshot takes nothing back, ...
LEMMA SynthesizedIsLater ==
  ASSUME NEW s \in Snapshots, NEW t \in Snapshots, NEW st, NotLater(s, t)
  PROVE  NotLater(s, synthesizeSnapshot(t, st))
<1>1. s.state_seq \in Nat /\ t.state_seq \in Nat
  BY SequencesAreNumbers
<1> QED BY <1>1, SynthesizedFields DEF NotLater

\* ... nor when it adds the same to an earlier and to a later one.
LEMMA SynthesizedInOrder ==
  ASSUME NEW s \in Snapshots, NEW t \in Snapshots, NEW st, Precedes(s, t)
  PROVE  NotLater(synthesizeSnapshot(s, st), synthesizeSnapshot(t, st))
<1>1. s.state_seq \in Nat /\ t.state_seq \in Nat
  BY SequencesAreNumbers
<1>2. CASE Terminal(s)
  BY <1>1, <1>2 DEF Precedes, NotLater, synthesizeSnapshot
<1>3. CASE ~ Terminal(s) /\ st \notin {"cancelled", "failed"}
  BY <1>1, <1>3, SynthesizedFields DEF Precedes, NotLater
<1>4. CASE ~ Terminal(s) /\ st \in {"cancelled", "failed"} /\ ~ Terminal(t)
  <2>1. PICK u : u = synthesizeSnapshot(s, st)
    OBVIOUS
  <2>2. PICK v : v = synthesizeSnapshot(t, st)
    OBVIOUS
  <2>3. u.state_seq = s.state_seq + 1 /\ v.state_seq = t.state_seq + 1 /\ Terminal(v)
    BY <1>4, <2>1, <2>2, SynthesizedFields
  <2> QED BY <1>1, <2>1, <2>2, <2>3 DEF Precedes, NotLater
<1>5. CASE ~ Terminal(s) /\ st \in {"cancelled", "failed"} /\ Terminal(t)
  <2>1. PICK u : u = synthesizeSnapshot(s, st)
    OBVIOUS
  <2>2. u.state_seq = s.state_seq + 1 /\ synthesizeSnapshot(t, st) = t
    BY <1>5, <2>1, SynthesizedFields
  <2> QED BY <1>1, <1>5, <2>1, <2>2 DEF Precedes, NotLater
<1> QED BY <1>2, <1>3, <1>4, <1>5

LEMMA OrderFacts ==
  ASSUME NEW s \in Snapshots, NEW t \in Snapshots, NEW u \in Snapshots
  PROVE  /\ NotLater(s, s)
         /\ Precedes(s, s)
         /\ Precedes(s, t) => NotLater(s, t)
         /\ NotLater(s, t) /\ Follows(t, u) => NotLater(s, u)
         /\ Precedes(s, t) /\ Follows(t, u) => Precedes(s, u)
<1>1. s.state_seq \in Nat /\ t.state_seq \in Nat /\ u.state_seq \in Nat
  BY SequencesAreNumbers
<1>2. ~ Terminal(NoSnapshot) /\ NoSnapshot.state_seq = 0
  BY DEF NoSnapshot, Terminal, TERMINAL_STATES
<1>3. Follows(t, u) => ~ Terminal(t) /\ u.state_seq = t.state_seq + 1
  BY <1>2 DEF Follows
<1> QED BY <1>1, <1>3 DEF NotLater, Precedes

-----------------------------------------------------------------------------
(* The window of the stream.                                               *)

\* The latest snapshot is the one after which there is none.
LEMMA LatestIs ==
  ASSUME NEW S, NEW events \in Seq(S), NEW i \in 1 .. Len(events),
         events[i].kind = "TASK_SNAPSHOT",
         \A j \in 1 .. Len(events) : events[j].kind = "TASK_SNAPSHOT" => j <= i
  PROVE  readLatestSnapshot(events) = events[i].snapshot
<1> DEFINE found == {j \in 1 .. Len(events) : events[j].kind = "TASK_SNAPSHOT"}
<1>1. Len(events) \in Nat /\ found \subseteq 1 .. Len(events)
  OBVIOUS
<1>2. i \in found /\ \A j \in found : j <= i
  OBVIOUS
<1> HIDE DEF found
<1>3. \A k \in found : (\A j \in found : j <= k) => k = i
  BY <1>1, <1>2
<1>4. (CHOOSE k \in found : \A j \in found : j <= k) = i
  BY <1>2, <1>3
<1> QED BY <1>2, <1>4 DEF readLatestSnapshot, found

LEMMA LatestOfNone ==
  ASSUME NEW S, NEW events \in Seq(S),
         \A j \in 1 .. Len(events) : events[j].kind # "TASK_SNAPSHOT"
  PROVE  readLatestSnapshot(events) = NoSnapshot
BY DEF readLatestSnapshot

LEMMA LastSnapshotExists ==
  ASSUME NEW S, NEW events \in Seq(S),
         \E j \in 1 .. Len(events) : events[j].kind = "TASK_SNAPSHOT"
  PROVE  \E i \in 1 .. Len(events) :
           /\ events[i].kind = "TASK_SNAPSHOT"
           /\ \A j \in 1 .. Len(events) : events[j].kind = "TASK_SNAPSHOT" => j <= i
<1> DEFINE found == {j \in 1 .. Len(events) : events[j].kind = "TASK_SNAPSHOT"}
<1>1. Len(events) \in Nat /\ found \subseteq 1 .. Len(events) /\ found # {}
  OBVIOUS
<1>2. PICK i \in found : \A j \in found : j <= i
  <2> HIDE DEF found
  <2> QED BY <1>1, GreatestExists
<1> QED BY <1>2

\* What an event does to a window that may be full: it is added at the end,
\* and the first one is dropped if there is no room.
Added(events, e, new) ==
  /\ Len(events) < Window =>
       /\ Len(new) = Len(events) + 1
       /\ \A i \in 1 .. Len(events) : new[i] = events[i]
  /\ Len(events) = Window =>
       /\ Len(new) = Window
       /\ \A i \in 1 .. Window - 1 : new[i] = events[i + 1]
  /\ new[Len(new)] = e

LEMMA KeepIs ==
  ASSUME NEW S, NEW events \in Seq(S), NEW e \in S, Len(events) <= Window,
         NEW new, new = Keep(Append(events, e))
  PROVE  new \in Seq(S) /\ Len(new) \in 1 .. Window /\ Added(events, e, new)
<1>1. Window \in Nat \ {0} /\ Len(events) \in Nat
  BY VercelAssumption
<1> DEFINE all == Append(events, e)
<1>2. /\ all \in Seq(S) /\ Len(all) = Len(events) + 1
      /\ \A i \in 1 .. Len(events) : all[i] = events[i]
      /\ all[Len(events) + 1] = e
  OBVIOUS
<1> HIDE DEF all
<1>3. CASE Len(events) < Window
  <2>1. Keep(all) = all
    BY <1>1, <1>2, <1>3 DEF Keep
  <2> QED BY <1>1, <1>2, <1>3, <2>1 DEF all, Added
<1>4. CASE Len(events) = Window
  <2>1. Keep(all) = SubSeq(all, 2, Window + 1)
    BY <1>1, <1>2, <1>4 DEF Keep
  <2>2. \A i \in 2 .. Window + 1 : all[i] \in S
    BY <1>1, <1>2, <1>4
  <2>3. /\ SubSeq(all, 2, Window + 1) \in Seq(S)
        /\ Len(SubSeq(all, 2, Window + 1)) = Window
        /\ \A i \in 1 .. Window : SubSeq(all, 2, Window + 1)[i] = all[i + 1]
    BY <1>1, <1>2, <1>4, <2>2, SubSeqProperties
  <2> QED BY <1>1, <1>2, <1>4, <2>1, <2>3 DEF all, Added
<1> QED BY <1>1, <1>3, <1>4

\* Every event in the window of a run is about it, and none is later than it.
WindowInv ==
  /\ StreamType
  /\ \A r \in Runs :
       /\ Len(stream[r]) <= Window
       /\ Precedes(NoSnapshot, snap[r])
       /\ \A i \in 1 .. Len(stream[r]) : Precedes(stream[r][i].snapshot, snap[r])

\* An emission shows the run's snapshot, or leaves the one shown before, or
\* fills the window with rejections, and what was full of them stays so.
LEMMA EmissionShows ==
  ASSUME NEW r \in Runs, SnapInv, WindowInv, Write(r)
  PROVE  \/ readLatestSnapshot(stream'[r]) = snap[r]
         \/ Flooded(r)'
         \/ ~ Flooded(r) /\ readLatestSnapshot(stream'[r]) = readLatestSnapshot(stream[r])
<1> DEFINE old == stream[r]
           new == stream'[r]
           event == Event(r)
           n == Len(old)
<1>0. Window \in Nat \ {0} /\ n \in Nat
  BY VercelAssumption DEF WindowInv, StreamType
<1>1. old \in Seq(Events) /\ event \in Events /\ n <= Window
  BY WrittenIsEvent DEF WindowInv, StreamType
<1>2. new = Keep(Append(old, event))
  BY DEF Write, WindowInv, StreamType
<1>3. /\ new \in Seq(Events)
      /\ n < Window => /\ Len(new) = n + 1
                       /\ \A i \in 1 .. n : new[i] = old[i]
      /\ n = Window => /\ Len(new) = Window
                       /\ \A i \in 1 .. Window - 1 : new[i] = old[i + 1]
      /\ Len(new) \in 1 .. Window
      /\ new[Len(new)] = event
  <2> HIDE DEF new, old, event
  <2>1. new \in Seq(Events) /\ Len(new) \in 1 .. Window /\ Added(old, event, new)
    BY <1>1, <1>2, KeepIs
  <2> QED BY <2>1 DEF Added
<1>4. /\ Flooded(r) <=> n = Window /\ \A i \in 1 .. Window : old[i].kind # "TASK_SNAPSHOT"
      /\ Flooded(r)' <=> Len(new) = Window /\ \A i \in 1 .. Window : new[i].kind # "TASK_SNAPSHOT"
  BY DEF Flooded
<1>5. CASE event.kind = "TASK_SNAPSHOT"
  <2>1. event.snapshot = snap[r]
    BY DEF Event, snapshotProjection, rejectionProjection
  <2> HIDE DEF new, event
  <2>2. PICK last \in 1 .. Len(new) : last = Len(new) /\ new[last] = event
    BY <1>3
  <2>3. \A j \in 1 .. Len(new) : new[j].kind = "TASK_SNAPSHOT" => j <= last
    BY <1>3, <2>2
  <2>4. readLatestSnapshot(new) = new[last].snapshot
    BY <1>3, <1>5, <2>2, <2>3, LatestIs
  <2> QED BY <2>1, <2>2, <2>4 DEF new
<1>6. CASE event.kind # "TASK_SNAPSHOT" /\ n < Window
  <2>1. ~ Flooded(r)
    BY <1>0, <1>4, <1>6
  <2> HIDE DEF new, event, old, n
  <2>2. \A i \in 1 .. Len(new) :
          new[i].kind = "TASK_SNAPSHOT" =>
            i \in 1 .. n /\ old[i].kind = "TASK_SNAPSHOT" /\ new[i] = old[i]
    BY <1>0, <1>3, <1>6
  <2>3. CASE \E i \in 1 .. n : old[i].kind = "TASK_SNAPSHOT"
    <3>1. PICK i \in 1 .. n :
            /\ old[i].kind = "TASK_SNAPSHOT"
            /\ \A j \in 1 .. n : old[j].kind = "TASK_SNAPSHOT" => j <= i
      BY <1>1, <2>3, LastSnapshotExists DEF n
    <3>2. i \in 1 .. Len(new) /\ new[i] = old[i]
      BY <1>0, <1>3, <1>6, <3>1
    <3>3. \A j \in 1 .. Len(new) : new[j].kind = "TASK_SNAPSHOT" => j <= i
      BY <2>2, <3>1
    <3>4. readLatestSnapshot(new) = new[i].snapshot
      BY <1>3, <3>1, <3>2, <3>3, LatestIs
    <3>5. readLatestSnapshot(old) = old[i].snapshot
      BY <1>1, <3>1, LatestIs DEF n
    <3> QED BY <2>1, <3>2, <3>4, <3>5 DEF new, old
  <2>4. CASE ~ \E i \in 1 .. n : old[i].kind = "TASK_SNAPSHOT"
    <3>1. readLatestSnapshot(old) = NoSnapshot
      BY <1>1, <2>4, LatestOfNone DEF n
    <3>2. readLatestSnapshot(new) = NoSnapshot
      BY <1>3, <2>2, <2>4, LatestOfNone
    <3> QED BY <2>1, <3>1, <3>2 DEF new, old
  <2> QED BY <2>3, <2>4
<1>7. CASE event.kind # "TASK_SNAPSHOT" /\ n = Window
  <2> HIDE DEF new, event, old, n
  <2>1. \A i \in 1 .. Window :
          new[i].kind = "TASK_SNAPSHOT" =>
            i \in 1 .. Window - 1 /\ old[i + 1].kind = "TASK_SNAPSHOT" /\ new[i] = old[i + 1]
    BY <1>0, <1>3, <1>7
  <2>2. CASE \E i \in 1 .. Window : new[i].kind = "TASK_SNAPSHOT"
    <3>1. PICK i \in 1 .. Len(new) :
            /\ new[i].kind = "TASK_SNAPSHOT"
            /\ \A j \in 1 .. Len(new) : new[j].kind = "TASK_SNAPSHOT" => j <= i
      BY <1>3, <1>7, <2>2, LastSnapshotExists
    <3>2. /\ i \in 1 .. Window - 1 /\ i + 1 \in 1 .. n
          /\ old[i + 1].kind = "TASK_SNAPSHOT" /\ new[i] = old[i + 1]
      BY <1>0, <1>3, <1>7, <2>1, <3>1
    <3>3. \A j \in 1 .. n : old[j].kind = "TASK_SNAPSHOT" => j <= i + 1
      <4> SUFFICES ASSUME NEW j \in 1 .. n, old[j].kind = "TASK_SNAPSHOT", j > i + 1 PROVE FALSE
        BY <1>0, <3>2
      <4>1. /\ j - 1 \in 1 .. Window - 1 /\ (j - 1) + 1 = j
            /\ j - 1 \in 1 .. Len(new) /\ ~ (j - 1 <= i)
        BY <1>0, <1>3, <1>7, <3>2
      <4>2. new[j - 1] = old[j]
        BY <1>3, <1>7, <4>1
      <4> QED BY <3>1, <4>1, <4>2
    <3>4. readLatestSnapshot(new) = new[i].snapshot
      BY <1>3, <3>1, LatestIs
    <3>5. readLatestSnapshot(old) = old[i + 1].snapshot
      BY <1>1, <3>2, <3>3, LatestIs DEF n
    <3>6. ~ Flooded(r)
      BY <1>0, <1>4, <3>2, <1>7
    <3> QED BY <3>2, <3>4, <3>5, <3>6 DEF new, old
  <2>3. CASE ~ \E i \in 1 .. Window : new[i].kind = "TASK_SNAPSHOT"
    BY <1>3, <1>4, <1>7, <2>3 DEF new
  <2> QED BY <2>2, <2>3
<1> QED BY <1>0, <1>1, <1>5, <1>6, <1>7

\* The events in the window after an emission are those of before and the new one.
LEMMA EmissionKeepsOrder ==
  ASSUME NEW r \in Runs, SnapInv, WindowInv, Write(r)
  PROVE  /\ stream'[r] \in Seq(Events) /\ Len(stream'[r]) <= Window
         /\ \A i \in 1 .. Len(stream'[r]) : Precedes(stream'[r][i].snapshot, snap[r])
<1> DEFINE old == stream[r]
           new == stream'[r]
           E == {e \in Events : Precedes(e.snapshot, snap[r])}
<1>1. Event(r) \in E
  <2>1. Event(r) \in Events /\ Event(r).snapshot = snap[r] /\ snap[r] \in Snapshots
    BY WrittenIsEvent DEF Event, snapshotProjection, rejectionProjection, SnapInv
  <2> QED BY <2>1, OrderFacts
<1>2. old \in Seq(Events) /\ Len(old) <= Window
  BY DEF WindowInv, StreamType
<1>3. \A i \in 1 .. Len(old) : old[i] \in E
  BY <1>2 DEF WindowInv
<1>4. old \in Seq(E)
  BY <1>2, <1>3
<1>5. new = Keep(Append(old, Event(r)))
  BY DEF Write, WindowInv, StreamType
<1> HIDE DEF E, old, new
<1>6. new \in Seq(E) /\ Len(new) \in 1 .. Window
  BY <1>1, <1>2, <1>4, <1>5, KeepIs
<1>7. \A i \in 1 .. Len(new) : new[i] \in E
  BY <1>6
<1>8. E \subseteq Events /\ \A e \in E : Precedes(e.snapshot, snap[r])
  BY DEF E
<1>9. new \in Seq(Events)
  BY <1>6, <1>8
<1> QED BY <1>6, <1>7, <1>8, <1>9, VercelAssumption DEF new

\* The reader starts from nothing or from a snapshot the run has left behind.
LEMMA LatestPrecedes ==
  ASSUME NEW r \in Runs, SnapInv, WindowInv
  PROVE  /\ readLatestSnapshot(stream[r]) \in Snapshots
         /\ Precedes(readLatestSnapshot(stream[r]), snap[r])
<1>1. PICK events \in Seq(Events) : events = stream[r]
  BY DEF WindowInv, StreamType
<1>2. \A i \in 1 .. Len(events) : Precedes(events[i].snapshot, snap[r])
  BY <1>1 DEF WindowInv
<1>3. CASE \E j \in 1 .. Len(events) : events[j].kind = "TASK_SNAPSHOT"
  <2>1. PICK i \in 1 .. Len(events) :
          /\ events[i].kind = "TASK_SNAPSHOT"
          /\ \A j \in 1 .. Len(events) : events[j].kind = "TASK_SNAPSHOT" => j <= i
    BY <1>3, LastSnapshotExists
  <2>2. readLatestSnapshot(events) = events[i].snapshot
    BY <2>1, LatestIs
  <2>3. events[i] \in Events
    OBVIOUS
  <2>4. events[i].snapshot \in Snapshots
    BY <2>3 DEF Events
  <2> QED BY <1>1, <1>2, <2>2, <2>4
<1>4. CASE ~ \E j \in 1 .. Len(events) : events[j].kind = "TASK_SNAPSHOT"
  <2>1. readLatestSnapshot(events) = NoSnapshot
    BY <1>4, LatestOfNone
  <2> QED BY <1>1, <2>1, FirstSnapshots DEF WindowInv
<1> QED BY <1>3, <1>4

\* What a step may do to the status, the snapshot and the stream of a run.
FloodedIn(events) ==
  Len(events) = Window /\ \A i \in 1 .. Window : events[i].kind # "TASK_SNAPSHOT"

Shows(events, s, new) ==
  \/ new = events
  \/ readLatestSnapshot(new) = s
  \/ FloodedIn(new)
  \/ ~ FloodedIn(events) /\ readLatestSnapshot(new) = readLatestSnapshot(events)

RunChanges(r) ==
  /\ RunFollows(status[r], snap[r], status'[r], snap'[r])
  /\ snap'[r] \in Snapshots
  /\ Shows(stream[r], snap[r], stream'[r])

LEMMA StepChanges ==
  ASSUME NEW r \in Runs, SnapInv, WindowInv, NoRunMoves \/ OneRunMoves
  PROVE  RunChanges(r)
<1>1. CASE NoRunMoves
  BY <1>1 DEF NoRunMoves, RunChanges, RunFollows, Shows, SnapInv
<1>2. CASE OneRunMoves
  <2>1. PICK q \in Runs : Moves(q) /\ Wrote(q)
    BY <1>2 DEF OneRunMoves
  <2>2. PICK st, await, t :
          Moved(q, st, await, t) /\ Fits(st, await, t) /\ RunFollows(status[q], snap[q], st, t)
    BY <2>1 DEF Moves
  <2>3. CASE q = r
    <3>1. status'[r] = st /\ snap'[r] = t /\ t \in Snapshots
      BY <2>2, <2>3 DEF Moved, Fits, SnapInv
    <3>2. Shows(stream[r], snap[r], stream'[r])
      BY <2>1, <2>3, EmissionShows DEF Wrote, Shows, Flooded, FloodedIn
    <3> QED BY <2>2, <2>3, <3>1, <3>2 DEF RunChanges
  <2>4. CASE q # r
    <3>1. status'[r] = status[r] /\ snap'[r] = snap[r]
      BY <2>2, <2>4 DEF Moved, SnapInv
    <3>2. stream'[r] = stream[r]
      BY <2>1, <2>4 DEF Wrote, Write, WindowInv, StreamType
    <3> QED BY <3>1, <3>2 DEF RunChanges, RunFollows, Shows, SnapInv
  <2> QED BY <2>3, <2>4
<1> QED BY <1>1, <1>2

LEMMA WindowInvKept ==
  ASSUME SnapshotInv, WindowInv, [Next]_vars
  PROVE  WindowInv'
<1> USE DEF SnapshotInv
<1>1. NoRunMoves \/ OneRunMoves
  BY StepMoves
<1>2. StreamType'
  BY StreamTypeKept DEF WindowInv
<1>3. ASSUME NEW r \in Runs
      PROVE  /\ Len(stream'[r]) <= Window
             /\ stream'[r] \in Seq(Events)
             /\ \A i \in 1 .. Len(stream'[r]) : Precedes(stream'[r][i].snapshot, snap[r])
  <2>1. CASE stream'[r] = stream[r]
    BY <2>1 DEF WindowInv, StreamType
  <2>2. CASE Write(r)
    BY <2>2, EmissionKeepsOrder
  <2>3. stream'[r] = stream[r] \/ Write(r)
    <3>1. CASE NoRunMoves
      BY <3>1 DEF NoRunMoves
    <3>2. CASE OneRunMoves
      BY <3>2 DEF OneRunMoves, Wrote, Write, WindowInv, StreamType
    <3> QED BY <1>1, <3>1, <3>2
  <2> QED BY <2>1, <2>2, <2>3
<1>4. ASSUME NEW r \in Runs, NEW s \in Snapshots, Precedes(s, snap[r])
      PROVE  Precedes(s, snap'[r])
  <2>1. RunChanges(r) /\ snap[r] \in Snapshots
    BY <1>1, StepChanges DEF SnapInv
  <2> QED BY <1>4, <2>1, OrderFacts DEF RunChanges, RunFollows
<1>5. ASSUME NEW r \in Runs PROVE Precedes(NoSnapshot, snap'[r])
  BY <1>4, FirstSnapshots DEF WindowInv
<1>6. ASSUME NEW r \in Runs, NEW i \in 1 .. Len(stream'[r])
      PROVE  Precedes(stream'[r][i].snapshot, snap'[r])
  <2>1. stream'[r][i] \in Events
    BY <1>3
  <2>2. stream'[r][i].snapshot \in Snapshots
    BY <2>1 DEF Events
  <2> QED BY <1>3, <1>4, <2>2
<1> QED BY <1>2, <1>3, <1>5, <1>6 DEF WindowInv

-----------------------------------------------------------------------------
(* What a client was shown is not later than what it may be shown next.     *)

\* What a reader shows of a run, by the status it has read: Shown.
ShownOf(st, s, events) ==
  synthesizeSnapshot(IF st = "completed" /\ s.task # None THEN s
                     ELSE readLatestSnapshot(events), st)

\* A client that was shown s is shown nothing earlier by a reader with status
\* st. That it holds of the run's own snapshot, too, is what the next event of
\* the stream needs.
Covered(s, st, own, events) ==
  /\ NotLater(s, synthesizeSnapshot(own, st))
  /\ FloodedIn(events) \/ NotLater(s, ShownOf(st, own, events))

\* The status a reader holds is the run's, or the one it had while it ran.
CallInv ==
  \A c \in Clients : At(c, "projection") =>
    /\ call[c].run \in Runs /\ status[call[c].run] # "none"
    /\ call[c].status \in {"running", status[call[c].run]}

SeenInv ==
  /\ seen \in [Clients -> [run : Runs \cup {None}, snapshot : Snapshots]]
  /\ \A c \in Clients, r \in Runs : seen[c].run = r =>
       /\ Covered(seen[c].snapshot, status[r], snap[r], stream[r])
       /\ At(c, "projection") /\ call[c].run = r =>
            Covered(seen[c].snapshot, call[c].status, snap[r], stream[r])

LEMMA NotLaterTransitive ==
  ASSUME NEW s \in Snapshots, NEW t \in Snapshots, NEW u \in Snapshots,
         NotLater(s, t), NotLater(t, u)
  PROVE  NotLater(s, u)
<1>1. s.state_seq \in Nat /\ t.state_seq \in Nat /\ u.state_seq \in Nat
  BY SequencesAreNumbers
<1> QED BY <1>1 DEF NotLater

\* The engine adds nothing to a snapshot but at the end of a run.
LEMMA StatusGrows ==
  ASSUME NEW s \in Snapshots, NEW t \in Snapshots, NEW st, NEW to,
         to = st \/ st \notin {"cancelled", "failed"},
         NotLater(s, synthesizeSnapshot(t, st))
  PROVE  NotLater(s, synthesizeSnapshot(t, to))
<1>1. CASE to = st
  BY <1>1
<1>2. CASE st \notin {"cancelled", "failed"}
  <2>1. synthesizeSnapshot(t, st) = t
    BY <1>2 DEF synthesizeSnapshot
  <2> QED BY <2>1, SynthesizedIsLater
<1> QED BY <1>1, <1>2

\* A client stays covered by the status it holds and by the run's next one.
LEMMA CoveredKept ==
  ASSUME NEW r \in Runs, SnapInv, WindowInv, RunChanges(r), NEW s \in Snapshots,
         NEW st \in {"running", status[r]}, NEW to \in {st, status'[r]},
         Covered(s, st, snap[r], stream[r])
  PROVE  Covered(s, to, snap'[r], stream'[r])
<1> DEFINE own == snap[r]
           next == snap'[r]
           latest == readLatestSnapshot(stream[r])
<1>1. own \in Snapshots /\ next \in Snapshots /\ latest \in Snapshots
  BY LatestPrecedes DEF SnapInv, RunChanges
<1>2. \/ next = own /\ (to = st \/ st \notin {"cancelled", "failed"})
      \/ st = "running" /\ to = "running" /\ Follows(own, next)
  BY DEF RunChanges, RunFollows
<1>3. to = st \/ st \notin {"cancelled", "failed"}
  BY <1>2
<1>4. st = "completed" => to = "completed" /\ next = own
  BY DEF RunChanges, RunFollows
<1> HIDE DEF own, next, latest
<1>5. NotLater(s, synthesizeSnapshot(own, to))
  BY <1>1, <1>3, StatusGrows DEF Covered, own
<1>6. NotLater(s, synthesizeSnapshot(next, to))
  <2>1. CASE next = own
    BY <1>5, <2>1
  <2>2. CASE to = "running" /\ Follows(own, next)
    <3>1. synthesizeSnapshot(own, to) = own /\ synthesizeSnapshot(next, to) = next
      BY <2>2 DEF synthesizeSnapshot
    <3> QED BY <1>1, <1>5, <2>2, <3>1, OrderFacts
  <2> QED BY <1>2, <2>1, <2>2
<1>7. CASE to = "completed" /\ next.task # None
  BY <1>6, <1>7 DEF Covered, ShownOf, next
<1>8. CASE ~ (to = "completed" /\ next.task # None)
  <2>1. ~ (st = "completed" /\ own.task # None)
    BY <1>4, <1>8
  <2>2. ShownOf(st, own, stream[r]) = synthesizeSnapshot(latest, st)
    BY <2>1 DEF ShownOf, latest
  <2>3. ShownOf(to, next, stream'[r]) = synthesizeSnapshot(readLatestSnapshot(stream'[r]), to)
    BY <1>8 DEF ShownOf
  <2>4. FloodedIn(stream[r]) \/ NotLater(s, synthesizeSnapshot(latest, to))
    <3>1. FloodedIn(stream[r]) \/ NotLater(s, synthesizeSnapshot(latest, st))
      BY <2>2 DEF Covered, own
    <3> QED BY <1>1, <1>3, <3>1, StatusGrows
  <2>5. \/ stream'[r] = stream[r]
        \/ readLatestSnapshot(stream'[r]) = own
        \/ FloodedIn(stream'[r])
        \/ ~ FloodedIn(stream[r]) /\ readLatestSnapshot(stream'[r]) = latest
    BY DEF RunChanges, Shows, own, latest
  <2>6. FloodedIn(stream'[r]) \/ NotLater(s, ShownOf(to, next, stream'[r]))
    BY <1>5, <2>3, <2>4, <2>5 DEF latest
  <2> QED BY <1>6, <2>6 DEF Covered, next
<1> QED BY <1>7, <1>8

\* Whoever is shown a run is covered by its status.
LEMMA ShownIsCovered ==
  ASSUME NEW r \in Runs, SnapInv, WindowInv, NEW st \in {"running", status[r]}
  PROVE  LET s == ShownOf(st, snap[r], stream[r])
         IN  s \in Snapshots /\ Covered(s, status[r], snap[r], stream[r])
<1> DEFINE own == snap[r]
           latest == readLatestSnapshot(stream[r])
           to == status[r]
           base == IF st = "completed" /\ own.task # None THEN own ELSE latest
           s == synthesizeSnapshot(base, st)
<1>1. own \in Snapshots /\ latest \in Snapshots
  BY LatestPrecedes DEF SnapInv
<1>2. base \in Snapshots /\ Precedes(base, own)
  BY <1>1, LatestPrecedes, OrderFacts
<1>3. to = st \/ st \notin {"cancelled", "failed"}
  OBVIOUS
<1>4. (st = "completed" => to = "completed")
  OBVIOUS
<1>5. ShownOf(st, own, stream[r]) = s
  BY DEF ShownOf
<1>6. ShownOf(to, own, stream[r]) =
        synthesizeSnapshot(IF to = "completed" /\ own.task # None THEN own ELSE latest, to)
  BY DEF ShownOf
<1>7. base = latest \/ (to = "completed" /\ own.task # None)
  OBVIOUS
<1> HIDE DEF own, latest, to, base
<1>8. s \in Snapshots
  BY <1>2, SynthesizedFields
<1>9. NotLater(s, synthesizeSnapshot(own, to))
  <2>1. NotLater(s, synthesizeSnapshot(own, st))
    BY <1>1, <1>2, SynthesizedInOrder
  <2> QED BY <1>1, <1>3, <1>8, <2>1, StatusGrows
<1>10. NotLater(s, ShownOf(to, own, stream[r]))
  <2>1. CASE to = "completed" /\ own.task # None
    BY <1>6, <1>9, <2>1
  <2>2. CASE ~ (to = "completed" /\ own.task # None)
    <3>1. base = latest /\ ShownOf(to, own, stream[r]) = synthesizeSnapshot(latest, to)
      BY <1>6, <1>7, <2>2
    <3>2. NotLater(s, synthesizeSnapshot(latest, st))
      BY <1>8, <3>1, OrderFacts
    <3> QED BY <1>1, <1>3, <1>8, <3>1, <3>2, StatusGrows
  <2> QED BY <2>1, <2>2
<1> QED BY <1>5, <1>8, <1>9, <1>10 DEF Covered, own, to

\* A client comes to read a projection with the status the run has.
LEMMA CallChanges ==
  ASSUME NEW c \in Clients, Inv, [Next]_vars, call'[c].at = "projection"
  PROVE  \/ call'[c] = call[c]
         \/ /\ call'[c].run \in Runs /\ status[call'[c].run] # "none"
            /\ call'[c].status = status[call'[c].run]
<1>1. DOMAIN call = Clients
  BY DEF Inv, ClientInv
<1>2. ASSUME NEW b \in Clients, NEW x, x.at # "projection", call' = [call EXCEPT ![b] = x]
      PROVE  call'[c] = call[c]
  BY <1>1, <1>2
<1>3. ASSUME NEW b \in Clients, NEW a, Return(b, a) PROVE call'[c] = call[c]
  BY <1>2, <1>3 DEF Return, Continue, Idle
<1>4. ASSUME NEW b \in Clients, ClientStep(b) PROVE call'[c] = call[c]
  <2>1. CASE CreateRun(b)
    BY <1>2, <2>1 DEF CreateRun, Continue
  <2>2. CASE WaitForTaskOwner(b)
    <3>1. PICK x : x = [at |-> "snapshot", task |-> call[b].task, created |-> call[b].created,
                        run |-> IF owner # None THEN owner ELSE call[b].created]
      OBVIOUS
    <3>2. call' = [call EXCEPT ![b] = x]
      BY <2>2, <3>1 DEF WaitForTaskOwner, Continue
    <3>3. x.at = "snapshot"
      BY <3>1
    <3> QED BY <1>2, <3>2, <3>3
  <2>3. CASE ConfirmSubmission(b)
    BY <1>3, <2>3 DEF ConfirmSubmission
  <2>4. CASE ReadProjection(b)
    BY <1>2, <1>3, <2>4 DEF ReadProjection, Continue
  <2>5. CASE LookupHook(b)
    <3>1. CASE Continue(b, [call[b] EXCEPT !.at = "resume"])
      <4>1. PICK x : x = [call[b] EXCEPT !.at = "resume"]
        OBVIOUS
      <4>2. x.at # "projection"
        <5>1. CASE "at" \in DOMAIN call[b]
          BY <4>1, <5>1
        <5>2. CASE "at" \notin DOMAIN call[b]
          BY <2>5, <4>1, <5>2 DEF LookupHook, At
        <5> QED BY <5>1, <5>2
      <4> QED BY <1>2, <3>1, <4>1, <4>2 DEF Continue
    <3> QED BY <1>3, <2>5, <3>1 DEF LookupHook
  <2>6. CASE ResumeHook(b)
    BY <1>3, <2>6 DEF ResumeHook
  <2> QED BY <1>4, <2>1, <2>2, <2>3, <2>4, <2>5, <2>6 DEF ClientStep
<1>5. ASSUME NEW b \in Clients, NEW k \in Submissions, Submit(b, k) PROVE call'[c] = call[c]
  <2>1. PICK x : /\ x = IF owner # None
                        THEN [at |-> "snapshot", task |-> k, run |-> owner, created |-> None]
                        ELSE [at |-> "start", task |-> k]
                 /\ call' = [call EXCEPT ![b] = x]
    BY <1>5 DEF Submit, Begin
  <2>2. x.at # "projection"
    BY <2>1
  <2> QED BY <1>2, <2>1, <2>2
<1>6. ASSUME NEW b \in Clients, NEW r \in Runs, NEW d, ReadStatus(b, r, d)
      PROVE  \/ call'[c] = call[c]
             \/ call'[c].run = r /\ call'[c].status = status[r] /\ status[r] # "none"
  <2>1. PICK x : x = [at |-> "projection", run |-> r, status |-> status[r], delta |-> d]
    OBVIOUS
  <2>2. call' = [call EXCEPT ![b] = x] /\ status[r] # "none"
    BY <1>6, <2>1 DEF ReadStatus, Begin
  <2> QED BY <1>1, <2>1, <2>2
<1>7. ASSUME NEW b \in Clients, NEW r \in Runs, Cancel(b, r) PROVE call'[c] = call[c]
  BY <1>2, <1>7 DEF Cancel, Begin, Idle
<1>8. CASE UNCHANGED call
  BY <1>8
<1> QED
  BY <1>4, <1>5, <1>6, <1>7, <1>8 DEF Next, ClientCall, vars, clientVars

\* What a client has seen changes by reading a projection alone.
LEMMA SeenChanges ==
  ASSUME NEW c \in Clients, SeenInv, [Next]_vars
  PROVE  \/ seen'[c] = seen[c]
         \/ /\ ReadProjection(c)
            /\ seen'[c] = [run |-> call[c].run, snapshot |-> Shown(c)]
<1>1. CASE UNCHANGED seen
  BY <1>1
<1>2. ASSUME NEW b \in Clients, ReadProjection(b)
      PROVE  \/ seen'[c] = seen[c]
             \/ /\ ReadProjection(c)
                /\ seen'[c] = [run |-> call[c].run, snapshot |-> Shown(c)]
  <2>1. seen' = [seen EXCEPT ![b] = [run |-> call[b].run, snapshot |-> Shown(b)]]
    BY <1>2 DEF ReadProjection
  <2>2. CASE b = c
    BY <1>2, <2>1, <2>2 DEF SeenInv
  <2>3. CASE b # c
    BY <2>1, <2>3 DEF SeenInv
  <2> QED BY <2>2, <2>3
<1>3. UNCHANGED seen \/ \E b \in Clients : ReadProjection(b)
  BY DEF Next, vars, clientVars, ClientStep, ClientCall, CreateRun, WaitForTaskOwner,
         ConfirmSubmission, LookupHook, ResumeHook, Submit, ReadStatus, Cancel
<1> QED BY <1>1, <1>2, <1>3

LEMMA SeenIsFunction ==
  ASSUME SeenInv, [Next]_vars
  PROVE  seen' = [c \in Clients |-> seen'[c]]
<1>1. UNCHANGED seen \/ \E b \in Clients : ReadProjection(b)
  BY DEF Next, vars, clientVars, ClientStep, ClientCall, CreateRun, WaitForTaskOwner,
         ConfirmSubmission, LookupHook, ResumeHook, Submit, ReadStatus, Cancel
<1> QED BY <1>1 DEF SeenInv, ReadProjection

LEMMA CallInvKept ==
  ASSUME SnapshotInv, WindowInv, CallInv, [Next]_vars
  PROVE  CallInv'
<1> SUFFICES ASSUME NEW c \in Clients, call'[c].at = "projection"
             PROVE  /\ call'[c].run \in Runs /\ status'[call'[c].run] # "none"
                    /\ call'[c].status \in {"running", status'[call'[c].run]}
  BY DEF CallInv, At
<1>1. /\ call'[c].run \in Runs /\ status[call'[c].run] # "none"
      /\ call'[c].status \in {"running", status[call'[c].run]}
  BY CallChanges DEF CallInv, At, SnapshotInv
<1>2. PICK r \in Runs : r = call'[c].run
  BY <1>1
<1>3. RunChanges(r)
  BY StepMoves, StepChanges DEF SnapshotInv
<1>4. status[r] # "none"
  BY <1>1, <1>2
<1>5. /\ status[r] = "running" \/ status'[r] = status[r]
      /\ status'[r] # "none"
  BY <1>3, <1>4 DEF RunChanges, RunFollows
<1>6. PICK st : st = call'[c].status /\ st \in {"running", status[r]}
  BY <1>1, <1>2
<1>7. st \in {"running", status'[r]}
  BY <1>5, <1>6
<1> QED BY <1>2, <1>5, <1>6, <1>7

LEMMA ShownIs ==
  ASSUME NEW c \in Clients
  PROVE  Shown(c) = ShownOf(call[c].status, snap[call[c].run], stream[call[c].run])
BY DEF Shown, ShownOf

LEMMA SeenInvKept ==
  ASSUME SnapshotInv, WindowInv, CallInv, SeenInv, [Next]_vars
  PROVE  SeenInv'
<1>1. \A r \in Runs : RunChanges(r)
  BY StepMoves, StepChanges DEF SnapshotInv
\* A client that has just been shown a run, ...
<1>2. ASSUME NEW c \in Clients, ReadProjection(c)
      PROVE  /\ Shown(c) \in Snapshots /\ call[c].run \in Runs
             /\ \A r \in Runs : call[c].run = r =>
                  Covered(Shown(c), status'[r], snap'[r], stream'[r])
             /\ call'[c].at # "projection"
  <2>1. PICK q \in Runs : q = call[c].run /\ call[c].status \in {"running", status[q]}
    BY <1>2 DEF ReadProjection, CallInv
  <2>2. PICK s \in Snapshots : s = Shown(c) /\ Covered(s, status[q], snap[q], stream[q])
    BY <2>1, ShownIs, ShownIsCovered DEF SnapshotInv
  <2>3. UNCHANGED <<status, snap, stream>>
    BY <1>2 DEF ReadProjection, runVars
  <2>4. call'[c].at # "projection"
    BY <1>2 DEF ReadProjection, Return, Continue, Idle, SnapshotInv, Inv, ClientInv
  <2> QED BY <2>1, <2>2, <2>3, <2>4
\* ... and one that was shown it before.
<1>3. ASSUME NEW c \in Clients, NEW r \in Runs, seen'[c] = seen[c], seen[c].run = r
      PROVE  /\ Covered(seen[c].snapshot, status'[r], snap'[r], stream'[r])
             /\ call'[c].at = "projection" /\ call'[c].run = r =>
                  Covered(seen[c].snapshot, call'[c].status, snap'[r], stream'[r])
  <2>1. PICK s \in Snapshots : s = seen[c].snapshot /\ Covered(s, status[r], snap[r], stream[r])
    BY <1>3 DEF SeenInv
  <2>2. \A to \in {status[r], status'[r]} : Covered(s, to, snap'[r], stream'[r])
    BY <1>1, <2>1, CoveredKept DEF SnapshotInv
  <2>3. ASSUME call'[c].at = "projection", call'[c].run = r
        PROVE  Covered(s, call'[c].status, snap'[r], stream'[r])
    <3>1. CASE call'[c].status = status[r]
      BY <2>2, <3>1
    <3>2. CASE call'[c] = call[c]
      <4>1. PICK st : st = call[c].status
        OBVIOUS
      <4>2. st \in {"running", status[r]} /\ Covered(s, st, snap[r], stream[r])
        BY <1>3, <2>1, <2>3, <3>2, <4>1 DEF SeenInv, CallInv, At
      <4>3. Covered(s, st, snap'[r], stream'[r])
        BY <1>1, <4>2, CoveredKept DEF SnapshotInv
      <4> QED BY <3>2, <4>1, <4>3
    <3> QED BY <2>3, <3>1, <3>2, CallChanges DEF SnapshotInv
  <2> QED BY <2>1, <2>2, <2>3
<1>4. ASSUME NEW c \in Clients
      PROVE  /\ seen'[c] \in [run : Runs \cup {None}, snapshot : Snapshots]
             /\ \A r \in Runs : seen'[c].run = r =>
                  /\ Covered(seen'[c].snapshot, status'[r], snap'[r], stream'[r])
                  /\ call'[c].at = "projection" /\ call'[c].run = r =>
                       Covered(seen'[c].snapshot, call'[c].status, snap'[r], stream'[r])
  <2>1. CASE seen'[c] = seen[c]
    BY <1>3, <2>1 DEF SeenInv
  <2>2. CASE ReadProjection(c) /\ seen'[c] = [run |-> call[c].run, snapshot |-> Shown(c)]
    BY <1>2, <2>2
  <2> QED BY <2>1, <2>2, SeenChanges
<1> QED BY <1>4, SeenIsFunction DEF SeenInv, At

ReaderInv == SnapshotInv /\ WindowInv /\ CallInv /\ SeenInv

LEMMA ReaderInit == BackendInit => ReaderInv
<1> SUFFICES ASSUME BackendInit PROVE WindowInv /\ CallInv /\ SeenInv
  BY SnapshotInit DEF ReaderInv
<1> USE DEF BackendInit, Init
<1>1. NoSnapshot \in Snapshots
  BY FirstSnapshots
<1>2. <<>> \in Seq(Events) /\ Len(<<>>) = 0
  OBVIOUS
<1>3. WindowInv
  BY <1>1, <1>2, OrderFacts, VercelAssumption DEF WindowInv, StreamType
<1>4. CallInv
  BY DEF CallInv, At, Idle
<1>5. SeenInv
  BY <1>1, VercelAssumption DEF SeenInv
<1> QED BY <1>3, <1>4, <1>5

\* What holds of a reader at every moment, whatever it has read so far.
THEOREM ReaderInvAlways == Spec => []ReaderInv
<1>1. ReaderInv /\ [Next]_vars => ReaderInv'
  BY SnapshotInvKept, WindowInvKept, CallInvKept, SeenInvKept DEF ReaderInv
<1> QED BY ReaderInit, <1>1, PTL DEF Spec

\* For any number of clients, runs, agents and faults, with a window of any
\* length: getVercelWorkflow shows no client an earlier state_seq of a run than
\* before, nor a live state after a terminal one, unless the window of the run
\* it was shown holds rejections alone.
THEOREM SeenNeverRegressesAlways == Spec => SeenNeverRegresses
<1>1. ASSUME ReaderInv, Next, NEW c \in Clients, seen'[c].run = seen[c].run
      PROVE  \/ /\ seen[c].snapshot.state_seq <= seen'[c].snapshot.state_seq
                /\ Terminal(seen[c].snapshot) => Terminal(seen'[c].snapshot)
             \/ seen[c].run # None /\ Flooded(seen[c].run)
  <2>0. /\ SnapshotInv /\ WindowInv /\ CallInv /\ SeenInv
        /\ [Next]_vars /\ seen'[c].run = seen[c].run
    BY <1>1 DEF ReaderInv
  <2>1. CASE seen'[c] = seen[c]
    <3>1. seen[c].snapshot \in Snapshots
      BY <2>0 DEF SeenInv
    <3> QED BY <2>1, <3>1, OrderFacts DEF NotLater
  <2>2. CASE ReadProjection(c) /\ seen'[c] = [run |-> call[c].run, snapshot |-> Shown(c)]
    <3>1. PICK r \in Runs : r = call[c].run /\ seen[c].run = r /\ At(c, "projection")
      <4>1. At(c, "projection") /\ call[c].run \in Runs
        BY <2>0, <2>2 DEF CallInv, ReadProjection
      <4>2. seen'[c].run = call[c].run
        BY <2>2
      <4> QED BY <2>0, <4>1, <4>2
    <3>2. Covered(seen[c].snapshot, call[c].status, snap[r], stream[r])
      BY <2>0, <3>1 DEF SeenInv
    <3>3. FloodedIn(stream[r]) \/ NotLater(seen[c].snapshot, Shown(c))
      BY <3>1, <3>2, ShownIs DEF Covered
    <3> QED BY <2>2, <3>1, <3>3, VercelAssumption DEF Flooded, FloodedIn, NotLater
  <2> QED BY <2>0, <2>1, <2>2, SeenChanges
<1>2. ReaderInv /\ [Next]_vars =>
        [\A c \in Clients :
           seen'[c].run = seen[c].run =>
             \/ /\ seen[c].snapshot.state_seq <= seen'[c].snapshot.state_seq
                /\ Terminal(seen[c].snapshot) => Terminal(seen'[c].snapshot)
             \/ seen[c].run # None /\ Flooded(seen[c].run)]_vars
  BY <1>1
<1> QED BY <1>2, ReaderInvAlways, PTL DEF Spec, SeenNeverRegresses
=============================================================================
