# Akashic Agent Operating Layer: TLA+ models and proofs

Akashic runs *agent tasks*: a client submits a task capsule, an agent works on
it in turns, may ask for more context and wait for it, and finally produces a
candidate artifact that is verified and adopted. Several backends run the same
task contract. The code is small; what is hard about it is that clients, a
durable workflow engine, activities that are retried, and files that several
processes write meet in orders no test runs through. This directory models
those meetings.

## The system

| Component | State it keeps | Operations | Talks to |
|---|---|---|---|
| **Temporal workflow** `workflows/temporal/src/workflows.js` | the snapshot, `pendingDelta`, `cancelRequested`, where the coroutine stands | updates `submitTask`, `applyContextDelta`, `requestCancel`; query; the main coroutine | activities (calls), the runner (updates) |
| **Temporal activities** `activities.js` | content-addressed objects, one ledger file and one lock file per effect key | `compileContext`, `runAgentTurn`, `mergeContextDelta`, `verifyCandidate`, `adoptArtifact` | the file system, the effect contract |
| **Effect contract** `packages/contracts/src/effects.js` | none (its caller stores the record) | `claimEffect`, `completeEffect`, `failEffect` | adopters of artifacts |
| **Task contract** `task-state.js` | none | `validateTransition`, `validateContextDelta` | Vercel backend; the Temporal and Cloudflare backends keep contracts of their own |
| **Temporal runner** `apps/temporal-runner/src` | none | `tasks/send`, `get`, `update`, `cancel` | the workflow, by Update-With-Start and Updates |
| **Cloudflare kernel** `deploy/cloudflare-kernel/src` | one stored snapshot with its event log per task | `/submit`, `/context`, `/transition`, `/cancel`, `/snapshot` | an external runner |
| **Vercel backend** `deploy/vercel-chatgpt-app/{workflows,lib}` | the run's snapshot, its projection stream, an owner hook and a context hook | start, get, context, cancel | Vercel Workflow (hooks, steps, streams) |
| **Drive adapter** `packages/drive-adapter/src` | files in Google Drive | put/find artifact, project a snapshot, publish an envelope, read changes | Drive, with retries |
| **Pure contracts** `policy.js`, `routing.js`, `sessions.js`, `mcp-tasks.js` | none | decisions | the gateway, the evaluations |
| **Eval flywheel** `packages/eval-flywheel/src` | none | validate, accept, run, grade cases | the pure contracts |
| **Codex-mode actions** `lib/codex-mode-gpt-actions.js` | none | snapshot of several files and refs | GitHub |
| Gateway routes, worker topology, Python tools, scripts, bake-off score | none | forwarding, start-up, one subprocess per request | |

What makes each correct, and what is hard about it:

* **Temporal workflow.** Two threads of control share one snapshot: the
  handlers, which run at once, and the coroutine, which runs between awaits.
  A terminal snapshot must stay what it is although the coroutine goes on; a
  delta must be accepted at most once and then really reach the agent; nothing
  may be adopted but what the report passed; no wait may outlive its reason.
* **adoptArtifact and the effect contract.** Attempts of one effect overlap
  (heartbeat timeout), die (leaving a claim and a lock file) and repeat. One
  adoption must come of it, and it must stay.
* **Cloudflare kernel.** A Durable Object is single-threaded but interleaves
  requests at awaits that are not storage operations. The stored log must stay
  one legal history.
* **Vercel backend.** Ownership of a task_id, acknowledgements given before the
  workflow has looked at a delta, a projection stream read through a window.
* **Drive adapter.** No compare-and-swap: find, read and write are three calls,
  and a call whose answer is lost is made again.
* **Codex-mode actions.** One answer is put together from reads made one after
  the other, of branches that others push to.
* **Acceptance probe** (`app/api/acceptance/vercel-p0/route.js`). A client with
  fixed expectations of a run that goes on by itself.

The full list, each at its line, is `hazards` in `PROJECT.json`.

## Modules

```
TaskLifecycle            the task contract, abstractly          TaskLifecycleProofs
  ^ refined by
TemporalWorkflow         one run of runAgentTaskWorkflow        MCTemporalWorkflow
                                                                TemporalWorkflowProofs
VercelWorkflow           the Vercel runs of one task
  ^ extended by
VercelBackend            start, get, context, cancel            MCVercelBackend
  ^ extended by                                                 VercelBackendProofs
VercelAcceptance         the live probe as the one client       MCVercelAcceptance

EffectLedger             the effect contract, one atomic record EffectLedgerProofs
  ^ refined by
AdoptArtifact            file, lock, attempts of adoptArtifact  MCAdoptArtifact
                                                                AdoptArtifactProofs

CloudflareKernel         the Durable Object of one task         MCCloudflareKernel
                                                                CloudflareKernelProofs

DriveAdapter             artifacts, projections, envelopes,     MCDriveAdapter
                         changes over one Drive                 DriveAdapterProofs

CodexModeActions         answers read from a moving repository  CodexModeActionsProofs
```

Each action carries the name of the handler or step it stands for, and `map` in
`PROJECT.json` gives the lines of every definition. Operators named `Bug...` are
mistakes the code could contain. No specification uses them; put in the place
of the definition after them, each makes one property fail.

### TaskLifecycle

`state`, `state_seq`, `context_seq` and the set of applied delta ids. `Move` is
`validateTransition`, `ApplyDelta` is what `validateContextDelta` lets through.
Two things are said that the table alone does not say: the wait for input ends
only with a delta or a terminal state, and a second turn of a task that is
WORKING already is counted (`BeginTurn`). The module's own two properties,
`TerminalAbsorbs` and `ContextSeqCountsDeltas`, hold of everything that refines
it.

### TemporalWorkflow

A workflow run is one JavaScript thread. The main coroutine executes from one
await to the next without interruption, so an action is such a stretch, and `pc`
names the await it stands at; each Update handler has no await, so it is one
action too. `call` holds the arguments of the awaited activity as they were
when it was called, because the snapshot may change under it. `adopted` is the
effect ledger's answer to "has this candidate been adopted"; `AdoptEffect` is
any attempt of any `adoptArtifact` ever scheduled, at any later time, so that an
attempt which outlives its timeout, or the run, is there.

`Transition` is the closure `transition`, with its early return on a terminal
snapshot; note that the stretches after an activity write some fields outside
it. A context is the sequence of deltas merged into it and a candidate is the
turn and the context it came from, which is what `ContextIsComplete` and
`AdoptedWasVerified` need to tell apart. The activities may answer anything
their callers provide for: the agent needs input, gives up, or returns no, one
or two candidates; the verifier passes a candidate or not.

### EffectLedger, AdoptArtifact

EffectLedger applies the three functions to one record, atomically, for any set
of owners. It is a specification to be implemented: what it promises is proved of
it and checked of the attempts. AdoptArtifact is the code that has to make it so: every await of
`withFileLock` and of the operation under it is a step of an attempt, and the
lock file, the ledger file and the object store outlive the attempt. What may
go wrong is an explicit set: `crash` (a worker dies at any await), `overlap`
(an attempt falls silent past its heartbeat timeout and the next one starts
beside it), `leak` (the lock file cannot be closed or removed), `stall` (a live
attempt holds its lock for longer than `staleMs`). File errors and lost answers
are always possible. A lock file gets old in two ways: its owner is gone, or it
stalls. `INSTANCE EffectLedger` maps the record to the file's `effect` field,
each owner's view to the claim it has written, and what it was told to the
adoption it is going to report.

### CloudflareKernel

`held[p]` is the snapshot request `p` has read and not used yet: `/context` and
`/transition` read it before they await the body. `/submit` reads its body
first and `/cancel` reads none, so each is one step (storage operations close
the input gate). `overlap` says whether clients wait for each other's answers.
A rejected request writes nothing, so it is its reading step followed by
`Reject`. The patch of a `/transition` is any object and is spread over the
snapshot. `Patches` are its effects on the fields the kernel reads again: state,
need and attempt, each replaced or `Kept`. The event is written over it
(`withEvent`), so a patch can bind the object to another attempt or take the
need away, and cannot touch state, seq or log. `attempt` stands for the task_id
and attempt_id a delta is compared with. The execution hash is left out, which
only words the answer to a second submit. `acked` is recorded where clients wait for
each other, the only case a property reads it in.

### VercelWorkflow

`runAgentTaskOnVercel` is deterministic between its steps, and the engine makes
a step again until its result is recorded. A crash of the process is therefore
invisible but for a step made twice, and an action is again a run going from
one await to the next. `snap[r]` is the workflow's variable `snapshot`,
`stream[r]` what a reader can still see of the run's projection stream,
`owner` and `hook[r]` who holds the tokens of the two hooks, `inbox[r]` what has
been resumed on the context hook and not been looked at. The step
`emitProjectionStep` is awaited at four places with four different handlers
around it, so it is four values of `pc`: the main line, after an accepted
delta, after a rejected one, and inside the outer catch. `Throw` is that catch.

`env` fixes what a behaviour may meet: the agent is the fixture of the
repository or any agent the workflow provides for, and `faults` names what may
happen to a step: it is made once more although it has written (`EmitAgain`),
an emission fails for good (`EmitFails`), another step does (`StepFails`).
`CancelRun` stops the coroutine where it stands, without its catch and its
finally; an emission that is in flight may still be written (`LateEmit`). When
a run ends, however it ends, the engine releases its hooks.

A compiled context is the sequence of deltas merged into it, and candidate,
report and adoption are the context they were made from. The normalisation of a
capsule and its digest are the capsule's identity.

### VercelBackend, VercelAcceptance

The four functions of `vercel-workflow-backend.js` are series of awaits, and
`call[c]` is the call client `c` has open, with what it has read so far.
`WaitForTaskOwner` and `ConfirmSubmission` poll: a poll that finds nothing
changes nothing, so each is one step, at the poll that finds something or at the
last one. `Shown` is what `getVercelWorkflow` makes of a status read first and a
projection or returned value read later; `seen[c]` is what `c` was shown last.
VercelAcceptance makes one client follow the stages of the probe; its limits on
polling are left out, so what is shown is that nothing but time makes it fail.

### DriveAdapter

Every request is an action. `withDriveRetry` gives a writing request four
outcomes: done and answered; refused, and the call throws; done, but the answer
is lost and the request made again; done, but the call throws. `unanswered`
collects the files to which one of the latter two happened. A projection is
stored under `Clipped[task_id]`, the first 120 characters, and looked up by the
whole task_id: a longer id finds nothing, an id of 120 characters finds the
files of longer ones. Files are kept in
the order of their creation, because that is what the adapter asks for when it
finds several. An artifact too large for one request is uploaded in a session,
which is opened anew when an upload is made again. The change log and one
observer, page by page, are part of the module: that the token moves only when
a reading is complete is a matter between pages and writers.

### CodexModeActions

The repository is a tree of commits; a push makes a new head, a force push goes
back first. `MaxProvider` bounds the commits of the provider branch, as
`MaxCommits` and `MaxTime` bound main and the clock. A call reads the state file, then the head, hand-off, manifest and
provider branch in any order, compares, and reads evidence; each read sees the
repository of its moment.

## Runs

| Run | Question | Instance | Result |
|---|---|---|---|
| `temporal` | Do coroutine and handlers agree, and is it the task contract? | 2 capsules, 3 deltas, 2 request ids (which the agent may use again), 3 rounds of input | holds, about 2,100 states |
| `temporal_cancel_first` | Does a terminal task stay terminal when the cancel comes before the submit? | the same, started by any client | violated: CANCELED, then SUBMITTED |
| `adopt` | Do file and lock implement the ledger, and is an effect done as if once? | 4 attempts; left-over locks, or overlap | holds, about 65,000 states |
| `adopt_stalls` | Does an adoption stay when an attempt outlives `staleMs`? | 2 attempts | violated |
| `kernel` | Is the stored log one legal history? | 2 slow requests beside submit and cancel, 2 attempts, 2 request ids, 6 patches, log cut at 3, 6 events | holds, about 14,400 states up to symmetry |
| `kernel_overlap` | Is a terminal task immutable when requests overlap? | the same | violated |
| `vercel_backend` | Does one run own a task, and is what clients read and send right, however calls and runs interleave? | 2 runs, 2 capsules, 2 deltas, a window of 2 events; 2 clients with 2 calls each and no fault, or 1 client with 4 calls, any agent and every fault | holds, about 490,000 states up to symmetry |
| `vercel_acceptance` | Does the live probe pass? | the probe, the fixture agent, steps made twice | holds, about 1,350 states |
| `vercel_stuck` | Does an accepted delta resume the agent? | 1 client, emissions may fail for good | violated |
| `drive` | Do artifacts, projections and changes survive lost answers and other callers? | 2 callers, 3 calls, 3 files, 1 lost answer, pages of 1 change; a task_id of 120 characters and a longer one that begins with it | holds, about 2.7 million states up to symmetry |
| `drive_race` | Does the state_seq of a projection only grow? | 2 projectors of one task, nothing lost | violated |
| `codex` | Does an answer contradict itself when branches move between its reads? | 3 commits of main, 2 of the provider branch, TTL 1 | holds, about 2.8 million states |

Why the bounds are enough. A run of the workflow touches a delta only through
its identity and its place in the sequence, so three deltas show a first, a
middle and a last one; two request ids show a repeated and a different need.
Four attempts show a claim, two takeovers and a replay, and a stale lock met by
two attempts. Three kept events show the cut with an event on either side of
it; six events in all reach every state from SUBMITTED through a wait, answered
or canceled, with the cut behind it. The patches are none, those that set
a need or take it away, and those that name an attempt and a state of their own. Two
requests in flight are enough for every pairwise race, the only kind there is
between a read and its write; each further one adds a reader of the same value.

Two runs are the owner and one that loses, or an earlier and a later owner; two
clients with two calls each are two racing starts, or a start and two
deltas for one need beside a cancel. Every fault needs one run only, since a run
touches another one through its hooks alone, so faults are checked with one and
with more calls. A window of two events stands for 128: two rejections fill it.
In the Drive a first file, its duplicate and a third one show every order that
"oldest" can go wrong in, and one lost answer every place where it is lost; the
two references with one digest but two media types are the conflict, and the
other digest is the large one. Three commits show a state file, the commit it
was reconciled with, and a push beside or after them.

The properties, by the question they answer:

* *What a client was told stays true*: `TerminalIsFinal`, `AdoptionIsStable`,
  `AckedEventsStay`, `TerminalIsImmutableInTurn`,
  `OneAdoptionReported`, `AcceptedRunIsMine`,
  `SeenNeverRegresses`, `RefsStayReadable`, `ProjectionGoesForward`.
* *Nothing wrong is adopted*: `AdoptedWasVerified`, `CompletedWasAdopted`,
  `AdoptionHasReceipt`, `EarlyCancelPreventsAdoption`,
  `CandidateUsesEveryDelta`.
* *Nothing accepted is lost*: `ContextIsComplete`, `AcceptedDeltaIsUsed`,
  `LogExplainsState`, `ObserverMissesNothing`.
* *Nobody interferes*: `MutualExclusion`, `FencedOffWritesNothing`,
  `OneRunWorks`, `ContextHookIsFree`, `InboxMatchesHook`,
  `AnswerIsCoherent`.
* *Nobody waits for ever*: `WaitIsAnswerable`, `CancelEndsRun`, `TaskProgresses`,
  `AppliedDeltaResumes`, `AcceptancePasses`.
* *The contracts are kept*: `ImplementsLifecycle` (of both backends),
  `ImplementsLedger`.

Some properties name an exception, and the model shows that it is needed and
that there is no other. `SeenNeverRegresses`: a window that holds nothing but
rejections (`vercel-workflow-projection.js:44`) shows a reader no snapshot at
all. `AcceptedRunIsMine`: a start that is answered before the owner has emitted
anything has nothing to compare its submission with. `RefsStayReadable`: when
the answer of the publishing update was lost, the publisher deletes a file that
another caller may have found and returned. `ProjectionGoesForward`: a write
to the very file, decided on content that was replaced since; `drive_race` shows
that the documents' own claim, `ProjectionIsMonotonic`, does not hold. `AnswerIsCoherent`: a force push
between two reads.

What `adopt` also shows is where its guarantee ends: with overlapping attempts
*and* left-over lock files at once, two attempts may both find one lock stale,
and the second `rm` removes the lock the first has just taken
(`activities.js:48`). The two kinds of fault are therefore checked apart.

### Fairness

`TemporalWorkflow`: `WF(Start)` and `WF(InputArrived)`, because Temporal
evaluates conditions after every activation and resumes the coroutine.
`WF(ActivityAnswers)`: an activity answers, or fails by its
`scheduleToCloseTimeout` (`workflows.js:6-27`). Nothing is assumed of clients,
and none of the agent: it may ask for input in every turn, up to `MaxTurns`, the
bound that makes a run finite here and that the code does not have.
`TaskProgresses` therefore allows waiting for a client.

`VercelBackend!FairSpec`, used by `vercel_stuck`, has weak fairness of the steps
of each run, which the engine makes until they are recorded; nothing is assumed
of clients and no fault is ever required to happen or to stop.
`VercelAcceptance!AcceptanceSpec` adds weak fairness of the probe, which
polls in a loop. In the other modules nothing must happen by itself: a request
is answered or fails, and its caller may be gone.

## Proofs

All of it holds for every value of the constants that meets the named
assumptions, which say no more than that `NULL` or `None` is none of the values
it stands beside, that bounds are numbers (positive where the code's are), and
that the switches are Booleans and the environments sets of faults. Five
theorems about `AdoptArtifact` assume `NeverBoth`, those about the effect
ledger `NullIsNoRecord` and two of them `LateFailures = FALSE`, which they name,
and the sections below say why;
`SubmitFirst`, for the workflow, is a constant its runs set, too.

Every safety property that a passing run checks is proved.

### The effect ledger (`EffectLedgerProofs`)

`TypeCorrect`, `GenerationHasOneOwner`, `FenceOnlyAdvances`; and, where no owner
fails an effect (`LateFailures = FALSE`), `EffectHappensOnce` and
`SuccessIsFinal`. Types and fence are not inductive by themselves: that an
owner's completion is accepted only for the generation on record says nothing
unless what the owner holds is a claim of a record that exists and is no newer
than it. That is `Fenced`. One result for everybody needs `ToldIsRecorded`: what
an owner was told is the result of the completed record, so a later owner can
only be told the same. With `LateFailures` the owner of a completed effect may
fail it and the next one does it again, which is why that theorem assumes it
away; no code calls `failEffect` today.

### The attempts of adoptArtifact (`AdoptArtifactProofs`)

Whatever goes wrong, in any combination (crashes, overlap, stalled and leaked
locks):

* `TypeCorrect`. That a receipt's generation is within the bound is not a
  question of types: `claimEffect` counts up, and the count stays within the
  number of attempts because each generation was taken by an attempt that has a
  claim (`CountInv`).
* `AdoptionHasReceiptAlways`, from `ReceiptInv`: the object is put before the
  entry that refers to it is written, and objects are only added.

Under `NeverBoth`: attempts overlap, or locks are left behind by dead attempts
or grow old in the hands of live ones, but not both. `adopt_stalls` shows a
stall beside an overlap break the ledger; a crash beside an overlap would, too,
because two attempts that find the same old lock may each remove one, the
second the lock the first has just made.

* `MutualExclusionAlways`, from `LockInv`, which is two arguments. Overlapping
  attempts never have an old lock before them, so the lock file is always that
  of the one attempt in the critical section (`LockIsHeld`). Otherwise an attempt
  begins when the earlier ones are over, and the lock does not matter
  (`OneAfterTheOther`).
* `AdoptionIsStableAlways` and `ImplementsLedgerAlways`, from `LedgerInv`: what
  an attempt has read under the lock is still what is on file when it writes
  (`NothingStale`). With that, the write of the claim is the contract's claim,
  the write of the completed entry its completion, and all else a stutter.
* `AllReportTheSame` and `FencedOffWritesNothingAlways` are theorems about the
  contract (`EffectHappensOnce`, `FenceOnlyAdvances`) carried over that
  refinement: attempts that report an adoption report the same one, and one that
  was taken over writes nothing over the record of the other.

### The task contract (`TaskLifecycleProofs`)

`TerminalIsAbsorbing` and `DeltasCounted`, for a task of any length with any
deltas. They are statements about every backend that implements the contract.

### The workflow (`TemporalWorkflowProofs`)

Every safety property the `temporal` run checks, and the refinement. The first
part says once what each action writes (`...Result`) and proves the types; the
arguments after that use those lemmas and not the definitions. An invariant is
a conjunction of what the coroutine relies on at the await it stands at, since
that is what a handler might disturb:

* `AdoptInv` (gives `OnlyVerifiedAdopted`, `EarlyCancelWins`). Before the agent
  has finished, nothing is scheduled; from then on candidates, turn and report
  are written only by the stretch that schedules the one adoption, whose input
  equals them for good. An attempt can then come as late as it likes.
* `CompleteInv` (gives `CompletedIsAdopted`). A coroutine past its first wait has
  its task, so no submit can come any more; only the return makes a task
  COMPLETED; no error is noted before the end, except by a cancel that the
  coroutine will see when it starts.
* `HasTask` (gives `ToldIsFinal`). This is where `SubmitFirst` is needed, and
  `temporal_cancel_first` shows it cannot be dropped.
* `LifecycleInv` (gives `WorkflowImplementsContract`). `transition()` never
  consults the table of legal moves. The moves are legal because at each await
  an open run is in one known state (two at the wait for input, before and
  after the delta), or terminal. From it, every action is shown to be a move of
  `TaskLifecycle`, a counted turn, an accepted delta, or a stutter.
* `ContextInv` (gives `ContextComplete`). What has been merged, plus what is on
  its way (the pending delta, or the one being merged), is what was accepted.
* `Asked` (gives `WaitAnswerable`). An open terminal run was canceled, and a run
  that waits without a delta has a need.

`Inductive` puts them together as `IInv`. `TerminalRunIsAbsorbed` and
`AcceptedDeltasAreCounted` are the two theorems about the contract, carried over
the refinement to the workflow's own snapshot.

### The Vercel backend (`VercelBackendProofs`)

For any number of runs and clients, any agent and every fault:

* `OneRunWorksAlways`. A run past the owner check holds the owner hook until it
  ends, and there is one.
* `InboxMatchesHookAlways`, `ContextHookIsFreeAlways`. A run has a context hook
  only at the awaits between its creation and its disposal (`HookWaits`), so no
  run but the owner has one; a client past the validation carries a delta that
  fits the token it has (`ClientInv`), and a payload reaches only the inbox
  whose hook has that token.
* `AcceptedRunIsMineAlways`. Whatever a stream holds is a snapshot of the task
  its run was started with (`TaskInv`), the window and the search for the latest
  snapshot lose nothing of that, and a client compares before it is answered
  (`AnswerInv`).

What the snapshots say rests on `SnapshotInv`. `Fits` relates the status of a run,
the await it stands at and its snapshot: which states the snapshot may be in
there (one, but for emissions and for the loop over the hook, which a failed
emission leaves WORKING), and how far the compiled context has been merged. Each
action is shown once to keep it and to make a snapshot that `Follows` the one
before (`Moves`, and `StepMoves` for the system); the rest uses that alone.

* `TypesKept`.
* `CandidateUsesEveryDeltaAlways`. From an accepted delta to its merge the context
  is exactly one delta behind, and the agent is not run there.
* `ImplementsLifecycleAlways`. As in the workflow, no table is consulted: the
  moves are legal because of where they are made from. A run the engine ends is
  a move to FAILED or CANCELED although its snapshot does not change.
* `SeenNeverRegressesAlways`, from `ReaderInv`. Every event of the window
  `Precedes` the run's own snapshot. A reader holds the status the run has or
  had while it ran, and shows the latest event, or the run's snapshot, with
  the state that status stands for. So what it has shown must be not later than
  all a reader may show next (`Covered`): than the latest event as of now, and
  than the run's own snapshot, since that is what the next emission puts there
  (`EmissionShows`). A full window drops its oldest event at an emission, and
  with it possibly the last snapshot; then it is `Flooded`, which the property
  excepts, until a snapshot is emitted again.

### The kernel (`CloudflareKernelProofs`)

Everything the `kernel` run checks, for any number of requests, any patches and any cap. `Patched`
says that a patch leaves a snapshot with its seq and log, and `Appended` what
the event then makes of it; the rest uses these two. A
request writes what it computed from a snapshot it read before, so all of
`LogInv` is said of every snapshot a request holds as well as of the stored one.
That neighbours in the log have consecutive numbers is not inductive under the
cut, which moves them; `Placed` counts back from the snapshot's own number.
`AckedEventsStay` and `TerminalIsImmutableInTurn` are about clients that wait
for each other, and rest on `TurnInv`: then there is one reader at most, and
what it holds is what is stored. The lemma `LastEvents` says what the cut
keeps.

### The Drive adapter (`DriveAdapterProofs`)

* `RefsStayReadableAlways`, `ProjectionGoesForwardAlways` from `DriveInv`: what
  files look like (`FileInv`), what an open call knows of the file it holds
  although others act on the Drive meanwhile (`CallInv`: a staged file is nobody
  else's until it is published), and what the returned references say
  (`RefInv`). A projection is the oldest file of its task, and a create can only
  add a younger one; the lemma `LeastExists` shows that there is an oldest one. That a
  file found under a task_id stays found under it when it is written for
  another, longer one rests on the key being clipped already (`KeyIsKept`).
* `ObserverMissesNothingAlways` from `ObserverInv`: an open reading has collected
  every change between the token and its cursor.

### The Codex-mode answers (`CodexModeActionsProofs`)

`AnswerIsCoherentAlways`, for any history and any number of reads and pushes.
`RepoInv` says that every commit of main has a state that was reconciled with an
ancestor of that commit and names attempts that were pushed before; this holds
after a force push, too. `ReadsFit` compares what a call has read with the
commit its state came from: without a force push each later read of main is a
descendant of it, by the lemmas about prefixes (`PrefixOrder`, `HistoryOfChild`).
What is read of the provider branch only grows.

### What is only model-checked

The liveness properties (`CancelEndsRun`, `AcceptedDeltaIsUsed`, `TaskProgresses`,
`AppliedDeltaResumes`, `AcceptancePasses`): they rest on fairness, and the prover
cannot reason about `ENABLED`. The other way round, `failEffect` and owners other
than attempts are covered by the proofs about `EffectLedger` alone. DriveAdapter and CodexModeActions have no type
invariant of their own; what matters of the shape of files and of calls is
`FileInv` and `ReadsFit`, which are proved.

## Where code and documents disagree

1. `temporal_cancel_first`: ADR-0007 says terminal tasks cannot reopen.
   `submitTask` writes SUBMITTED over a snapshot that a cancel has made CANCELED,
   when the cancel is the first update a run sees. The runner's Update-With-Start
   does not produce that order; a client of the workflow may, and the coroutine
   waits for either.
2. `adopt_stalls`: ADR-0006 relies on the ledger's fencing checks. The check in
   `adoptArtifact` compares the claim in memory with itself, so an attempt that
   lost its lock to the stale-lock rule replaces the adoption on record.
3. `kernel_overlap`: the kernel's tests state that terminal transitions are
   immutable. The check runs on a snapshot read before the body is awaited.
4. `vercel_stuck`: ADR-0009 says a valid delta resumes the attempt. The loop
   advances the snapshot before it emits it, inside a `try` whose handler is
   meant for invalid deltas (`run-agent-task.js:419-422`): when that emission
   fails for good, a rejection is reported for the accepted delta and the run
   waits on with a snapshot that is WORKING, which refuses every later delta.
5. `drive_race`: ADR-0006 lists projections with monotonically increasing
   `state_seq`, and a test says that a stale one is ignored. Find, read and write
   are three requests without a precondition: two projectors that have read the
   same state_seq write in either order. No race is needed for a task_id of more
   than 120 characters, of which 256 are allowed: the file is stored under 120 of
   them (`projections.js:52`) and looked up by them all (line 14), so every
   projection, a stale one too, becomes a file of its own. `drive_race` shows
   this as well when its cfg has `Projections <- OfLonger`, two files and one
   caller.

## Plan

Done: the reference backend, the effect ledger with its user, the kernel, the
Vercel runs with their API and probe, the Drive adapter and the Codex-mode
answers. What is left, in the order of its worth:

1. **Proofs**: the theorems about `TaskLifecycle` carried over to each run of
   the Vercel backend, as they are to the workflow.
2. **TaskStore**, a composition: runs of one task_id one after the other
   (workflow-id reuse) over one effect ledger.
3. **Contracts**: policy, routing, session recovery, MCP projection and graders
   as operators against reference definitions.

## Not modelled

Data checks of capsules, artifact references and provenance (their outcome is a
refused request, which changes nothing), formatting and hashing. Policy,
routing, sessions, the MCP projection and the evaluation flywheel are pure
functions of their arguments, which the repository's tests call directly; they
keep nothing between calls. The gateway's HTTP and MCP routes check a token and
forward one request to a function that is modelled. The Drive's authorised
client keeps no state. Of the Codex-mode answers the status card, the redaction
of secrets and the digest are left out, as functions of what was read.
Worker start-up, the orchestrator bake-off, the Python tools (a subprocess per
request), CI scripts, documents and schemas are left out, too. The replay of
ledger entries with the legacy schema `akashic.effect-ledger/v1` is left out:
no code of the repository writes them. `failEffect` is modelled, but nothing
calls it; `LateFailures` is the assumption its callers would have to keep.
