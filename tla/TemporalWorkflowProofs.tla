----------------------- MODULE TemporalWorkflowProofs -----------------------
(***************************************************************************)
(* Proofs of the types and the safety of a workflow run, and that it       *)
(* implements the task contract, for any tasks, deltas, request ids and    *)
(* bound on turns.                                                         *)
(*                                                                         *)
(* First what each step writes, as lemmas, and the types.  None of the     *)
(* properties is inductive.  TypeInv adds that an activity's arguments     *)
(* have their types at its own await; every other property is strengthened *)
(* by what the coroutine may rely on at the await it stands at, which      *)
(* handlers must not disturb: IInv, at the end, is all of it.  Whatever    *)
(* needs the task to be submitted before anything else says so:            *)
(* SubmitFirst.                                                            *)
(***************************************************************************)
EXTENDS TemporalWorkflow, TLAPS


\* A transition is to a snapshot.
LEMMA TransitionType ==
  ASSUME NEW s \in Snapshots, NEW to \in LifecycleStates, NEW patched \in Snapshots
  PROVE  Transition(s, to, patched) \in Snapshots
<1>1. patched.state_seq + 1 \in Nat /\ isTerminal(to) \in BOOLEAN
  BY DEF Snapshots, isTerminal
<1>2. \A b \in BOOLEAN, n \in Nat :
        [patched EXCEPT !.state = to, !.terminal = b, !.state_seq = n] \in Snapshots
  BY DEF Snapshots
<1>3. [patched EXCEPT !.state = to, !.terminal = isTerminal(to), !.state_seq = @ + 1] \in Snapshots
  BY <1>1, <1>2
<1>. QED
  BY <1>3 DEF Transition

\* From a state that is not terminal, transition() takes the new state, counts,
\* and keeps the rest of the patched snapshot.
LEMMA TransitionMoves ==
  ASSUME NEW s, NEW to \in LifecycleStates, NEW patched \in Snapshots,
         ~isTerminal(s.state)
  PROVE  LET t == Transition(s, to, patched)
         IN  /\ t.state = to
             /\ t.state_seq = patched.state_seq + 1
             /\ t.task = patched.task
             /\ t.context_seq = patched.context_seq
             /\ t.turn_no = patched.turn_no
             /\ t.context_need = patched.context_need
             /\ t.compiled_context_ref = patched.compiled_context_ref
             /\ t.candidate_artifact_refs = patched.candidate_artifact_refs
             /\ t.verification_report_ref = patched.verification_report_ref
             /\ t.adoption_ref = patched.adoption_ref
             /\ t.applied_delta_ids = patched.applied_delta_ids
             /\ t.error = patched.error
<1>1. Transition(s, to, patched) = [patched EXCEPT !.state = to, !.terminal = isTerminal(to), !.state_seq = @ + 1]
  BY DEF Transition
<1>. QED
  BY <1>1 DEF Snapshots

\* From a terminal state it does nothing: the patch is dropped too.
LEMMA TransitionStays ==
  ASSUME NEW s, NEW to, NEW patched, isTerminal(s.state)
  PROVE  Transition(s, to, patched) = s
BY DEF Transition

\* The arguments of an activity are the snapshot's fields at the call.
LEMMA CallType ==
  ASSUME NEW s \in Snapshots, NEW delta \in DeltaIds \cup {NULL}
  PROVE  /\ Call(s, delta) \in Calls
         /\ Call(s, delta).turn_no = s.turn_no
         /\ Call(s, delta).compiled = s.compiled_context_ref
         /\ Call(s, delta).delta = delta
         /\ Call(s, delta).candidates = s.candidate_artifact_refs
         /\ Call(s, delta).report = s.verification_report_ref
BY DEF Call, Calls, Snapshots

\* Ending without a result leaves the work of the run alone.
SameWork(s, t) ==
  /\ t.task = s.task
  /\ t.context_seq = s.context_seq
  /\ t.turn_no = s.turn_no
  /\ t.context_need = s.context_need
  /\ t.compiled_context_ref = s.compiled_context_ref
  /\ t.candidate_artifact_refs = s.candidate_artifact_refs
  /\ t.verification_report_ref = s.verification_report_ref
  /\ t.adoption_ref = s.adoption_ref
  /\ t.applied_delta_ids = s.applied_delta_ids

\* A run that ends without a result keeps its work, and what is terminal already
\* stays as it is.
LEMMA EndKeepsWork ==
  ASSUME NEW s \in Snapshots, NEW to \in {"FAILED", "CANCELED"}, NEW code \in Errors
  PROVE  LET t == Transition(s, to, [s EXCEPT !.error = code])
         IN  /\ t \in Snapshots
             /\ SameWork(s, t)
             /\ isTerminal(t.state)
             /\ isTerminal(s.state) => t = s
<1>1. /\ [s EXCEPT !.error = code] \in Snapshots
      /\ SameWork(s, [s EXCEPT !.error = code])
  BY DEF Snapshots, SameWork
<1>2. to \in LifecycleStates /\ isTerminal(to)
  BY DEF LifecycleStates, isTerminal
<1>3. CASE isTerminal(s.state)
  <2>1. Transition(s, to, [s EXCEPT !.error = code]) = s
    BY <1>3, TransitionStays
  <2>. QED
    BY <2>1, <1>3 DEF SameWork
<1>4. CASE ~isTerminal(s.state)
  <2>1. Transition(s, to, [s EXCEPT !.error = code]) \in Snapshots
    BY <1>1, <1>2, TransitionType
  <2>a. ASSUME NEW p \in Snapshots
        PROVE  SameWork(p, Transition(s, to, p)) /\ Transition(s, to, p).state = to
    BY <1>2, <1>4, TransitionMoves DEF SameWork
  <2>2. /\ SameWork([s EXCEPT !.error = code], Transition(s, to, [s EXCEPT !.error = code]))
        /\ Transition(s, to, [s EXCEPT !.error = code]).state = to
    BY <1>1, <2>a
  <2>. QED
    BY <1>1, <1>2, <1>4, <2>1, <2>2 DEF SameWork
<1>. QED
  BY <1>3, <1>4

\* The same for the end by a failure,
LEMMA FailKeepsWork ==
  ASSUME NEW s \in Snapshots, NEW code \in Errors
  PROVE  /\ Fail(s, code) \in Snapshots
         /\ SameWork(s, Fail(s, code))
         /\ isTerminal(Fail(s, code).state)
         /\ isTerminal(s.state) => Fail(s, code) = s
BY EndKeepsWork DEF Fail

\* Such an end leads to the state it names.
LEMMA EndMoves ==
  ASSUME NEW s \in Snapshots, NEW to \in {"FAILED", "CANCELED"}, NEW code \in Errors,
         ~isTerminal(s.state)
  PROVE  Transition(s, to, [s EXCEPT !.error = code]).state = to
<1>1. [s EXCEPT !.error = code] \in Snapshots /\ to \in LifecycleStates
  BY DEF Snapshots, LifecycleStates
<1>2. ASSUME NEW p \in Snapshots PROVE Transition(s, to, p).state = to
  BY <1>1, TransitionMoves
<1>. QED
  BY <1>1, <1>2

\* A run that fails is FAILED,
LEMMA FailMoves ==
  ASSUME NEW s \in Snapshots, NEW code \in Errors, ~isTerminal(s.state)
  PROVE  Fail(s, code).state = "FAILED"
BY EndMoves DEF Fail

\* The same for the end by a cancel.
LEMMA CancelKeepsWork ==
  ASSUME snapshot \in Snapshots, NEW code \in Errors
  PROVE  /\ Cancel(code) \in Snapshots
         /\ SameWork(snapshot, Cancel(code))
         /\ isTerminal(Cancel(code).state)
         /\ isTerminal(snapshot.state) => Cancel(code) = snapshot
BY EndKeepsWork DEF Cancel

\* and none that ends without a result is COMPLETED by that.
LEMMA FailState ==
  ASSUME NEW s \in Snapshots, NEW code \in Errors
  PROVE  Fail(s, code).state # "COMPLETED" \/ Fail(s, code) = s
BY FailMoves, FailKeepsWork

\* The same for a cancel.
LEMMA CancelState ==
  ASSUME snapshot \in Snapshots, NEW code \in Errors
  PROVE  Cancel(code).state # "COMPLETED" \/ Cancel(code) = snapshot
BY EndMoves, CancelKeepsWork DEF Cancel

-----------------------------------------------------------------------------
(* Types.                                                                  *)

TypeInv ==
  /\ TypeOK
  /\ pc \in {"runAgentTurn", "mergeContextDelta"} => call.compiled \in Contexts
  /\ pc = "mergeContextDelta" => call.delta \in DeltaIds
  /\ pc \in {"runAgentTurn", "awaitInput"} => snapshot.compiled_context_ref \in Contexts

\* The initial state is typed.
LEMMA TypeInit == Init => TypeInv
<1>. SUFFICES ASSUME Init PROVE TypeInv
  OBVIOUS
<1>1. initialSnapshot \in Snapshots
  BY DEF initialSnapshot, Snapshots, LifecycleStates
<1>2. call \in Calls
  BY <1>1, CallType DEF Init
<1>. QED
  BY <1>1, <1>2 DEF Init, TypeInv, TypeOK, Awaits

\* Accepting a task keeps the types.
LEMMA SubmitType ==
  ASSUME TypeInv, NEW task \in Tasks, SubmitTask(task)
  PROVE  TypeInv' /\ snapshot'.compiled_context_ref = snapshot.compiled_context_ref
<1>1. snapshot' \in Snapshots /\ snapshot'.compiled_context_ref = snapshot.compiled_context_ref
  <2>1. /\ snapshot \in Snapshots
        /\ snapshot' = [snapshot EXCEPT !.task = task, !.state = "SUBMITTED", !.state_seq = 1]
    BY DEF TypeInv, TypeOK, SubmitTask
  <2>2. task \in Tasks \cup {NULL} /\ "SUBMITTED" \in LifecycleStates /\ 1 \in Nat
    BY DEF LifecycleStates
  <2>. QED
    BY <2>1, <2>2 DEF Snapshots
<1>. QED
  BY <1>1 DEF TypeInv, TypeOK, SubmitTask

\* What acceptance of a delta writes.
LEMMA ApplyResult ==
  ASSUME snapshot \in Snapshots, NEW delta, delta.delta_id \in DeltaIds,
         ApplyContextDelta(delta)
  PROVE  /\ snapshot' \in Snapshots
         /\ snapshot'.task = snapshot.task
         /\ snapshot'.state = "WORKING"
         /\ snapshot'.turn_no = snapshot.turn_no
         /\ snapshot'.compiled_context_ref = snapshot.compiled_context_ref
         /\ snapshot'.candidate_artifact_refs = snapshot.candidate_artifact_refs
         /\ snapshot'.verification_report_ref = snapshot.verification_report_ref
         /\ snapshot'.adoption_ref = snapshot.adoption_ref
         /\ snapshot'.error = snapshot.error
<1>1. /\ snapshot.state_seq + 1 \in Nat
      /\ snapshot.context_seq + 1 \in Nat
      /\ Append(snapshot.applied_delta_ids, delta.delta_id) \in Seq(DeltaIds)
  BY DEF Snapshots
<1>2. PICK n \in Nat, m \in Nat, q \in Seq(DeltaIds) :
        snapshot' = [snapshot EXCEPT !.state = "WORKING", !.state_seq = n, !.context_seq = m,
                                     !.context_need = NULL, !.applied_delta_ids = q]
  BY <1>1 DEF ApplyContextDelta
<1>. QED
  BY <1>2 DEF Snapshots, LifecycleStates

\* Acceptance of a delta counts it and appends its id.
LEMMA ApplyCounts ==
  ASSUME snapshot \in Snapshots, NEW delta, delta.delta_id \in DeltaIds,
         ApplyContextDelta(delta)
  PROVE  /\ snapshot'.state = "WORKING"
         /\ snapshot'.state_seq = snapshot.state_seq + 1
         /\ snapshot'.context_seq = snapshot.context_seq + 1
         /\ snapshot'.applied_delta_ids = Append(snapshot.applied_delta_ids, delta.delta_id)
<1>1. /\ snapshot.state_seq + 1 \in Nat
      /\ snapshot.context_seq + 1 \in Nat
      /\ Append(snapshot.applied_delta_ids, delta.delta_id) \in Seq(DeltaIds)
  BY DEF Snapshots
<1>2. PICK n \in Nat, m \in Nat, q \in Seq(DeltaIds) :
        /\ n = snapshot.state_seq + 1
        /\ m = snapshot.context_seq + 1
        /\ q = Append(snapshot.applied_delta_ids, delta.delta_id)
        /\ snapshot' = [snapshot EXCEPT !.state = "WORKING", !.state_seq = n, !.context_seq = m,
                                        !.context_need = NULL, !.applied_delta_ids = q]
  BY <1>1 DEF ApplyContextDelta
<1>. QED
  BY <1>2 DEF Snapshots

\* Accepting a delta keeps the types.
LEMMA ApplyType ==
  ASSUME TypeInv, NEW delta, delta.delta_id \in DeltaIds, ApplyContextDelta(delta)
  PROVE  TypeInv'
<1>1. /\ snapshot' \in Snapshots
      /\ snapshot'.compiled_context_ref = snapshot.compiled_context_ref
  BY ApplyResult DEF TypeInv, TypeOK
<1>. QED
  BY <1>1 DEF TypeInv, TypeOK, ApplyContextDelta

\* So does a cancel request,
LEMMA CancelType ==
  ASSUME TypeInv, RequestCancel
  PROVE  TypeInv'
<1>1. /\ snapshot' \in Snapshots
      /\ snapshot'.compiled_context_ref = snapshot.compiled_context_ref
  BY CancelKeepsWork DEF TypeInv, TypeOK, RequestCancel, SameWork, Errors
<1>. QED
  BY <1>1 DEF TypeInv, TypeOK, RequestCancel

\* What the start of the coroutine writes.
LEMMA StartResult ==
  ASSUME snapshot \in Snapshots, Start
  PROVE  /\ snapshot' \in Snapshots
         /\ SameWork(snapshot, snapshot')
         /\ snapshot'.error = snapshot.error
         /\ \/ pc' = "returned" /\ call' = call /\ snapshot' = snapshot
            \/ pc' = "compileContext" /\ call' \in Calls
         /\ isTerminal(snapshot.state) => snapshot' = snapshot
         /\ ~isTerminal(snapshot.state) => ~isTerminal(snapshot'.state)
<1>1. CASE cancelRequested
  BY <1>1 DEF Start, Return, SameWork
<1>2. CASE ~cancelRequested
  <2>1. /\ snapshot' = Transition(snapshot, "COMPILING_CONTEXT", snapshot)
        /\ pc' = "compileContext"
        /\ call' = Call(snapshot', NULL)
    BY <1>2 DEF Start, Schedule
  <2>2. snapshot' \in Snapshots
    BY <2>1, TransitionType DEF LifecycleStates
  <2>3. call' \in Calls
    BY <2>1, <2>2, CallType
  <2>4. CASE isTerminal(snapshot.state)
    <3>1. snapshot' = snapshot
      BY <2>1, <2>4, TransitionStays
    <3>. QED
      BY <2>1, <2>2, <2>3, <2>4, <3>1 DEF SameWork
  <2>5. CASE ~isTerminal(snapshot.state)
    <3>1. "COMPILING_CONTEXT" \in LifecycleStates /\ ~isTerminal("COMPILING_CONTEXT")
      BY DEF LifecycleStates, isTerminal
    <3>2. /\ SameWork(snapshot, snapshot')
          /\ snapshot'.error = snapshot.error
          /\ snapshot'.state = "COMPILING_CONTEXT"
      BY <2>1, <2>5, <3>1, TransitionMoves DEF SameWork
    <3>. QED
      BY <2>1, <2>2, <2>3, <2>5, <3>1, <3>2
  <2>. QED
    BY <2>4, <2>5
<1>. QED
  BY <1>1, <1>2

\* and the start of the coroutine.
LEMMA StartType ==
  ASSUME TypeInv, Start
  PROVE  TypeInv'
<1>1. /\ snapshot' \in Snapshots
      /\ call' \in Calls
      /\ pc' \in {"returned", "compileContext"}
  BY StartResult DEF TypeInv, TypeOK
<1>. QED
  BY <1>1 DEF TypeInv, TypeOK, Awaits, Activities, Start

\* What the head of the loop writes.
LEMMA NextTurnResult ==
  ASSUME snapshot \in Snapshots, NEW compiled \in Contexts, NextTurn(compiled)
  PROVE  /\ snapshot' \in Snapshots
         /\ snapshot'.task = snapshot.task
         /\ snapshot'.applied_delta_ids = snapshot.applied_delta_ids
         /\ snapshot'.compiled_context_ref = compiled
         /\ snapshot'.candidate_artifact_refs = snapshot.candidate_artifact_refs
         /\ snapshot'.verification_report_ref = snapshot.verification_report_ref
         /\ snapshot'.adoption_ref = snapshot.adoption_ref
         /\ snapshot'.error = snapshot.error
         /\ \/ pc' = "returned" /\ call' = call
            \/ pc' = "runAgentTurn" /\ call' = Call(snapshot', NULL)
         /\ isTerminal(snapshot.state) =>
              snapshot'.state = snapshot.state /\ snapshot'.state_seq = snapshot.state_seq
         /\ ~isTerminal(snapshot.state) => ~isTerminal(snapshot'.state)
<1>. DEFINE s == [snapshot EXCEPT !.compiled_context_ref = compiled]
<1>1. /\ s \in Snapshots
      /\ s.task = snapshot.task
      /\ s.applied_delta_ids = snapshot.applied_delta_ids
      /\ s.state = snapshot.state
      /\ s.state_seq = snapshot.state_seq
      /\ s.turn_no = snapshot.turn_no
      /\ s.compiled_context_ref = compiled
      /\ s.candidate_artifact_refs = snapshot.candidate_artifact_refs
      /\ s.verification_report_ref = snapshot.verification_report_ref
      /\ s.adoption_ref = snapshot.adoption_ref
      /\ s.error = snapshot.error
  BY DEF Snapshots
<1>2. CASE cancelRequested
  <2>1. snapshot' = s /\ pc' = "returned" /\ call' = call
    BY <1>2 DEF NextTurn, Return
  <2>. QED
    BY <1>1, <2>1
<1>3. CASE ~cancelRequested
  <2>1. /\ snapshot' = Transition(s, "WORKING", [s EXCEPT !.turn_no = @ + 1])
        /\ pc' = "runAgentTurn"
        /\ call' = Call(snapshot', NULL)
    BY <1>3 DEF NextTurn, Schedule
  <2>. HIDE DEF s
  <2>2. s.turn_no + 1 \in Nat
    BY <1>1 DEF Snapshots
  <2>3. PICK n \in Nat : snapshot' = Transition(s, "WORKING", [s EXCEPT !.turn_no = n])
    BY <2>1, <2>2
  <2>. DEFINE q == [s EXCEPT !.turn_no = n]
  <2>4. /\ q \in Snapshots
        /\ q.task = s.task
        /\ q.applied_delta_ids = s.applied_delta_ids
        /\ q.compiled_context_ref = s.compiled_context_ref
        /\ q.candidate_artifact_refs = s.candidate_artifact_refs
        /\ q.verification_report_ref = s.verification_report_ref
        /\ q.adoption_ref = s.adoption_ref
        /\ q.error = s.error
    BY <1>1 DEF Snapshots
  <2>5. snapshot' = Transition(s, "WORKING", q)
    BY <2>3
  <2>6. "WORKING" \in LifecycleStates /\ ~isTerminal("WORKING")
    BY DEF LifecycleStates, isTerminal
  <2>. HIDE DEF q
  <2>7. snapshot' \in Snapshots
    BY <1>1, <2>4, <2>5, <2>6, TransitionType
  <2>8. CASE isTerminal(snapshot.state)
    <3>1. snapshot' = s
      BY <1>1, <2>5, <2>8, TransitionStays
    <3>. QED
      BY <1>1, <2>1, <2>7, <2>8, <3>1
  <2>9. CASE ~isTerminal(snapshot.state)
    <3>1. ~isTerminal(s.state)
      BY <1>1, <2>9
    <3>2. /\ snapshot'.state = "WORKING"
          /\ snapshot'.task = q.task
          /\ snapshot'.applied_delta_ids = q.applied_delta_ids
          /\ snapshot'.compiled_context_ref = q.compiled_context_ref
          /\ snapshot'.candidate_artifact_refs = q.candidate_artifact_refs
          /\ snapshot'.verification_report_ref = q.verification_report_ref
          /\ snapshot'.adoption_ref = q.adoption_ref
          /\ snapshot'.error = q.error
      BY <2>4, <2>5, <2>6, <3>1, TransitionMoves
    <3>. QED
      BY <1>1, <2>1, <2>4, <2>6, <2>7, <2>9, <3>2
  <2>. QED
    BY <2>8, <2>9
<1>. QED
  BY <1>2, <1>3

\* The head of the loop keeps the types: the new context is a context.
LEMMA NextTurnType ==
  ASSUME TypeInv, NEW compiled \in Contexts, NextTurn(compiled),
         UNCHANGED <<pendingDelta, cancelRequested, scheduled, adopted>>
  PROVE  TypeInv'
<1>1. /\ snapshot' \in Snapshots
      /\ snapshot'.compiled_context_ref = compiled
      /\ \/ pc' = "returned" /\ call' = call
         \/ pc' = "runAgentTurn" /\ call' = Call(snapshot', NULL)
  BY NextTurnResult DEF TypeInv, TypeOK
<1>2. CASE pc' = "returned" /\ call' = call
  BY <1>1, <1>2 DEF TypeInv, TypeOK, Awaits
<1>3. CASE pc' = "runAgentTurn" /\ call' = Call(snapshot', NULL)
  <2>1. call' \in Calls /\ call'.compiled = compiled
    BY <1>1, <1>3, CallType
  <2>. QED
    BY <1>1, <1>3, <2>1 DEF TypeInv, TypeOK, Awaits, Activities
<1>. QED
  BY <1>1, <1>2, <1>3

\* It is, for the first turn,
LEMMA CompiledType ==
  ASSUME TypeInv, ContextCompiled
  PROVE  TypeInv'
<1>1. <<>> \in Contexts
  BY DEF Contexts
<1>. QED
  BY <1>1, NextTurnType DEF ContextCompiled

\* and for a turn after a delta.
LEMMA MergedType ==
  ASSUME TypeInv, ContextMerged
  PROVE  TypeInv'
<1>1. Append(call.compiled, call.delta) \in Contexts
  BY DEF TypeInv, ContextMerged, Contexts
<1>. QED
  BY <1>1, NextTurnType DEF ContextMerged

\* What the coroutine writes when the agent needs input.
LEMMA NeedsInputResult ==
  ASSUME snapshot \in Snapshots, NEW request_id \in RequestIds, TurnNeedsInput(request_id)
  PROVE  /\ snapshot' \in Snapshots
         /\ snapshot'.task = snapshot.task
         /\ snapshot'.applied_delta_ids = snapshot.applied_delta_ids
         /\ snapshot'.turn_no = snapshot.turn_no
         /\ snapshot'.compiled_context_ref = snapshot.compiled_context_ref
         /\ snapshot'.candidate_artifact_refs = snapshot.candidate_artifact_refs
         /\ snapshot'.verification_report_ref = snapshot.verification_report_ref
         /\ snapshot'.adoption_ref = snapshot.adoption_ref
         /\ snapshot'.error = snapshot.error
         /\ isTerminal(snapshot.state) => snapshot' = snapshot
         /\ ~isTerminal(snapshot.state) =>
              ~isTerminal(snapshot'.state) /\ snapshot'.context_need = request_id
<1>. DEFINE p == [snapshot EXCEPT !.context_need = request_id]
<1>1. /\ p \in Snapshots
      /\ p.task = snapshot.task
      /\ p.applied_delta_ids = snapshot.applied_delta_ids
      /\ p.turn_no = snapshot.turn_no
      /\ p.compiled_context_ref = snapshot.compiled_context_ref
      /\ p.candidate_artifact_refs = snapshot.candidate_artifact_refs
      /\ p.verification_report_ref = snapshot.verification_report_ref
      /\ p.adoption_ref = snapshot.adoption_ref
      /\ p.context_need = request_id
      /\ p.error = snapshot.error
  BY DEF Snapshots
<1>2. snapshot' = Transition(snapshot, "INPUT_REQUIRED", p)
  BY DEF TurnNeedsInput
<1>. HIDE DEF p
<1>3. "INPUT_REQUIRED" \in LifecycleStates /\ ~isTerminal("INPUT_REQUIRED")
  BY DEF LifecycleStates, isTerminal
<1>4. CASE isTerminal(snapshot.state)
  BY <1>2, <1>4, TransitionStays
<1>5. CASE ~isTerminal(snapshot.state)
  <2>1. snapshot' \in Snapshots
    BY <1>1, <1>2, <1>3, TransitionType
  <2>2. /\ snapshot'.state = "INPUT_REQUIRED"
        /\ snapshot'.task = p.task
        /\ snapshot'.applied_delta_ids = p.applied_delta_ids
        /\ snapshot'.turn_no = p.turn_no
        /\ snapshot'.compiled_context_ref = p.compiled_context_ref
        /\ snapshot'.candidate_artifact_refs = p.candidate_artifact_refs
        /\ snapshot'.verification_report_ref = p.verification_report_ref
        /\ snapshot'.adoption_ref = p.adoption_ref
        /\ snapshot'.context_need = p.context_need
        /\ snapshot'.error = p.error
    BY <1>1, <1>2, <1>3, <1>5, TransitionMoves
  <2>. QED
    BY <1>1, <1>3, <1>5, <2>1, <2>2
<1>. QED
  BY <1>4, <1>5

\* The wait for input has a context to merge into.
LEMMA NeedsInputType ==
  ASSUME TypeInv, NEW request_id \in RequestIds, TurnNeedsInput(request_id)
  PROVE  TypeInv'
<1>1. /\ snapshot' \in Snapshots
      /\ snapshot'.compiled_context_ref = snapshot.compiled_context_ref
  BY NeedsInputResult DEF TypeInv, TypeOK
<1>. QED
  BY <1>1 DEF TypeInv, TypeOK, TurnNeedsInput, Awaits

\* The candidates of a completed turn.
Outputs(turn, context, count) ==
  [i \in 1 .. count |-> [turn |-> turn, context |-> context, n |-> i]]

\* They are candidates of the turn, with the context of the turn.
LEMMA OutputsType ==
  ASSUME NEW turn \in Nat, NEW context \in Contexts, NEW count \in 1 .. 2
  PROVE  LET outputs == Outputs(turn, context, count)
         IN  /\ outputs \in Seq(Candidates)
             /\ outputs # <<>>
             /\ outputs[1].turn = turn
             /\ \A i \in 1 .. Len(outputs) : outputs[i].context = context
<1>. DEFINE outputs == [i \in 1 .. count |-> [turn |-> turn, context |-> context, n |-> i]]
<1>1. \A i \in 1 .. count : [turn |-> turn, context |-> context, n |-> i] \in Candidates
  BY DEF Candidates
<1>2. outputs \in [1 .. count -> Candidates]
  BY <1>1
<1>3. count \in Nat /\ 1 \in 1 .. count
  OBVIOUS
<1>4. outputs \in Seq(Candidates)
  BY <1>2, <1>3
<1>5. outputs[1].turn = turn /\ \A i \in 1 .. count : outputs[i].context = context
  BY <1>3
<1>7. Len(outputs) = count
  BY <1>2, <1>3
<1>6. outputs # <<>>
  <2>1. DOMAIN outputs # DOMAIN <<>>
    BY <1>3
  <2>. QED
    BY <2>1
<1>8. Outputs(turn, context, count) = outputs
  BY DEF Outputs
<1>. HIDE DEF outputs
<1>. QED
  BY <1>4, <1>5, <1>6, <1>7, <1>8

\* What the coroutine writes when the agent has finished.
LEMMA CompletedResult ==
  ASSUME TypeInv, NEW count \in 0 .. 2, TurnCompleted(count)
  PROVE  /\ snapshot' \in Snapshots
         /\ snapshot'.task = snapshot.task
         /\ snapshot'.applied_delta_ids = snapshot.applied_delta_ids
         /\ snapshot'.turn_no = snapshot.turn_no
         /\ snapshot'.verification_report_ref = snapshot.verification_report_ref
         /\ snapshot'.adoption_ref = snapshot.adoption_ref
         /\ isTerminal(snapshot.state) => snapshot' = snapshot
         /\ \/ /\ pc' = "returned" /\ call' = call
               /\ snapshot'.candidate_artifact_refs = snapshot.candidate_artifact_refs
               /\ snapshot'.state # "COMPLETED" \/ snapshot' = snapshot
            \/ /\ pc' = "verifyCandidate" /\ call' = Call(snapshot', NULL)
               /\ ~isTerminal(snapshot.state) =>
                    /\ ~isTerminal(snapshot'.state)
                    /\ snapshot'.candidate_artifact_refs # <<>>
                    /\ snapshot'.candidate_artifact_refs[1].turn = call.turn_no
                    /\ \A i \in 1 .. Len(snapshot'.candidate_artifact_refs) :
                         snapshot'.candidate_artifact_refs[i].context = call.compiled
                    /\ snapshot'.error = snapshot.error
<1>0. snapshot \in Snapshots /\ pc = "runAgentTurn"
  BY DEF TypeInv, TypeOK, TurnCompleted
<1>1. CASE count = 0
  <2>1. /\ snapshot' = Fail(snapshot, "WORKFLOW_FAILED")
        /\ pc' = "returned" /\ call' = call
    BY <1>1 DEF TurnCompleted, Return
  <2>2. /\ snapshot' \in Snapshots
        /\ SameWork(snapshot, snapshot')
        /\ isTerminal(snapshot.state) => snapshot' = snapshot
    BY <1>0, <2>1, FailKeepsWork DEF Errors
  <2>3. snapshot'.state # "COMPLETED" \/ snapshot' = snapshot
    BY <1>0, <2>1, FailState DEF Errors
  <2>. QED
    BY <2>1, <2>2, <2>3 DEF SameWork
<1>2. CASE count \in 1 .. 2
  <2>. DEFINE outputs == Outputs(call.turn_no, call.compiled, count)
              p == [snapshot EXCEPT !.candidate_artifact_refs = outputs]
  <2>1. /\ outputs \in Seq(Candidates)
        /\ outputs # <<>>
        /\ outputs[1].turn = call.turn_no
        /\ \A i \in 1 .. Len(outputs) : outputs[i].context = call.compiled
    <3>1. call.turn_no \in Nat /\ call.compiled \in Contexts
      BY <1>0 DEF TypeInv, TypeOK, Calls
    <3>. QED
      BY <1>2, <3>1, OutputsType
  <2>2. /\ snapshot' = Transition(snapshot, "VERIFYING", p)
        /\ pc' = "verifyCandidate" /\ call' = Call(snapshot', NULL)
    <3>1. count # 0
      BY <1>2
    <3>. QED
      BY <3>1 DEF TurnCompleted, Schedule, Outputs
  <2>. HIDE DEF outputs
  <2>3. /\ p \in Snapshots
        /\ p.task = snapshot.task
        /\ p.applied_delta_ids = snapshot.applied_delta_ids
        /\ p.turn_no = snapshot.turn_no
        /\ p.candidate_artifact_refs = outputs
        /\ p.verification_report_ref = snapshot.verification_report_ref
        /\ p.adoption_ref = snapshot.adoption_ref
        /\ p.error = snapshot.error
    BY <1>0, <2>1 DEF Snapshots
  <2>. HIDE DEF p
  <2>4. "VERIFYING" \in LifecycleStates /\ ~isTerminal("VERIFYING")
    BY DEF LifecycleStates, isTerminal
  <2>5. CASE isTerminal(snapshot.state)
    <3>1. snapshot' = snapshot
      BY <2>2, <2>5, TransitionStays
    <3>. QED
      BY <1>0, <2>2, <2>5, <3>1
  <2>6. CASE ~isTerminal(snapshot.state)
    <3>1. snapshot' \in Snapshots
      BY <1>0, <2>2, <2>3, <2>4, TransitionType
    <3>2. /\ snapshot'.state = "VERIFYING"
          /\ snapshot'.task = p.task
          /\ snapshot'.applied_delta_ids = p.applied_delta_ids
          /\ snapshot'.turn_no = p.turn_no
          /\ snapshot'.candidate_artifact_refs = p.candidate_artifact_refs
          /\ snapshot'.verification_report_ref = p.verification_report_ref
          /\ snapshot'.adoption_ref = p.adoption_ref
          /\ snapshot'.error = p.error
      BY <2>2, <2>3, <2>4, <2>6, TransitionMoves
    <3>. QED
      BY <2>1, <2>2, <2>3, <2>4, <2>6, <3>1, <3>2
  <2>. QED
    BY <2>5, <2>6
<1>. QED
  BY <1>1, <1>2

\* A completed turn keeps the types.
LEMMA CompletedType ==
  ASSUME TypeInv, NEW count \in 0 .. 2, TurnCompleted(count)
  PROVE  TypeInv'
<1>1. /\ snapshot' \in Snapshots
      /\ \/ pc' = "returned" /\ call' = call
         \/ pc' = "verifyCandidate" /\ call' = Call(snapshot', NULL)
  BY CompletedResult
<1>2. call' \in Calls
  BY <1>1, CallType DEF TypeInv, TypeOK
<1>. QED
  BY <1>1, <1>2 DEF TypeInv, TypeOK, Awaits, Activities, TurnCompleted

\* mergeContextDelta is called with a delta, not with null.
LEMMA InputType ==
  ASSUME TypeInv, InputArrived
  PROVE  TypeInv'
<1>1. CASE cancelRequested
  BY <1>1 DEF TypeInv, TypeOK, InputArrived, Return, Awaits
<1>2. CASE ~cancelRequested
  <2>1. /\ pc = "awaitInput" /\ pc' = "mergeContextDelta"
        /\ call' = Call(snapshot, pendingDelta)
        /\ pendingDelta \in DeltaIds
        /\ pendingDelta' = NULL
    BY <1>2 DEF TypeInv, TypeOK, InputArrived, inputCondition, Schedule
  <2>2. /\ call' \in Calls
        /\ call'.compiled = snapshot.compiled_context_ref
        /\ call'.delta = pendingDelta
    BY <2>1, CallType DEF TypeInv, TypeOK
  <2>. QED
    BY <2>1, <2>2 DEF TypeInv, TypeOK, InputArrived, Awaits, Activities
<1>. QED
  BY <1>1, <1>2

\* The report on the candidates c, as CandidateVerified makes it.
ReportOf(c, passed) ==
  IF c = <<>> THEN NULL
  ELSE [subject |-> c[1], decision |-> IF passed THEN "PASS" ELSE "FAIL"]

\* A report is on a candidate, or there is none.
LEMMA ReportType ==
  ASSUME NEW c \in Seq(Candidates), NEW passed \in BOOLEAN
  PROVE  ReportOf(c, passed) \in Reports \cup {NULL}
<1>1. c # <<>> => c[1] \in Candidates
  OBVIOUS
<1>. QED
  BY <1>1 DEF ReportOf, Reports

\* What the coroutine writes when the candidate has been looked at.
LEMMA VerifiedResult ==
  ASSUME TypeInv, NEW passed \in BOOLEAN, CandidateVerified(passed)
  PROVE  /\ snapshot' \in Snapshots
         /\ snapshot'.task = snapshot.task
         /\ snapshot'.applied_delta_ids = snapshot.applied_delta_ids
         /\ snapshot'.turn_no = snapshot.turn_no
         /\ snapshot'.candidate_artifact_refs = snapshot.candidate_artifact_refs
         /\ snapshot'.verification_report_ref = ReportOf(call.candidates, passed)
         /\ snapshot'.adoption_ref = snapshot.adoption_ref
         /\ isTerminal(snapshot.state) =>
              /\ snapshot'.state = snapshot.state
              /\ snapshot'.state_seq = snapshot.state_seq
              /\ snapshot'.error = snapshot.error
         /\ \/ /\ passed /\ call.candidates # <<>>
               /\ pc' = "adoptArtifact" /\ call' = Call(snapshot', NULL)
               /\ scheduled' = scheduled \cup {call'}
               /\ snapshot'.error = snapshot.error
               /\ ~isTerminal(snapshot.state) => ~isTerminal(snapshot'.state)
            \/ /\ ~passed
               /\ pc' = "returned" /\ call' = call /\ scheduled' = scheduled
               /\ ~isTerminal(snapshot.state) => snapshot'.state = "FAILED"
<1>. DEFINE report == ReportOf(call.candidates, passed)
            s == [snapshot EXCEPT !.verification_report_ref = report]
<1>0. snapshot \in Snapshots /\ call.candidates \in Seq(Candidates)
  BY DEF TypeInv, TypeOK, Calls
<1>1. report \in Reports \cup {NULL}
  BY <1>0, ReportType
<1>2. /\ passed => /\ call.candidates # <<>>
                   /\ snapshot' = Transition(s, "ADOPTING", s)
                   /\ pc' = "adoptArtifact" /\ call' = Call(snapshot', NULL)
                   /\ scheduled' = scheduled \cup {call'}
      /\ ~passed => /\ snapshot' = Fail(s, "VERIFICATION_FAILED")
                    /\ pc' = "returned" /\ call' = call /\ scheduled' = scheduled
  BY DEF CandidateVerified, ReportOf, mayAnswer, Schedule, Return
<1>. HIDE DEF report
<1>3. /\ s \in Snapshots
      /\ s.task = snapshot.task
      /\ s.applied_delta_ids = snapshot.applied_delta_ids
      /\ s.state = snapshot.state
      /\ s.state_seq = snapshot.state_seq
      /\ s.turn_no = snapshot.turn_no
      /\ s.candidate_artifact_refs = snapshot.candidate_artifact_refs
      /\ s.verification_report_ref = report
      /\ s.adoption_ref = snapshot.adoption_ref
      /\ s.error = snapshot.error
  BY <1>0, <1>1 DEF Snapshots
<1>. HIDE DEF s
<1>4. /\ isTerminal(s.state) <=> isTerminal(snapshot.state)
      /\ "ADOPTING" \in LifecycleStates /\ ~isTerminal("ADOPTING")
      /\ "VERIFICATION_FAILED" \in Errors
  BY <1>3 DEF LifecycleStates, isTerminal, Errors
<1>5. CASE passed
  <2>1. snapshot' \in Snapshots
    BY <1>2, <1>3, <1>4, <1>5, TransitionType
  <2>2. CASE isTerminal(snapshot.state)
    <3>1. snapshot' = s
      BY <1>2, <1>4, <1>5, <2>2, TransitionStays
    <3>. QED
      BY <1>2, <1>3, <1>5, <2>1, <2>2, <3>1 DEF report
  <2>3. CASE ~isTerminal(snapshot.state)
    <3>1. /\ snapshot'.state = "ADOPTING"
          /\ snapshot'.task = s.task
          /\ snapshot'.applied_delta_ids = s.applied_delta_ids
          /\ snapshot'.turn_no = s.turn_no
          /\ snapshot'.candidate_artifact_refs = s.candidate_artifact_refs
          /\ snapshot'.verification_report_ref = s.verification_report_ref
          /\ snapshot'.adoption_ref = s.adoption_ref
          /\ snapshot'.error = s.error
      BY <1>2, <1>3, <1>4, <1>5, <2>3, TransitionMoves
    <3>. QED
      BY <1>2, <1>3, <1>4, <1>5, <2>1, <2>3, <3>1 DEF report
  <2>. QED
    BY <2>2, <2>3
<1>6. CASE ~passed
  <2>1. /\ snapshot' \in Snapshots
        /\ SameWork(s, snapshot')
        /\ isTerminal(snapshot'.state)
        /\ isTerminal(s.state) => snapshot' = s
    BY <1>2, <1>3, <1>4, <1>6, FailKeepsWork
  <2>2. ~isTerminal(snapshot.state) => snapshot'.state = "FAILED"
    BY <1>2, <1>3, <1>4, <1>6, FailMoves
  <2>. QED
    BY <1>2, <1>3, <1>4, <1>6, <2>1, <2>2 DEF SameWork, report
<1>. QED
  BY <1>5, <1>6

\* A verified candidate keeps the types.
LEMMA VerifiedType ==
  ASSUME TypeInv, NEW passed \in BOOLEAN, CandidateVerified(passed)
  PROVE  TypeInv'
<1>1. /\ snapshot' \in Snapshots
      /\ \/ /\ pc' = "adoptArtifact" /\ call' = Call(snapshot', NULL)
            /\ scheduled' = scheduled \cup {call'}
         \/ pc' = "returned" /\ call' = call /\ scheduled' = scheduled
  BY VerifiedResult
<1>2. call' \in Calls
  BY <1>1, CallType DEF TypeInv, TypeOK
<1>. QED
  BY <1>1, <1>2 DEF TypeInv, TypeOK, Awaits, Activities, CandidateVerified

\* What the coroutine writes when the adoption is on record.
LEMMA AdoptedResult ==
  ASSUME TypeInv, Adopted
  PROVE  /\ snapshot' \in Snapshots
         /\ snapshot'.task = snapshot.task
         /\ snapshot'.applied_delta_ids = snapshot.applied_delta_ids
         /\ snapshot'.turn_no = snapshot.turn_no
         /\ snapshot'.candidate_artifact_refs = snapshot.candidate_artifact_refs
         /\ snapshot'.verification_report_ref = snapshot.verification_report_ref
         /\ snapshot'.error = snapshot.error
         /\ isTerminal(snapshot.state) => snapshot' = snapshot
         /\ ~isTerminal(snapshot.state) =>
              /\ snapshot'.state = "COMPLETED"
              /\ snapshot'.adoption_ref = call.candidates[1]
<1>. DEFINE c == call.candidates[1]
            p == [snapshot EXCEPT !.adoption_ref = c]
<1>0. /\ snapshot \in Snapshots
      /\ snapshot' = Transition(snapshot, "COMPLETED", p)
      /\ c \in Candidates
  BY DEF TypeInv, TypeOK, Adopted
<1>. HIDE DEF c
<1>1. /\ p \in Snapshots
      /\ p.task = snapshot.task
      /\ p.applied_delta_ids = snapshot.applied_delta_ids
      /\ p.turn_no = snapshot.turn_no
      /\ p.candidate_artifact_refs = snapshot.candidate_artifact_refs
      /\ p.verification_report_ref = snapshot.verification_report_ref
      /\ p.adoption_ref = c
      /\ p.error = snapshot.error
  BY <1>0 DEF Snapshots
<1>. HIDE DEF p
<1>2. "COMPLETED" \in LifecycleStates
  BY DEF LifecycleStates
<1>3. CASE isTerminal(snapshot.state)
  BY <1>0, <1>3, TransitionStays
<1>4. CASE ~isTerminal(snapshot.state)
  <2>1. snapshot' \in Snapshots
    BY <1>0, <1>1, <1>2, TransitionType
  <2>2. /\ snapshot'.state = "COMPLETED"
        /\ snapshot'.task = p.task
        /\ snapshot'.applied_delta_ids = p.applied_delta_ids
        /\ snapshot'.turn_no = p.turn_no
        /\ snapshot'.candidate_artifact_refs = p.candidate_artifact_refs
        /\ snapshot'.verification_report_ref = p.verification_report_ref
        /\ snapshot'.adoption_ref = p.adoption_ref
        /\ snapshot'.error = p.error
    BY <1>0, <1>1, <1>2, <1>4, TransitionMoves
  <2>. QED
    BY <1>1, <1>4, <2>1, <2>2 DEF c
<1>. QED
  BY <1>3, <1>4

\* The two ways the coroutine ends by an exception, and the agent giving up.
Thrown ==
  /\ pc # "returned" /\ pc' = "returned"
  /\ \/ snapshot' = Fail(snapshot, "AGENT_FAILED")
     \/ snapshot' = Fail(snapshot, "WORKFLOW_FAILED")
     \/ snapshot' = Cancel("TEMPORAL_CANCELED")
     \/ snapshot' = snapshot
  /\ UNCHANGED <<pendingDelta, cancelRequested, call, scheduled, adopted>>

\* These are the ends by an exception.
LEMMA ThrownActions == TurnFailed \/ ActivityFailed \/ RunCanceled => Thrown
BY DEF TurnFailed, ActivityFailed, RunCanceled, Thrown, Return, Activities

\* The moves of the coroutine, and the ends of a run.
CoroutineStep ==
  \/ Start \/ InputArrived \/ ContextCompiled \/ ContextMerged \/ Adopted \/ Thrown
  \/ \E r \in RequestIds : TurnNeedsInput(r)
  \/ \E count \in 0 .. 2 : TurnCompleted(count)
  \/ \E passed \in BOOLEAN : CandidateVerified(passed)

\* What the run itself does not see.
Unseen == UNCHANGED vars \/ \E input \in scheduled : AdoptEffect(input)

\* An attempt of adoptArtifact changes nothing of the run.
LEMMA UnseenKeeps == Unseen => UNCHANGED <<snapshot, pendingDelta, cancelRequested, pc, call>>
BY DEF Unseen, AdoptEffect, vars

\* The steps of a run, sorted by who takes them.
LEMMA NextCases ==
  [Next]_vars =>
    \/ \E task \in Tasks : SubmitTask(task)
    \/ \E delta : delta.delta_id \in DeltaIds /\ ApplyContextDelta(delta)
    \/ RequestCancel
    \/ CoroutineStep
    \/ Unseen
<1>1. ASSUME NEW id \in DeltaIds, NEW task \in Tasks, NEW r \in RequestIds, NEW seq \in 0 .. MaxTurns,
             ApplyContextDelta([delta_id |-> id, task |-> task, request_id |-> r,
                                expected_seq |-> seq])
      PROVE  \E delta : delta.delta_id \in DeltaIds /\ ApplyContextDelta(delta)
  <2>1. [delta_id |-> id, task |-> task, request_id |-> r, expected_seq |-> seq].delta_id
          \in DeltaIds
    OBVIOUS
  <2>. QED
    BY <1>1, <2>1
<1>2. ActivityAnswers \/ RunCanceled \/ Start \/ InputArrived => CoroutineStep
  BY ThrownActions DEF ActivityAnswers, CoroutineStep
<1>. QED
  BY <1>1, <1>2 DEF Next, Unseen

\* Such an end keeps the work, and never makes a task COMPLETED.
LEMMA ThrownResult ==
  ASSUME snapshot \in Snapshots, Thrown
  PROVE  /\ snapshot' \in Snapshots
         /\ SameWork(snapshot, snapshot')
         /\ isTerminal(snapshot.state) => snapshot' = snapshot
         /\ snapshot'.state # "COMPLETED" \/ snapshot' = snapshot
<1>1. "AGENT_FAILED" \in Errors /\ "WORKFLOW_FAILED" \in Errors /\ "TEMPORAL_CANCELED" \in Errors
  BY DEF Errors
<1>2. CASE snapshot' = Fail(snapshot, "AGENT_FAILED")
  BY <1>1, <1>2, FailKeepsWork, FailState
<1>3. CASE snapshot' = Fail(snapshot, "WORKFLOW_FAILED")
  BY <1>1, <1>3, FailKeepsWork, FailState
<1>4. CASE snapshot' = Cancel("TEMPORAL_CANCELED")
  BY <1>1, <1>4, CancelKeepsWork, CancelState
<1>5. CASE snapshot' = snapshot
  BY <1>5 DEF SameWork
<1>. QED
  BY <1>2, <1>3, <1>4, <1>5 DEF Thrown

\* It keeps the types.
LEMMA ThrownType ==
  ASSUME TypeInv, Thrown
  PROVE  TypeInv'
<1>1. snapshot' \in Snapshots
  BY ThrownResult DEF TypeInv, TypeOK
<1>. QED
  BY <1>1 DEF TypeInv, TypeOK, Thrown, Awaits

\* So does the end with a result.
LEMMA AdoptedType ==
  ASSUME TypeInv, Adopted
  PROVE  TypeInv'
<1>1. snapshot' \in Snapshots
  BY AdoptedResult
<1>. QED
  BY <1>1 DEF TypeInv, TypeOK, Adopted, Return, Awaits

\* An input an attempt accepts names a candidate.
LEMMA EffectType ==
  ASSUME TypeInv, NEW input \in scheduled, AdoptEffect(input)
  PROVE  TypeInv'
<1>1. /\ input.report \in Reports
      /\ input.report.subject = input.candidates[1]
      /\ input.report.subject \in Candidates
  BY DEF TypeInv, TypeOK, Calls, Reports, AdoptEffect
<1>. QED
  BY <1>1 DEF TypeInv, TypeOK, AdoptEffect

\* Every step of a run keeps the types.
LEMMA TypeStep ==
  ASSUME TypeInv, [Next]_vars
  PROVE  TypeInv'
<1>1. CASE \E task \in Tasks : SubmitTask(task)
  BY <1>1, SubmitType
<1>2. ASSUME NEW delta, delta.delta_id \in DeltaIds, ApplyContextDelta(delta)
      PROVE  TypeInv'
  BY <1>2, ApplyType
<1>3. CASE RequestCancel
  BY <1>3, CancelType
<1>4. CASE CoroutineStep
  BY <1>4, StartType, InputType, CompiledType, NeedsInputType, CompletedType, MergedType,
     VerifiedType, AdoptedType, ThrownType DEF CoroutineStep
<1>5. CASE Unseen
  BY <1>5, EffectType DEF Unseen, TypeInv, TypeOK, vars
<1>. QED
  BY <1>1, <1>2, <1>3, <1>4, <1>5, NextCases

\* A run never merges or runs a turn without a context, and never merges null:
\* the types the activities rely on hold at every await.
THEOREM TypeInvariant == Spec => []TypeInv
<1>1. Init => TypeInv
  BY TypeInit
<1>2. TypeInv /\ [Next]_vars => TypeInv'
  BY TypeStep
<1>. QED
  BY <1>1, <1>2, PTL DEF Spec

\* Every snapshot a query can return has the type of a snapshot.
THEOREM TypeCorrect == Spec => []TypeOK
<1>1. TypeInv => TypeOK
  BY DEF TypeInv
<1>. QED
  BY <1>1, TypeInvariant, PTL

-----------------------------------------------------------------------------
(* Nothing unverified is adopted.                                          *)

candidates == snapshot.candidate_artifact_refs

\* The awaits before the agent has finished.
BeforeCandidates ==
  {"awaitSubmit", "compileContext", "runAgentTurn", "awaitInput", "mergeContextDelta"}

NothingYet ==
  /\ pc \in BeforeCandidates => candidates = <<>> /\ scheduled = {} /\ adopted = {}
  /\ pc = "verifyCandidate" =>
       call.candidates = candidates /\ scheduled = {} /\ adopted = {}

TurnsAgree ==
  /\ pc = "runAgentTurn" => call.turn_no = snapshot.turn_no
  /\ candidates # <<>> => candidates[1].turn = snapshot.turn_no

ScheduledPassed ==
  \A c \in scheduled :
    /\ candidates # <<>>
    /\ c.candidates = candidates
    /\ snapshot.verification_report_ref = [subject |-> candidates[1], decision |-> "PASS"]

AdoptedScheduled ==
  \A a \in adopted : scheduled # {} /\ a = candidates[1]

AdoptInv == NothingYet /\ TurnsAgree /\ ScheduledPassed /\ AdoptedScheduled

\* The four parts say what is wanted.
LEMMA AdoptImplies == AdoptInv => AdoptedWasVerified
<1>. SUFFICES ASSUME AdoptInv, NEW a \in adopted
              PROVE  /\ candidates # <<>>
                     /\ a = candidates[1]
                     /\ a.turn = snapshot.turn_no
                     /\ snapshot.verification_report_ref = [subject |-> a, decision |-> "PASS"]
  BY DEF AdoptedWasVerified, candidates
<1>1. PICK c \in scheduled : a = candidates[1]
  BY DEF AdoptInv, AdoptedScheduled
<1>. QED
  BY <1>1 DEF AdoptInv, ScheduledPassed, TurnsAgree

\* A new run has no candidate.
LEMMA AdoptInit == Init => AdoptInv
<1>. SUFFICES ASSUME Init PROVE AdoptInv
  OBVIOUS
<1>1. candidates = <<>> /\ pc = "awaitSubmit" /\ scheduled = {} /\ adopted = {}
  BY DEF Init, initialSnapshot, candidates
<1>. QED
  BY <1>1 DEF AdoptInv, NothingYet, TurnsAgree, ScheduledPassed, AdoptedScheduled

\* A step that leaves the candidates, their turn and their report alone keeps
\* the invariant when it stands still, ends the run, or moves between awaits
\* before the candidates.
LEMMA AdoptFrame ==
  ASSUME AdoptInv,
         candidates' = candidates,
         snapshot'.verification_report_ref = snapshot.verification_report_ref,
         UNCHANGED <<scheduled, adopted>>,
         \/ pc' = pc /\ call' = call /\ snapshot'.turn_no = snapshot.turn_no
         \/ pc' = "returned" /\ snapshot'.turn_no = snapshot.turn_no
         \/ /\ pc \in BeforeCandidates
            /\ pc' \in BeforeCandidates
            /\ pc' = "runAgentTurn" => call'.turn_no = snapshot'.turn_no
         \/ pc \in BeforeCandidates /\ pc' = "returned"
  PROVE  AdoptInv'
<1>1. NothingYet'
  BY DEF AdoptInv, NothingYet, BeforeCandidates
<1>2. TurnsAgree'
  BY DEF AdoptInv, TurnsAgree, NothingYet, BeforeCandidates
<1>3. ScheduledPassed'
  BY DEF AdoptInv, ScheduledPassed
<1>4. AdoptedScheduled'
  BY DEF AdoptInv, AdoptedScheduled
<1>. QED
  BY <1>1, <1>2, <1>3, <1>4 DEF AdoptInv

\* The head of the loop numbers the turn it schedules.
LEMMA AdoptNextTurn ==
  ASSUME TypeInv, AdoptInv, NEW compiled \in Contexts, NextTurn(compiled),
         pc \in BeforeCandidates,
         UNCHANGED <<pendingDelta, cancelRequested, scheduled, adopted>>
  PROVE  AdoptInv'
<1>1. /\ snapshot' \in Snapshots
      /\ candidates' = candidates
      /\ snapshot'.verification_report_ref = snapshot.verification_report_ref
      /\ \/ pc' = "returned" /\ call' = call
         \/ pc' = "runAgentTurn" /\ call' = Call(snapshot', NULL)
  BY NextTurnResult DEF TypeInv, TypeOK, candidates
<1>2. pc' = "runAgentTurn" => call'.turn_no = snapshot'.turn_no
  BY <1>1, CallType
<1>. QED
  BY <1>1, <1>2, AdoptFrame DEF BeforeCandidates

\* The candidates of a turn carry its number; a terminal snapshot takes none.
LEMMA AdoptCompleted ==
  ASSUME TypeInv, AdoptInv, NEW count \in 0 .. 2, TurnCompleted(count)
  PROVE  AdoptInv'
<1>1. /\ pc = "runAgentTurn"
      /\ UNCHANGED <<scheduled, adopted>>
      /\ candidates = <<>> /\ scheduled = {} /\ adopted = {}
      /\ call.turn_no = snapshot.turn_no
  BY DEF TurnCompleted, AdoptInv, NothingYet, TurnsAgree, BeforeCandidates
<1>2. /\ snapshot' \in Snapshots
      /\ snapshot'.turn_no = snapshot.turn_no
      /\ isTerminal(snapshot.state) => snapshot' = snapshot
      /\ \/ /\ pc' = "returned" /\ call' = call
            /\ candidates' = candidates
         \/ /\ pc' = "verifyCandidate" /\ call' = Call(snapshot', NULL)
            /\ ~isTerminal(snapshot.state) => candidates'[1].turn = call.turn_no
  BY CompletedResult DEF candidates
<1>3. pc' = "verifyCandidate" => call'.candidates = candidates'
  BY <1>2, CallType DEF candidates
<1>4. NothingYet'
  BY <1>1, <1>2, <1>3 DEF NothingYet, BeforeCandidates
<1>5. TurnsAgree'
  BY <1>1, <1>2 DEF TurnsAgree, candidates
<1>6. ScheduledPassed' /\ AdoptedScheduled'
  BY <1>1 DEF ScheduledPassed, AdoptedScheduled
<1>. QED
  BY <1>4, <1>5, <1>6 DEF AdoptInv

\* An adoption is scheduled with the candidates the report was made on.
LEMMA AdoptVerified ==
  ASSUME TypeInv, AdoptInv, NEW passed \in BOOLEAN, CandidateVerified(passed)
  PROVE  AdoptInv'
<1>1. /\ pc = "verifyCandidate"
      /\ adopted' = adopted
      /\ call.candidates = candidates /\ scheduled = {} /\ adopted = {}
  BY DEF CandidateVerified, AdoptInv, NothingYet
<1>2. /\ snapshot' \in Snapshots
      /\ snapshot'.turn_no = snapshot.turn_no
      /\ candidates' = candidates
      /\ snapshot'.verification_report_ref = ReportOf(candidates, passed)
      /\ \/ /\ passed /\ candidates # <<>>
            /\ pc' = "adoptArtifact" /\ call' = Call(snapshot', NULL)
            /\ scheduled' = {call'}
         \/ pc' = "returned" /\ scheduled' = {}
  BY <1>1, VerifiedResult DEF candidates
<1>3. pc' = "adoptArtifact" => call'.candidates = candidates'
  BY <1>2, CallType DEF candidates
<1>4. NothingYet' /\ TurnsAgree'
  BY <1>1, <1>2 DEF AdoptInv, NothingYet, TurnsAgree, BeforeCandidates
<1>5. ScheduledPassed'
  BY <1>2, <1>3 DEF ScheduledPassed, ReportOf
<1>6. AdoptedScheduled'
  BY <1>1 DEF AdoptedScheduled
<1>. QED
  BY <1>4, <1>5, <1>6 DEF AdoptInv

\* An attempt, however late, adopts what was scheduled.
LEMMA AdoptAttempt ==
  ASSUME TypeInv, AdoptInv, NEW input \in scheduled, AdoptEffect(input)
  PROVE  AdoptInv'
<1>1. /\ UNCHANGED <<snapshot, pc, call, scheduled>>
      /\ adopted' = adopted \cup {input.candidates[1]}
      /\ input.candidates = candidates
  BY DEF AdoptEffect, AdoptInv, ScheduledPassed
<1>2. NothingYet' /\ TurnsAgree' /\ ScheduledPassed'
  BY <1>1 DEF AdoptInv, NothingYet, TurnsAgree, ScheduledPassed, candidates
<1>3. AdoptedScheduled'
  BY <1>1 DEF AdoptInv, AdoptedScheduled, candidates
<1>. QED
  BY <1>2, <1>3 DEF AdoptInv

\* Every step of a run, and of an attempt, keeps the invariant.
LEMMA AdoptStep ==
  ASSUME TypeInv, AdoptInv, [Next]_vars
  PROVE  AdoptInv'
<1>0. snapshot \in Snapshots /\ candidates = snapshot.candidate_artifact_refs
      /\ candidates' = snapshot'.candidate_artifact_refs
  BY DEF TypeInv, TypeOK, candidates
<1>1. ASSUME NEW task \in Tasks, SubmitTask(task)
      PROVE  AdoptInv'
  <2>1. /\ snapshot'.candidate_artifact_refs = snapshot.candidate_artifact_refs
        /\ snapshot'.verification_report_ref = snapshot.verification_report_ref
        /\ snapshot'.turn_no = snapshot.turn_no
        /\ UNCHANGED <<pc, call, scheduled, adopted>>
    BY <1>0, <1>1 DEF SubmitTask, Snapshots
  <2>. QED
    BY <1>0, <2>1, AdoptFrame
<1>2. ASSUME NEW delta, delta.delta_id \in DeltaIds, ApplyContextDelta(delta)
      PROVE  AdoptInv'
  <2>1. UNCHANGED <<pc, call, scheduled, adopted>>
    BY <1>2 DEF ApplyContextDelta
  <2>. QED
    BY <1>0, <1>2, <2>1, ApplyResult, AdoptFrame
<1>3. CASE RequestCancel
  <2>1. SameWork(snapshot, snapshot') /\ UNCHANGED <<pc, call, scheduled, adopted>>
    BY <1>0, <1>3, CancelKeepsWork DEF RequestCancel, Errors
  <2>. QED
    BY <1>0, <2>1, AdoptFrame DEF SameWork
<1>4. CASE Start
  <2>1. /\ SameWork(snapshot, snapshot')
        /\ pc = "awaitSubmit"
        /\ pc' \in {"returned", "compileContext"}
        /\ UNCHANGED <<scheduled, adopted>>
    BY <1>0, <1>4, StartResult DEF Start
  <2>. QED
    BY <1>0, <2>1, AdoptFrame DEF SameWork, BeforeCandidates
<1>5. CASE InputArrived
  <2>1. /\ snapshot' = snapshot
        /\ pc = "awaitInput"
        /\ pc' \in {"returned", "mergeContextDelta"}
        /\ UNCHANGED <<scheduled, adopted>>
    BY <1>5 DEF InputArrived, Return, Schedule
  <2>. QED
    BY <1>0, <2>1, AdoptFrame DEF BeforeCandidates
<1>6. CASE ContextCompiled
  <2>1. <<>> \in Contexts /\ pc \in BeforeCandidates
    BY <1>6 DEF Contexts, ContextCompiled, BeforeCandidates
  <2>. QED
    BY <1>6, <2>1, AdoptNextTurn DEF ContextCompiled
<1>7. ASSUME NEW r \in RequestIds, TurnNeedsInput(r)
      PROVE  AdoptInv'
  <2>1. /\ pc = "runAgentTurn" /\ pc' = "awaitInput"
        /\ UNCHANGED <<scheduled, adopted>>
    BY <1>7 DEF TurnNeedsInput
  <2>. QED
    BY <1>0, <1>7, <2>1, NeedsInputResult, AdoptFrame DEF BeforeCandidates
<1>8. ASSUME NEW count \in 0 .. 2, TurnCompleted(count)
      PROVE  AdoptInv'
  BY <1>8, AdoptCompleted
<1>9. CASE ContextMerged
  <2>1. Append(call.compiled, call.delta) \in Contexts /\ pc \in BeforeCandidates
    BY <1>9 DEF TypeInv, Contexts, ContextMerged, BeforeCandidates
  <2>. QED
    BY <1>9, <2>1, AdoptNextTurn DEF ContextMerged
<1>10. ASSUME NEW passed \in BOOLEAN, CandidateVerified(passed)
       PROVE  AdoptInv'
  BY <1>10, AdoptVerified
<1>11. CASE Adopted
  <2>1. pc' = "returned" /\ UNCHANGED <<scheduled, adopted>>
    BY <1>11 DEF Adopted, Return
  <2>. QED
    BY <1>0, <1>11, <2>1, AdoptedResult, AdoptFrame
<1>12. CASE Thrown
  <2>1. pc' = "returned" /\ UNCHANGED <<scheduled, adopted>> /\ SameWork(snapshot, snapshot')
    BY <1>0, <1>12, ThrownResult DEF Thrown
  <2>. QED
    BY <1>0, <2>1, AdoptFrame DEF SameWork
<1>13. ASSUME NEW input \in scheduled, AdoptEffect(input)
       PROVE  AdoptInv'
  BY <1>13, AdoptAttempt
<1>14. CASE UNCHANGED vars
  BY <1>0, <1>14, AdoptFrame DEF vars
<1>. QED
  BY <1>1, <1>2, <1>3, <1>4, <1>5, <1>6, <1>7, <1>8, <1>9, <1>10, <1>11, <1>12, <1>13, <1>14,
     NextCases DEF CoroutineStep, Unseen

\* Whatever the ledger records, then or later, is the first candidate of the last
\* turn, and the report on it is a PASS.
THEOREM OnlyVerifiedAdopted == Spec => []AdoptedWasVerified
<1>1. Init => AdoptInv
  BY AdoptInit
<1>2. TypeInv /\ AdoptInv /\ [Next]_vars => AdoptInv'
  BY AdoptStep
<1>3. AdoptInv => AdoptedWasVerified
  BY AdoptImplies
<1>. QED
  BY <1>1, <1>2, <1>3, TypeInvariant, PTL DEF Spec

-----------------------------------------------------------------------------
(* A COMPLETED snapshot tells the truth.                                   *)

Entered == pc \notin {"awaitSubmit", "returned"}

\* A coroutine past its first wait has its task; no error is noted before the
\* end, except by a cancel the coroutine sees when it starts.
ErrorFree ==
  /\ Entered => snapshot.task # NULL
  /\ pc = "awaitSubmit" /\ ~cancelRequested => snapshot.error = NULL
  /\ Entered /\ ~isTerminal(snapshot.state) => snapshot.error = NULL

CompletedAtEnd ==
  /\ pc = "adoptArtifact" => call.candidates = candidates
  /\ snapshot.state = "COMPLETED" => pc = "returned"

CompleteInv == ErrorFree /\ CompletedAtEnd /\ CompletedWasAdopted

\* A new run has no error and is not COMPLETED.
LEMMA CompleteInit == Init => CompleteInv
BY DEF Init, CompleteInv, ErrorFree, CompletedAtEnd, CompletedWasAdopted, Entered, initialSnapshot

\* The steps after which the task is not COMPLETED, or which leave all a
\* COMPLETED snapshot says as it was.
LEMMA CompleteFrame ==
  ASSUME CompleteInv,
         ErrorFree',
         pc' = "adoptArtifact" => call'.candidates = candidates',
         adopted \subseteq adopted',
         \/ snapshot'.state # "COMPLETED"
         \/ snapshot' = snapshot /\ (pc = "returned" => pc' = "returned")
  PROVE  CompleteInv'
<1>1. CASE snapshot'.state # "COMPLETED"
  BY <1>1 DEF CompleteInv, CompletedAtEnd, CompletedWasAdopted
<1>2. CASE snapshot' = snapshot /\ (pc = "returned" => pc' = "returned")
  BY <1>2 DEF CompleteInv, CompletedAtEnd, CompletedWasAdopted
<1>. QED
  BY <1>1, <1>2

\* The head of the loop makes nothing COMPLETED.
LEMMA CompleteNextTurn ==
  ASSUME TypeInv, CompleteInv, NEW compiled \in Contexts, NextTurn(compiled), Entered,
         UNCHANGED <<pendingDelta, cancelRequested, scheduled, adopted>>
  PROVE  CompleteInv'
<1>1. /\ snapshot'.task = snapshot.task
      /\ snapshot'.error = snapshot.error
      /\ pc' \in {"returned", "runAgentTurn"}
      /\ isTerminal(snapshot.state) => snapshot'.state = snapshot.state
      /\ ~isTerminal(snapshot.state) => ~isTerminal(snapshot'.state)
  BY NextTurnResult DEF TypeInv, TypeOK
<1>2. snapshot.state # "COMPLETED"
  BY DEF CompleteInv, CompletedAtEnd, Entered
<1>3. snapshot'.state # "COMPLETED"
  BY <1>1, <1>2 DEF isTerminal
<1>4. ErrorFree'
  BY <1>1 DEF CompleteInv, ErrorFree, Entered
<1>. QED
  BY <1>1, <1>3, <1>4, CompleteFrame

\* The end with a result: the adoption is in the ledger, and verified.
LEMMA CompleteAdopted ==
  ASSUME TypeInv, AdoptInv, CompleteInv, Adopted
  PROVE  CompleteInv'
<1>1. /\ pc = "adoptArtifact" /\ pc' = "returned"
      /\ adopted' = adopted
      /\ call.candidates[1] \in adopted
  BY DEF Adopted, Return
<1>2. /\ snapshot.error = NULL \/ isTerminal(snapshot.state)
      /\ snapshot.state # "COMPLETED"
  BY <1>1 DEF CompleteInv, ErrorFree, CompletedAtEnd, Entered
<1>3. ErrorFree'
  BY <1>1 DEF ErrorFree, Entered
<1>4. CASE isTerminal(snapshot.state)
  <2>1. snapshot' = snapshot
    BY <1>4, AdoptedResult
  <2>. QED
    BY <1>1, <1>3, <2>1, CompleteFrame
<1>5. CASE ~isTerminal(snapshot.state)
  <2>1. /\ snapshot'.adoption_ref = call.candidates[1]
        /\ snapshot'.error = snapshot.error
        /\ snapshot'.verification_report_ref = snapshot.verification_report_ref
    BY <1>5, AdoptedResult
  <2>2. snapshot.verification_report_ref = [subject |-> call.candidates[1], decision |-> "PASS"]
    BY <1>1, AdoptImplies DEF AdoptedWasVerified
  <2>3. CompletedWasAdopted'
    BY <1>1, <1>2, <1>5, <2>1, <2>2 DEF CompletedWasAdopted
  <2>. QED
    BY <1>1, <1>3, <2>3 DEF CompleteInv, CompletedAtEnd
<1>. QED
  BY <1>4, <1>5

\* Every step of a run, and of an attempt, keeps the invariant.
LEMMA CompleteStep ==
  ASSUME TypeInv, AdoptInv, CompleteInv, [Next]_vars
  PROVE  CompleteInv'
<1>0. /\ snapshot \in Snapshots
      /\ candidates = snapshot.candidate_artifact_refs
      /\ candidates' = snapshot'.candidate_artifact_refs
  BY DEF TypeInv, TypeOK, candidates
<1>1. ASSUME NEW task \in Tasks, SubmitTask(task)
      PROVE  CompleteInv'
  <2>1. /\ snapshot.task = NULL /\ pc # "returned"
        /\ snapshot'.state = "SUBMITTED"
        /\ snapshot'.error = snapshot.error
        /\ UNCHANGED <<pc, call, cancelRequested, adopted>>
    BY <1>0, <1>1 DEF SubmitTask, Snapshots
  <2>2. pc = "awaitSubmit"
    BY <2>1 DEF CompleteInv, ErrorFree, Entered
  <2>3. ErrorFree'
    BY <2>1, <2>2 DEF CompleteInv, ErrorFree, Entered
  <2>. QED
    BY <2>1, <2>2, <2>3, CompleteFrame
<1>2. ASSUME NEW delta, delta.delta_id \in DeltaIds, ApplyContextDelta(delta)
      PROVE  CompleteInv'
  <2>1. /\ UNCHANGED <<pc, call, cancelRequested, adopted>>
        /\ ~isTerminal(snapshot.state)
    BY <1>2 DEF ApplyContextDelta, assertDeltaAllowed, isTerminal
  <2>2. /\ snapshot'.task = snapshot.task
        /\ snapshot'.error = snapshot.error
        /\ snapshot'.state = "WORKING"
        /\ candidates' = candidates
    BY <1>0, <1>2, ApplyResult
  <2>3. ErrorFree'
    BY <2>1, <2>2 DEF CompleteInv, ErrorFree, Entered
  <2>. QED
    BY <2>1, <2>2, <2>3, CompleteFrame DEF CompleteInv, CompletedAtEnd
<1>3. CASE RequestCancel
  <2>1. /\ UNCHANGED <<pc, call, adopted>> /\ cancelRequested'
        /\ snapshot' = Cancel("CANCELED_BY_REQUEST")
        /\ "CANCELED_BY_REQUEST" \in Errors
    BY <1>3 DEF RequestCancel, Errors
  <2>2. /\ SameWork(snapshot, snapshot')
        /\ isTerminal(snapshot'.state)
        /\ snapshot'.state # "COMPLETED" \/ snapshot' = snapshot
    BY <1>0, <2>1, CancelKeepsWork, CancelState
  <2>3. ErrorFree'
    BY <2>1, <2>2 DEF CompleteInv, ErrorFree, Entered, SameWork
  <2>4. candidates' = candidates
    BY <1>0, <2>2 DEF SameWork
  <2>. QED
    BY <2>1, <2>2, <2>3, <2>4, CompleteFrame DEF CompleteInv, CompletedAtEnd
<1>4. CASE Start
  <2>1. /\ SameWork(snapshot, snapshot')
        /\ snapshot'.error = snapshot.error
        /\ pc = "awaitSubmit"
        /\ pc' = "returned" \/ (pc' = "compileContext" /\ ~cancelRequested /\ snapshot.task # NULL)
        /\ adopted' = adopted
        /\ isTerminal(snapshot.state) => snapshot' = snapshot
        /\ ~isTerminal(snapshot.state) => ~isTerminal(snapshot'.state)
    BY <1>0, <1>4, StartResult DEF Start, startCondition, Return
  <2>2. ErrorFree'
    BY <2>1 DEF CompleteInv, ErrorFree, Entered, SameWork
  <2>3. snapshot'.state # "COMPLETED"
    BY <2>1 DEF CompleteInv, CompletedAtEnd, isTerminal
  <2>. QED
    BY <2>1, <2>2, <2>3, CompleteFrame
<1>5. CASE InputArrived
  <2>1. /\ snapshot' = snapshot
        /\ pc = "awaitInput"
        /\ pc' \in {"returned", "mergeContextDelta"}
        /\ adopted' = adopted
    BY <1>5 DEF InputArrived, Return, Schedule
  <2>2. ErrorFree'
    BY <2>1 DEF CompleteInv, ErrorFree, Entered
  <2>. QED
    BY <2>1, <2>2, CompleteFrame
<1>6. CASE ContextCompiled
  <2>1. <<>> \in Contexts /\ Entered
    BY <1>6 DEF Contexts, ContextCompiled, Entered
  <2>. QED
    BY <1>6, <2>1, CompleteNextTurn DEF ContextCompiled
<1>7. ASSUME NEW r \in RequestIds, TurnNeedsInput(r)
      PROVE  CompleteInv'
  <2>1. /\ pc = "runAgentTurn" /\ pc' = "awaitInput"
        /\ adopted' = adopted
    BY <1>7 DEF TurnNeedsInput
  <2>2. /\ snapshot'.task = snapshot.task
        /\ snapshot'.error = snapshot.error
        /\ isTerminal(snapshot.state) => snapshot' = snapshot
        /\ ~isTerminal(snapshot.state) => ~isTerminal(snapshot'.state)
    BY <1>0, <1>7, NeedsInputResult
  <2>3. ErrorFree'
    BY <2>1, <2>2 DEF CompleteInv, ErrorFree, Entered
  <2>4. snapshot'.state # "COMPLETED"
    BY <2>1, <2>2 DEF CompleteInv, CompletedAtEnd, isTerminal
  <2>. QED
    BY <2>1, <2>3, <2>4, CompleteFrame
<1>8. ASSUME NEW count \in 0 .. 2, TurnCompleted(count)
      PROVE  CompleteInv'
  <2>1. pc = "runAgentTurn" /\ adopted' = adopted
    BY <1>8 DEF TurnCompleted
  <2>2. /\ snapshot'.task = snapshot.task
        /\ isTerminal(snapshot.state) => snapshot' = snapshot
        /\ \/ pc' = "returned" /\ (snapshot'.state # "COMPLETED" \/ snapshot' = snapshot)
           \/ /\ pc' = "verifyCandidate"
              /\ ~isTerminal(snapshot.state) =>
                   ~isTerminal(snapshot'.state) /\ snapshot'.error = snapshot.error
    BY <1>8, CompletedResult
  <2>3. ErrorFree'
    BY <2>1, <2>2 DEF CompleteInv, ErrorFree, Entered
  <2>4. snapshot'.state # "COMPLETED"
    BY <2>1, <2>2 DEF CompleteInv, CompletedAtEnd, isTerminal
  <2>. QED
    BY <2>1, <2>2, <2>3, <2>4, CompleteFrame
<1>9. CASE ContextMerged
  <2>1. Append(call.compiled, call.delta) \in Contexts /\ Entered
    BY <1>9 DEF TypeInv, Contexts, ContextMerged, Entered
  <2>. QED
    BY <1>9, <2>1, CompleteNextTurn DEF ContextMerged
<1>10. ASSUME NEW passed \in BOOLEAN, CandidateVerified(passed)
       PROVE  CompleteInv'
  <2>1. pc = "verifyCandidate" /\ adopted' = adopted
    BY <1>10 DEF CandidateVerified
  <2>2. /\ snapshot' \in Snapshots
        /\ snapshot'.task = snapshot.task
        /\ isTerminal(snapshot.state) =>
             snapshot'.state = snapshot.state /\ snapshot'.error = snapshot.error
        /\ \/ /\ pc' = "adoptArtifact" /\ call' = Call(snapshot', NULL)
              /\ snapshot'.error = snapshot.error
              /\ ~isTerminal(snapshot.state) => ~isTerminal(snapshot'.state)
           \/ pc' = "returned" /\ (~isTerminal(snapshot.state) => snapshot'.state = "FAILED")
    BY <1>10, VerifiedResult
  <2>3. pc' = "adoptArtifact" => call'.candidates = candidates'
    BY <1>0, <2>2, CallType
  <2>4. ErrorFree'
    BY <2>1, <2>2 DEF CompleteInv, ErrorFree, Entered, isTerminal
  <2>5. snapshot'.state # "COMPLETED"
    BY <2>1, <2>2 DEF CompleteInv, CompletedAtEnd, isTerminal
  <2>. QED
    BY <2>1, <2>3, <2>4, <2>5, CompleteFrame
<1>11. CASE Adopted
  BY <1>11, CompleteAdopted
<1>12. CASE Thrown
  <2>1. pc' = "returned" /\ adopted' = adopted
    BY <1>12 DEF Thrown
  <2>2. snapshot'.state # "COMPLETED" \/ snapshot' = snapshot
    BY <1>0, <1>12, ThrownResult
  <2>3. ErrorFree'
    BY <2>1 DEF ErrorFree, Entered
  <2>. QED
    BY <2>1, <2>2, <2>3, CompleteFrame
<1>13. ASSUME NEW input \in scheduled, AdoptEffect(input)
       PROVE  CompleteInv'
  <2>1. UNCHANGED <<snapshot, pc, call, cancelRequested>> /\ adopted \subseteq adopted'
    BY <1>13 DEF AdoptEffect
  <2>2. ErrorFree' /\ candidates' = candidates
    BY <1>0, <2>1 DEF CompleteInv, ErrorFree, Entered
  <2>. QED
    BY <2>1, <2>2, CompleteFrame DEF CompleteInv, CompletedAtEnd
<1>14. CASE UNCHANGED vars
  <2>1. ErrorFree' /\ candidates' = candidates
    BY <1>0, <1>14 DEF vars, CompleteInv, ErrorFree, Entered
  <2>. QED
    BY <1>14, <2>1, CompleteFrame DEF vars, CompleteInv, CompletedAtEnd
<1>. QED
  BY <1>1, <1>2, <1>3, <1>4, <1>5, <1>6, <1>7, <1>8, <1>9, <1>10, <1>11, <1>12, <1>13, <1>14,
     NextCases DEF CoroutineStep, Unseen

\* A COMPLETED task has its adoption in the ledger, a report that covers it and
\* no error, in whatever order updates, answers and attempts come.
THEOREM CompletedIsAdopted == Spec => []CompletedWasAdopted
<1>1. Init => AdoptInv /\ CompleteInv
  BY AdoptInit, CompleteInit
<1>2. TypeInv /\ AdoptInv /\ CompleteInv /\ [Next]_vars => AdoptInv' /\ CompleteInv'
  BY AdoptStep, CompleteStep
<1>3. CompleteInv => CompletedWasAdopted
  BY DEF CompleteInv
<1>. QED
  BY <1>1, <1>2, <1>3, TypeInvariant, PTL DEF Spec

-----------------------------------------------------------------------------
(* A terminal task stays as it was told.                                   *)

\* Under SubmitFirst nothing is canceled, and no open run is terminal, before
\* it has its task.
HasTask ==
  /\ cancelRequested => snapshot.task # NULL
  /\ isTerminal(snapshot.state) /\ pc = "awaitSubmit" => snapshot.task # NULL

\* A move of the coroutine changes neither the task nor what is told of a
\* terminal one, and leaves the first wait.
LEMMA CoroutineKeeps ==
  ASSUME TypeInv, CoroutineStep
  PROVE  /\ snapshot'.task = snapshot.task
         /\ cancelRequested' = cancelRequested
         /\ pc' # "awaitSubmit"
         /\ isTerminal(snapshot.state) =>
              /\ snapshot'.state = snapshot.state
              /\ snapshot'.error = snapshot.error
              /\ snapshot'.adoption_ref = snapshot.adoption_ref
              /\ snapshot'.state_seq = snapshot.state_seq
<1>0. snapshot \in Snapshots
  BY DEF TypeInv, TypeOK
<1>. DEFINE Kept == /\ snapshot'.task = snapshot.task
                    /\ cancelRequested' = cancelRequested
                    /\ pc' # "awaitSubmit"
                    /\ isTerminal(snapshot.state) =>
                         /\ snapshot'.state = snapshot.state
                         /\ snapshot'.error = snapshot.error
                         /\ snapshot'.adoption_ref = snapshot.adoption_ref
                         /\ snapshot'.state_seq = snapshot.state_seq
<1>1. CASE Start
  <2>1. cancelRequested' = cancelRequested /\ pc' # "awaitSubmit"
    BY <1>1 DEF Start, Return, Schedule
  <2>. QED
    BY <1>0, <1>1, <2>1, StartResult DEF SameWork
<1>2. CASE InputArrived
  BY <1>2 DEF InputArrived, Return, Schedule
<1>3. ASSUME NEW compiled \in Contexts, NextTurn(compiled), cancelRequested' = cancelRequested
      PROVE  Kept
  BY <1>0, <1>3, NextTurnResult
<1>4. CASE ContextCompiled
  <2>1. <<>> \in Contexts
    BY DEF Contexts
  <2>. QED
    BY <1>3, <1>4, <2>1 DEF ContextCompiled
<1>5. CASE ContextMerged
  <2>1. Append(call.compiled, call.delta) \in Contexts
    BY <1>5 DEF TypeInv, Contexts, ContextMerged
  <2>. QED
    BY <1>3, <1>5, <2>1 DEF ContextMerged
<1>6. CASE Adopted
  BY <1>6, AdoptedResult DEF Adopted, Return
<1>7. CASE Thrown
  BY <1>0, <1>7, ThrownResult DEF Thrown, SameWork
<1>8. ASSUME NEW r \in RequestIds, TurnNeedsInput(r)
      PROVE  Kept
  BY <1>0, <1>8, NeedsInputResult DEF TurnNeedsInput
<1>9. ASSUME NEW count \in 0 .. 2, TurnCompleted(count)
      PROVE  Kept
  <2>1. cancelRequested' = cancelRequested
    BY <1>9 DEF TurnCompleted
  <2>. QED
    BY <1>9, <2>1, CompletedResult
<1>10. ASSUME NEW passed \in BOOLEAN, CandidateVerified(passed)
       PROVE  Kept
  <2>1. cancelRequested' = cancelRequested
    BY <1>10 DEF CandidateVerified
  <2>. QED
    BY <1>10, <2>1, VerifiedResult
<1>. QED
  BY <1>1, <1>2, <1>4, <1>5, <1>6, <1>7, <1>8, <1>9, <1>10 DEF CoroutineStep

\* Nothing is canceled or terminal at first.
LEMMA HasTaskInit == Init => HasTask
BY DEF Init, HasTask, initialSnapshot, isTerminal

\* With the task first, this stays.
LEMMA HasTaskStep ==
  ASSUME SubmitFirst, TypeInv, HasTask, [Next]_vars
  PROVE  HasTask'
<1>0. snapshot \in Snapshots
  BY DEF TypeInv, TypeOK
<1>1. ASSUME NEW task \in Tasks, SubmitTask(task)
      PROVE  HasTask'
  <2>1. snapshot'.task = task
    BY <1>0, <1>1 DEF SubmitTask, Snapshots
  <2>2. task # NULL
    BY TemporalAssumption
  <2>. QED
    BY <2>1, <2>2 DEF HasTask
<1>2. ASSUME NEW delta, delta.delta_id \in DeltaIds, ApplyContextDelta(delta)
      PROVE  HasTask'
  <2>1. snapshot'.task = snapshot.task /\ snapshot'.state = "WORKING"
    BY <1>0, <1>2, ApplyResult
  <2>2. cancelRequested' = cancelRequested
    BY <1>2 DEF ApplyContextDelta
  <2>. QED
    BY <2>1, <2>2 DEF HasTask, isTerminal
<1>3. CASE RequestCancel
  <2>1. SameWork(snapshot, snapshot')
    BY <1>0, <1>3, CancelKeepsWork DEF RequestCancel, Errors
  <2>. QED
    BY <1>3, <2>1 DEF HasTask, RequestCancel, SameWork
<1>4. CASE CoroutineStep
  BY <1>4, CoroutineKeeps DEF HasTask
<1>5. CASE UNCHANGED <<snapshot, pendingDelta, cancelRequested, pc, call>>
  BY <1>5 DEF HasTask
<1>. QED
  BY <1>1, <1>2, <1>3, <1>4, <1>5, NextCases, UnseenKeeps

\* No step changes what was told of a terminal task.
LEMMA TerminalStep ==
  ASSUME TypeInv, CompleteInv, HasTask, [Next]_vars, isTerminal(snapshot.state)
  PROVE  /\ snapshot'.state = snapshot.state
         /\ snapshot'.error = snapshot.error
         /\ snapshot'.adoption_ref = snapshot.adoption_ref
         /\ snapshot'.state_seq = snapshot.state_seq
<1>0. snapshot \in Snapshots
  BY DEF TypeInv, TypeOK
<1>1. ~ \E task \in Tasks : SubmitTask(task)
  BY DEF SubmitTask, CompleteInv, ErrorFree, Entered, HasTask
<1>2. ~ \E delta : ApplyContextDelta(delta)
  BY DEF ApplyContextDelta, assertDeltaAllowed, isTerminal
<1>3. CASE RequestCancel
  <2>1. snapshot' = snapshot
    BY <1>0, <1>3, CancelKeepsWork DEF RequestCancel, Errors
  <2>. QED
    BY <2>1
<1>4. CASE CoroutineStep
  BY <1>4, CoroutineKeeps
<1>5. CASE UNCHANGED <<snapshot, pendingDelta, cancelRequested, pc, call>>
  BY <1>5
<1>. QED
  BY <1>1, <1>2, <1>3, <1>4, <1>5, NextCases, UnseenKeeps

\* Runs started by Update-With-Start: what a client was told of a terminal task
\* stays, whatever the coroutine still has in flight.
THEOREM ToldIsFinal ==
  ASSUME SubmitFirst
  PROVE  Spec => TerminalIsFinal
<1>. DEFINE Kept == /\ snapshot'.state = snapshot.state
                    /\ snapshot'.error = snapshot.error
                    /\ snapshot'.adoption_ref = snapshot.adoption_ref
                    /\ snapshot'.state_seq = snapshot.state_seq
            Inv == TypeInv /\ AdoptInv /\ CompleteInv /\ HasTask
<1>1. Init => Inv
  BY TypeInit, AdoptInit, CompleteInit, HasTaskInit
<1>2. Inv /\ [Next]_vars => Inv'
  BY TypeStep, AdoptStep, CompleteStep, HasTaskStep
<1>3. Inv /\ [Next]_vars => [isTerminal(snapshot.state) => Kept]_vars
  BY TerminalStep
<1>. QED
  BY <1>1, <1>2, <1>3, PTL DEF Spec, TerminalIsFinal

-----------------------------------------------------------------------------
(* The workflow implements the task contract.                              *)

\* The state the coroutine believes in, at each of its awaits.
StateAt ==
  [awaitSubmit       |-> "SUBMITTED",
   compileContext    |-> "COMPILING_CONTEXT",
   runAgentTurn      |-> "WORKING",
   mergeContextDelta |-> "WORKING",
   verifyCandidate   |-> "VERIFYING",
   adoptArtifact     |-> "ADOPTING"]

\* An open run that is not terminal is in the state its coroutine left it in.
\* Only the wait for input has two, before and after the delta.
StateKnown ==
  ~isTerminal(snapshot.state) =>
    /\ pc \in DOMAIN StateAt => snapshot.state = StateAt[pc]
    /\ pc = "awaitInput" =>
         snapshot.state = IF pendingDelta = NULL THEN "INPUT_REQUIRED" ELSE "WORKING"

DeltaWaits == pendingDelta # NULL => pc \in {"awaitInput", "returned"}

\* Nothing is counted before the task is there.
NotCounted == pc = "awaitSubmit" /\ snapshot.task = NULL => snapshot.state_seq = 0

LifecycleInv == StateKnown /\ DeltaWaits /\ NotCounted

\* The transition to state to, as the contract sees it.
Moved(to) ==
  /\ snapshot'.context_seq = snapshot.context_seq
  /\ snapshot'.applied_delta_ids = snapshot.applied_delta_ids
  /\ isTerminal(snapshot.state) =>
       snapshot'.state = snapshot.state /\ snapshot'.state_seq = snapshot.state_seq
  /\ ~isTerminal(snapshot.state) =>
       snapshot'.state = to /\ snapshot'.state_seq = snapshot.state_seq + 1

Told == <<snapshot.state, snapshot.state_seq, snapshot.context_seq, snapshot.applied_delta_ids>>

\* A transition is a move of the contract if its patch leaves alone what the
\* contract sees.
LEMMA TransitionIsMove ==
  ASSUME NEW s \in Snapshots, NEW patched \in Snapshots, NEW to \in LifecycleStates,
         snapshot' = Transition(s, to, patched),
         s.state = snapshot.state,
         s.state_seq = snapshot.state_seq /\ patched.state_seq = snapshot.state_seq,
         s.context_seq = snapshot.context_seq /\ patched.context_seq = snapshot.context_seq,
         /\ s.applied_delta_ids = snapshot.applied_delta_ids
         /\ patched.applied_delta_ids = snapshot.applied_delta_ids
  PROVE  Moved(to)
<1>1. CASE isTerminal(snapshot.state)
  <2>1. snapshot' = s
    BY <1>1, TransitionStays
  <2>. QED
    BY <1>1, <2>1 DEF Moved
<1>2. CASE ~isTerminal(snapshot.state)
  <2>1. /\ snapshot'.state = to
        /\ snapshot'.state_seq = patched.state_seq + 1
        /\ snapshot'.context_seq = patched.context_seq
        /\ snapshot'.applied_delta_ids = patched.applied_delta_ids
    BY <1>2, TransitionMoves
  <2>. QED
    BY <1>2, <2>1 DEF Moved
<1>. QED
  BY <1>1, <1>2

\* An end without a result is one.
LEMMA EndIsMove ==
  ASSUME NEW s \in Snapshots, NEW to \in {"FAILED", "CANCELED"}, NEW code \in Errors,
         snapshot' = Transition(s, to, [s EXCEPT !.error = code]),
         s.state = snapshot.state,
         s.state_seq = snapshot.state_seq,
         s.context_seq = snapshot.context_seq,
         s.applied_delta_ids = snapshot.applied_delta_ids
  PROVE  Moved(to)
<1>. DEFINE p == [s EXCEPT !.error = code]
<1>1. /\ p \in Snapshots
      /\ p.state_seq = s.state_seq
      /\ p.context_seq = s.context_seq
      /\ p.applied_delta_ids = s.applied_delta_ids
      /\ to \in LifecycleStates
  BY DEF Snapshots, LifecycleStates
<1>2. snapshot' = Transition(s, to, p)
  OBVIOUS
<1>. HIDE DEF p
<1>. QED
  BY <1>1, <1>2, TransitionIsMove

\* What a step may be, for the contract, or nothing.
ContractStep == [Lifecycle!Next]_(Lifecycle!lifecycle)

\* A step the contract does not see is a stutter of it.
LEMMA UntoldIsStutter == UNCHANGED Told => ContractStep
BY DEF Told, ContractStep, Lifecycle!lifecycle, appliedDeltas

\* A move the table allows is a step of the contract.
LEMMA MoveIsStep ==
  ASSUME snapshot \in Snapshots, NEW to \in LifecycleStates, Moved(to),
         ~isTerminal(snapshot.state) =>
           /\ to \in Lifecycle!TRANSITIONS[snapshot.state]
           /\ snapshot.state = "INPUT_REQUIRED" => isTerminal(to)
  PROVE  ContractStep
<1>1. CASE isTerminal(snapshot.state)
  BY <1>1, UntoldIsStutter DEF Moved, Told
<1>2. CASE ~isTerminal(snapshot.state)
  <2>1. to \in Lifecycle!TASK_STATES /\ appliedDeltas' = appliedDeltas
    BY DEF LifecycleStates, Lifecycle!TASK_STATES, Lifecycle!TERMINAL_STATES, Moved, appliedDeltas
  <2>2. Lifecycle!Move(to)
    BY <1>2, <2>1 DEF Lifecycle!Move, Moved, isTerminal, Lifecycle!TERMINAL_STATES
  <2>. QED
    BY <2>1, <2>2 DEF ContractStep, Lifecycle!Next
<1>. QED
  BY <1>1, <1>2

\* The rows of the table the workflow uses.
LEMMA Table ==
  /\ \A s \in LifecycleStates : ~isTerminal(s) =>
       /\ "FAILED" \in Lifecycle!TRANSITIONS[s]
       /\ "CANCELED" \in Lifecycle!TRANSITIONS[s]
  /\ "COMPILING_CONTEXT" \in Lifecycle!TRANSITIONS["SUBMITTED"]
  /\ "WORKING" \in Lifecycle!TRANSITIONS["COMPILING_CONTEXT"]
  /\ "INPUT_REQUIRED" \in Lifecycle!TRANSITIONS["WORKING"]
  /\ "VERIFYING" \in Lifecycle!TRANSITIONS["WORKING"]
  /\ "ADOPTING" \in Lifecycle!TRANSITIONS["VERIFYING"]
  /\ "COMPLETED" \in Lifecycle!TRANSITIONS["ADOPTING"]
BY DEF Lifecycle!TRANSITIONS, Lifecycle!Forward, Lifecycle!TASK_STATES, Lifecycle!TERMINAL_STATES,
       LifecycleStates, isTerminal

\* An end without a result is always allowed.
LEMMA EndIsStep ==
  ASSUME snapshot \in Snapshots, NEW to \in {"FAILED", "CANCELED"}, Moved(to)
  PROVE  ContractStep
<1>1. snapshot.state \in LifecycleStates /\ to \in LifecycleStates /\ isTerminal(to)
  BY DEF Snapshots, LifecycleStates, isTerminal
<1>2. ~isTerminal(snapshot.state) => to \in Lifecycle!TRANSITIONS[snapshot.state]
  BY <1>1, Table
<1>. QED
  BY <1>1, <1>2, MoveIsStep

\* The task is accepted once, as the first thing that is counted.
LEMMA SubmitIsStep ==
  ASSUME TypeInv, CompleteInv, HasTask, LifecycleInv, NEW task \in Tasks, SubmitTask(task)
  PROVE  ContractStep /\ LifecycleInv'
<1>0. snapshot \in Snapshots
  BY DEF TypeInv, TypeOK
<1>1. /\ snapshot.task = NULL /\ pc # "returned"
      /\ snapshot'.task = task
      /\ snapshot'.state = "SUBMITTED" /\ snapshot'.state_seq = 1
      /\ snapshot'.context_seq = snapshot.context_seq
      /\ snapshot'.applied_delta_ids = snapshot.applied_delta_ids
      /\ UNCHANGED <<pc, pendingDelta>>
  BY <1>0 DEF SubmitTask, Snapshots
<1>2. pc = "awaitSubmit" /\ ~isTerminal(snapshot.state)
  BY <1>1 DEF CompleteInv, ErrorFree, Entered, HasTask
<1>3. snapshot.state = "SUBMITTED" /\ snapshot.state_seq = 0
  BY <1>1, <1>2 DEF LifecycleInv, StateKnown, StateAt, NotCounted
<1>4. Lifecycle!Submit
  BY <1>1, <1>3 DEF Lifecycle!Submit, appliedDeltas
<1>5. task # NULL
  BY TemporalAssumption
<1>6. LifecycleInv'
  BY <1>1, <1>2, <1>5 DEF LifecycleInv, StateKnown, DeltaWaits, NotCounted, StateAt
<1>. QED
  BY <1>4, <1>6 DEF ContractStep, Lifecycle!Next

\* An accepted delta joins the applied ones.
LEMMA AppendElements ==
  ASSUME NEW q \in Seq(DeltaIds), NEW d \in DeltaIds
  PROVE  LET r == Append(q, d)
         IN  {r[i] : i \in 1 .. Len(r)} = {q[i] : i \in 1 .. Len(q)} \cup {d}
<1>. DEFINE r == Append(q, d)
<1>1. /\ Len(r) = Len(q) + 1 /\ Len(q) \in Nat
      /\ r[Len(q) + 1] = d
      /\ \A i \in 1 .. Len(q) : r[i] = q[i]
  OBVIOUS
<1>2. 1 .. Len(r) = (1 .. Len(q)) \cup {Len(q) + 1}
  BY <1>1
<1>. HIDE DEF r
<1>3. {r[i] : i \in 1 .. Len(r)} = {q[i] : i \in 1 .. Len(q)} \cup {d}
  BY <1>1, <1>2
<1>. QED
  BY <1>3 DEF r

\* A delta is accepted in the wait for input only, by compare-and-swap.
LEMMA ApplyIsStep ==
  ASSUME TypeInv, LifecycleInv, NEW delta, delta.delta_id \in DeltaIds,
         ApplyContextDelta(delta)
  PROVE  ContractStep /\ LifecycleInv'
<1>0. snapshot \in Snapshots /\ delta.delta_id # NULL
  BY TemporalAssumption DEF TypeInv, TypeOK
<1>1. /\ snapshot.state = "INPUT_REQUIRED"
      /\ delta.delta_id \notin appliedDeltas
      /\ pc # "returned"
      /\ pendingDelta' = delta.delta_id
      /\ pc' = pc
  BY DEF ApplyContextDelta, assertDeltaAllowed
<1>2. pc = "awaitInput"
  <2>1. ~isTerminal(snapshot.state) /\ pc \in Awaits
    BY <1>1 DEF isTerminal, TypeInv, TypeOK
  <2>. QED
    BY <1>1, <2>1 DEF LifecycleInv, StateKnown, StateAt, Awaits, Activities
<1>3. /\ snapshot'.state = "WORKING"
      /\ snapshot'.state_seq = snapshot.state_seq + 1
      /\ snapshot'.context_seq = snapshot.context_seq + 1
      /\ snapshot'.applied_delta_ids = Append(snapshot.applied_delta_ids, delta.delta_id)
  BY <1>0, ApplyCounts
<1>4. appliedDeltas' = appliedDeltas \cup {delta.delta_id}
  <2>1. snapshot.applied_delta_ids \in Seq(DeltaIds)
    BY <1>0 DEF Snapshots
  <2>. QED
    BY <1>3, <2>1, AppendElements DEF appliedDeltas
<1>5. Lifecycle!ApplyDelta(delta.delta_id)
  BY <1>1, <1>3, <1>4 DEF Lifecycle!ApplyDelta
<1>6. LifecycleInv'
  BY <1>0, <1>1, <1>2, <1>3 DEF LifecycleInv, StateKnown, DeltaWaits, NotCounted, StateAt
<1>. QED
  BY <1>5, <1>6 DEF ContractStep, Lifecycle!Next

\* A cancel request is a move to CANCELED, or nothing.
LEMMA CancelIsStep ==
  ASSUME SubmitFirst, TypeInv, LifecycleInv, RequestCancel
  PROVE  ContractStep /\ LifecycleInv'
<1>0. snapshot \in Snapshots /\ "CANCELED_BY_REQUEST" \in Errors
  BY DEF TypeInv, TypeOK, Errors
<1>1. /\ snapshot.task # NULL
      /\ snapshot' = Cancel("CANCELED_BY_REQUEST")
      /\ UNCHANGED <<pc, pendingDelta>>
  BY DEF RequestCancel
<1>2. SameWork(snapshot, snapshot') /\ isTerminal(snapshot'.state)
  BY <1>0, <1>1, CancelKeepsWork
<1>3. Moved("CANCELED")
  BY <1>0, <1>1, EndIsMove DEF Cancel
<1>4. LifecycleInv'
  BY <1>1, <1>2 DEF LifecycleInv, StateKnown, DeltaWaits, NotCounted, SameWork
<1>. QED
  BY <1>0, <1>3, <1>4, EndIsStep

\* A step after which the run has returned has nothing left to believe.
LEMMA ReturnedInv == pc' = "returned" => LifecycleInv'
BY DEF LifecycleInv, StateKnown, DeltaWaits, NotCounted, StateAt

\* A move of the coroutine to the await it is known for.
LEMMA MovedInv ==
  ASSUME NEW to, Moved(to), pendingDelta' = NULL,
         \/ pc' \in DOMAIN StateAt \ {"awaitSubmit"} /\ StateAt[pc'] = to
         \/ pc' = "awaitInput" /\ to = "INPUT_REQUIRED"
  PROVE  LifecycleInv'
<1>1. ~isTerminal(snapshot'.state) => snapshot'.state = to
  BY DEF Moved
<1>. QED
  BY <1>1 DEF LifecycleInv, StateKnown, DeltaWaits, NotCounted, StateAt

\* The start of the coroutine is a move to COMPILING_CONTEXT.
LEMMA StartIsStep ==
  ASSUME TypeInv, LifecycleInv, Start
  PROVE  ContractStep /\ LifecycleInv'
<1>0. snapshot \in Snapshots /\ pc = "awaitSubmit"
  BY DEF TypeInv, TypeOK, Start
<1>1. CASE cancelRequested
  BY <1>1, ReturnedInv, UntoldIsStutter DEF Start, Return, Told
<1>2. CASE ~cancelRequested
  <2>1. /\ snapshot' = Transition(snapshot, "COMPILING_CONTEXT", snapshot)
        /\ pc' = "compileContext"
        /\ pendingDelta' = pendingDelta
    BY <1>2 DEF Start, Schedule
  <2>2. "COMPILING_CONTEXT" \in LifecycleStates
    BY DEF LifecycleStates
  <2>3. Moved("COMPILING_CONTEXT")
    BY <1>0, <2>1, <2>2, TransitionIsMove
  <2>4. ~isTerminal(snapshot.state) => snapshot.state = "SUBMITTED"
    BY <1>0 DEF LifecycleInv, StateKnown, StateAt
  <2>5. pendingDelta = NULL
    BY <1>0 DEF LifecycleInv, DeltaWaits
  <2>6. ContractStep
    BY <1>0, <2>2, <2>3, <2>4, Table, MoveIsStep
  <2>7. LifecycleInv'
    BY <2>1, <2>3, <2>5, MovedInv DEF StateAt
  <2>. QED
    BY <2>6, <2>7
<1>. QED
  BY <1>1, <1>2

\* The contract does not see a delta being consumed.
LEMMA InputIsStep ==
  ASSUME TypeInv, LifecycleInv, InputArrived
  PROVE  ContractStep /\ LifecycleInv'
<1>1. snapshot' = snapshot
  BY DEF InputArrived
<1>2. LifecycleInv'
  <2>1. CASE cancelRequested
    BY <2>1, ReturnedInv DEF InputArrived, Return
  <2>2. CASE ~cancelRequested
    <3>1. /\ pc = "awaitInput" /\ pendingDelta # NULL
          /\ pc' = "mergeContextDelta" /\ pendingDelta' = NULL
      BY <2>2 DEF InputArrived, inputCondition, Schedule
    <3>. QED
      BY <1>1, <3>1 DEF LifecycleInv, StateKnown, DeltaWaits, NotCounted, StateAt
  <2>. QED
    BY <2>1, <2>2
<1>. QED
  BY <1>1, <1>2, UntoldIsStutter DEF Told

\* The head of the loop is the move to WORKING the first time, and a counted turn
\* after that.
LEMMA NextTurnIsStep ==
  ASSUME TypeInv, LifecycleInv, NEW compiled \in Contexts, NextTurn(compiled),
         pc \in {"compileContext", "mergeContextDelta"}, pendingDelta' = pendingDelta
  PROVE  ContractStep /\ LifecycleInv'
<1>. DEFINE s == [snapshot EXCEPT !.compiled_context_ref = compiled]
<1>0. snapshot \in Snapshots
  BY DEF TypeInv, TypeOK
<1>1. /\ s \in Snapshots
      /\ s.state = snapshot.state
      /\ s.state_seq = snapshot.state_seq
      /\ s.context_seq = snapshot.context_seq
      /\ s.applied_delta_ids = snapshot.applied_delta_ids
      /\ s.turn_no = snapshot.turn_no
  BY <1>0 DEF Snapshots
<1>2. CASE cancelRequested
  <2>1. snapshot' = s /\ pc' = "returned"
    BY <1>2 DEF NextTurn, Return
  <2>2. UNCHANGED Told
    BY <1>1, <2>1 DEF Told
  <2>. QED
    BY <2>1, <2>2, ReturnedInv, UntoldIsStutter
<1>3. CASE ~cancelRequested
  <2>1. /\ snapshot' = Transition(s, "WORKING", [s EXCEPT !.turn_no = @ + 1])
        /\ pc' = "runAgentTurn"
    BY <1>3 DEF NextTurn, Schedule
  <2>. HIDE DEF s
  <2>2. PICK n \in Nat : snapshot' = Transition(s, "WORKING", [s EXCEPT !.turn_no = n])
    <3>1. s.turn_no + 1 \in Nat
      BY <1>1 DEF Snapshots
    <3>. QED
      BY <2>1, <3>1
  <2>. DEFINE q == [s EXCEPT !.turn_no = n]
  <2>3. /\ q \in Snapshots
        /\ q.state_seq = s.state_seq
        /\ q.context_seq = s.context_seq
        /\ q.applied_delta_ids = s.applied_delta_ids
    BY <1>1 DEF Snapshots
  <2>4. snapshot' = Transition(s, "WORKING", q) /\ "WORKING" \in LifecycleStates
    BY <2>2 DEF LifecycleStates
  <2>. HIDE DEF q
  <2>5. Moved("WORKING")
    BY <1>1, <2>3, <2>4, TransitionIsMove
  <2>6. LifecycleInv'
    <3>1. pendingDelta' = NULL
      BY DEF LifecycleInv, DeltaWaits
    <3>. QED
      BY <2>1, <2>5, <3>1, MovedInv DEF StateAt
  <2>7. CASE pc = "compileContext"
    <3>1. ~isTerminal(snapshot.state) => snapshot.state = "COMPILING_CONTEXT"
      BY <2>7 DEF LifecycleInv, StateKnown, StateAt
    <3>2. ContractStep
      BY <1>0, <2>4, <2>5, <3>1, Table, MoveIsStep
    <3>. QED
      BY <2>6, <3>2
  <2>8. CASE pc = "mergeContextDelta"
    <3>1. ~isTerminal(snapshot.state) => snapshot.state = "WORKING"
      BY <2>8 DEF LifecycleInv, StateKnown, StateAt
    <3>2. CASE isTerminal(snapshot.state)
      BY <2>5, <2>6, <3>2, UntoldIsStutter DEF Moved, Told
    <3>3. CASE ~isTerminal(snapshot.state)
      <4>1. Lifecycle!BeginTurn
        BY <2>5, <3>1, <3>3 DEF Lifecycle!BeginTurn, Moved, appliedDeltas
      <4>. QED
        BY <2>6, <4>1 DEF ContractStep, Lifecycle!Next
    <3>. QED
      BY <3>2, <3>3
  <2>. QED
    BY <2>7, <2>8
<1>. QED
  BY <1>2, <1>3

\* The agent that needs input moves WORKING to INPUT_REQUIRED.
LEMMA NeedsInputIsStep ==
  ASSUME TypeInv, LifecycleInv, NEW r \in RequestIds, TurnNeedsInput(r)
  PROVE  ContractStep /\ LifecycleInv'
<1>. DEFINE p == [snapshot EXCEPT !.context_need = r]
<1>0. snapshot \in Snapshots
  BY DEF TypeInv, TypeOK
<1>1. /\ p \in Snapshots
      /\ p.state_seq = snapshot.state_seq
      /\ p.context_seq = snapshot.context_seq
      /\ p.applied_delta_ids = snapshot.applied_delta_ids
  BY <1>0 DEF Snapshots
<1>2. /\ snapshot' = Transition(snapshot, "INPUT_REQUIRED", p)
      /\ pc = "runAgentTurn" /\ pc' = "awaitInput"
      /\ pendingDelta' = pendingDelta
      /\ "INPUT_REQUIRED" \in LifecycleStates
  BY DEF TurnNeedsInput, LifecycleStates
<1>. HIDE DEF p
<1>3. Moved("INPUT_REQUIRED")
  BY <1>0, <1>1, <1>2, TransitionIsMove
<1>4. /\ ~isTerminal(snapshot.state) => snapshot.state = "WORKING"
      /\ pendingDelta = NULL
  BY <1>2 DEF LifecycleInv, StateKnown, DeltaWaits, StateAt
<1>5. ContractStep
  BY <1>0, <1>2, <1>3, <1>4, Table, MoveIsStep
<1>6. LifecycleInv'
  BY <1>2, <1>3, <1>4, MovedInv
<1>. QED
  BY <1>5, <1>6

\* A completed turn moves WORKING to VERIFYING, or fails.
LEMMA CompletedIsStep ==
  ASSUME TypeInv, LifecycleInv, NEW count \in 0 .. 2, TurnCompleted(count)
  PROVE  ContractStep /\ LifecycleInv'
<1>. DEFINE outputs == Outputs(call.turn_no, call.compiled, count)
            p == [snapshot EXCEPT !.candidate_artifact_refs = outputs]
<1>0. snapshot \in Snapshots /\ pc = "runAgentTurn" /\ pendingDelta' = pendingDelta
  BY DEF TypeInv, TypeOK, TurnCompleted
<1>1. CASE count = 0
  <2>1. snapshot' = Fail(snapshot, "WORKFLOW_FAILED") /\ pc' = "returned"
    BY <1>1 DEF TurnCompleted, Return
  <2>2. Moved("FAILED")
    BY <1>0, <2>1, EndIsMove DEF Fail, Errors
  <2>. QED
    BY <1>0, <2>1, <2>2, EndIsStep, ReturnedInv
<1>2. CASE count \in 1 .. 2
  <2>1. outputs \in Seq(Candidates)
    <3>1. call.turn_no \in Nat /\ call.compiled \in Contexts
      BY <1>0 DEF TypeInv, TypeOK, Calls
    <3>. QED
      BY <1>2, <3>1, OutputsType
  <2>2. snapshot' = Transition(snapshot, "VERIFYING", p) /\ pc' = "verifyCandidate"
    <3>1. count # 0
      BY <1>2
    <3>. QED
      BY <3>1 DEF TurnCompleted, Schedule, Outputs
  <2>. HIDE DEF outputs
  <2>3. /\ p \in Snapshots
        /\ p.state_seq = snapshot.state_seq
        /\ p.context_seq = snapshot.context_seq
        /\ p.applied_delta_ids = snapshot.applied_delta_ids
        /\ "VERIFYING" \in LifecycleStates
    BY <1>0, <2>1 DEF Snapshots, LifecycleStates
  <2>. HIDE DEF p
  <2>4. Moved("VERIFYING")
    BY <1>0, <2>2, <2>3, TransitionIsMove
  <2>5. /\ ~isTerminal(snapshot.state) => snapshot.state = "WORKING"
        /\ pendingDelta = NULL
    BY <1>0 DEF LifecycleInv, StateKnown, DeltaWaits, StateAt
  <2>6. ContractStep
    BY <1>0, <2>3, <2>4, <2>5, Table, MoveIsStep
  <2>7. LifecycleInv'
    BY <1>0, <2>2, <2>4, <2>5, MovedInv DEF StateAt
  <2>. QED
    BY <2>6, <2>7
<1>. QED
  BY <1>1, <1>2

\* An answer of the verifier moves VERIFYING to ADOPTING, or fails.
LEMMA VerifiedIsStep ==
  ASSUME TypeInv, LifecycleInv, NEW passed \in BOOLEAN, CandidateVerified(passed)
  PROVE  ContractStep /\ LifecycleInv'
<1>. DEFINE report == ReportOf(call.candidates, passed)
            s == [snapshot EXCEPT !.verification_report_ref = report]
<1>0. /\ snapshot \in Snapshots /\ call.candidates \in Seq(Candidates)
      /\ pc = "verifyCandidate" /\ pendingDelta' = pendingDelta
  BY DEF TypeInv, TypeOK, Calls, CandidateVerified
<1>1. report \in Reports \cup {NULL}
  BY <1>0, ReportType
<1>2. /\ passed => snapshot' = Transition(s, "ADOPTING", s) /\ pc' = "adoptArtifact"
      /\ ~passed => snapshot' = Fail(s, "VERIFICATION_FAILED") /\ pc' = "returned"
  BY DEF CandidateVerified, ReportOf, Schedule, Return
<1>. HIDE DEF report
<1>3. /\ s \in Snapshots
      /\ s.state = snapshot.state
      /\ s.state_seq = snapshot.state_seq
      /\ s.context_seq = snapshot.context_seq
      /\ s.applied_delta_ids = snapshot.applied_delta_ids
      /\ "ADOPTING" \in LifecycleStates
  BY <1>0, <1>1 DEF Snapshots, LifecycleStates
<1>. HIDE DEF s
<1>4. CASE passed
  <2>1. Moved("ADOPTING")
    BY <1>2, <1>3, <1>4, TransitionIsMove
  <2>2. /\ ~isTerminal(snapshot.state) => snapshot.state = "VERIFYING"
        /\ pendingDelta = NULL
    BY <1>0 DEF LifecycleInv, StateKnown, DeltaWaits, StateAt
  <2>3. ContractStep
    BY <1>0, <1>3, <2>1, <2>2, Table, MoveIsStep
  <2>4. LifecycleInv'
    BY <1>0, <1>2, <1>4, <2>1, <2>2, MovedInv DEF StateAt
  <2>. QED
    BY <2>3, <2>4
<1>5. CASE ~passed
  <2>1. Moved("FAILED")
    BY <1>2, <1>3, <1>5, EndIsMove DEF Fail, Errors
  <2>. QED
    BY <1>0, <1>2, <1>5, <2>1, EndIsStep, ReturnedInv
<1>. QED
  BY <1>4, <1>5

\* The adoption moves ADOPTING to COMPLETED.
LEMMA AdoptedIsStep ==
  ASSUME TypeInv, LifecycleInv, Adopted
  PROVE  ContractStep /\ LifecycleInv'
<1>. DEFINE c == call.candidates[1]
            p == [snapshot EXCEPT !.adoption_ref = c]
<1>0. /\ snapshot \in Snapshots
      /\ snapshot' = Transition(snapshot, "COMPLETED", p)
      /\ pc = "adoptArtifact" /\ pc' = "returned"
      /\ c \in Candidates
      /\ "COMPLETED" \in LifecycleStates
  BY DEF TypeInv, TypeOK, Adopted, Return, LifecycleStates
<1>. HIDE DEF c
<1>1. /\ p \in Snapshots
      /\ p.state_seq = snapshot.state_seq
      /\ p.context_seq = snapshot.context_seq
      /\ p.applied_delta_ids = snapshot.applied_delta_ids
  BY <1>0 DEF Snapshots
<1>. HIDE DEF p
<1>2. Moved("COMPLETED")
  BY <1>0, <1>1, TransitionIsMove
<1>3. ~isTerminal(snapshot.state) => snapshot.state = "ADOPTING"
  BY <1>0 DEF LifecycleInv, StateKnown, StateAt
<1>4. ContractStep
  BY <1>0, <1>2, <1>3, Table, MoveIsStep
<1>. QED
  BY <1>0, <1>4, ReturnedInv

\* An exception is an end without a result, or nothing.
LEMMA ThrownIsStep ==
  ASSUME TypeInv, Thrown
  PROVE  ContractStep /\ LifecycleInv'
<1>0. snapshot \in Snapshots /\ pc' = "returned"
  BY DEF TypeInv, TypeOK, Thrown
<1>1. "AGENT_FAILED" \in Errors /\ "WORKFLOW_FAILED" \in Errors /\ "TEMPORAL_CANCELED" \in Errors
  BY DEF Errors
<1>2. snapshot' = snapshot \/ Moved("FAILED") \/ Moved("CANCELED")
  BY <1>0, <1>1, EndIsMove DEF Thrown, Fail, Cancel
<1>3. snapshot' = snapshot => ContractStep
  BY UntoldIsStutter DEF Told
<1>4. Moved("FAILED") \/ Moved("CANCELED") => ContractStep
  BY <1>0, EndIsStep
<1>. QED
  BY <1>0, <1>2, <1>3, <1>4, ReturnedInv

\* So every move of the coroutine is one of the contract.
LEMMA CoroutineIsStep ==
  ASSUME TypeInv, LifecycleInv, CoroutineStep
  PROVE  ContractStep /\ LifecycleInv'
<1>1. CASE Start
  BY <1>1, StartIsStep
<1>2. CASE InputArrived
  BY <1>2, InputIsStep
<1>3. CASE ContextCompiled
  <2>1. <<>> \in Contexts
    BY DEF Contexts
  <2>. QED
    BY <1>3, <2>1, NextTurnIsStep DEF ContextCompiled
<1>4. CASE ContextMerged
  <2>1. Append(call.compiled, call.delta) \in Contexts
    BY <1>4 DEF TypeInv, Contexts, ContextMerged
  <2>. QED
    BY <1>4, <2>1, NextTurnIsStep DEF ContextMerged
<1>5. CASE Adopted
  BY <1>5, AdoptedIsStep
<1>6. CASE Thrown
  BY <1>6, ThrownIsStep
<1>7. CASE \E r \in RequestIds : TurnNeedsInput(r)
  BY <1>7, NeedsInputIsStep
<1>8. CASE \E count \in 0 .. 2 : TurnCompleted(count)
  BY <1>8, CompletedIsStep
<1>9. CASE \E passed \in BOOLEAN : CandidateVerified(passed)
  BY <1>9, VerifiedIsStep
<1>. QED
  BY <1>1, <1>2, <1>3, <1>4, <1>5, <1>6, <1>7, <1>8, <1>9 DEF CoroutineStep

\* A new run is a new task.
LEMMA ContractInit == Init => Lifecycle!Init /\ LifecycleInv
<1>. SUFFICES ASSUME Init PROVE Lifecycle!Init /\ LifecycleInv
  OBVIOUS
<1>1. /\ snapshot.state = "SUBMITTED" /\ snapshot.state_seq = 0 /\ snapshot.context_seq = 0
      /\ snapshot.applied_delta_ids = <<>>
      /\ pc = "awaitSubmit" /\ pendingDelta = NULL
  BY DEF Init, initialSnapshot
<1>2. appliedDeltas = {}
  BY <1>1 DEF appliedDeltas
<1>. QED
  BY <1>1, <1>2 DEF Lifecycle!Init, LifecycleInv, StateKnown, DeltaWaits, NotCounted, StateAt

\* Every step of a run is a step of the contract, or a stutter of it.
LEMMA ContractStepInv ==
  ASSUME SubmitFirst, TypeInv, CompleteInv, HasTask, LifecycleInv, [Next]_vars
  PROVE  ContractStep /\ LifecycleInv'
<1>1. CASE \E task \in Tasks : SubmitTask(task)
  BY <1>1, SubmitIsStep
<1>2. CASE \E delta : delta.delta_id \in DeltaIds /\ ApplyContextDelta(delta)
  BY <1>2, ApplyIsStep
<1>3. CASE RequestCancel
  BY <1>3, CancelIsStep
<1>4. CASE CoroutineStep
  BY <1>4, CoroutineIsStep
<1>5. CASE UNCHANGED <<snapshot, pendingDelta, cancelRequested, pc, call>>
  <2>1. ContractStep
    BY <1>5, UntoldIsStutter DEF Told
  <2>2. LifecycleInv'
    BY <1>5 DEF LifecycleInv, StateKnown, DeltaWaits, NotCounted
  <2>. QED
    BY <2>1, <2>2
<1>. QED
  BY <1>1, <1>2, <1>3, <1>4, <1>5, NextCases, UnseenKeeps

\* transition() never looks at the table of legal moves.  Runs started by
\* Update-With-Start follow it all the same: the workflow implements the contract.
THEOREM WorkflowImplementsContract ==
  ASSUME SubmitFirst
  PROVE  Spec => ImplementsLifecycle
<1>. DEFINE Inv == TypeInv /\ AdoptInv /\ CompleteInv /\ HasTask /\ LifecycleInv
<1>1. Init => Inv /\ Lifecycle!Init
  BY TypeInit, AdoptInit, CompleteInit, HasTaskInit, ContractInit
<1>2. Inv /\ [Next]_vars => Inv' /\ [Lifecycle!Next]_(Lifecycle!lifecycle)
  BY TypeStep, AdoptStep, CompleteStep, HasTaskStep, ContractStepInv DEF ContractStep
<1>. QED
  BY <1>1, <1>2, PTL DEF Spec, ImplementsLifecycle, Lifecycle!Spec

-----------------------------------------------------------------------------
(* The agent sees every delta, and every wait can be answered.             *)

\* A cancel before there is a candidate is one that wins.
THEOREM EarlyCancelWins == Spec => []EarlyCancelPreventsAdoption
<1>1. Init => AdoptInv
  BY AdoptInit
<1>2. TypeInv /\ AdoptInv /\ [Next]_vars => AdoptInv'
  BY AdoptStep
<1>3. AdoptInv => EarlyCancelPreventsAdoption
  BY DEF AdoptInv, ScheduledPassed, AdoptedScheduled, EarlyCancelPreventsAdoption, candidates
<1>. QED
  BY <1>1, <1>2, <1>3, TypeInvariant, PTL DEF Spec

appliedIds == snapshot.applied_delta_ids

\* What has been merged, and what is on its way into the context, is together
\* what has been accepted.
MergedAtAwait ==
  /\ pc \in {"awaitSubmit", "compileContext"} => appliedIds = <<>>
  /\ pc = "runAgentTurn" =>
       call.compiled = appliedIds /\ snapshot.compiled_context_ref = appliedIds
  /\ pc = "awaitInput" =>
       appliedIds = IF pendingDelta = NULL THEN snapshot.compiled_context_ref
                    ELSE Append(snapshot.compiled_context_ref, pendingDelta)
  /\ pc = "mergeContextDelta" => appliedIds = Append(call.compiled, call.delta)

CandidatesComplete ==
  \A i \in 1 .. Len(candidates) : candidates[i].context = appliedIds

ContextInv == MergedAtAwait /\ CandidatesComplete

\* At the two places a client can see, nothing is on its way.
LEMMA ContextImplies == ContextInv => ContextIsComplete
BY DEF ContextInv, MergedAtAwait, CandidatesComplete, ContextIsComplete, candidates, appliedIds

\* Nothing accepted, nothing merged.
LEMMA ContextInit == Init => ContextInv
<1>. SUFFICES ASSUME Init PROVE ContextInv
  OBVIOUS
<1>1. pc = "awaitSubmit" /\ candidates = <<>> /\ appliedIds = <<>>
  BY DEF Init, initialSnapshot, candidates, appliedIds
<1>. QED
  BY <1>1 DEF ContextInv, MergedAtAwait, CandidatesComplete

\* An accepted delta is on its way: none was, and there is no candidate yet.
LEMMA ContextApply ==
  ASSUME TypeInv, AdoptInv, LifecycleInv, ContextInv,
         NEW delta, delta.delta_id \in DeltaIds, ApplyContextDelta(delta)
  PROVE  ContextInv'
<1>0. snapshot \in Snapshots /\ delta.delta_id # NULL
  BY TemporalAssumption DEF TypeInv, TypeOK
<1>1. /\ pc = "awaitInput" /\ pc' = pc
      /\ pendingDelta = NULL /\ pendingDelta' = delta.delta_id
  <2>1. /\ snapshot.state = "INPUT_REQUIRED" /\ ~isTerminal(snapshot.state)
        /\ pc \in Awaits /\ pc # "returned"
        /\ pc' = pc /\ pendingDelta' = delta.delta_id
    BY DEF ApplyContextDelta, assertDeltaAllowed, isTerminal, TypeInv, TypeOK
  <2>. QED
    BY <2>1 DEF LifecycleInv, StateKnown, StateAt, Awaits, Activities
<1>2. /\ appliedIds' = Append(appliedIds, delta.delta_id)
      /\ snapshot'.compiled_context_ref = snapshot.compiled_context_ref
      /\ candidates' = candidates
  BY <1>0, ApplyResult, ApplyCounts DEF appliedIds, candidates
<1>3. candidates = <<>>
  BY <1>1 DEF AdoptInv, NothingYet, BeforeCandidates
<1>. QED
  BY <1>0, <1>1, <1>2, <1>3 DEF ContextInv, MergedAtAwait, CandidatesComplete

\* The turn is started with all of it.
LEMMA ContextNextTurn ==
  ASSUME TypeInv, ContextInv, NEW compiled \in Contexts, NextTurn(compiled),
         compiled = appliedIds
  PROVE  ContextInv'
<1>1. /\ snapshot' \in Snapshots
      /\ appliedIds' = appliedIds
      /\ candidates' = candidates
      /\ snapshot'.compiled_context_ref = compiled
      /\ \/ pc' = "returned" /\ call' = call
         \/ pc' = "runAgentTurn" /\ call' = Call(snapshot', NULL)
  BY NextTurnResult DEF TypeInv, TypeOK, appliedIds, candidates
<1>2. pc' = "runAgentTurn" => call'.compiled = compiled
  BY <1>1, CallType
<1>. QED
  BY <1>1, <1>2 DEF ContextInv, MergedAtAwait, CandidatesComplete

\* The candidates are made from all of it.
LEMMA ContextCompletes ==
  ASSUME TypeInv, ContextInv, NEW count \in 0 .. 2, TurnCompleted(count)
  PROVE  ContextInv'
<1>1. pc = "runAgentTurn" /\ call.compiled = appliedIds
  BY DEF TurnCompleted, ContextInv, MergedAtAwait
<1>2. /\ appliedIds' = appliedIds
      /\ pc' \in {"returned", "verifyCandidate"}
      /\ \/ candidates' = candidates
         \/ \A i \in 1 .. Len(candidates') : candidates'[i].context = call.compiled
  BY CompletedResult DEF appliedIds, candidates
<1>3. CandidatesComplete'
  BY <1>1, <1>2 DEF ContextInv, CandidatesComplete
<1>. QED
  BY <1>2, <1>3 DEF ContextInv, MergedAtAwait

\* Every step keeps the account.
LEMMA ContextStep ==
  ASSUME TypeInv, AdoptInv, CompleteInv, LifecycleInv, ContextInv, [Next]_vars
  PROVE  ContextInv'
<1>0. snapshot \in Snapshots
  BY DEF TypeInv, TypeOK
<1>1. ASSUME NEW task \in Tasks, SubmitTask(task)
      PROVE  ContextInv'
  <2>1. /\ appliedIds' = appliedIds /\ candidates' = candidates
        /\ snapshot'.compiled_context_ref = snapshot.compiled_context_ref
        /\ UNCHANGED <<pc, call, pendingDelta>>
    BY <1>0, <1>1 DEF SubmitTask, Snapshots, appliedIds, candidates
  <2>. QED
    BY <2>1 DEF ContextInv, MergedAtAwait, CandidatesComplete
<1>2. ASSUME NEW delta, delta.delta_id \in DeltaIds, ApplyContextDelta(delta)
      PROVE  ContextInv'
  BY <1>2, ContextApply
<1>3. CASE RequestCancel
  <2>1. SameWork(snapshot, snapshot') /\ UNCHANGED <<pc, call, pendingDelta>>
    BY <1>0, <1>3, CancelKeepsWork DEF RequestCancel, Errors
  <2>. QED
    BY <2>1 DEF SameWork, ContextInv, MergedAtAwait, CandidatesComplete, appliedIds, candidates
<1>4. CASE Start
  <2>1. /\ SameWork(snapshot, snapshot')
        /\ pc = "awaitSubmit"
        /\ pc' \in {"returned", "compileContext"}
    BY <1>0, <1>4, StartResult DEF Start
  <2>. QED
    BY <2>1 DEF SameWork, ContextInv, MergedAtAwait, CandidatesComplete, appliedIds, candidates
<1>5. CASE InputArrived
  <2>1. snapshot' = snapshot /\ pc = "awaitInput"
    BY <1>5 DEF InputArrived
  <2>2. \/ pc' = "returned"
        \/ /\ pc' = "mergeContextDelta" /\ pendingDelta \in DeltaIds \cup {NULL}
           /\ pendingDelta # NULL
           /\ call' = Call(snapshot, pendingDelta)
    BY <1>5 DEF InputArrived, inputCondition, Return, Schedule, TypeInv, TypeOK
  <2>3. pc' = "mergeContextDelta" =>
          /\ pendingDelta # NULL
          /\ call'.compiled = snapshot.compiled_context_ref /\ call'.delta = pendingDelta
    BY <1>0, <2>2, CallType
  <2>. QED
    BY <2>1, <2>2, <2>3 DEF ContextInv, MergedAtAwait, CandidatesComplete, appliedIds, candidates
<1>6. CASE ContextCompiled
  <2>1. <<>> \in Contexts /\ <<>> = appliedIds
    BY <1>6 DEF Contexts, ContextCompiled, ContextInv, MergedAtAwait
  <2>. QED
    BY <1>6, <2>1, ContextNextTurn DEF ContextCompiled
<1>7. CASE ContextMerged
  <2>1. /\ Append(call.compiled, call.delta) \in Contexts
        /\ Append(call.compiled, call.delta) = appliedIds
    BY <1>7 DEF TypeInv, Contexts, ContextMerged, ContextInv, MergedAtAwait
  <2>. QED
    BY <1>7, <2>1, ContextNextTurn DEF ContextMerged
<1>8. ASSUME NEW r \in RequestIds, TurnNeedsInput(r)
      PROVE  ContextInv'
  <2>1. /\ pc = "runAgentTurn" /\ pc' = "awaitInput"
        /\ pendingDelta' = pendingDelta
        /\ pendingDelta = NULL
    BY <1>8 DEF TurnNeedsInput, LifecycleInv, DeltaWaits
  <2>2. /\ appliedIds' = appliedIds /\ candidates' = candidates
        /\ snapshot'.compiled_context_ref = snapshot.compiled_context_ref
    BY <1>0, <1>8, NeedsInputResult DEF appliedIds, candidates
  <2>. QED
    BY <2>1, <2>2 DEF ContextInv, MergedAtAwait, CandidatesComplete
<1>9. ASSUME NEW count \in 0 .. 2, TurnCompleted(count)
      PROVE  ContextInv'
  BY <1>9, ContextCompletes
<1>10. ASSUME NEW passed \in BOOLEAN, CandidateVerified(passed)
       PROVE  ContextInv'
  <2>1. /\ appliedIds' = appliedIds /\ candidates' = candidates
        /\ pc' \in {"adoptArtifact", "returned"}
    BY <1>10, VerifiedResult DEF appliedIds, candidates
  <2>. QED
    BY <2>1 DEF ContextInv, MergedAtAwait, CandidatesComplete
<1>11. CASE Adopted
  <2>1. appliedIds' = appliedIds /\ candidates' = candidates /\ pc' = "returned"
    BY <1>11, AdoptedResult DEF appliedIds, candidates, Adopted, Return
  <2>. QED
    BY <2>1 DEF ContextInv, MergedAtAwait, CandidatesComplete
<1>12. CASE Thrown
  <2>1. SameWork(snapshot, snapshot') /\ pc' = "returned"
    BY <1>0, <1>12, ThrownResult DEF Thrown
  <2>. QED
    BY <2>1 DEF SameWork, ContextInv, MergedAtAwait, CandidatesComplete, appliedIds, candidates
<1>13. CASE UNCHANGED <<snapshot, pendingDelta, pc, call>>
  BY <1>13 DEF ContextInv, MergedAtAwait, CandidatesComplete, appliedIds, candidates
<1>. QED
  BY <1>1, <1>2, <1>3, <1>4, <1>5, <1>6, <1>7, <1>8, <1>9, <1>10, <1>11, <1>12, <1>13,
     NextCases, UnseenKeeps DEF CoroutineStep

\* A run that waits is one that asked.
Asked ==
  /\ pc # "returned" /\ isTerminal(snapshot.state) => cancelRequested
  /\ pc = "awaitInput" /\ pendingDelta = NULL /\ ~isTerminal(snapshot.state) =>
       snapshot.context_need \in RequestIds

\* The wait then admits every new delta.
LEMMA AskedImplies ==
  ASSUME TypeInv, LifecycleInv, Asked
  PROVE  WaitIsAnswerable
<1>. SUFFICES ASSUME pc = "awaitInput", pendingDelta = NULL, ~cancelRequested
              PROVE  /\ snapshot.context_need \in RequestIds
                     /\ \A d \in DeltaIds \ appliedDeltas :
                          assertDeltaAllowed([delta_id     |-> d,
                                              task         |-> snapshot.task,
                                              request_id   |-> snapshot.context_need,
                                              expected_seq |-> snapshot.context_seq])
  BY DEF WaitIsAnswerable
<1>1. ~isTerminal(snapshot.state) /\ snapshot.context_need \in RequestIds
  BY DEF Asked
<1>2. snapshot.state = "INPUT_REQUIRED"
  BY <1>1 DEF LifecycleInv, StateKnown
<1>. QED
  BY <1>1, <1>2 DEF assertDeltaAllowed

\* Every step of a run keeps this.
LEMMA AskedStep ==
  ASSUME TypeInv, CompleteInv, Asked, [Next]_vars
  PROVE  Asked'
<1>0. snapshot \in Snapshots
  BY DEF TypeInv, TypeOK
<1>1. ASSUME NEW task \in Tasks, SubmitTask(task)
      PROVE  Asked'
  <2>1. /\ snapshot'.state = "SUBMITTED" /\ pc' = pc
        /\ snapshot.task = NULL /\ pc # "returned"
    BY <1>0, <1>1 DEF SubmitTask, Snapshots
  <2>2. pc = "awaitSubmit"
    BY <2>1 DEF CompleteInv, ErrorFree, Entered
  <2>. QED
    BY <2>1, <2>2 DEF Asked, isTerminal
<1>2. ASSUME NEW delta, delta.delta_id \in DeltaIds, ApplyContextDelta(delta)
      PROVE  Asked'
  <2>1. pendingDelta' = delta.delta_id /\ delta.delta_id # NULL
    BY <1>2, TemporalAssumption DEF ApplyContextDelta
  <2>2. snapshot'.state = "WORKING"
    BY <1>0, <1>2, ApplyResult
  <2>. QED
    BY <2>1, <2>2 DEF Asked, isTerminal
<1>3. CASE RequestCancel
  <2>1. cancelRequested' /\ isTerminal(snapshot'.state)
    BY <1>0, <1>3, CancelKeepsWork DEF RequestCancel, Errors
  <2>. QED
    BY <2>1 DEF Asked
<1>4. ASSUME pc # "returned", cancelRequested' = cancelRequested, pc' # "awaitInput",
             \/ pc' = "returned"
             \/ ~isTerminal(snapshot.state) => ~isTerminal(snapshot'.state)
      PROVE  Asked'
  BY <1>4 DEF Asked
<1>5. CASE Start
  <2>1. pc = "awaitSubmit" /\ cancelRequested' = cancelRequested /\ pc' # "awaitInput"
    BY <1>5 DEF Start, Return, Schedule
  <2>. QED
    BY <1>0, <1>4, <1>5, <2>1, StartResult
<1>6. CASE InputArrived
  BY <1>4, <1>6 DEF InputArrived, Return, Schedule
<1>7. ASSUME NEW compiled \in Contexts, NextTurn(compiled), pc # "returned",
             cancelRequested' = cancelRequested
      PROVE  Asked'
  <2>1. /\ pc' # "awaitInput"
        /\ ~isTerminal(snapshot.state) => ~isTerminal(snapshot'.state)
    BY <1>0, <1>7, NextTurnResult
  <2>. QED
    BY <1>4, <1>7, <2>1
<1>8. CASE ContextCompiled
  <2>1. <<>> \in Contexts
    BY DEF Contexts
  <2>. QED
    BY <1>7, <1>8, <2>1 DEF ContextCompiled
<1>9. CASE ContextMerged
  <2>1. Append(call.compiled, call.delta) \in Contexts
    BY <1>9 DEF TypeInv, Contexts, ContextMerged
  <2>. QED
    BY <1>7, <1>9, <2>1 DEF ContextMerged
<1>10. CASE Adopted \/ Thrown
  <2>1. pc # "returned" /\ pc' = "returned" /\ cancelRequested' = cancelRequested
    BY <1>10 DEF Adopted, Return, Thrown
  <2>. QED
    BY <1>4, <2>1
<1>11. ASSUME NEW r \in RequestIds, TurnNeedsInput(r)
       PROVE  Asked'
  <2>1. pc = "runAgentTurn" /\ cancelRequested' = cancelRequested
    BY <1>11 DEF TurnNeedsInput
  <2>2. /\ isTerminal(snapshot.state) => snapshot' = snapshot
        /\ ~isTerminal(snapshot.state) =>
             ~isTerminal(snapshot'.state) /\ snapshot'.context_need = r
    BY <1>0, <1>11, NeedsInputResult
  <2>. QED
    BY <2>1, <2>2 DEF Asked
<1>12. ASSUME NEW count \in 0 .. 2, TurnCompleted(count)
       PROVE  Asked'
  <2>1. pc = "runAgentTurn" /\ cancelRequested' = cancelRequested
    BY <1>12 DEF TurnCompleted
  <2>2. /\ pc' # "awaitInput"
        /\ \/ pc' = "returned"
           \/ ~isTerminal(snapshot.state) => ~isTerminal(snapshot'.state)
    BY <1>12, CompletedResult
  <2>. QED
    BY <1>4, <2>1, <2>2
<1>13. ASSUME NEW passed \in BOOLEAN, CandidateVerified(passed)
       PROVE  Asked'
  <2>1. pc = "verifyCandidate" /\ cancelRequested' = cancelRequested
    BY <1>13 DEF CandidateVerified
  <2>2. /\ pc' # "awaitInput"
        /\ \/ pc' = "returned"
           \/ ~isTerminal(snapshot.state) => ~isTerminal(snapshot'.state)
    BY <1>13, VerifiedResult
  <2>. QED
    BY <1>4, <2>1, <2>2
<1>14. CASE UNCHANGED <<snapshot, pendingDelta, cancelRequested, pc>>
  BY <1>14 DEF Asked
<1>. QED
  BY <1>1, <1>2, <1>3, <1>5, <1>6, <1>8, <1>9, <1>10, <1>11, <1>12, <1>13, <1>14,
     NextCases, UnseenKeeps DEF CoroutineStep

\* A new run does not wait for input.
LEMMA AskedInit == Init => Asked
BY DEF Init, Asked, initialSnapshot, isTerminal

\* All of it.
IInv ==
  TypeInv /\ AdoptInv /\ CompleteInv /\ HasTask /\ LifecycleInv /\ ContextInv /\ Asked

\* The inductive invariant of runs that have their task first.
LEMMA Inductive ==
  ASSUME SubmitFirst
  PROVE  Spec => []IInv
<1>1. Init => IInv
  BY TypeInit, AdoptInit, CompleteInit, HasTaskInit, ContractInit, ContextInit, AskedInit
     DEF IInv
<1>2. IInv /\ [Next]_vars => IInv'
  BY TypeStep, AdoptStep, CompleteStep, HasTaskStep, ContractStepInv, ContextStep, AskedStep
     DEF IInv
<1>. QED
  BY <1>1, <1>2, PTL DEF Spec

\* No agent turn and no candidate is missing an accepted delta, or has one in
\* another order.
THEOREM ContextComplete ==
  ASSUME SubmitFirst
  PROVE  Spec => []ContextIsComplete
<1>1. IInv => ContextIsComplete
  BY ContextImplies DEF IInv
<1>. QED
  BY <1>1, Inductive, PTL

\* While a run waits for input, its snapshot admits a delta that answers: a task
\* does not wait for what every validator refuses.
THEOREM WaitAnswerable ==
  ASSUME SubmitFirst
  PROVE  Spec => []WaitIsAnswerable
<1>1. IInv => WaitIsAnswerable
  BY AskedImplies DEF IInv
<1>. QED
  BY <1>1, Inductive, PTL

-----------------------------------------------------------------------------
(* What is proved of every task of the contract is so of the workflow's.    *)

\* The contract that TaskLifecycleProofs is about: the same one, as Lifecycle.
Proved == INSTANCE TaskLifecycleProofs
  WITH state       <- snapshot.state,
       state_seq   <- snapshot.state_seq,
       context_seq <- snapshot.context_seq,
       applied     <- appliedDeltas

LEMMA WorkflowIsProvedTask ==
  ASSUME SubmitFirst
  PROVE  Spec => Proved!Spec
<1>. USE DEF Lifecycle!TERMINAL_STATES, Proved!TERMINAL_STATES,
            Lifecycle!TASK_STATES, Proved!TASK_STATES, Lifecycle!Forward, Proved!Forward,
            Lifecycle!TRANSITIONS, Proved!TRANSITIONS, Lifecycle!lifecycle, Proved!lifecycle
<1>1. Lifecycle!Init => Proved!Init
  BY DEF Lifecycle!Init, Proved!Init
<1>2. [Lifecycle!Next]_(Lifecycle!lifecycle) => [Proved!Next]_(Proved!lifecycle)
  BY DEF Lifecycle!Next, Proved!Next, Lifecycle!Submit, Proved!Submit,
         Lifecycle!Move, Proved!Move, Lifecycle!BeginTurn, Proved!BeginTurn,
         Lifecycle!ApplyDelta, Proved!ApplyDelta
<1>3. Spec => Lifecycle!Spec
  BY WorkflowImplementsContract DEF ImplementsLifecycle
<1>. QED BY <1>1, <1>2, <1>3, PTL DEF Lifecycle!Spec, Proved!Spec

\* A run whose snapshot is terminal changes neither its state nor a count of it
\* any more, whatever its coroutine and its handlers still do.
THEOREM TerminalRunIsAbsorbed ==
  ASSUME SubmitFirst
  PROVE  Spec => Lifecycle!TerminalAbsorbs
<1>1. Spec => Proved!TerminalAbsorbs
  BY WorkflowIsProvedTask, Proved!TerminalIsAbsorbing, PTL
<1>2. [(snapshot.state \in Proved!TERMINAL_STATES) => UNCHANGED Proved!lifecycle]_(Proved!lifecycle)
        => [(snapshot.state \in Lifecycle!TERMINAL_STATES) => UNCHANGED Lifecycle!lifecycle]_(Lifecycle!lifecycle)
  BY DEF Lifecycle!lifecycle, Proved!lifecycle, Lifecycle!TERMINAL_STATES, Proved!TERMINAL_STATES
<1>. QED BY <1>1, <1>2, PTL DEF Lifecycle!TerminalAbsorbs, Proved!TerminalAbsorbs

\* context_seq, which the next delta must name, is the number of the deltas the
\* run has accepted, each once.
THEOREM AcceptedDeltasAreCounted ==
  ASSUME SubmitFirst
  PROVE  Spec => []Lifecycle!ContextSeqCountsDeltas
<1>1. Proved!ContextSeqCountsDeltas => Lifecycle!ContextSeqCountsDeltas
  BY DEF Lifecycle!ContextSeqCountsDeltas, Proved!ContextSeqCountsDeltas,
         Lifecycle!IsFiniteSet, Proved!IsFiniteSet, Lifecycle!Cardinality, Proved!Cardinality
<1>. QED BY <1>1, WorkflowIsProvedTask, Proved!DeltasCounted, PTL
=============================================================================
