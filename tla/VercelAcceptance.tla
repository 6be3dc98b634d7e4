-------------------------- MODULE VercelAcceptance --------------------------
(***************************************************************************)
(* The live acceptance probe, app/api/acceptance/vercel-p0/route.js: one   *)
(* client of VercelBackend that drives a fresh task through a need for     *)
(* context, a stale delta, a repeated start and a valid delta.  Its limits *)
(* on polling are left out: what is shown is that nothing but time can make*)
(* it fail.                                                                *)
(***************************************************************************)
EXTENDS VercelBackend

CONSTANTS Probe, Task

VARIABLES
  stage,           \* the call the probe makes next, or its verdict
  waiting          \* the snapshot it found INPUT_REQUIRED, and of which run

probeVars == <<vars, stage, waiting>>

AcceptanceInit ==
  /\ BackendInit
  /\ stage = "submit"
  /\ waiting = [run |-> None, snapshot |-> NoSnapshot]

ProbeDelta(id, seq) ==
  [id |-> id, attempt |-> Task.attempt, request |-> waiting.snapshot.need, seq |-> seq]

ProbeCall ==
  /\ answer[Probe] = NoAnswer
  /\ CASE stage \in {"submit", "replay"} -> Submit(Probe, Task)
       [] stage \in {"input", "end"} -> ReadStatus(Probe, waiting.run, None)
       [] stage = "stale" -> ReadStatus(Probe, waiting.run,
                               ProbeDelta("stale", waiting.snapshot.context_seq + 1))
       [] stage = "apply" -> ReadStatus(Probe, waiting.run,
                               ProbeDelta("valid", waiting.snapshot.context_seq))
  /\ UNCHANGED <<calls, stage, waiting>>

\* The checks that remain when the run has ended.
Passed(s) ==
  /\ s.state = "COMPLETED"
  /\ s.context_seq = waiting.snapshot.context_seq + 1
  /\ s.turn_no = 2
  /\ s.report # None /\ s.adoption # None

\* Where an answer leads. A stage that leads to itself asks again.
NextStage(a) ==
  CASE stage = "submit" -> IF a.result = "accepted" THEN "input" ELSE "failed"
    [] stage = "input"  -> IF seen[Probe].snapshot.state = "INPUT_REQUIRED"
                           THEN "stale" ELSE "input"
    [] stage = "stale"  -> IF a.result = "STALE_SEQUENCE" THEN "replay" ELSE "failed"
    [] stage = "replay" -> IF a.result = "accepted" /\ a.replay /\ a.run = waiting.run
                           THEN "apply" ELSE "failed"
    [] stage = "apply"  -> CASE a.result = "resumed" -> "end"
                             [] a.result = "CONTEXT_HOOK_NOT_READY" -> "apply"
                             [] OTHER -> "failed"
    [] stage = "end"    -> CASE ~ Terminal(seen[Probe].snapshot) -> "end"
                             [] Passed(seen[Probe].snapshot) -> "passed"
                             [] OTHER -> "failed"

ProbeReact ==
  LET a == answer[Probe] IN
  /\ At(Probe, "idle") /\ a # NoAnswer
  /\ stage' = NextStage(a)
  /\ waiting' = CASE stage = "submit" /\ a.result = "accepted" -> [waiting EXCEPT !.run = a.run]
                  [] stage = "input" /\ stage' = "stale" -> seen[Probe]
                  [] OTHER -> waiting
  /\ answer' = [answer EXCEPT ![Probe] = NoAnswer]
  /\ UNCHANGED <<runVars, call, seen, calls>>

ProbeStep ==
  \/ stage \notin {"passed", "failed"} /\ ProbeCall
  \/ ClientStep(Probe) /\ UNCHANGED <<stage, waiting>>
  \/ ProbeReact

EngineStep(r) == RunStep(r) /\ UNCHANGED <<clientVars, stage, waiting>>

AcceptanceNext ==
  \/ ProbeStep
  \/ \E r \in Runs : EngineStep(r)
  \/ \E r \in Runs : RunFault(r) /\ UNCHANGED <<clientVars, stage, waiting>>

AcceptanceSpec ==
  /\ AcceptanceInit /\ [][AcceptanceNext]_probeVars
  /\ WF_probeVars(ProbeStep)
  /\ \A r \in Runs : WF_probeVars(EngineStep(r))

-----------------------------------------------------------------------------
\* With the fixture agent and steps that are at worst made twice, the probe
\* ends, and with every check satisfied: no order of its calls and the run's
\* steps makes it see a wrong error, a second run or a run that waits for ever.
AcceptancePasses == <>(stage = "passed")
=============================================================================
