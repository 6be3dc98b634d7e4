-------------------------- MODULE CodexModeActions --------------------------
(***************************************************************************)
(* The Codex-mode actions, lib/codex-mode-gpt-actions.js of the gateway:   *)
(* boot, status and evidence put together one answer from several reads of *)
(* a repository whose branches others push to between the reads.           *)
(***************************************************************************)
EXTENDS Naturals, Sequences, SequencesExt

CONSTANTS
  TTL,             \* freshness_ttl_seconds of every state file
  MaxCommits,      \* bound: commits ever made to main
  MaxProvider,     \* bound: commits of the provider branch
  MaxTime,         \* bound: the clock
  None

ASSUME CodexAssumption ==
  TTL \in Nat \ {0} /\ MaxCommits \in Nat /\ MaxProvider \in Nat /\ MaxTime \in Nat

VARIABLES
  head,            \* the head of main: a commit, the path of ids that leads to it
  tree,            \* tree[id]: the state file as of commit id
  rewritten,       \* main has been force-pushed
  provider,        \* head of the provider branch: its number of commits
  clock,
  call,            \* the open call, by what it has read
  answer           \* the last answer, or None

repoVars == <<head, tree, rewritten, provider, clock>>
vars == <<repoVars, call, answer>>

\* observed: the time it was written, against: the commit it was reconciled
\* with; attempts: those whose evidence it names, one per provider commit.
StateFile(against, attempts) ==
  [observed |-> clock, against |-> against, attempts |-> attempts]

Idle == [at |-> "idle"]

Init ==
  /\ head = <<1>>
  /\ tree = <<[observed |-> 0, against |-> <<>>, attempts |-> 0]>>
  /\ rewritten = FALSE
  /\ provider = 0
  /\ clock = 0
  /\ call = Idle
  /\ answer = None

-----------------------------------------------------------------------------
(* The repository.                                                         *)

History(commit) == Prefixes(commit) \ {<<>>}

\* A push to main, with or without a new state file; onto an older commit it
\* is a force push.
Push ==
  /\ Len(tree) < MaxCommits
  /\ \E base \in History(head) :
       /\ head' = Append(base, Len(tree) + 1)
       /\ rewritten' = (rewritten \/ base # head)
       /\ \E file \in {tree[Last(base)]} \cup
                      {StateFile(against, provider) : against \in History(base)} :
            tree' = Append(tree, file)
  /\ UNCHANGED <<provider, clock, call, answer>>

PushProvider ==
  /\ provider < MaxProvider
  /\ provider' = provider + 1
  /\ UNCHANGED <<head, tree, rewritten, clock, call, answer>>

Tick ==
  /\ clock < MaxTime
  /\ clock' = clock + 1
  /\ UNCHANGED <<head, tree, rewritten, provider, call, answer>>

-----------------------------------------------------------------------------
(* The calls.                                                              *)

Parts(kind) ==
  {"main", "provider", "pr"} \cup IF kind = "boot" THEN {"handoff", "manifest"} ELSE {}

\* The time compared with is that of the call.
Load(kind) ==
  /\ call.at = "idle"
  /\ call' = [at |-> "state", kind |-> kind, now |-> clock]
  /\ answer' = None
  /\ UNCHANGED repoVars

freshness(file, now) == [stale |-> now > file.observed + TTL]

ReadState ==
  /\ call.at = "state"
  /\ call' = [at |-> "parts", kind |-> call.kind, now |-> call.now,
              commit |-> head, state |-> tree[Last(head)],
              missing |-> Parts(call.kind),
              got |-> [p \in Parts(call.kind) |-> None]]
  /\ UNCHANGED <<repoVars, answer>>

\* One of the reads of Promise.all: main, handoff and manifest by the name of
\* the branch, the other two by that of the provider branch.
ReadPart ==
  /\ call.at = "parts"
  /\ \E p \in call.missing :
       LET left == call.missing \ {p} IN
       call' = [call EXCEPT !.got[p] = IF p \in {"provider", "pr"} THEN provider ELSE head,
                            !.missing = left,
                            !.at = IF left = {} THEN "compare" ELSE "parts"]
  /\ UNCHANGED <<repoVars, answer>>

BugCompareSwapped(snapshot, live) ==
  CASE snapshot = <<>>                 -> "UNKNOWN"
    [] snapshot = live                 -> "EQUAL"
    [] IsStrictPrefix(live, snapshot)  -> "ANCESTOR"
    [] IsStrictPrefix(snapshot, live)  -> "SNAPSHOT_AHEAD"
    [] OTHER                           -> "DIVERGED"

compareSnapshotToLive(snapshot, live) ==
  CASE snapshot = <<>>                 -> "UNKNOWN"
    [] snapshot = live                 -> "EQUAL"
    [] IsStrictPrefix(snapshot, live)  -> "ANCESTOR"
    [] IsStrictPrefix(live, snapshot)  -> "SNAPSHOT_AHEAD"
    [] OTHER                           -> "DIVERGED"

Snapshot(relation) ==
  [kind |-> call.kind, commit |-> call.commit, state |-> call.state, got |-> call.got,
   relation |-> relation, freshness |-> freshness(call.state, call.now), evidence |-> {}]

\* A comparison that fails is an unknown relation.
Compare ==
  /\ call.at = "compare"
  /\ \E relation \in {"UNKNOWN", compareSnapshotToLive(call.state.against, call.got["main"])} :
       IF call.kind = "evidence" /\ call.state.attempts > 0
       THEN /\ call' = [at |-> "evidence", snapshot |-> Snapshot(relation),
                        missing |-> 1 .. call.state.attempts]
            /\ UNCHANGED answer
       ELSE /\ call' = Idle
            /\ answer' = Snapshot(relation)
  /\ UNCHANGED repoVars

\* Evidence of one attempt, or the error of reading it, which fails nothing.
ReadEvidence ==
  /\ call.at = "evidence"
  /\ \E i \in call.missing, read \in BOOLEAN :
       LET left == call.missing \ {i}
           s == [call.snapshot EXCEPT !.evidence =
                   IF read /\ i <= provider THEN @ \cup {i} ELSE @]
       IN  IF left = {}
           THEN call' = Idle /\ answer' = s
           ELSE /\ call' = [call EXCEPT !.snapshot = s, !.missing = left]
                /\ UNCHANGED answer
  /\ UNCHANGED repoVars

\* Any other read that fails fails the call.
ReadFails ==
  /\ call.at \in {"state", "parts"}
  /\ call' = Idle
  /\ UNCHANGED <<repoVars, answer>>

Next ==
  \/ Push
  \/ PushProvider
  \/ Tick
  \/ \E kind \in {"boot", "status", "evidence"} : Load(kind)
  \/ ReadState
  \/ ReadPart
  \/ Compare
  \/ ReadEvidence
  \/ ReadFails

Spec == Init /\ [][Next]_vars

-----------------------------------------------------------------------------
\* However pushes fall between its reads, an answer from a main that is only
\* pushed forward is no contradiction in itself: the state was reconciled with
\* an ancestor of the head it is reported with (ANCESTOR_OR_EQUAL), hand-off
\* and manifest are not older than the state, neither provider head is older
\* than the attempts the state names, and a state reported stale is stale.
AnswerIsCoherent ==
  answer # None =>
    /\ ~ rewritten =>
         /\ answer.relation \in {"EQUAL", "ANCESTOR", "UNKNOWN"}
         /\ \A p \in DOMAIN answer.got \ {"provider", "pr"} :
              IsPrefix(answer.commit, answer.got[p])
    /\ \A p \in {"provider", "pr"} : answer.state.attempts <= answer.got[p]
    /\ answer.freshness.stale => clock > answer.state.observed + TTL
=============================================================================
