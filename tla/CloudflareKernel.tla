-------------------------- MODULE CloudflareKernel --------------------------
(***************************************************************************)
(* The Durable Object that keeps one task (deploy/cloudflare-kernel/src).  *)
(* Its storage operations close the input gate, any other await opens it:  *)
(* /submit reads its body first and /cancel reads none, so each is one     *)
(* step; /context and /transition read the snapshot, then await the body   *)
(* (and a digest), then write what they computed from the snapshot they    *)
(* have read.  Other requests may be served in between.                    *)
(*                                                                         *)
(* A rejected request changes nothing; only its reading step is seen.      *)
(***************************************************************************)
EXTENDS Naturals, Sequences, SequencesExt

CONSTANTS
  Requests,        \* requests to /context and /transition that may be in flight
  Attempts,        \* what a delta names a task by: task_id and attempt_id
  Packets,         \* packet_ids of context deltas
  RequestIds,      \* request_ids of context needs
  Patches,         \* what the patch of a transition may do to the snapshot
  EventCap,        \* events kept in the snapshot (256 in the code)
  MaxSeq,          \* bound: no event beyond this seq
  Modes,           \* which values overlap may have
  Kept,            \* of a field of a patch: the patch does not have it
  NULL             \* null, and undefined

ASSUME KernelAssumption ==
  /\ EventCap \in Nat \ {0}
  /\ MaxSeq \in Nat \ {0}
  /\ Modes \in SUBSET BOOLEAN
  /\ NULL \notin Requests \cup Attempts \cup Packets \cup RequestIds

VARIABLES
  overlap,         \* TRUE: clients do not wait for each other's answers
  snapshot,        \* the stored snapshot, NULL before the first submit
  held,            \* held[p]: the snapshot request p has read and not used yet
  acked            \* without overlap: the events clients have been answered 200 for

vars == <<overlap, snapshot, held, acked>>

TERMINAL == {"COMPLETED", "FAILED", "CANCELED"}
STATES == {"SUBMITTED", "WORKING", "INPUT_REQUIRED"} \cup TERMINAL

TRANSITIONS ==
  [s \in STATES |->
     CASE s = "SUBMITTED"      -> {"WORKING", "FAILED", "CANCELED"}
       [] s = "WORKING"        -> {"INPUT_REQUIRED", "COMPLETED", "FAILED", "CANCELED"}
       [] s = "INPUT_REQUIRED" -> {"WORKING", "FAILED", "CANCELED"}
       [] OTHER                -> {}]

Events == [seq : 1 .. MaxSeq, from : STATES \cup {NULL}, to : STATES,
           packet : Packets \cup {NULL}]

\* execution_hash is left out: it only words the answer to a second submit.
Snapshots == [attempt : Attempts, state : STATES, seq : 1 .. MaxSeq,
              context_need : RequestIds \cup {NULL}, events : Seq(Events)]

ASSUME NullIsNoSnapshot == NULL \notin Snapshots

\* A patch is any object. Of its keys only those count that the kernel reads.
ASSUME PatchAssumption ==
  /\ Kept \notin STATES \cup Attempts \cup RequestIds \cup {NULL}
  /\ Patches \subseteq [attempt : Attempts \cup {Kept}, state : STATES \cup {Kept},
                        context_need : RequestIds \cup {NULL, Kept}]

NoPatch == [attempt |-> Kept, state |-> Kept, context_need |-> Kept]
NoNeed == [NoPatch EXCEPT !.context_need = NULL]

TypeOK ==
  /\ overlap \in BOOLEAN
  /\ snapshot \in Snapshots \cup {NULL}
  /\ held \in [Requests -> Snapshots \cup {NULL}]
  /\ acked \in SUBSET Events

-----------------------------------------------------------------------------
\* (Variants named Bug... are mistakes this code could contain.  Nothing uses
\* them here: they show which property would notice.)

BugSeqBackwards(s, to, packet) ==
  [seq |-> s.seq - 1, from |-> s.state, to |-> to, packet |-> packet]

\* appendEvent: the event that moves snapshot s, and s with the patch and that
\* event in it. What the event says is written over what the patch says.
event(s, to, packet) == [seq |-> s.seq + 1, from |-> s.state, to |-> to, packet |-> packet]

BugKeepsTooMany(events) ==
  SubSeq(events, IF Len(events) > EventCap THEN Len(events) - EventCap ELSE 1, Len(events))

BugDropsTooEarly(events) ==
  SubSeq(events, IF Len(events) >= EventCap THEN Len(events) - EventCap + 2 ELSE 1,
         Len(events))

lastEvents(events) ==
  SubSeq(events, IF Len(events) > EventCap THEN Len(events) - EventCap + 1 ELSE 1,
         Len(events))

patched(old, new) == IF new = Kept THEN old ELSE new

withPatch(s, patch) ==
  [s EXCEPT !.attempt = patched(@, patch.attempt), !.state = patched(@, patch.state),
            !.context_need = patched(@, patch.context_need)]

withEvent(s, e) ==
  [s EXCEPT !.state = e.to, !.seq = e.seq, !.events = lastEvents(Append(@, e))]

BugPatchLast(s, e, patch) == withPatch(withEvent(s, e), patch)

appendEvent(s, e, patch) == withEvent(withPatch(s, patch), e)

\* The client is told of the event.
Answer(e) == acked' = IF overlap THEN acked ELSE acked \cup {e}

\* The event goes to storage and to the client.
Store(s, to, packet, patch) ==
  LET e == event(s, to, packet)
  IN  /\ to \in TRANSITIONS[s.state]
      /\ s.seq < MaxSeq
      /\ snapshot' = appendEvent(s, e, patch)
      /\ Answer(e)

\* Without overlap, a request is served when no other is.
mayServe == overlap \/ \A p \in Requests : held[p] = NULL

-----------------------------------------------------------------------------
BugResubmitReopens == snapshot # NULL => snapshot.state \in TERMINAL

\* No snapshot is stored yet.
isNew == snapshot = NULL

\* POST /submit of a new task; a replay answers with the snapshot, another
\* capsule is a task_conflict.
Submit(attempt) ==
  /\ mayServe
  /\ isNew
  /\ LET e == [seq |-> 1, from |-> NULL, to |-> "SUBMITTED", packet |-> NULL]
     IN  /\ snapshot' = [attempt |-> attempt, state |-> "SUBMITTED", seq |-> 1,
                         context_need |-> NULL, events |-> <<e>>]
         /\ Answer(e)
  /\ UNCHANGED <<overlap, held>>

\* POST /cancel: a terminal task is replayed.
Cancel ==
  /\ mayServe
  /\ snapshot # NULL
  /\ snapshot.state \notin TERMINAL
  /\ Store(snapshot, "CANCELED", NULL, NoPatch)
  /\ UNCHANGED <<overlap, held>>

\* POST /context and /transition, up to the await of the body.
Read(p) ==
  /\ mayServe
  /\ held[p] = NULL
  /\ snapshot # NULL
  /\ held' = [held EXCEPT ![p] = snapshot]
  /\ UNCHANGED <<overlap, snapshot, acked>>

Forget(p) == held' = [held EXCEPT ![p] = NULL]

\* The delta answers the need of the snapshot that was read, at its seq. One
\* without a request_id answers a snapshot without a need.
isCurrent(s, delta) ==
  /\ s.state = "INPUT_REQUIRED"
  /\ delta.attempt = s.attempt
  /\ delta.expected_seq = s.seq
  /\ delta.request_id = s.context_need

ContextDelta(p, delta) ==
  /\ held[p] # NULL
  /\ isCurrent(held[p], delta)
  /\ Store(held[p], "WORKING", delta.packet_id, NoNeed)
  /\ Forget(p)
  /\ UNCHANGED overlap

\* The runner moves the task. Its patch may replace what it likes: the need, but
\* also the attempt, on any move; and a move to INPUT_REQUIRED needs none.
Transition(p, to, patch) ==
  /\ held[p] # NULL
  /\ held[p].state \notin TERMINAL
  /\ Store(held[p], to, NULL, patch)
  /\ Forget(p)
  /\ UNCHANGED overlap

\* The body is refused: an illegal move, a stale delta, no valid JSON.
Reject(p) ==
  /\ held[p] # NULL
  /\ Forget(p)
  /\ UNCHANGED <<overlap, snapshot, acked>>

-----------------------------------------------------------------------------
Init ==
  /\ overlap \in Modes
  /\ snapshot = NULL
  /\ held = [p \in Requests |-> NULL]
  /\ acked = {}

Next ==
  \/ \E attempt \in Attempts : Submit(attempt)
  \/ Cancel
  \/ \E p \in Requests :
       \/ Read(p)
       \/ \E attempt \in Attempts, seq \in 1 .. MaxSeq, r \in RequestIds \cup {NULL},
             id \in Packets :
            ContextDelta(p, [attempt |-> attempt, expected_seq |-> seq, request_id |-> r,
                             packet_id |-> id])
       \/ \E to \in STATES, patch \in Patches : Transition(p, to, patch)
       \/ Reject(p)

Spec == Init /\ [][Next]_vars

-----------------------------------------------------------------------------
(* Properties.                                                             *)

\* Whatever requests race and whatever their patches hold, what is stored is the
\* outcome of one legal history:
\* the kept events follow each other without a gap, each is a legal move, and
\* the last one is the snapshot's state and seq.
LogExplainsState ==
  snapshot # NULL =>
    LET log == snapshot.events
    IN  /\ Len(log) \in 1 .. EventCap
        /\ log[Len(log)].to = snapshot.state
        /\ log[Len(log)].seq = snapshot.seq
        /\ \A i \in 1 .. Len(log) :
             IF log[i].seq = 1 THEN i = 1
             ELSE /\ log[i].to \in TRANSITIONS[log[i].from]
                  /\ i > 1 => log[i - 1].to = log[i].from /\ log[i - 1].seq + 1 = log[i].seq

\* Requests that do not overlap lose nothing: an event a client was told of
\* stays in the log until EventCap later ones have pushed it out.
AckedEventsStay ==
  ~overlap =>
    \A e \in acked :
      /\ e.seq <= snapshot.seq
      /\ e.seq + EventCap > snapshot.seq => Contains(snapshot.events, e)

\* "terminal transitions are immutable" (tests/kernel-contract.test.mjs), as
\* the kernel's own snapshot sees it.
TerminalIsImmutable ==
  [][snapshot # NULL /\ snapshot.state \in TERMINAL => snapshot' = snapshot]_vars

\* The same, while requests do not overlap.
TerminalIsImmutableInTurn ==
  [][~overlap /\ snapshot # NULL /\ snapshot.state \in TERMINAL => snapshot' = snapshot]_vars
=============================================================================
