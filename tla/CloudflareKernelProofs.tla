----------------------- MODULE CloudflareKernelProofs -----------------------
(***************************************************************************)
(* Proofs about the Durable Object of one task, for any number of requests *)
(* in flight and any cap of the event log.                                 *)
(*                                                                         *)
(* A request may write what it computed from a snapshot it read long ago,  *)
(* so what is said of the stored snapshot has to be said of every snapshot *)
(* a request holds too.  That the log has no gap is not inductive when it  *)
(* is said of neighbours: a cut moves them.  Placed says it by counting    *)
(* back from the snapshot's seq.                                           *)
(***************************************************************************)
EXTENDS CloudflareKernel, TLAPS

\* The i-th of the kept events has the seq that its distance to the end says.
Placed(s) ==
  \A i \in 1 .. Len(s.events) : s.events[i].seq + Len(s.events) = s.seq + i

\* The kept events are legal moves that follow each other.
Legal(log) ==
  /\ \A i \in 1 .. Len(log) : log[i].seq # 1 => log[i].to \in TRANSITIONS[log[i].from]
  /\ \A i \in 2 .. Len(log) : log[i - 1].to = log[i].from

\* The log explains the snapshot s.
Explains(s) ==
  /\ Len(s.events) \in 1 .. EventCap
  /\ s.events[Len(s.events)].to = s.state
  /\ Placed(s)
  /\ Legal(s.events)

\* Every snapshot there is, stored or held, explains itself.
LogInv ==
  /\ snapshot # NULL => Explains(snapshot)
  /\ \A p \in Requests : held[p] # NULL =>
       /\ Explains(held[p])
       /\ snapshot # NULL

\* Without overlap there is one reader at most, and what it holds is stored.
TurnInv ==
  ~ overlap =>
    /\ \A p \in Requests : held[p] # NULL => held[p] = snapshot
    /\ \A p, q \in Requests : held[p] # NULL /\ held[q] # NULL => p = q

\* Before the first submit nobody has been told anything.
AckInv ==
  /\ snapshot = NULL => acked = {}
  /\ AckedEventsStay

KernelInv == TypeOK /\ LogInv /\ TurnInv /\ AckInv

-----------------------------------------------------------------------------
(* appendEvent.                                                            *)

\* The cut keeps the new event and the last ones before it, in their order.
LEMMA LastEvents ==
  ASSUME NEW log \in Seq(Events), Len(log) \in 1 .. EventCap, NEW e \in Events
  PROVE  LET cut == lastEvents(Append(log, e))
             d == Len(log) + 1 - Len(cut)
         IN  /\ cut \in Seq(Events)
             /\ Len(cut) = IF Len(log) < EventCap THEN Len(log) + 1 ELSE EventCap
             /\ \A i \in 1 .. Len(cut) :
                  /\ i + d \in 1 .. Len(log) + 1
                  /\ cut[i] = Append(log, e)[i + d]
<1> DEFINE long == Append(log, e)
           from == IF Len(long) > EventCap THEN Len(long) - EventCap + 1 ELSE 1
<1>1. /\ long \in Seq(Events) /\ Len(long) = Len(log) + 1
      /\ EventCap \in Nat \ {0}
  BY KernelAssumption
<1>2. from \in 1 .. Len(long)
  BY <1>1
<1>3. /\ SubSeq(long, from, Len(long)) \in Seq(Events)
      /\ Len(SubSeq(long, from, Len(long))) = Len(long) - from + 1
      /\ \A i \in 1 .. Len(long) - from + 1 :
           SubSeq(long, from, Len(long))[i] = long[from + i - 1]
  <2> HIDE DEF long, from
  <2> QED BY <1>1, <1>2
<1>4. lastEvents(long) = SubSeq(long, from, Len(long))
  BY DEF lastEvents
<1> DEFINE cut == lastEvents(long)
<1>5. /\ cut \in Seq(Events)
      /\ Len(cut) = Len(long) - from + 1
      /\ \A i \in 1 .. Len(cut) : cut[i] = long[from + i - 1]
  BY <1>3, <1>4
<1> HIDE DEF cut
<1>6. /\ Len(log) \in Nat /\ Len(log) <= EventCap
      /\ from = IF Len(log) < EventCap THEN 1 ELSE 2
  BY <1>1
<1> HIDE DEF long, from
<1>7. /\ Len(cut) = IF Len(log) < EventCap THEN Len(log) + 1 ELSE EventCap
      /\ Len(cut) \in Nat
      /\ from = Len(log) + 2 - Len(cut)
  <2>1. CASE Len(log) < EventCap
    BY <2>1, <1>1, <1>5, <1>6
  <2>2. CASE Len(log) = EventCap
    BY <2>2, <1>1, <1>5, <1>6
  <2> QED BY <2>1, <2>2, <1>1, <1>6
<1>8. ASSUME NEW i \in 1 .. Len(cut)
      PROVE  /\ i + (Len(log) + 1 - Len(cut)) \in 1 .. Len(log) + 1
             /\ cut[i] = long[i + (Len(log) + 1 - Len(cut))]
  <2>1. from + i - 1 = i + (Len(log) + 1 - Len(cut))
    BY <1>6, <1>7
  <2>2. i + (Len(log) + 1 - Len(cut)) \in 1 .. Len(log) + 1
    BY <1>1, <1>6, <1>7
  <2> QED BY <1>5, <2>1, <2>2
<1> QED BY <1>5, <1>7, <1>8 DEF cut, long

\* No event comes before the first.
LEMMA SeqIsNat ==
  ASSUME NEW e \in Events
  PROVE  e.seq \in Nat \ {0}
BY KernelAssumption DEF Events

\* A legal move leads to a state.
LEMMA MovesStay ==
  ASSUME NEW s \in STATES
  PROVE  TRANSITIONS[s] \subseteq STATES
BY DEF TRANSITIONS, STATES, TERMINAL

\* What a patch may hold.
AllPatches == [attempt : Attempts \cup {Kept}, state : STATES \cup {Kept},
               context_need : RequestIds \cup {NULL, Kept}]

\* A patch leaves a snapshot, of the same seq and events.
LEMMA Patched ==
  ASSUME NEW s \in Snapshots, NEW patch \in AllPatches
  PROVE  /\ withPatch(s, patch) \in Snapshots
         /\ withPatch(s, patch).seq = s.seq /\ withPatch(s, patch).events = s.events
<1>1. /\ patched(s.attempt, patch.attempt) \in Attempts
      /\ patched(s.state, patch.state) \in STATES
      /\ patched(s.context_need, patch.context_need) \in RequestIds \cup {NULL}
  BY DEF Snapshots, AllPatches, patched
<1> QED BY <1>1 DEF withPatch, Snapshots

LEMMA PatchesOfCode ==
  /\ NoPatch \in AllPatches /\ NoNeed \in AllPatches
  /\ Patches \subseteq AllPatches
BY PatchAssumption DEF AllPatches, NoPatch, NoNeed

\* The outcome of a legal move from a snapshot that explains itself does so too,
\* with the new event and every old one that is not EventCap events back.
LEMMA Appended ==
  ASSUME NEW s \in Snapshots, Explains(s), s.seq < MaxSeq,
         NEW to \in TRANSITIONS[s.state], NEW packet \in Packets \cup {NULL},
         NEW patch \in AllPatches
  PROVE  LET e == event(s, to, packet)
             n == appendEvent(s, e, patch)
         IN  /\ e \in Events /\ e.seq = s.seq + 1
             /\ n \in Snapshots /\ Explains(n)
             /\ n.seq = s.seq + 1
             /\ Contains(n.events, e)
             /\ \A f \in Events :
                  Contains(s.events, f) /\ f.seq + EventCap > n.seq => Contains(n.events, f)
<1> DEFINE e == event(s, to, packet)
           n == appendEvent(s, e, patch)
           w == withPatch(s, patch)
           log == s.events
           cut == lastEvents(Append(log, e))
           L == Len(log)
           d == L + 1 - Len(cut)
<1>1. /\ s.state \in STATES /\ s.seq \in 1 .. MaxSeq /\ log \in Seq(Events)
      /\ to \in STATES /\ MaxSeq \in Nat /\ EventCap \in Nat \ {0}
  BY MovesStay, KernelAssumption DEF Snapshots
<1>2. /\ e.seq = s.seq + 1 /\ e.from = s.state /\ e.to = to
      /\ e \in Events
  BY <1>1 DEF event, Events
<1>w. w \in Snapshots /\ w.events = log
  BY Patched
<1>n. n = [w EXCEPT !.state = e.to, !.seq = e.seq, !.events = cut]
  BY <1>w DEF appendEvent, withEvent
<1> HIDE DEF w
<1>3. /\ n.state = to /\ n.seq = s.seq + 1 /\ n.events = cut
  BY <1>2, <1>w, <1>n DEF Snapshots
<1>4. L \in 1 .. EventCap
  BY DEF Explains
<1> HIDE DEF e
<1>5. /\ cut \in Seq(Events)
      /\ Len(cut) = IF L < EventCap THEN L + 1 ELSE EventCap
      /\ \A i \in 1 .. Len(cut) : i + d \in 1 .. L + 1 /\ cut[i] = Append(log, e)[i + d]
  BY <1>1, <1>2, <1>4, LastEvents
<1>6. n \in Snapshots
  <2>1. e.to \in STATES /\ e.seq \in 1 .. MaxSeq
    BY <1>1, <1>2
  <2> HIDE DEF cut, n
  <2> QED BY <2>1, <1>5, <1>w, <1>n DEF Snapshots
<1> HIDE DEF cut, log
<1>7. /\ \A i \in 1 .. L : Append(log, e)[i] = log[i] /\ log[i] \in Events
      /\ Append(log, e)[L + 1] = e
      /\ L \in Nat /\ Len(cut) \in Nat
  BY <1>1, <1>5
<1>8. \A i \in 1 .. Len(cut) : IF i = Len(cut) THEN cut[i] = e
                                ELSE i + d \in 1 .. L /\ cut[i] = log[i + d]
  BY <1>5, <1>7
<1>9. /\ L = Len(s.events) /\ log = s.events
      /\ \A i \in 1 .. L : log[i].seq + L = s.seq + i
      /\ log[L].to = s.state
      /\ \A i \in 1 .. L : log[i].seq # 1 => log[i].to \in TRANSITIONS[log[i].from]
      /\ \A i \in 2 .. L : log[i - 1].to = log[i].from
  BY DEF Explains, Placed, Legal, log
<1>10. Len(cut) \in 1 .. EventCap /\ cut[Len(cut)] = e
  <2>1. Len(cut) \in 1 .. EventCap
    <3> HIDE DEF L
    <3> QED BY <1>1, <1>4, <1>5
  <2> QED BY <2>1, <1>8
<1>11. ASSUME NEW i \in 1 .. Len(cut)
       PROVE  cut[i].seq + Len(cut) = n.seq + i
  <2>1. CASE i = Len(cut)
    BY <2>1, <1>1, <1>2, <1>3, <1>8
  <2>2. CASE i # Len(cut)
    <3>1. i + d \in 1 .. L /\ cut[i] = log[i + d]
      BY <2>2, <1>8
    <3>2. PICK j \in 1 .. L : j = i + d /\ cut[i] = log[j]
      BY <3>1
    <3>3. cut[i].seq + L = s.seq + j
      BY <3>2, <1>9
    <3>4. cut[i].seq \in Nat
      BY <3>2, <1>7, SeqIsNat
    <3>5. L \in Nat /\ Len(cut) \in Nat /\ i \in Nat /\ s.seq \in Nat
      BY <1>1, <1>7
    <3>6. cut[i].seq + Len(cut) = s.seq + 1 + i
      <4>1. PICK v \in Nat, q \in Nat : v = cut[i].seq /\ q = s.seq
        BY <3>4, <3>5
      <4>2. PICK l \in Nat, k \in Nat : l = L /\ k = Len(cut)
        BY <3>5
      <4>3. v + l = q + j /\ j = i + (l + 1 - k)
        BY <3>2, <3>3, <4>1, <4>2
      <4> HIDE DEF L
      <4>4. v + k = q + 1 + i
        BY <3>2, <3>5, <4>3
      <4> QED BY <4>1, <4>2, <4>4
    <3> QED BY <3>5, <3>6, <1>3
  <2> QED BY <2>1, <2>2
<1>12. ASSUME NEW i \in 1 .. Len(cut), cut[i].seq # 1
       PROVE  cut[i].to \in TRANSITIONS[cut[i].from]
  BY <1>2, <1>8, <1>9, <1>12
<1>13. ASSUME NEW i \in 2 .. Len(cut)
       PROVE  cut[i - 1].to = cut[i].from
  <2>1. i - 1 \in 1 .. Len(cut) /\ i - 1 # Len(cut)
    BY <1>7
  <2>2. (i - 1) + d \in 1 .. L /\ cut[i - 1] = log[(i - 1) + d]
    BY <2>1, <1>8
  <2>3. CASE i = Len(cut)
    <3>1. (i - 1) + d = L
      BY <2>3, <1>7
    <3> QED BY <2>2, <2>3, <3>1, <1>2, <1>8, <1>9
  <2>4. CASE i # Len(cut)
    <3>1. i + d \in 2 .. L /\ cut[i] = log[i + d] /\ (i + d) - 1 = (i - 1) + d
      BY <2>2, <2>4, <1>7, <1>8
    <3> QED BY <2>2, <3>1, <1>9
  <2> QED BY <2>3, <2>4
<1>14. Explains(n)
  BY <1>2, <1>3, <1>10, <1>11, <1>12, <1>13 DEF Explains, Placed, Legal
<1>15. Contains(cut, e)
  BY <1>10 DEF Contains
<1>16. ASSUME NEW f \in Events, Contains(log, f), f.seq + EventCap > n.seq
       PROVE  Contains(cut, f)
  <2>1. PICK i \in 1 .. L : log[i] = f
    BY <1>16 DEF Contains
  <2>2. f.seq + L = s.seq + i /\ f.seq \in Nat
    BY <2>1, <1>9 DEF Events
  <2>3. s.seq \in Nat /\ L \in Nat /\ L <= EventCap /\ EventCap \in Nat /\ i \in Nat
    BY <1>1, <1>4, <1>7
  <2>4. i + EventCap > L + 1
    BY <2>2, <2>3, <1>16, <1>3
  <2>5. d = IF L < EventCap THEN 0 ELSE 1
    BY <2>3, <1>5
  <2>6. i > d /\ i <= L
    BY <2>3, <2>4, <2>5
  <2>7. i - d \in 1 .. Len(cut) /\ i - d # Len(cut) /\ (i - d) + d = i
    BY <2>3, <2>5, <2>6, <1>7
  <2>8. cut[i - d] = f
    BY <2>1, <2>7, <1>8
  <2> QED BY <2>7, <2>8 DEF Contains
<1> QED BY <1>2, <1>3, <1>6, <1>9, <1>14, <1>15, <1>16 DEF e

\* The same of a step that stores such a move.
LEMMA Stored ==
  ASSUME NEW s \in Snapshots, Explains(s), NEW to,
         NEW packet \in Packets \cup {NULL}, NEW patch \in AllPatches,
         Store(s, to, packet, patch)
  PROVE  /\ snapshot' \in Snapshots /\ snapshot' # NULL /\ Explains(snapshot')
         /\ snapshot'.seq = s.seq + 1
         /\ \E e \in Events :
              /\ e.seq = s.seq + 1 /\ Answer(e)
              /\ Contains(snapshot'.events, e)
         /\ \A f \in Events :
              Contains(s.events, f) /\ f.seq + EventCap > snapshot'.seq =>
                Contains(snapshot'.events, f)
<1> DEFINE e == event(s, to, packet)
<1>1. /\ to \in TRANSITIONS[s.state] /\ s.seq < MaxSeq
      /\ snapshot' = appendEvent(s, e, patch) /\ Answer(e)
  BY DEF Store
<1> HIDE DEF e
<1>2. /\ e \in Events /\ e.seq = s.seq + 1
      /\ snapshot' \in Snapshots /\ Explains(snapshot')
      /\ snapshot'.seq = s.seq + 1
      /\ Contains(snapshot'.events, e)
      /\ \A f \in Events :
           Contains(s.events, f) /\ f.seq + EventCap > snapshot'.seq =>
             Contains(snapshot'.events, f)
  BY <1>1, Appended DEF e
<1> QED BY <1>1, <1>2, NullIsNoSnapshot

-----------------------------------------------------------------------------
(* The invariant.                                                          *)

\* A request that stores a move of a snapshot s of the task, which is the stored
\* one if requests do not overlap, and holds nothing any more.
LEMMA WriteKeeps ==
  ASSUME KernelInv, snapshot # NULL, overlap' = overlap,
         NEW s \in Snapshots, Explains(s), NEW to,
         NEW packet \in Packets \cup {NULL}, NEW patch \in AllPatches,
         Store(s, to, packet, patch),
         held' \in [Requests -> Snapshots \cup {NULL}],
         \A q \in Requests : held'[q] \in {held[q], NULL},
         ~ overlap => s = snapshot /\ \A q \in Requests : held'[q] = NULL
  PROVE  KernelInv'
<1>1. PICK e \in Events :
        /\ e.seq = s.seq + 1 /\ Answer(e)
        /\ Contains(snapshot'.events, e)
  BY Stored
<1>2. /\ snapshot' \in Snapshots /\ snapshot' # NULL /\ Explains(snapshot')
      /\ snapshot'.seq = s.seq + 1
      /\ \A f \in Events :
           Contains(s.events, f) /\ f.seq + EventCap > snapshot'.seq =>
             Contains(snapshot'.events, f)
  BY Stored
<1>3. TypeOK'
  BY <1>1, <1>2 DEF KernelInv, TypeOK, Answer
<1>4. LogInv'
  BY <1>2 DEF KernelInv, LogInv
<1>5. TurnInv'
  BY DEF TurnInv
<1>6. AckInv'
  <2>1. SUFFICES ASSUME ~ overlap, NEW f \in acked'
                 PROVE  /\ f.seq <= snapshot'.seq
                        /\ f.seq + EventCap > snapshot'.seq => Contains(snapshot'.events, f)
    BY <1>2 DEF AckInv, AckedEventsStay
  <2>2. s = snapshot /\ s.seq \in Nat
    BY <2>1, KernelAssumption DEF Snapshots
  <2>3. CASE f = e
    BY <2>2, <2>3, <1>1, <1>2
  <2>4. CASE f \in acked
    <3>1. f \in Events /\ f.seq \in Nat
      BY <2>4, SeqIsNat DEF KernelInv, TypeOK
    <3>2. f.seq <= s.seq /\ (f.seq + EventCap > s.seq => Contains(s.events, f))
      BY <2>1, <2>2, <2>4 DEF KernelInv, AckInv, AckedEventsStay
    <3> QED BY <3>1, <3>2, <2>2, <1>2, KernelAssumption
  <2> QED BY <2>1, <2>3, <2>4, <1>1 DEF Answer
<1> QED BY <1>3, <1>4, <1>5, <1>6 DEF KernelInv

\* Nothing is stored, held or acknowledged yet.
LEMMA InitOK == Init => KernelInv
BY KernelAssumption
   DEF Init, KernelInv, TypeOK, LogInv, TurnInv, AckInv, AckedEventsStay

\* Each operation keeps the invariant.
LEMMA SubmitKeeps ==
  ASSUME KernelInv, NEW attempt \in Attempts, Submit(attempt)
  PROVE  KernelInv'
<1> DEFINE e == [seq |-> 1, from |-> NULL, to |-> "SUBMITTED", packet |-> NULL]
           s == [attempt |-> attempt, state |-> "SUBMITTED", seq |-> 1,
                 context_need |-> NULL, events |-> <<e>>]
<1>1. /\ snapshot' = s /\ acked' \in {{}, {e}} /\ overlap' = overlap /\ held' = held
      /\ \A p \in Requests : held[p] = NULL
  BY DEF Submit, isNew, KernelInv, LogInv, AckInv, Answer
<1>2. e \in Events /\ <<e>> \in Seq(Events) /\ 1 \in 1 .. MaxSeq /\ "SUBMITTED" \in STATES
  BY KernelAssumption DEF Events, STATES
<1>3. s \in Snapshots
  BY <1>2 DEF Snapshots
<1>4. Explains(s)
  BY KernelAssumption DEF Explains, Placed, Legal
<1>5. s # NULL
  BY <1>3, NullIsNoSnapshot
<1>6. Contains(s.events, e) /\ e.seq = s.seq
  BY DEF Contains
<1> HIDE DEF s, e
<1>7. TypeOK' /\ LogInv'
  BY <1>1, <1>2, <1>3, <1>4, <1>5 DEF KernelInv, TypeOK, LogInv
<1>8. TurnInv' /\ AckInv'
  BY <1>1, <1>2, <1>5, <1>6, SeqIsNat DEF KernelInv, TurnInv, AckInv, AckedEventsStay
<1> QED BY <1>7, <1>8 DEF KernelInv

LEMMA CancelKeeps ==
  ASSUME KernelInv, Cancel
  PROVE  KernelInv'
<1>1. /\ snapshot \in Snapshots /\ Explains(snapshot)
  BY DEF KernelInv, TypeOK, LogInv, Cancel
<1>2. /\ held' = held /\ held \in [Requests -> Snapshots \cup {NULL}]
      /\ overlap' = overlap /\ snapshot # NULL
      /\ ~ overlap => \A q \in Requests : held[q] = NULL
  BY DEF Cancel, mayServe, KernelInv, TypeOK
<1>3. Store(snapshot, "CANCELED", NULL, NoPatch)
  BY DEF Cancel
<1> QED BY <1>1, <1>2, <1>3, WriteKeeps, PatchesOfCode

\* What a request holds when it comes to write.
LEMMA HeldIsSound ==
  ASSUME KernelInv, NEW p \in Requests, held[p] # NULL, Forget(p)
  PROVE  /\ held[p] \in Snapshots /\ Explains(held[p])
         /\ snapshot # NULL
         /\ held' \in [Requests -> Snapshots \cup {NULL}]
         /\ \A q \in Requests : held'[q] \in {held[q], NULL}
         /\ ~ overlap => held[p] = snapshot /\ \A q \in Requests : held'[q] = NULL
BY DEF KernelInv, TypeOK, LogInv, TurnInv, Forget

LEMMA ContextDeltaKeeps ==
  ASSUME KernelInv, NEW p \in Requests, NEW delta, delta.packet_id \in Packets,
         ContextDelta(p, delta)
  PROVE  KernelInv'
<1>1. /\ held[p] # NULL /\ Forget(p) /\ overlap' = overlap
      /\ Store(held[p], "WORKING", delta.packet_id, NoNeed)
  BY DEF ContextDelta
<1> QED BY <1>1, HeldIsSound, WriteKeeps, PatchesOfCode

LEMMA TransitionKeeps ==
  ASSUME KernelInv, NEW p \in Requests, NEW to, NEW patch \in Patches,
         Transition(p, to, patch)
  PROVE  KernelInv'
<1>1. /\ held[p] # NULL /\ Forget(p) /\ overlap' = overlap
      /\ Store(held[p], to, NULL, patch)
  BY DEF Transition
<1> QED BY <1>1, HeldIsSound, WriteKeeps, PatchesOfCode

LEMMA ReadKeeps ==
  ASSUME KernelInv, NEW p \in Requests, Read(p)
  PROVE  KernelInv'
<1>1. TypeOK' /\ LogInv' /\ TurnInv'
  BY DEF KernelInv, TypeOK, LogInv, TurnInv, Read, mayServe
<1>2. AckInv'
  BY DEF KernelInv, AckInv, AckedEventsStay, Read
<1> QED BY <1>1, <1>2 DEF KernelInv

LEMMA RejectKeeps ==
  ASSUME KernelInv, NEW p \in Requests, Reject(p)
  PROVE  KernelInv'
<1>1. TypeOK' /\ LogInv' /\ TurnInv'
  BY HeldIsSound DEF KernelInv, TypeOK, LogInv, TurnInv, Reject, Forget
<1>2. AckInv'
  BY DEF KernelInv, AckInv, AckedEventsStay, Reject
<1> QED BY <1>1, <1>2 DEF KernelInv

LEMMA NextKeeps ==
  ASSUME KernelInv, [Next]_vars
  PROVE  KernelInv'
<1>1. CASE \E attempt \in Attempts : Submit(attempt)
  BY <1>1, SubmitKeeps
<1>2. CASE Cancel
  BY <1>2, CancelKeeps
<1>3. CASE \E p \in Requests : Read(p) \/ Reject(p)
  BY <1>3, ReadKeeps, RejectKeeps
<1>4. CASE \E p \in Requests : \E attempt \in Attempts, seq \in 1 .. MaxSeq,
               r \in RequestIds \cup {NULL}, id \in Packets :
             ContextDelta(p, [attempt |-> attempt, expected_seq |-> seq, request_id |-> r,
                              packet_id |-> id])
  BY <1>4, ContextDeltaKeeps
<1>5. CASE \E p \in Requests : \E to \in STATES, patch \in Patches :
             Transition(p, to, patch)
  BY <1>5, TransitionKeeps
<1>6. CASE UNCHANGED vars
  BY <1>6 DEF vars, KernelInv, TypeOK, LogInv, TurnInv, AckInv, AckedEventsStay,
              Explains, Placed, Legal
<1> QED BY <1>1, <1>2, <1>3, <1>4, <1>5, <1>6 DEF Next

\* Every snapshot, stored or held, explains itself at any time; without overlap
\* a held one is the stored one, and the log has what was acknowledged.
THEOREM Inductive == Spec => []KernelInv
BY InitOK, NextKeeps, PTL DEF Spec

-----------------------------------------------------------------------------
(* What follows from it.                                                   *)

\* Every snapshot, stored or held, and every acknowledged event has its type.
THEOREM TypeCorrect == Spec => []TypeOK
<1>1. KernelInv => TypeOK
  BY DEF KernelInv
<1> QED BY <1>1, Inductive, PTL

\* Whatever requests race, the stored log is one legal history without a gap,
\* and its last event is the stored state.
THEOREM LogExplainsStateAlways == Spec => []LogExplainsState
<1>1. ASSUME KernelInv PROVE LogExplainsState
  <2> SUFFICES ASSUME snapshot # NULL PROVE LogExplainsState
    BY DEF LogExplainsState
  <2> DEFINE log == snapshot.events
             n == Len(log)
  <2>1. /\ log \in Seq(Events) /\ snapshot.seq \in Nat
        /\ n \in 1 .. EventCap /\ EventCap \in Nat /\ n \in Nat
        /\ log[n].to = snapshot.state
    BY <1>1, KernelAssumption DEF KernelInv, TypeOK, LogInv, Explains, Snapshots
  <2>2. /\ \A i \in 1 .. n : log[i].seq + n = snapshot.seq + i
        /\ \A i \in 1 .. n : log[i].seq # 1 => log[i].to \in TRANSITIONS[log[i].from]
        /\ \A i \in 2 .. n : log[i - 1].to = log[i].from
    BY <1>1 DEF KernelInv, LogInv, Explains, Placed, Legal
  <2>3. \A i \in 1 .. n : log[i].seq \in Nat \ {0}
    <3>1. \A i \in 1 .. n : log[i] \in Events
      BY <2>1
    <3> QED BY <3>1, SeqIsNat
  <2> HIDE DEF log, n
  <2>4. log[n].seq = snapshot.seq
    BY <2>1, <2>2, <2>3
  <2>5. ASSUME NEW i \in 1 .. n, i > 1
        PROVE  log[i - 1].seq + 1 = log[i].seq /\ log[i].seq # 1
    <3>1. i - 1 \in 1 .. n /\ i \in Nat
      BY <2>1, <2>5
    <3>2. /\ log[i - 1].seq + n = snapshot.seq + (i - 1)
          /\ log[i].seq + n = snapshot.seq + i
          /\ log[i - 1].seq \in Nat \ {0} /\ log[i].seq \in Nat \ {0}
      BY <2>2, <2>3, <3>1
    <3>3. PICK a \in Nat \ {0}, b \in Nat \ {0} : a = log[i - 1].seq /\ b = log[i].seq
      BY <3>2
    <3>4. PICK q \in Nat : q = snapshot.seq
      BY <2>1
    <3>5. a + n = q + (i - 1) /\ b + n = q + i
      BY <3>2, <3>3, <3>4
    <3>6. a + 1 = b /\ b # 1
      BY <2>1, <3>1, <3>5
    <3> QED BY <3>3, <3>6
  <2>6. \A i \in 1 .. n :
          IF log[i].seq = 1 THEN i = 1
          ELSE /\ log[i].to \in TRANSITIONS[log[i].from]
               /\ i > 1 => log[i - 1].to = log[i].from /\ log[i - 1].seq + 1 = log[i].seq
    BY <2>1, <2>2, <2>5
  <2> QED BY <2>1, <2>4, <2>6 DEF LogExplainsState, log, n
<1> QED BY <1>1, Inductive, PTL

\* An event a client was told of stays until EventCap later ones have pushed it
\* out, if requests do not overlap.
THEOREM AckedEventsStayAlways == Spec => []AckedEventsStay
<1>1. KernelInv => AckedEventsStay
  BY DEF KernelInv, AckInv
<1> QED BY <1>1, Inductive, PTL

\* A terminal task never changes again, if requests do not overlap.
THEOREM TerminalIsImmutableInTurnAlways == Spec => TerminalIsImmutableInTurn
<1>1. ASSUME KernelInv, Next, ~ overlap, snapshot # NULL, snapshot.state \in TERMINAL
      PROVE  snapshot' = snapshot
  <2>1. ~ Cancel /\ \A attempt \in Attempts : ~ Submit(attempt)
    BY <1>1 DEF Cancel, Submit, isNew
  <2>2. ASSUME NEW p \in Requests, NEW delta
        PROVE  ~ ContextDelta(p, delta)
    BY <1>1 DEF ContextDelta, isCurrent, KernelInv, TurnInv, TERMINAL
  <2>3. ASSUME NEW p \in Requests, NEW to, NEW patch
        PROVE  ~ Transition(p, to, patch)
    BY <1>1 DEF Transition, KernelInv, TurnInv
  <2>4. PICK p \in Requests : Read(p) \/ Reject(p)
    BY <1>1, <2>1, <2>2, <2>3 DEF Next
  <2> QED BY <2>4 DEF Read, Reject
<1>2. KernelInv /\ [Next]_vars =>
        [~ overlap /\ snapshot # NULL /\ snapshot.state \in TERMINAL => snapshot' = snapshot]_vars
  BY <1>1
<1> QED BY <1>2, Inductive, PTL DEF Spec, TerminalIsImmutableInTurn
=============================================================================
