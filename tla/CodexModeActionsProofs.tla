----------------------- MODULE CodexModeActionsProofs -----------------------
(***************************************************************************)
(* Proofs about the answers of the Codex-mode actions, for any length of   *)
(* the history, any TTL and any number of pushes between the reads.        *)
(*                                                                         *)
(* What a call has read is compared with the commit its state was read     *)
(* from: the state was reconciled with an ancestor of that commit, and all *)
(* that is read later is not older than it, as long as main is not         *)
(* force-pushed.                                                           *)
(***************************************************************************)
EXTENDS CodexModeActions, SequenceTheorems, TLAPS

Commits == Seq(Nat)
Files == [observed : Nat, against : Commits, attempts : Nat]
ProviderParts == {"provider", "pr"}

-----------------------------------------------------------------------------
(* Prefixes and histories.                                                 *)

LEMMA PrefixIs ==
  ASSUME NEW s \in Commits, NEW t \in Commits
  PROVE  IsPrefix(s, t) <=> /\ Len(s) <= Len(t)
                            /\ \A i \in 1 .. Len(s) : s[i] = t[i]
<1>1. CASE Len(s) <= Len(t)
  <2>1. /\ SubSeq(s, 1, Len(s)) \in Commits /\ SubSeq(t, 1, Len(s)) \in Commits
        /\ Len(SubSeq(s, 1, Len(s))) = Len(s) /\ Len(SubSeq(t, 1, Len(s))) = Len(s)
        /\ \A i \in 1 .. Len(s) : SubSeq(s, 1, Len(s))[i] = s[i] /\ SubSeq(t, 1, Len(s))[i] = t[i]
    <3>1. \A i \in 1 .. Len(s) : s[i] \in Nat /\ t[i] \in Nat
      BY <1>1 DEF Commits
    <3>2. Len(s) \in Nat /\ Len(s) - 1 + 1 = Len(s)
      BY DEF Commits
    <3> QED BY <3>1, <3>2, SubSeqProperties DEF Commits
  <2>2. SubSeq(s, 1, Len(s)) = SubSeq(t, 1, Len(s)) <=>
          \A i \in 1 .. Len(s) : SubSeq(s, 1, Len(s))[i] = SubSeq(t, 1, Len(s))[i]
    BY <2>1, SeqEqual DEF Commits
  <2> QED BY <1>1, <2>1, <2>2 DEF IsPrefix
<1>2. CASE ~ (Len(s) <= Len(t))
  BY <1>2 DEF IsPrefix
<1> QED BY <1>1, <1>2

LEMMA PrefixOrder ==
  ASSUME NEW s \in Commits, NEW t \in Commits, NEW u \in Commits
  PROVE  /\ IsPrefix(s, s)
         /\ IsPrefix(<<>>, s)
         /\ IsPrefix(s, t) /\ IsPrefix(t, u) => IsPrefix(s, u)
         /\ IsPrefix(s, t) /\ IsPrefix(t, s) => s = t
<1>1. Len(s) \in Nat /\ Len(t) \in Nat /\ Len(u) \in Nat
  BY DEF Commits
<1>2. IsPrefix(s, s)
  BY <1>1, PrefixIs
<1>3. <<>> \in Commits /\ Len(<<>>) = 0
  BY DEF Commits
<1>4. IsPrefix(<<>>, s)
  BY <1>1, <1>3, PrefixIs
<1>5. ASSUME IsPrefix(s, t), IsPrefix(t, u) PROVE IsPrefix(s, u)
  <2>1. /\ Len(s) <= Len(t) /\ \A i \in 1 .. Len(s) : s[i] = t[i]
        /\ Len(t) <= Len(u) /\ \A i \in 1 .. Len(t) : t[i] = u[i]
    BY <1>5, PrefixIs
  <2>2. Len(s) <= Len(u) /\ \A i \in 1 .. Len(s) : s[i] = u[i]
    BY <1>1, <2>1
  <2> QED BY <2>2, PrefixIs
<1>6. ASSUME IsPrefix(s, t), IsPrefix(t, s) PROVE s = t
  <2>1. /\ Len(s) <= Len(t) /\ \A i \in 1 .. Len(s) : s[i] = t[i]
        /\ Len(t) <= Len(s)
    BY <1>6, PrefixIs
  <2> QED BY <1>1, <2>1, SeqEqual DEF Commits
<1> QED BY <1>2, <1>4, <1>5, <1>6

LEMMA PrefixOfChild ==
  ASSUME NEW s \in Commits, NEW n \in Nat
  PROVE  /\ Append(s, n) \in Commits /\ Append(s, n) # <<>> /\ Last(Append(s, n)) = n
         /\ IsPrefix(s, Append(s, n))
<1>1. /\ Append(s, n) \in Commits /\ Len(Append(s, n)) = Len(s) + 1 /\ Len(s) \in Nat
      /\ \A i \in 1 .. Len(s) : Append(s, n)[i] = s[i]
      /\ Append(s, n)[Len(s) + 1] = n
  BY DEF Commits
<1>2. PICK t \in Commits : t = Append(s, n)
  BY <1>1
<1>3. t # <<>> /\ Last(t) = n
  BY <1>1, <1>2 DEF Last
<1>4. Len(s) <= Len(t) /\ \A i \in 1 .. Len(s) : s[i] = t[i]
  BY <1>1, <1>2
<1>5. IsPrefix(s, t)
  BY <1>4, PrefixIs
<1> QED BY <1>1, <1>2, <1>3, <1>5

\* The history of a commit is its prefixes but for the empty one.
LEMMA HistoryIs ==
  ASSUME NEW h \in Commits, NEW c
  PROVE  c \in History(h) <=> c \in Commits /\ c # <<>> /\ IsPrefix(c, h)
<1>1. ASSUME c \in History(h) PROVE c \in Commits /\ c # <<>> /\ IsPrefix(c, h)
  <2>1. PICK l \in 0 .. Len(h) : c = SubSeq(h, 1, l)
    BY <1>1 DEF History, Prefixes
  <2>2. l \in Nat /\ l <= Len(h) /\ Len(h) \in Nat /\ l - 1 + 1 = l
    BY DEF Commits
  <2>3. \A i \in 1 .. l : h[i] \in Nat
    BY <2>2 DEF Commits
  <2>4. c \in Commits /\ Len(c) = l /\ \A i \in 1 .. l : c[i] = h[i]
    BY <2>1, <2>2, <2>3, SubSeqProperties DEF Commits
  <2> QED BY <1>1, <2>2, <2>4, PrefixIs DEF History
<1>2. ASSUME c \in Commits, c # <<>>, IsPrefix(c, h) PROVE c \in History(h)
  <2>1. Len(c) \in 0 .. Len(h) /\ SubSeq(c, 1, Len(c)) = SubSeq(h, 1, Len(c))
    BY <1>2 DEF IsPrefix, Commits
  <2>2. SubSeq(c, 1, Len(c)) = c
    BY <1>2, SubSeqFull DEF Commits
  <2> QED BY <1>2, <2>1, <2>2 DEF History, Prefixes
<1> QED BY <1>1, <1>2

\* A new commit adds itself to the history of the one it was made on.
LEMMA HistoryOfChild ==
  ASSUME NEW s \in Commits, NEW n \in Nat, NEW c \in History(Append(s, n))
  PROVE  c = Append(s, n) \/ c \in History(s)
<1> DEFINE t == Append(s, n)
<1>1. /\ t \in Commits /\ Len(t) = Len(s) + 1 /\ Len(s) \in Nat
      /\ \A i \in 1 .. Len(s) : t[i] = s[i]
  BY DEF Commits
<1> HIDE DEF t
<1>2. c \in Commits /\ c # <<>> /\ IsPrefix(c, t)
  BY <1>1, HistoryIs DEF t
<1>3. Len(c) <= Len(t) /\ \A i \in 1 .. Len(c) : c[i] = t[i]
  BY <1>1, <1>2, PrefixIs
<1>4. Len(c) \in Nat
  BY <1>2 DEF Commits
<1>5. CASE Len(c) = Len(t)
  BY <1>1, <1>2, <1>3, <1>5, SeqEqual DEF Commits, t
<1>6. CASE Len(c) <= Len(s)
  <2>1. IsPrefix(c, s)
    BY <1>1, <1>2, <1>3, <1>4, <1>6, PrefixIs
  <2> QED BY <1>2, <2>1, HistoryIs
<1> QED BY <1>1, <1>3, <1>4, <1>5, <1>6

-----------------------------------------------------------------------------
(* The inductive invariant.                                                *)

\* Every commit of main has a state file, reconciled with the history of that
\* commit, and names attempts that have been pushed. That holds after a force
\* push, too.
RepoInv ==
  /\ head \in Commits /\ head # <<>>
  /\ tree \in Seq(Files)
  /\ rewritten \in BOOLEAN /\ provider \in Nat /\ clock \in Nat
  /\ \A c \in History(head) :
       Last(c) \in 1 .. Len(tree) /\ IsPrefix(tree[Last(c)].against, c)
  /\ \A i \in 1 .. Len(tree) : tree[i].attempts <= provider

\* What has been read of one part is not older than the state.
PartFits(p, value, x, rw) ==
  IF p \in ProviderParts THEN value \in Nat /\ x.state.attempts <= value
  ELSE value \in Commits /\ (~ rw => IsPrefix(x.commit, value))

\* What a call has read fits together. x is the call, rw whether main was
\* force-pushed, h its head, n the head of the provider branch, now the time.
ReadsFit(x, rw, h, n, now) ==
  /\ DOMAIN x = {"at", "kind", "now", "commit", "state", "missing", "got"}
  /\ x.now \in Nat /\ x.now <= now
  /\ x.state \in Files /\ x.state.attempts <= n
  /\ x.commit \in Commits /\ IsPrefix(x.state.against, x.commit)
  /\ ~ rw => IsPrefix(x.commit, h)
  /\ {"main", "provider", "pr"} \subseteq Parts(x.kind)
  /\ x.missing \subseteq Parts(x.kind) /\ DOMAIN x.got = Parts(x.kind)
  /\ \A p \in Parts(x.kind) \ x.missing : PartFits(p, x.got[p], x, rw)
  /\ x.at = "compare" => x.missing = {}

\* AnswerIsCoherent of the answer a, and what keeps it so as time goes on.
Coherent(a, rw, now) ==
  /\ DOMAIN a = {"kind", "commit", "state", "got", "relation", "freshness", "evidence"}
  /\ a.state \in Files
  /\ ~ rw =>
       /\ a.relation \in {"EQUAL", "ANCESTOR", "UNKNOWN"}
       /\ \A p \in DOMAIN a.got \ ProviderParts : IsPrefix(a.commit, a.got[p])
  /\ \A p \in ProviderParts : a.state.attempts <= a.got[p]
  /\ a.freshness.stale => now > a.state.observed + TTL

CallInv ==
  /\ call.at = "state" => call.now \in Nat /\ call.now <= clock
  /\ call.at \in {"parts", "compare"} => ReadsFit(call, rewritten, head, provider, clock)
  /\ call.at = "evidence" =>
       DOMAIN call = {"at", "snapshot", "missing"} /\ Coherent(call.snapshot, rewritten, clock)

AnswerInv == answer # None => Coherent(answer, rewritten, clock)

Inv == RepoInv /\ CallInv /\ AnswerInv

-----------------------------------------------------------------------------
(* The repository goes on.                                                 *)

\* What calls notice of it.
Grows ==
  /\ UNCHANGED <<call, answer>>
  /\ rewritten \in BOOLEAN /\ rewritten' \in BOOLEAN /\ (rewritten => rewritten')
  /\ head \in Commits /\ head' \in Commits /\ (~ rewritten' => IsPrefix(head, head'))
  /\ provider \in Nat /\ provider' \in Nat /\ provider <= provider'
  /\ clock \in Nat /\ clock' \in Nat /\ clock <= clock'

LEMMA CoherentStays ==
  ASSUME Grows, NEW a, Coherent(a, rewritten, clock)
  PROVE  Coherent(a, rewritten', clock')
<1>1. a.state.observed + TTL \in Nat
  BY CodexAssumption DEF Coherent, Files
<1> QED BY <1>1 DEF Coherent, Grows

LEMMA ReadsStayFit ==
  ASSUME Grows, NEW x, ReadsFit(x, rewritten, head, provider, clock)
  PROVE  ReadsFit(x, rewritten', head', provider', clock')
<1>1. x.state.attempts \in Nat
  BY DEF ReadsFit, Files
<1>2. ~ rewritten' => IsPrefix(x.commit, head')
  BY PrefixOrder DEF ReadsFit, Grows
<1>3. \A p \in Parts(x.kind) \ x.missing : PartFits(p, x.got[p], x, rewritten')
  BY DEF ReadsFit, PartFits, Grows
<1> QED BY <1>1, <1>2, <1>3 DEF ReadsFit, Grows

LEMMA GrowingKeeps ==
  ASSUME Grows, CallInv, AnswerInv
  PROVE  CallInv' /\ AnswerInv'
<1>1. call' = call /\ answer' = answer /\ clock \in Nat /\ clock' \in Nat /\ clock <= clock'
  BY DEF Grows
<1>2. answer # None => Coherent(answer, rewritten', clock')
  BY CoherentStays DEF AnswerInv
<1>3. call.at \in {"parts", "compare"} => ReadsFit(call, rewritten', head', provider', clock')
  BY ReadsStayFit DEF CallInv
<1>4. call.at = "evidence" => Coherent(call.snapshot, rewritten', clock')
  BY CoherentStays DEF CallInv
<1> QED BY <1>1, <1>2, <1>3, <1>4 DEF CallInv, AnswerInv

LEMMA PushKeeps ==
  ASSUME RepoInv, Push
  PROVE  RepoInv' /\ Grows
<1>1. PICK base \in History(head) :
        /\ head' = Append(base, Len(tree) + 1)
        /\ rewritten' = (rewritten \/ base # head)
        /\ \E file \in {tree[Last(base)]} \cup
                       {StateFile(against, provider) : against \in History(base)} :
             tree' = Append(tree, file)
  BY DEF Push
<1>2. PICK n \in Nat : n = Len(tree) + 1
  BY DEF RepoInv
<1>3. base \in Commits /\ base # <<>> /\ IsPrefix(base, head)
  BY HistoryIs DEF RepoInv
<1>4. /\ head' \in Commits /\ head' # <<>> /\ Last(head') = n /\ IsPrefix(base, head')
  BY <1>1, <1>2, <1>3, PrefixOfChild
<1>5. PICK file \in Files :
        tree' = Append(tree, file) /\ IsPrefix(file.against, base) /\ file.attempts <= provider
  <2>1. CASE tree' = Append(tree, tree[Last(base)])
    BY <2>1 DEF RepoInv
  <2>2. CASE \E against \in History(base) : tree' = Append(tree, StateFile(against, provider))
    <3>1. PICK against \in History(base) : tree' = Append(tree, StateFile(against, provider))
      BY <2>2
    <3>2. against \in Commits /\ IsPrefix(against, base)
      BY <1>3, HistoryIs
    <3>3. PICK file : file = [observed |-> clock, against |-> against, attempts |-> provider]
      OBVIOUS
    <3>4. file \in Files /\ file.against = against /\ file.attempts = provider
      BY <3>2, <3>3 DEF Files, RepoInv
    <3> QED BY <3>1, <3>2, <3>3, <3>4 DEF StateFile, RepoInv
  <2> QED BY <1>1, <2>1, <2>2
<1>6. /\ tree' \in Seq(Files) /\ Len(tree') = n /\ tree'[n] = file /\ tree \in Seq(Files)
      /\ \A i \in 1 .. Len(tree) : tree'[i] = tree[i]
  BY <1>2, <1>5 DEF RepoInv
<1>7. ASSUME NEW c \in History(head')
      PROVE  Last(c) \in 1 .. Len(tree') /\ IsPrefix(tree'[Last(c)].against, c)
  <2>1. CASE c = head'
    <3>1. file.against \in Commits
      BY DEF Files
    <3>2. IsPrefix(file.against, head')
      BY <1>3, <1>4, <1>5, <3>1, PrefixOrder
    <3> QED BY <1>2, <1>4, <1>6, <2>1, <3>2
  <2>2. CASE c \in History(base)
    <3>1. c \in Commits /\ c # <<>> /\ IsPrefix(c, base)
      BY <1>3, <2>2, HistoryIs
    <3>2. c \in History(head)
      BY <1>3, <3>1, PrefixOrder, HistoryIs DEF RepoInv
    <3>3. Last(c) \in 1 .. Len(tree) /\ IsPrefix(tree[Last(c)].against, c)
      BY <3>2 DEF RepoInv
    <3> QED BY <1>2, <1>6, <3>3
  <2> QED BY <1>1, <1>2, <1>3, <2>1, <2>2, HistoryOfChild
<1>8. ASSUME NEW i \in 1 .. Len(tree') PROVE tree'[i].attempts <= provider
  BY <1>2, <1>5, <1>6 DEF RepoInv
<1>9. UNCHANGED <<provider, clock, call, answer>>
  BY DEF Push
<1>10. RepoInv'
  BY <1>1, <1>4, <1>6, <1>7, <1>8, <1>9 DEF RepoInv
<1>11. rewritten' \in BOOLEAN /\ (rewritten => rewritten')
  BY <1>1 DEF RepoInv
<1>12. ~ rewritten' => IsPrefix(head, head')
  BY <1>1, <1>4
<1>13. Grows
  BY <1>4, <1>9, <1>11, <1>12 DEF Grows, RepoInv
<1> QED BY <1>10, <1>13

LEMMA PushProviderKeeps ==
  ASSUME RepoInv, PushProvider
  PROVE  RepoInv' /\ Grows
<1>1. RepoInv'
  <2>1. ASSUME NEW i \in 1 .. Len(tree) PROVE tree[i].attempts <= provider'
    <3>1. tree[i] \in Files /\ tree[i].attempts <= provider
      BY DEF RepoInv
    <3>2. tree[i].attempts \in Nat /\ provider \in Nat /\ provider' = provider + 1
      BY <3>1 DEF Files, RepoInv, PushProvider
    <3> QED BY <3>1, <3>2
  <2> QED BY <2>1 DEF RepoInv, PushProvider
<1>2. Grows
  BY PrefixOrder DEF RepoInv, PushProvider, Grows
<1> QED BY <1>1, <1>2

LEMMA TickKeeps ==
  ASSUME RepoInv, Tick
  PROVE  RepoInv' /\ Grows
BY PrefixOrder DEF RepoInv, Tick, Grows

-----------------------------------------------------------------------------
(* A call goes on.                                                         *)

LEMMA LoadKeeps ==
  ASSUME Inv, NEW kind, Load(kind)
  PROVE  CallInv' /\ AnswerInv'
BY DEF Inv, RepoInv, Load, CallInv, AnswerInv, repoVars

\* The state of a commit was reconciled with its history.
LEMMA ReadStateKeeps ==
  ASSUME Inv, ReadState
  PROVE  CallInv' /\ AnswerInv'
<1>1. /\ call.now \in Nat /\ call.now <= clock
      /\ UNCHANGED <<repoVars, answer>>
  BY DEF ReadState, Inv, CallInv
<1>2. PICK x : x = [at |-> "parts", kind |-> call.kind, now |-> call.now,
                    commit |-> head, state |-> tree[Last(head)],
                    missing |-> Parts(call.kind),
                    got |-> [p \in Parts(call.kind) |-> None]]
  OBVIOUS
<1>3. call' = x
  BY <1>2 DEF ReadState
<1>4. head \in Commits /\ head \in History(head) /\ IsPrefix(head, head)
  BY HistoryIs, PrefixOrder DEF Inv, RepoInv
<1>5. PICK n \in 1 .. Len(tree) : n = Last(head) /\ IsPrefix(tree[n].against, head)
  BY <1>4 DEF Inv, RepoInv
<1>6. tree[n] \in Files /\ tree[n].attempts <= provider
  BY <1>5 DEF Inv, RepoInv
<1>7. {"main", "provider", "pr"} \subseteq Parts(call.kind)
  BY DEF Parts
<1>8. ReadsFit(x, rewritten, head, provider, clock)
  BY <1>1, <1>2, <1>4, <1>5, <1>6, <1>7 DEF ReadsFit
<1>9. x.at = "parts"
  BY <1>2
<1> QED BY <1>1, <1>3, <1>8, <1>9 DEF CallInv, AnswerInv, Inv, repoVars

\* What is read of a branch is its head, not older than what was read before.
LEMMA ReadPartKeeps ==
  ASSUME Inv, ReadPart
  PROVE  CallInv' /\ AnswerInv'
<1>1. ReadsFit(call, rewritten, head, provider, clock) /\ UNCHANGED <<repoVars, answer>>
  BY DEF ReadPart, Inv, CallInv
<1>2. PICK p \in call.missing :
        LET left == call.missing \ {p} IN
        call' = [call EXCEPT !.got[p] = IF p \in ProviderParts THEN provider ELSE head,
                             !.missing = left,
                             !.at = IF left = {} THEN "compare" ELSE "parts"]
  BY DEF ReadPart, ProviderParts
<1> DEFINE value == IF p \in ProviderParts THEN provider ELSE head
           left == call.missing \ {p}
           at == IF left = {} THEN "compare" ELSE "parts"
           got == [call.got EXCEPT ![p] = value]
<1>3. call' = [call EXCEPT !.got = got, !.missing = left, !.at = at]
  BY <1>2
<1>4. PartFits(p, value, call, rewritten)
  BY <1>1 DEF ReadsFit, PartFits, Inv, RepoInv
<1>5. DOMAIN got = Parts(call.kind) /\ got[p] = value
      /\ \A q \in Parts(call.kind) : q # p => got[q] = call.got[q]
  BY <1>1 DEF ReadsFit
<1>6. \A q \in Parts(call.kind) \ left : PartFits(q, got[q], call, rewritten)
  BY <1>1, <1>4, <1>5 DEF ReadsFit
<1>7. at \in {"parts", "compare"} /\ (at = "compare" => left = {})
  OBVIOUS
<1>8. left \subseteq Parts(call.kind)
  BY <1>1 DEF ReadsFit
<1> HIDE DEF value, left, at, got
<1>9. PICK x : x = call'
  OBVIOUS
<1>10. /\ DOMAIN x = DOMAIN call
       /\ x.at = at /\ x.missing = left /\ x.got = got
       /\ x.kind = call.kind /\ x.now = call.now /\ x.commit = call.commit
       /\ x.state = call.state
  BY <1>1, <1>3, <1>9 DEF ReadsFit
<1>11. \A q \in Parts(x.kind) \ x.missing : PartFits(q, x.got[q], x, rewritten)
  BY <1>6, <1>10 DEF PartFits
<1>12. ReadsFit(x, rewritten, head, provider, clock)
  BY <1>1, <1>5, <1>7, <1>8, <1>10, <1>11 DEF ReadsFit
<1>13. x.at \in {"parts", "compare"}
  BY <1>7, <1>10
<1> QED BY <1>1, <1>9, <1>12, <1>13 DEF CallInv, AnswerInv, Inv, repoVars

LEMMA CompareKeeps ==
  ASSUME Inv, Compare
  PROVE  CallInv' /\ AnswerInv'
<1>1. ReadsFit(call, rewritten, head, provider, clock) /\ call.missing = {}
  BY DEF Compare, Inv, CallInv, ReadsFit
<1>2. UNCHANGED <<head, tree, rewritten, provider, clock>>
  BY DEF Compare, repoVars
<1>3. \A p \in Parts(call.kind) : PartFits(p, call.got[p], call, rewritten)
  BY <1>1 DEF ReadsFit
<1>4. PICK relation \in {"UNKNOWN", compareSnapshotToLive(call.state.against, call.got["main"])} :
        \/ /\ call' = [at |-> "evidence", snapshot |-> Snapshot(relation),
                       missing |-> 1 .. call.state.attempts]
           /\ UNCHANGED answer
        \/ call' = Idle /\ answer' = Snapshot(relation)
  BY DEF Compare
<1>5. ~ rewritten => relation \in {"EQUAL", "ANCESTOR", "UNKNOWN"}
  <2> SUFFICES ASSUME ~ rewritten, relation # "UNKNOWN"
               PROVE  relation \in {"EQUAL", "ANCESTOR", "UNKNOWN"}
    OBVIOUS
  <2>1. PICK snapshot \in Commits : snapshot = call.state.against
    BY <1>1 DEF ReadsFit, Files
  <2>2. "main" \in Parts(call.kind) /\ "main" \notin ProviderParts
    BY DEF Parts, ProviderParts
  <2>3. PICK live \in Commits : live = call.got["main"] /\ IsPrefix(call.commit, live)
    BY <1>3, <2>2 DEF PartFits
  <2>4. IsPrefix(snapshot, live)
    BY <1>1, <2>1, <2>3, PrefixOrder DEF ReadsFit
  <2>5. relation = compareSnapshotToLive(snapshot, live)
    BY <1>4, <2>1, <2>3
  <2>6. ~ IsStrictPrefix(live, snapshot)
    BY <2>4, PrefixOrder DEF IsStrictPrefix
  <2>7. snapshot = live \/ IsStrictPrefix(snapshot, live)
    BY <2>4 DEF IsStrictPrefix
  <2> QED BY <2>5, <2>6, <2>7 DEF compareSnapshotToLive
<1>6. \A p \in Parts(call.kind) \ ProviderParts :
        ~ rewritten => IsPrefix(call.commit, call.got[p])
  BY <1>3 DEF PartFits
<1>7. \A p \in ProviderParts : call.state.attempts <= call.got[p]
  BY <1>1, <1>3 DEF PartFits, ReadsFit, ProviderParts
<1>8. freshness(call.state, call.now).stale => clock > call.state.observed + TTL
  <2>1. call.state.observed + TTL \in Nat /\ call.now \in Nat /\ clock \in Nat
    BY <1>1, CodexAssumption DEF ReadsFit, Files, Inv, RepoInv
  <2>2. freshness(call.state, call.now).stale => call.now > call.state.observed + TTL
    BY DEF freshness
  <2>3. call.now <= clock
    BY <1>1 DEF ReadsFit
  <2> QED BY <2>1, <2>2, <2>3
<1>9. PICK a : a = Snapshot(relation)
  OBVIOUS
<1>10. /\ DOMAIN a = {"kind", "commit", "state", "got", "relation", "freshness", "evidence"}
       /\ a.commit = call.commit /\ a.state = call.state /\ a.got = call.got
       /\ a.relation = relation /\ a.freshness = freshness(call.state, call.now)
  BY <1>9 DEF Snapshot
<1>11. DOMAIN call.got = Parts(call.kind) /\ call.state \in Files
  BY <1>1 DEF ReadsFit
<1>12. Coherent(a, rewritten, clock)
  BY <1>5, <1>6, <1>7, <1>8, <1>10, <1>11 DEF Coherent
<1>13. CASE call' = [at |-> "evidence", snapshot |-> a, missing |-> 1 .. call.state.attempts]
            /\ UNCHANGED answer
  BY <1>2, <1>12, <1>13 DEF CallInv, AnswerInv, Inv
<1>14. CASE call' = Idle /\ answer' = a
  BY <1>2, <1>12, <1>14 DEF CallInv, AnswerInv, Idle
<1> QED BY <1>4, <1>9, <1>13, <1>14

LEMMA ReadEvidenceKeeps ==
  ASSUME Inv, ReadEvidence
  PROVE  CallInv' /\ AnswerInv'
<1>1. /\ DOMAIN call = {"at", "snapshot", "missing"}
      /\ call.at = "evidence" /\ Coherent(call.snapshot, rewritten, clock)
      /\ UNCHANGED <<head, tree, rewritten, provider, clock>>
  BY DEF ReadEvidence, Inv, CallInv, repoVars
<1>2. PICK e, left, s :
        /\ s = [call.snapshot EXCEPT !.evidence = e]
        /\ \/ call' = Idle /\ answer' = s
           \/ call' = [call EXCEPT !.snapshot = s, !.missing = left] /\ UNCHANGED answer
  <2>1. PICK i \in call.missing, read \in BOOLEAN :
          LET rest == call.missing \ {i}
              s == [call.snapshot EXCEPT !.evidence =
                      IF read /\ i <= provider THEN @ \cup {i} ELSE @]
          IN  IF rest = {} THEN call' = Idle /\ answer' = s
              ELSE /\ call' = [call EXCEPT !.snapshot = s, !.missing = rest]
                   /\ UNCHANGED answer
    BY DEF ReadEvidence
  <2>2. PICK e : e = IF read /\ i <= provider THEN call.snapshot.evidence \cup {i}
                     ELSE call.snapshot.evidence
    OBVIOUS
  <2>3. PICK left : left = call.missing \ {i}
    OBVIOUS
  <2>4. PICK s : s = [call.snapshot EXCEPT !.evidence = e]
    OBVIOUS
  <2>5. \/ call' = Idle /\ answer' = s
        \/ call' = [call EXCEPT !.snapshot = s, !.missing = left] /\ UNCHANGED answer
    BY <2>1, <2>2, <2>3, <2>4
  <2> QED BY <2>4, <2>5
<1>3. s = [call.snapshot EXCEPT !.evidence = e]
  BY <1>2
<1>4. Coherent(s, rewritten, clock)
  BY <1>1, <1>3 DEF Coherent
<1>5. CASE call' = Idle /\ answer' = s
  BY <1>1, <1>4, <1>5 DEF CallInv, AnswerInv, Idle
<1>6. CASE call' = [call EXCEPT !.snapshot = s, !.missing = left] /\ UNCHANGED answer
  <2>1. call'.at = "evidence" /\ call'.snapshot = s /\ DOMAIN call' = DOMAIN call
    BY <1>1, <1>6
  <2> QED BY <1>1, <1>4, <1>6, <2>1 DEF CallInv, AnswerInv, Inv
<1> QED BY <1>2, <1>3, <1>5, <1>6

LEMMA ReadFailsKeeps ==
  ASSUME Inv, ReadFails
  PROVE  CallInv' /\ AnswerInv'
BY DEF Inv, ReadFails, CallInv, AnswerInv, Idle, repoVars

-----------------------------------------------------------------------------
LEMMA InvInit == Init => Inv
<1> SUFFICES ASSUME Init PROVE Inv
  OBVIOUS
<1>1. head \in Commits /\ head # <<>> /\ Last(head) = 1 /\ Len(head) = 1
  BY DEF Init, Commits, Last
<1>2. PICK file : file = [observed |-> 0, against |-> <<>>, attempts |-> 0]
  OBVIOUS
<1>3. file \in Files /\ file.against = <<>> /\ file.attempts = 0
  BY <1>2 DEF Files, Commits
<1>4. tree \in Seq(Files) /\ Len(tree) = 1 /\ tree[1] = file
  BY <1>2, <1>3 DEF Init
<1>5. ASSUME NEW c \in History(head) PROVE Last(c) = 1 /\ IsPrefix(<<>>, c)
  <2>1. c \in Commits /\ c # <<>> /\ IsPrefix(c, head)
    BY <1>1, HistoryIs
  <2>2. Len(c) \in Nat /\ Len(c) # 0
    BY <2>1 DEF Commits
  <2>3. Len(c) = 1 /\ c[1] = head[1]
    BY <1>1, <2>1, <2>2, PrefixIs
  <2> QED BY <1>1, <2>1, <2>3, PrefixOrder DEF Last
<1>6. /\ rewritten \in BOOLEAN /\ provider \in Nat /\ clock \in Nat
      /\ \A i \in 1 .. Len(tree) : tree[i].attempts <= provider
  <2>1. rewritten = FALSE /\ provider = 0 /\ clock = 0
    BY DEF Init
  <2>2. ASSUME NEW i \in 1 .. Len(tree) PROVE tree[i].attempts <= provider
    <3>1. i = 1
      BY <1>4
    <3> QED BY <1>3, <1>4, <2>1, <3>1
  <2> QED BY <2>1, <2>2
<1>7. ASSUME NEW c \in History(head)
      PROVE  Last(c) \in 1 .. Len(tree) /\ IsPrefix(tree[Last(c)].against, c)
  BY <1>3, <1>4, <1>5
<1>8. RepoInv
  BY <1>1, <1>4, <1>6, <1>7 DEF RepoInv
<1> QED BY <1>8 DEF Inv, CallInv, AnswerInv, Init, Idle

LEMMA InvNext == Inv /\ [Next]_vars => Inv'
<1> SUFFICES ASSUME Inv, [Next]_vars PROVE Inv'
  OBVIOUS
<1>1. CASE Push \/ PushProvider \/ Tick
  BY <1>1, PushKeeps, PushProviderKeeps, TickKeeps, GrowingKeeps DEF Inv
<1>2. CASE UNCHANGED repoVars
  <2>1. RepoInv'
    BY <1>2 DEF repoVars, Inv, RepoInv
  <2>2. CASE UNCHANGED vars
    BY <2>1, <2>2 DEF vars, repoVars, Inv, CallInv, AnswerInv
  <2>3. CASE \E kind \in {"boot", "status", "evidence"} : Load(kind)
    BY <2>1, <2>3, LoadKeeps DEF Inv
  <2>4. CASE ReadState \/ ReadPart \/ Compare \/ ReadEvidence \/ ReadFails
    BY <2>1, <2>4, ReadStateKeeps, ReadPartKeeps, CompareKeeps, ReadEvidenceKeeps,
       ReadFailsKeeps DEF Inv
  <2>5. CASE Push \/ PushProvider \/ Tick
    BY <1>1, <2>5
  <2> QED BY <2>2, <2>3, <2>4, <2>5 DEF Next
<1>3. UNCHANGED repoVars \/ Push \/ PushProvider \/ Tick
  BY DEF Next, vars, Load, ReadState, ReadPart, Compare, ReadEvidence, ReadFails
<1> QED BY <1>1, <1>2, <1>3

\* However often main and the provider branch move between the reads of one
\* answer, and however far behind them the clock is: the answer is no
\* contradiction in itself unless main was force-pushed.
THEOREM AnswerIsCoherentAlways == Spec => []AnswerIsCoherent
<1>1. Inv => AnswerIsCoherent
  BY DEF Inv, AnswerInv, Coherent, AnswerIsCoherent, ProviderParts
<1> QED BY InvInit, InvNext, <1>1, PTL DEF Spec
=============================================================================
