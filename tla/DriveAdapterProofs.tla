------------------------- MODULE DriveAdapterProofs -------------------------
(***************************************************************************)
(* The properties of DriveAdapter, for any callers, puts, snapshots and    *)
(* bounds.  The invariant about artifacts and projections is in three      *)
(* parts: what files look like, what is known of the files callers hold    *)
(* between two requests, and what the references say.  The observer has an *)
(* invariant of its own.                                                   *)
(***************************************************************************)
EXTENDS DriveAdapter, WellFoundedInduction, TLAPS

\* The code looks for the oldest file: that there is one is what this lemma says.
\* Of some natural numbers one is the least.
LEMMA LeastExists ==
  ASSUME NEW T, T \subseteq Nat, T # {}
  PROVE  \E i \in T : \A j \in T : i <= j
<1> DEFINE R == OpToRel(<, Nat)
<1>1. IsWellFoundedOn(R, Nat)
  BY NatLessThanWellFounded
<1>2. \A x, y \in Nat : x < y => <<x, y>> \in R
  BY DEF OpToRel
<1>3. PICK i \in T : \A j \in T : ~ (<<j, i>> \in R)
  <2> HIDE DEF R
  <2> QED BY <1>1, WFMin
<1> HIDE DEF R
<1>4. ASSUME NEW j \in T PROVE i <= j
  <2>1. i \in Nat /\ j \in Nat /\ ~ (j < i)
    BY <1>2, <1>3
  <2> QED BY <2>1
<1> QED BY <1>4

IsSeq(s) == \E S : s \in Seq(S)

FileInv ==
  /\ IsSeq(files)
  /\ \A f \in DOMAIN files :
       /\ files[f] = [folder |-> files[f].folder, key |-> files[f].key,
                      content |-> files[f].content]
       /\ files[f].folder = "projections" =>
            files[f].content \in Projections /\ files[f].key = Clipped[files[f].content.task]

Holding(x) == x.at \in {"publish", "delete"}
Writing(x) == x.at \in {"readProjection", "updateProjection"}

\* What a call x knows of the Drive although others act on it meanwhile.
Fits(x) ==
  /\ Holding(x) =>
       /\ x.staged \in DOMAIN files
       /\ files[x.staged].folder \in {"staging", "artifacts"}
       /\ \/ x.staged \in unanswered
          \/ files[x.staged].folder = "staging" /\ \A r \in refs : r.file # x.staged
  /\ x.at = "publish" =>
       files[x.staged].key = x.ref.digest /\ files[x.staged].content = x.ref.media
  /\ Writing(x) \/ x.at \in {"findProjection", "createProjection"} =>
       x.snapshot \in Projections
  /\ Writing(x) =>
       /\ x.file \in DOMAIN files
       /\ files[x.file].folder = "projections" /\ files[x.file].key = x.snapshot.task
  /\ x.at = "updateProjection" => x.current.state_seq <= x.snapshot.state_seq

CallInv ==
  /\ DOMAIN call = Callers
  /\ \A c \in Callers :
       /\ Fits(call[c])
       /\ \A d \in Callers \ {c} :
            Holding(call[c]) /\ Holding(call[d]) => call[c].staged # call[d].staged

RefInv ==
  \A r \in refs :
    /\ r.file \in DOMAIN files
    /\ \/ files[r.file] = [folder |-> "artifacts", key |-> r.ref.digest,
                           content |-> r.ref.media]
       \/ r.file \in unanswered

DriveInv == FileInv /\ CallInv /\ RefInv

-----------------------------------------------------------------------------
(* Files come at the end and are replaced where they stand.                *)

LEMMA AppendedTo ==
  ASSUME NEW s, IsSeq(s), NEW e
  PROVE  /\ IsSeq(Append(s, e))
         /\ Len(s) \in Nat /\ DOMAIN s = 1 .. Len(s)
         /\ DOMAIN Append(s, e) = 1 .. Len(s) + 1
         /\ \A i \in 1 .. Len(s) : Append(s, e)[i] = s[i]
         /\ Append(s, e)[Len(s) + 1] = e
<1>1. PICK S : s \in Seq(S)
  BY DEF IsSeq
<1>2. PICK T : T = S \cup {e}
  OBVIOUS
<1>3. s \in Seq(T) /\ e \in T
  BY <1>1, <1>2
<1>4. Append(s, e) \in Seq(T)
  BY <1>3
<1> QED BY <1>3, <1>4 DEF IsSeq

LEMMA ReplacedIn ==
  ASSUME NEW s, IsSeq(s), NEW f \in DOMAIN s, NEW e
  PROVE  /\ IsSeq([s EXCEPT ![f] = e])
         /\ DOMAIN [s EXCEPT ![f] = e] = DOMAIN s
         /\ \A i \in DOMAIN s \ {f} : [s EXCEPT ![f] = e][i] = s[i]
         /\ [s EXCEPT ![f] = e][f] = e
<1>1. PICK S : s \in Seq(S)
  BY DEF IsSeq
<1>2. PICK T : T = S \cup {e}
  OBVIOUS
<1>3. s \in Seq(T) /\ e \in T
  BY <1>1, <1>2
<1>4. [s EXCEPT ![f] = e] \in Seq(T)
  BY <1>3
<1> QED BY <1>3, <1>4 DEF IsSeq

\* The oldest of some files is one of them and none is older.
LEMMA OldestIsLeast ==
  ASSUME NEW found, found \subseteq Nat, found # {}
  PROVE  Oldest(found) \in found /\ \A g \in found : Oldest(found) <= g
BY LeastExists DEF Oldest

\* Files of the Drive but f stay as they are.
OnlyTouched(f) ==
  /\ IsSeq(files')
  /\ DOMAIN files \subseteq DOMAIN files'
  /\ \A g \in DOMAIN files \ {f} : files'[g] = files[g]
  /\ unanswered \subseteq unanswered'

\* A well-formed file: one of a projection holds a snapshot of its task.
IsFile(file) ==
  /\ file = [folder |-> file.folder, key |-> file.key, content |-> file.content]
  /\ file.folder = "projections" =>
       file.content \in Projections /\ file.key = Clipped[file.content.task]

LEMMA FileAdded ==
  ASSUME FileInv, NEW file, IsFile(file), unanswered \subseteq unanswered',
         files' = files \/ files' = Append(files, file)
  PROVE  /\ FileInv' /\ OnlyTouched(Len(files) + 1)
         /\ Len(files) + 1 \notin DOMAIN files
         /\ files' # files =>
              Len(files) + 1 \in DOMAIN files' /\ files'[Len(files) + 1] = file
<1>1. CASE files' = files
  BY <1>1, AppendedTo DEF FileInv, OnlyTouched
<1>2. CASE files' = Append(files, file)
  <2>1. /\ IsSeq(files') /\ Len(files) \in Nat /\ DOMAIN files = 1 .. Len(files)
        /\ DOMAIN files' = 1 .. Len(files) + 1
        /\ \A i \in 1 .. Len(files) : files'[i] = files[i]
        /\ files'[Len(files) + 1] = file
    BY <1>2, AppendedTo DEF FileInv
  <2>2. OnlyTouched(Len(files) + 1) /\ Len(files) + 1 \notin DOMAIN files
    BY <2>1 DEF OnlyTouched
  <2>3. FileInv'
    BY <2>1 DEF FileInv, IsFile
  <2> QED BY <2>1, <2>2, <2>3
<1> QED BY <1>1, <1>2

LEMMA FileReplaced ==
  ASSUME FileInv, NEW f \in DOMAIN files, NEW file, IsFile(file),
         unanswered \subseteq unanswered',
         files' = files \/ files' = [files EXCEPT ![f] = file]
  PROVE  /\ FileInv' /\ OnlyTouched(f) /\ DOMAIN files' = DOMAIN files
         /\ files' # files => files'[f] = file
<1>1. CASE files' = files
  BY <1>1 DEF FileInv, OnlyTouched
<1>2. CASE files' = [files EXCEPT ![f] = file]
  <2>1. /\ IsSeq(files') /\ DOMAIN files' = DOMAIN files
        /\ \A i \in DOMAIN files \ {f} : files'[i] = files[i]
        /\ files'[f] = file
    BY <1>2, ReplacedIn DEF FileInv
  <2>2. OnlyTouched(f)
    BY <2>1 DEF OnlyTouched
  <2>3. FileInv'
    BY <2>1 DEF FileInv, IsFile
  <2> QED BY <2>1, <2>2, <2>3
<1> QED BY <1>1, <1>2

-----------------------------------------------------------------------------
(* What a step on file f leaves of calls and references.                   *)

\* A call still fits when nobody touches the file it holds, and the file it is
\* to write stays a projection of the task.
LEMMA StillFits ==
  ASSUME NEW x, NEW f, Fits(x), OnlyTouched(f),
         Holding(x) =>
           /\ x.staged # f
           /\ \A r \in refs' \ refs : x.staged \in unanswered \/ r.file # x.staged,
         f \in DOMAIN files /\ files[f].folder = "projections" =>
           files'[f].folder = "projections" /\ files'[f].key = files[f].key
  PROVE  Fits(x)'
<1>1. (Holding(x) <=> Holding(x)') /\ (Writing(x) <=> Writing(x)')
  BY DEF Holding, Writing
<1>2. Holding(x) => /\ x.staged \in DOMAIN files'
                    /\ files'[x.staged] = files[x.staged]
                    /\ \/ x.staged \in unanswered'
                       \/ /\ files[x.staged].folder = "staging"
                          /\ \A r \in refs' : r.file # x.staged
  BY DEF Fits, OnlyTouched
<1>3. Writing(x) => /\ x.file \in DOMAIN files'
                    /\ files'[x.file].folder = "projections"
                    /\ files'[x.file].key = x.snapshot.task
  BY DEF Fits, OnlyTouched
<1>4. x.at = "publish" => files'[x.staged] = files[x.staged]
  BY <1>2 DEF Holding
<1> QED BY <1>1, <1>2, <1>3, <1>4 DEF Fits

LEMMA CallStep ==
  ASSUME CallInv, NEW c \in Callers, NEW x, NEW f,
         call' = [call EXCEPT ![c] = x], Fits(x)', OnlyTouched(f),
         f \in DOMAIN files /\ files[f].folder = "projections" =>
           files'[f].folder = "projections" /\ files'[f].key = files[f].key,
         \A d \in Callers \ {c} : Holding(call[d]) =>
           /\ call[d].staged # f
           /\ Holding(x) => call[d].staged # x.staged
           /\ \A r \in refs' \ refs : call[d].staged \in unanswered \/ r.file # call[d].staged
  PROVE  CallInv'
<1>1. DOMAIN call' = Callers /\ call'[c] = x /\ \A d \in Callers \ {c} : call'[d] = call[d]
  BY DEF CallInv
<1>2. ASSUME NEW d \in Callers PROVE Fits(call[d])'
  <2>1. CASE d = c
    <3>1. PICK y : y = x /\ call'[d] = y
      BY <1>1, <2>1
    <3> QED BY <3>1 DEF Fits, Holding, Writing
  <2>2. CASE d # c
    <3>1. PICK y : y = call[d]
      OBVIOUS
    <3>2. Fits(y) /\ (Holding(y) <=> Holding(call[d])) /\ call'[d] = y
      BY <1>1, <2>2, <3>1 DEF CallInv
    <3>3. Fits(y)'
      BY <2>2, <3>1, <3>2, StillFits
    <3> QED BY <3>2, <3>3 DEF Fits, Holding, Writing
  <2> QED BY <2>1, <2>2
<1>3. ASSUME NEW d \in Callers, NEW e \in Callers \ {d}, Holding(call'[d]), Holding(call'[e])
      PROVE  call'[d].staged # call'[e].staged
  BY <1>1, <1>3 DEF CallInv
<1>4. ASSUME NEW d \in Callers PROVE Holding(call[d])' <=> Holding(call'[d])
  BY DEF Holding
<1> QED BY <1>1, <1>2, <1>3, <1>4 DEF CallInv

LEMMA RefsKeep ==
  ASSUME RefInv, NEW f, OnlyTouched(f), refs' = refs,
         \A r \in refs : r.file = f => f \in unanswered'
  PROVE  RefInv'
BY DEF RefInv, OnlyTouched

\* Calls that hold and write no file fit anything.
LEMMA HarmlessFits ==
  ASSUME NEW x, ~ Holding(x), ~ Writing(x),
         x.at \notin {"findProjection", "createProjection"} \/ x.snapshot \in Projections
  PROVE  Fits(x)'
BY DEF Fits, Holding, Writing

\* A step that touches no file.
LEMMA CallOnly ==
  ASSUME DriveInv, NEW c \in Callers, NEW x, call' = [call EXCEPT ![c] = x],
         Fits(x)', ~ Holding(x), UNCHANGED <<files, unanswered, refs>>
  PROVE  DriveInv'
<1>1. OnlyTouched(0)
  BY DEF OnlyTouched, DriveInv, FileInv
<1>2. 0 \notin DOMAIN files
  BY AppendedTo DEF DriveInv, FileInv
<1>3. FileInv' /\ RefInv'
  BY DEF DriveInv, FileInv, RefInv
<1>4. \A d \in Callers : Holding(call[d]) => call[d].staged # 0
  BY <1>2 DEF DriveInv, CallInv, Fits
<1>5. CallInv'
  BY <1>1, <1>2, <1>4, CallStep DEF DriveInv
<1> QED BY <1>3, <1>5 DEF DriveInv

-----------------------------------------------------------------------------
(* The actions.                                                            *)

LEMMA BeginKeeps ==
  ASSUME DriveInv, NEW c \in Callers, NEW x, Begin(c, x),
         ~ Holding(x), ~ Writing(x),
         x.at \notin {"findProjection", "createProjection"} \/ x.snapshot \in Projections
  PROVE  DriveInv'
BY HarmlessFits, CallOnly DEF Begin, driveVars

LEMMA CallsBegin ==
  ASSUME DriveInv, NEW c \in Callers,
         \/ \E ref \in Puts : Put(c, ref)
         \/ \E s \in Projections : Project(c, s)
         \/ \E m \in Envelopes : PublishEnvelope(c, m)
  PROVE  DriveInv'
<1>1. ASSUME NEW ref \in Puts, Put(c, ref) PROVE DriveInv'
  BY <1>1, BeginKeeps DEF Put, Holding, Writing
<1>2. ASSUME NEW s \in Projections, Project(c, s) PROVE DriveInv'
  BY <1>2, BeginKeeps DEF Project, Holding, Writing
<1>3. ASSUME NEW m \in Envelopes, PublishEnvelope(c, m) PROVE DriveInv'
  BY <1>3, BeginKeeps DEF PublishEnvelope, Holding, Writing
<1> QED BY <1>1, <1>2, <1>3

\* What a query finds, if it finds anything.
LEMMA QueryFinds ==
  ASSUME FileInv, NEW folder, NEW key,
         Oldest(Query(folder, key)) # None \/ Query(folder, key) # {}
  PROVE  /\ Oldest(Query(folder, key)) \in Query(folder, key)
         /\ \A g \in Query(folder, key) : Oldest(Query(folder, key)) <= g
<1>1. Query(folder, key) # {}
  BY DEF Oldest
<1>2. Query(folder, key) \subseteq Nat
  BY AppendedTo DEF FileInv, Query
<1> QED BY <1>1, <1>2, OldestIsLeast

LEMMA FindArtifactKeeps ==
  ASSUME DriveInv, NEW c \in Callers, FindArtifact(c)
  PROVE  DriveInv'
<1> DEFINE f == findImmutableArtifact(call[c].ref)
<1>1. CASE f = None
  <2>1. PICK x : /\ x = [at |-> IF call[c].ref.digest \in LargeDigests THEN "session"
                                ELSE "create", ref |-> call[c].ref]
                 /\ call' = [call EXCEPT ![c] = x]
    BY <1>1 DEF FindArtifact, Goto
  <2>2. Fits(x)' /\ ~ Holding(x)
    BY <2>1, HarmlessFits DEF Holding, Writing
  <2> QED BY <1>1, <2>1, <2>2, CallOnly DEF FindArtifact, driveVars
<1>2. CASE f # None
  <2>1. PICK x : x = Idle /\ call' = [call EXCEPT ![c] = x]
    BY <1>2 DEF FindArtifact, Goto
  <2>2. Fits(x)' /\ ~ Holding(x)
    BY <2>1, HarmlessFits DEF Holding, Writing, Idle
  <2>3. f \in Query("artifacts", call[c].ref.digest)
    BY <1>2, QueryFinds DEF findImmutableArtifact, DriveInv
  <2>4. /\ f \in DOMAIN files /\ files[f].folder = "artifacts"
        /\ files[f].key = call[c].ref.digest
    BY <2>3 DEF Query
  <2>5. UNCHANGED <<files, unanswered>>
    BY DEF FindArtifact, driveVars
  <2>6. \/ refs' = refs
        \/ /\ refs' = refs \cup {[file |-> f, ref |-> call[c].ref]}
           /\ files[f].content = call[c].ref.media
    BY <1>2 DEF FindArtifact, assertFileMatches
  <2>7. RefInv' /\ \A r \in refs' \ refs : r.file = f
    <3>1. files[f] = [folder |-> "artifacts", key |-> call[c].ref.digest,
                      content |-> files[f].content]
      BY <2>4 DEF DriveInv, FileInv
    <3> HIDE DEF f
    <3>2. \A r \in refs' \ refs : r = [file |-> f, ref |-> call[c].ref]
                                  /\ files[f].content = call[c].ref.media
      BY <2>6
    <3> QED BY <2>4, <2>5, <3>1, <3>2 DEF DriveInv, RefInv
  <2>8. OnlyTouched(0) /\ 0 \notin DOMAIN files
    BY <2>5, AppendedTo DEF OnlyTouched, DriveInv, FileInv
  <2>9. ASSUME NEW d \in Callers, Holding(call[d])
        PROVE  /\ call[d].staged # 0
               /\ \A r \in refs' \ refs : call[d].staged \in unanswered \/ r.file # call[d].staged
    <3> HIDE DEF f
    <3> QED BY <2>4, <2>7, <2>8, <2>9 DEF DriveInv, CallInv, Fits
  <2>10. CallInv'
    <3> HIDE DEF f
    <3> QED BY <2>1, <2>2, <2>8, <2>9, CallStep DEF DriveInv
  <2>11. FileInv'
    BY <2>5 DEF DriveInv, FileInv
  <2> QED BY <2>7, <2>10, <2>11 DEF DriveInv
<1> QED BY <1>1, <1>2

\* A request that may create a file.
LEMMA CreateKeeps ==
  ASSUME DriveInv, NEW c \in Callers, NEW x, NEW file, IsFile(file),
         call' = [call EXCEPT ![c] = x],
         files' = files \/ files' = Append(files, file),
         unanswered \subseteq unanswered', refs' = refs,
         \/ Fits(x)' /\ ~ Holding(x)
         \/ /\ files' # files /\ file.folder = "staging"
            /\ x = [at |-> "publish", ref |-> x.ref, staged |-> Len(files) + 1]
            /\ file.key = x.ref.digest /\ file.content = x.ref.media
  PROVE  DriveInv'
<1> DEFINE f == Len(files) + 1
<1>1. /\ FileInv' /\ OnlyTouched(f) /\ f \notin DOMAIN files
      /\ files' # files => f \in DOMAIN files' /\ files'[f] = file
  BY FileAdded DEF DriveInv
<1> HIDE DEF f
<1>2. RefInv'
  BY <1>1, RefsKeep DEF DriveInv, RefInv
<1>3. \A d \in Callers : Holding(call[d]) => call[d].staged # f
  BY <1>1 DEF DriveInv, CallInv, Fits
<1>4. CASE Fits(x)' /\ ~ Holding(x)
  BY <1>1, <1>2, <1>3, <1>4, CallStep DEF DriveInv
<1>5. CASE /\ files' # files /\ file.folder = "staging"
           /\ x = [at |-> "publish", ref |-> x.ref, staged |-> Len(files) + 1]
           /\ file.key = x.ref.digest /\ file.content = x.ref.media
  <2>1. x.at = "publish" /\ x.staged = f
    BY <1>5 DEF f
  <2>2. \A r \in refs' : r.file # f
    BY <1>1 DEF DriveInv, RefInv
  <2>3. Fits(x)'
    BY <1>1, <1>5, <2>1, <2>2 DEF Fits, Holding, Writing
  <2> QED BY <1>1, <1>2, <1>3, <2>1, <2>3, CallStep DEF DriveInv
<1> QED BY <1>4, <1>5

LEMMA ArtifactRequestsKeep ==
  ASSUME DriveInv, NEW c \in Callers,
         OpenSession(c) \/ CreateStaged(c) \/ UploadStaged(c)
  PROVE  DriveInv'
<1> DEFINE publish == [at |-> "publish", ref |-> call[c].ref, staged |-> Len(files) + 1]
           session == [at |-> "session", ref |-> call[c].ref]
           upload == [at |-> "upload", ref |-> call[c].ref]
           file == Staged(call[c].ref)
<1>0. IsFile(file) /\ file.folder = "staging" /\ file.key = call[c].ref.digest
      /\ file.content = call[c].ref.media
  BY DEF IsFile, Staged
<1>1. CASE OpenSession(c)
  <2>1. PICK x : x \in {Idle, upload} /\ call' = [call EXCEPT ![c] = x]
    BY <1>1 DEF OpenSession, Goto
  <2>2. Fits(x)' /\ ~ Holding(x)
    BY <2>1, HarmlessFits DEF Holding, Writing, Idle
  <2> QED BY <1>1, <2>1, <2>2, CallOnly DEF OpenSession, driveVars
<1>2. CASE CreateStaged(c) \/ UploadStaged(c)
  <2>1. PICK x : /\ call' = [call EXCEPT ![c] = x]
                 /\ \/ x = publish /\ files' = Append(files, file)
                    \/ x \in {Idle, session, call[c]} /\ x.at \in {"idle", "session", "create"}
    <3>1. CASE CreateStaged(c)
      <4>1. PICK outcome \in Outcomes :
               /\ Create(outcome, file)
               /\ withDriveRetry(c, outcome, Len(files) + 1, publish, Idle)
        BY <3>1 DEF CreateStaged
      <4>2. call' = [call EXCEPT ![c] = IF outcome = "done" THEN publish
                                        ELSE IF outcome = "again" THEN call[c] ELSE Idle]
        BY <4>1 DEF withDriveRetry, Outcomes
      <4>3. outcome = "done" => files' = Append(files, file)
        BY <4>1 DEF Create
      <4>4. call[c].at = "create" /\ Idle.at = "idle"
        BY <3>1 DEF CreateStaged, At, Idle
      <4> QED BY <4>2, <4>3, <4>4
    <3>2. CASE UploadStaged(c)
      <4>1. PICK outcome \in Outcomes :
               /\ Create(outcome, file)
               /\ call' = [call EXCEPT ![c] = IF outcome = "done" THEN publish
                                              ELSE IF outcome = "again" THEN session ELSE Idle]
        BY <3>2 DEF UploadStaged, withDriveRetry, Outcomes
      <4>2. outcome = "done" => files' = Append(files, file)
        BY <4>1 DEF Create
      <4>3. Idle.at = "idle" /\ session.at = "session"
        BY DEF Idle
      <4> QED BY <4>1, <4>2, <4>3
    <3> QED BY <1>2, <3>1, <3>2
  <2>2. /\ files' = files \/ files' = Append(files, file)
        /\ unanswered \subseteq unanswered' /\ refs' = refs
    BY <1>2 DEF CreateStaged, UploadStaged, Create, withDriveRetry
  <2>3. CASE x.at \in {"idle", "session", "create"}
    <3>1. Fits(x)' /\ ~ Holding(x)
      BY <2>3, HarmlessFits DEF Holding, Writing
    <3> QED BY <1>0, <2>1, <2>2, <3>1, CreateKeeps
  <2>4. CASE x = publish /\ files' = Append(files, file)
    <3>1. files' # files
      <4>1. Len(files) + 1 \notin DOMAIN files /\ Len(files) + 1 \in DOMAIN files'
        BY <2>4, AppendedTo DEF DriveInv, FileInv
      <4> QED BY <4>1
    <3>2. x.ref = call[c].ref
      BY <2>4
    <3>3. x = [at |-> "publish", ref |-> x.ref, staged |-> Len(files) + 1]
      BY <2>4
    <3> HIDE DEF file
    <3> QED BY <1>0, <2>1, <2>2, <3>1, <3>2, <3>3, CreateKeeps
  <2> QED BY <2>1, <2>3, <2>4
<1> QED BY <1>1, <1>2

\* The publisher holds its file alone: nobody else writes it meanwhile.
LEMMA HolderKeeps ==
  ASSUME DriveInv, NEW c \in Callers, NEW x, NEW file, Holding(call[c]),
         IsFile(file), file.folder # "projections",
         call' = [call EXCEPT ![c] = x],
         files' = files \/ files' = [files EXCEPT ![call[c].staged] = file],
         unanswered \subseteq unanswered',
         Holding(x) => x.staged = call[c].staged,
         Fits(x)',
         \A r \in refs : r.file = call[c].staged => r.file \in unanswered',
         \A r \in refs' \ refs :
           /\ r.file = call[c].staged
           /\ files'[r.file] = [folder |-> "artifacts", key |-> r.ref.digest,
                                content |-> r.ref.media],
         refs \subseteq refs'
  PROVE  DriveInv'
<1> DEFINE f == call[c].staged
<1>1. f \in DOMAIN files /\ files[f].folder # "projections"
  BY DEF DriveInv, CallInv, Fits
<1>2. FileInv' /\ OnlyTouched(f) /\ DOMAIN files' = DOMAIN files
  <2>1. PICK g \in DOMAIN files : g = call[c].staged
    BY <1>1
  <2>2. FileInv' /\ OnlyTouched(g) /\ DOMAIN files' = DOMAIN files
    BY <2>1, FileReplaced DEF DriveInv
  <2> QED BY <2>1, <2>2 DEF OnlyTouched
<1>3. \A d \in Callers \ {c} : Holding(call[d]) => call[d].staged # f
  BY DEF DriveInv, CallInv
<1>4. CallInv'
  <2>1. PICK g : g = f
    OBVIOUS
  <2>2. /\ OnlyTouched(g)
        /\ ~ (g \in DOMAIN files /\ files[g].folder = "projections")
        /\ \A d \in Callers \ {c} : Holding(call[d]) =>
             /\ call[d].staged # g
             /\ Holding(x) => call[d].staged # x.staged
             /\ \A r \in refs' \ refs : call[d].staged \in unanswered \/ r.file # call[d].staged
    BY <1>1, <1>2, <1>3, <2>1 DEF OnlyTouched
  <2> QED BY <2>2, CallStep DEF DriveInv
<1>5. RefInv'
  <2>1. ASSUME NEW r \in refs
        PROVE  /\ r.file \in DOMAIN files'
               /\ \/ files'[r.file] = [folder |-> "artifacts", key |-> r.ref.digest,
                                       content |-> r.ref.media]
                  \/ r.file \in unanswered'
    BY <1>2 DEF DriveInv, RefInv, OnlyTouched
  <2>2. ASSUME NEW r \in refs' \ refs
        PROVE  /\ r.file \in DOMAIN files'
               /\ files'[r.file] = [folder |-> "artifacts", key |-> r.ref.digest,
                                    content |-> r.ref.media]
    BY <1>1, <1>2
  <2> QED BY <2>1, <2>2 DEF RefInv
<1> QED BY <1>2, <1>4, <1>5 DEF DriveInv

LEMMA PublishKeeps ==
  ASSUME DriveInv, NEW c \in Callers, Publish(c)
  PROVE  DriveInv'
<1> DEFINE f == call[c].staged
<1>1. At(c, "publish") /\ call[c].at = "publish" /\ Holding(call[c])
  BY DEF Publish, At, Holding
<1>2. /\ f \in DOMAIN files /\ files[f].folder \in {"staging", "artifacts"}
      /\ f \in unanswered \/ \A r \in refs : r.file # f
      /\ files[f].key = call[c].ref.digest /\ files[f].content = call[c].ref.media
  BY <1>1 DEF DriveInv, CallInv, Fits
<1>3. PICK file : file = [folder |-> "artifacts", key |-> files[f].key,
                          content |-> files[f].content]
  OBVIOUS
<1>4. file = [files[f] EXCEPT !.folder = "artifacts"]
  BY <1>2, <1>3 DEF DriveInv, FileInv
<1>5. IsFile(file) /\ file.folder = "artifacts" /\ file.key = call[c].ref.digest
      /\ file.content = call[c].ref.media
  BY <1>2, <1>3 DEF IsFile
<1>6. PICK outcome \in Outcomes :
        /\ Update(outcome, f, file)
        /\ withDriveRetry(c, outcome, f, Idle, [at |-> "delete", staged |-> f])
        /\ refs' = IF outcome = "done"
                   THEN refs \cup {[file |-> f, ref |-> call[c].ref]} ELSE refs
  BY <1>4 DEF Publish
<1>7. PICK x : x = IF outcome = "done" THEN Idle ELSE IF outcome = "again" THEN call[c]
                   ELSE [at |-> "delete", staged |-> f]
  OBVIOUS
<1>8. /\ call' = [call EXCEPT ![c] = x]
      /\ unanswered' = IF outcome \in {"again", "lost"} THEN unanswered \cup {f} ELSE unanswered
      /\ files' = IF outcome = "refused" THEN files ELSE [files EXCEPT ![f] = file]
  BY <1>6, <1>7 DEF withDriveRetry, Update, Outcomes
<1>9. /\ DOMAIN files' = DOMAIN files
      /\ files'[f] = IF outcome = "refused" THEN files[f] ELSE file
  BY <1>2, <1>8, ReplacedIn DEF DriveInv, FileInv
<1>10. outcome # "done" => refs' = refs /\ x.at \in {"publish", "delete"} /\ x.staged = f
                           /\ (x.at = "publish" => x.ref = call[c].ref)
  BY <1>1, <1>6, <1>7
<1>11. Fits(x)'
  <2>1. CASE outcome = "done"
    BY <1>7, <2>1, HarmlessFits DEF Holding, Writing, Idle
  <2>2. CASE outcome = "refused"
    BY <1>2, <1>7, <1>8, <1>9, <1>10, <2>2, <1>1
    DEF Fits, Holding, Writing, DriveInv, CallInv
  <2>3. CASE outcome \in {"again", "lost"}
    <3>1. f \in unanswered' /\ files'[f] = file /\ f \in DOMAIN files'
      BY <1>2, <1>8, <1>9, <2>3
    <3>2. x.at \in {"publish", "delete"} /\ x.staged = f
          /\ (x.at = "publish" => x.ref = call[c].ref)
      BY <1>10, <2>3
    <3> HIDE DEF f
    <3> QED BY <1>5, <3>1, <3>2 DEF Fits, Holding, Writing
  <2> QED BY <1>6, <2>1, <2>2, <2>3 DEF Outcomes
<1>12. \A r \in refs' \ refs : /\ outcome = "done"
                               /\ r = [file |-> f, ref |-> call[c].ref]
  BY <1>6
<1>13. \A r \in refs' \ refs :
         /\ r.file = f
         /\ files'[r.file] = [folder |-> "artifacts", key |-> r.ref.digest,
                              content |-> r.ref.media]
  <2> HIDE DEF f
  <2> QED BY <1>3, <1>5, <1>9, <1>12
<1>14. /\ files' = files \/ files' = [files EXCEPT ![f] = file]
       /\ unanswered \subseteq unanswered' /\ refs \subseteq refs'
       /\ Holding(x) => x.staged = f
       /\ file.folder # "projections"
       /\ \A r \in refs : r.file = f => r.file \in unanswered'
  BY <1>2, <1>5, <1>6, <1>7, <1>8, <1>1 DEF Holding, Idle
<1> QED BY <1>1, <1>5, <1>8, <1>11, <1>13, <1>14, HolderKeeps

LEMMA DeleteKeeps ==
  ASSUME DriveInv, NEW c \in Callers, deleteStagingFile(c)
  PROVE  DriveInv'
<1> DEFINE f == call[c].staged
<1>1. Holding(call[c])
  BY DEF deleteStagingFile, At, Holding
<1>2. /\ f \in DOMAIN files
      /\ f \in unanswered \/ \A r \in refs : r.file # f
  BY <1>1 DEF DriveInv, CallInv, Fits
<1>3. PICK file : file = [folder |-> "gone", key |-> files[f].key,
                          content |-> files[f].content]
  OBVIOUS
<1>4. file = [files[f] EXCEPT !.folder = "gone"]
  BY <1>2, <1>3 DEF DriveInv, FileInv
<1>5. PICK x : x = Idle
  OBVIOUS
<1>6. /\ call' = [call EXCEPT ![c] = x] /\ unanswered' = unanswered /\ refs' = refs
      /\ files' = files \/ files' = [files EXCEPT ![f] = file]
  BY <1>4, <1>5 DEF deleteStagingFile, withDriveRetry, Update
<1>7. Fits(x)' /\ ~ Holding(x)
  BY <1>5, HarmlessFits DEF Holding, Writing, Idle
<1>8. IsFile(file) /\ file.folder # "projections"
  BY <1>3 DEF IsFile
<1>9. \A r \in refs : r.file = f => r.file \in unanswered'
  BY <1>2, <1>6
<1>10. \A r \in refs' \ refs :
         /\ r.file = f
         /\ files'[r.file] = [folder |-> "artifacts", key |-> r.ref.digest,
                              content |-> r.ref.media]
  BY <1>6
<1> QED BY <1>1, <1>6, <1>7, <1>8, <1>9, <1>10, HolderKeeps

LEMMA FindProjectionKeeps ==
  ASSUME DriveInv, NEW c \in Callers, FindProjection(c)
  PROVE  DriveInv'
<1> DEFINE s == call[c].snapshot
           f == findProjection(s.task)
<1>1. s \in Projections
  BY DEF DriveInv, CallInv, Fits, FindProjection, At
<1>2. PICK x : /\ x = [at |-> IF f = None THEN "createProjection" ELSE "readProjection",
                       snapshot |-> s, file |-> f]
               /\ call' = [call EXCEPT ![c] = x]
  BY DEF FindProjection, Goto
<1>3. UNCHANGED <<files, unanswered, refs>>
  BY DEF FindProjection, driveVars
<1>4. x.snapshot = s /\ x.file = f
      /\ x.at = IF f = None THEN "createProjection" ELSE "readProjection"
  BY <1>2
<1>5. f # None => /\ f \in DOMAIN files
                  /\ files[f].folder = "projections" /\ files[f].key = s.task
  BY QueryFinds DEF findProjection, DriveInv, Query
<1> HIDE DEF s, f
<1>6. Fits(x)' /\ ~ Holding(x)
  BY <1>1, <1>3, <1>4, <1>5 DEF Fits, Holding, Writing
<1> QED BY <1>2, <1>3, <1>6, CallOnly

LEMMA ReadProjectionKeeps ==
  ASSUME DriveInv, NEW c \in Callers, readProjection(c)
  PROVE  DriveInv'
<1>1. PICK y : y = call[c]
  OBVIOUS
<1>2. y.at = "readProjection" /\ Fits(y)
  BY <1>1 DEF readProjection, At, DriveInv, CallInv
<1>3. UNCHANGED <<files, unanswered, refs>>
  BY DEF readProjection, driveVars
<1>4. PICK current : current = files[y.file].content
  OBVIOUS
<1>5. PICK x : /\ x = IF worthWriting(current, y.snapshot)
                      THEN [at |-> "updateProjection", snapshot |-> y.snapshot,
                            file |-> y.file, current |-> current]
                      ELSE Idle
               /\ call' = [call EXCEPT ![c] = x]
  BY <1>1, <1>4 DEF readProjection, Goto
<1>6. Fits(x)' /\ ~ Holding(x)
  <2>1. CASE ~ worthWriting(current, y.snapshot)
    BY <1>5, <2>1, HarmlessFits DEF Holding, Writing, Idle
  <2>2. CASE worthWriting(current, y.snapshot)
    <3>1. /\ x.at = "updateProjection" /\ x.snapshot = y.snapshot
          /\ x.file = y.file /\ x.current.state_seq <= y.snapshot.state_seq
      BY <1>5, <2>2 DEF worthWriting
    <3> QED BY <1>2, <1>3, <3>1 DEF Fits, Holding, Writing
  <2> QED BY <2>1, <2>2
<1> QED BY <1>3, <1>5, <1>6, CallOnly

\* What a write of a projection or an envelope leaves as the call: none, or
\* the same again.
LEMMA WriteOutcome ==
  ASSUME NEW c \in Callers, NEW f, NEW outcome \in Outcomes,
         withDriveRetry(c, outcome, f, Idle, Idle)
  PROVE  /\ \E x \in {Idle, call[c]} : call' = [call EXCEPT ![c] = x]
         /\ unanswered \subseteq unanswered'
BY DEF withDriveRetry, Outcomes

LEMMA CreateOutcome ==
  ASSUME DriveInv, NEW c \in Callers, NEW file, NEW outcome \in Outcomes,
         IsFile(file), Create(outcome, file),
         withDriveRetry(c, outcome, Len(files) + 1, Idle, Idle), refs' = refs,
         call[c].at \in {"createProjection", "envelope"}
  PROVE  DriveInv'
<1>1. PICK x : x \in {Idle, call[c]} /\ call' = [call EXCEPT ![c] = x]
  BY WriteOutcome
<1>2. /\ files' = files \/ files' = Append(files, file)
      /\ unanswered \subseteq unanswered'
  BY WriteOutcome DEF Create
<1>3. Fits(x)' /\ ~ Holding(x)
  <2>1. /\ x.at \in {"idle", "createProjection", "envelope"}
        /\ x.at = "createProjection" => x.snapshot \in Projections
    BY <1>1 DEF Idle, DriveInv, CallInv, Fits
  <2> QED BY <2>1, HarmlessFits DEF Holding, Writing
<1> QED BY <1>1, <1>2, <1>3, CreateKeeps

LEMMA CreatesKeep ==
  ASSUME DriveInv, NEW c \in Callers, CreateProjection(c) \/ publishMailboxEnvelope(c)
  PROVE  DriveInv'
<1>1. CASE CreateProjection(c)
  <2>1. PICK file : file = Projected(call[c].snapshot)
    OBVIOUS
  <2>2. PICK outcome \in Outcomes :
          Create(outcome, file) /\ withDriveRetry(c, outcome, Len(files) + 1, Idle, Idle)
    BY <1>1, <2>1 DEF CreateProjection
  <2>3. call[c].snapshot \in Projections /\ call[c].at = "createProjection" /\ refs' = refs
    BY <1>1 DEF DriveInv, CallInv, Fits, CreateProjection, At
  <2>4. IsFile(file)
    BY <2>1, <2>3 DEF IsFile, Projected
  <2> QED BY <2>2, <2>3, <2>4, CreateOutcome
<1>2. CASE publishMailboxEnvelope(c)
  <2>1. PICK file : file = [folder |-> "lane", key |-> None, content |-> call[c].message]
    OBVIOUS
  <2>2. PICK outcome \in Outcomes :
          Create(outcome, file) /\ withDriveRetry(c, outcome, Len(files) + 1, Idle, Idle)
    BY <1>2, <2>1 DEF publishMailboxEnvelope
  <2>3. call[c].at = "envelope" /\ refs' = refs
    BY <1>2 DEF publishMailboxEnvelope, At
  <2>4. IsFile(file)
    BY <2>1 DEF IsFile
  <2> QED BY <2>2, <2>3, <2>4, CreateOutcome
<1> QED BY <1>1, <1>2

\* A file that is found under a task_id is found again when it is written over
\* with a snapshot of that task_id: the id is its own beginning.
LEMMA KeyIsKept ==
  ASSUME FileInv, NEW y, Writing(y), Fits(y)
  PROVE  /\ IsFile(Projected(y.snapshot)) /\ y.file \in DOMAIN files
         /\ files[y.file].folder = "projections"
         /\ Projected(y.snapshot).folder = "projections"
         /\ Projected(y.snapshot).key = files[y.file].key
         /\ Projected(y.snapshot).content = y.snapshot
<1>1. /\ y.file \in DOMAIN files /\ y.snapshot \in Projections
      /\ files[y.file].folder = "projections" /\ files[y.file].key = y.snapshot.task
  BY DEF Fits
<1>2. PICK s \in Projections : files[y.file].key = Clipped[s.task]
  BY <1>1 DEF FileInv
<1>3. Clipped[y.snapshot.task] = y.snapshot.task
  BY <1>1, <1>2, DriveAssumption
<1> QED BY <1>1, <1>3 DEF Projected, IsFile

\* A projection is written over, by a call that may have read it long ago.
LEMMA UpdateKeeps ==
  ASSUME DriveInv, NEW c \in Callers, UpdateProjection(c)
  PROVE  DriveInv'
<1>1. PICK y : y = call[c]
  OBVIOUS
<1>2. y.at = "updateProjection" /\ Fits(y) /\ Writing(y)
  BY <1>1 DEF UpdateProjection, At, DriveInv, CallInv, Writing
<1>3. PICK file : file = Projected(y.snapshot)
  OBVIOUS
<1>4. PICK f : f = y.file
  OBVIOUS
<1>5. /\ f \in DOMAIN files /\ files[f].folder = "projections"
      /\ files[f].key = file.key /\ file.folder = "projections" /\ IsFile(file)
  BY <1>2, <1>3, <1>4, KeyIsKept DEF DriveInv
<1>6. PICK outcome \in Outcomes :
        Update(outcome, f, file) /\ withDriveRetry(c, outcome, f, Idle, Idle)
  BY <1>1, <1>3, <1>4 DEF UpdateProjection
<1>7. PICK x : x \in {Idle, y} /\ call' = [call EXCEPT ![c] = x]
  BY <1>1, <1>6, WriteOutcome
<1>8. /\ files' = files \/ files' = [files EXCEPT ![f] = file]
      /\ unanswered \subseteq unanswered' /\ refs' = refs
  BY <1>6, WriteOutcome DEF Update, UpdateProjection
<1>9. FileInv' /\ OnlyTouched(f) /\ (files' # files => files'[f] = file)
  BY <1>5, <1>8, FileReplaced DEF DriveInv
<1>10. f \in DOMAIN files' /\ files'[f].folder = "projections" /\ files'[f].key = files[f].key
  BY <1>5, <1>9 DEF OnlyTouched
<1>11. ~ Holding(x) /\ ~ Holding(y)
  BY <1>2, <1>7 DEF Holding, Idle
<1>12. Fits(x)'
  <2>1. CASE x = Idle
    BY <2>1, HarmlessFits DEF Holding, Writing, Idle
  <2>2. CASE x = y
    BY <1>2, <1>9, <1>10, <1>11, <2>2, StillFits
  <2> QED BY <1>7, <2>1, <2>2
<1>13. \A d \in Callers : Holding(call[d]) => call[d].staged # f
  BY <1>5 DEF DriveInv, CallInv, Fits
<1>14. CallInv'
  BY <1>7, <1>8, <1>9, <1>10, <1>11, <1>12, <1>13, CallStep DEF DriveInv
<1>15. RefInv'
  <2>1. \A r \in refs : r.file = f => f \in unanswered'
    <3>1. \A r \in refs : files[r.file].folder = "artifacts" \/ r.file \in unanswered
      <4> SUFFICES ASSUME NEW r \in refs, r.file \notin unanswered
                   PROVE  files[r.file].folder = "artifacts"
        OBVIOUS
      <4>1. files[r.file] = [folder |-> "artifacts", key |-> r.ref.digest,
                             content |-> r.ref.media]
        BY DEF DriveInv, RefInv
      <4> QED BY <4>1
    <3> QED BY <1>5, <1>8, <3>1
  <2> QED BY <1>8, <1>9, <2>1, RefsKeep DEF DriveInv
<1> QED BY <1>9, <1>14, <1>15 DEF DriveInv

LEMMA ReadFailsKeeps ==
  ASSUME DriveInv, NEW c \in Callers, ReadFails(c)
  PROVE  DriveInv'
<1>1. PICK x : x = Idle
  OBVIOUS
<1>2. Fits(x)' /\ ~ Holding(x)
  BY <1>1, HarmlessFits DEF Holding, Writing, Idle
<1> QED BY <1>1, <1>2, CallOnly DEF ReadFails, Goto, driveVars

LEMMA DriveSame ==
  ASSUME DriveInv, UNCHANGED <<files, unanswered, refs, call>>
  PROVE  DriveInv'
BY DEF DriveInv, FileInv, CallInv, RefInv, Fits, Holding, Writing

LEMMA DriveStep == DriveInv /\ [Next]_vars => DriveInv'
<1> SUFFICES ASSUME DriveInv, [Next]_vars PROVE DriveInv'
  OBVIOUS
<1>1. CASE UNCHANGED vars \/ StartReading \/ readDriveChanges \/ ReadChangesFails
  BY <1>1, DriveSame DEF vars, driveVars, StartReading, readDriveChanges, ReadChangesFails
<1>2. ASSUME NEW c \in Callers,
             \/ \E ref \in Puts : Put(c, ref)
             \/ \E s \in Projections : Project(c, s)
             \/ \E m \in Envelopes : PublishEnvelope(c, m)
             \/ FindArtifact(c) \/ OpenSession(c) \/ CreateStaged(c) \/ UploadStaged(c)
             \/ Publish(c) \/ deleteStagingFile(c) \/ FindProjection(c)
             \/ readProjection(c) \/ CreateProjection(c) \/ UpdateProjection(c)
             \/ publishMailboxEnvelope(c) \/ ReadFails(c)
      PROVE  DriveInv'
  BY <1>2, CallsBegin, FindArtifactKeeps, ArtifactRequestsKeep, PublishKeeps, DeleteKeeps,
     FindProjectionKeeps, ReadProjectionKeeps, CreatesKeep, UpdateKeeps, ReadFailsKeeps
<1> QED BY <1>1, <1>2 DEF Next

LEMMA DriveStart == Init => DriveInv
<1> SUFFICES ASSUME Init PROVE DriveInv
  OBVIOUS
<1>1. files \in Seq({}) /\ DOMAIN files = {}
  BY DEF Init
<1>2. FileInv /\ RefInv
  BY <1>1 DEF FileInv, IsSeq, RefInv, Init
<1>3. CallInv
  BY DEF Init, CallInv, Fits, Holding, Writing, Idle
<1> QED BY <1>2, <1>3 DEF DriveInv

\* A reference leads to its artifact, however many callers put the same bytes
\* and however their requests fail.
THEOREM RefsStayReadableAlways == Spec => []RefsStayReadable
<1>1. DriveInv => RefsStayReadable
  BY DEF DriveInv, RefInv, RefsStayReadable
<1> QED BY <1>1, DriveStart, DriveStep, PTL DEF Spec

-----------------------------------------------------------------------------
(* What a reader of a projection finds.                                    *)

LEMMA OldestStays ==
  ASSUME NEW Q, NEW R, R \subseteq Nat, Q # {}, Q \subseteq R,
         \A g \in R \ Q : \A h \in Q : h <= g
  PROVE  Oldest(R) = Oldest(Q)
<1>1. PICK o : o = Oldest(Q)
  OBVIOUS
<1>2. PICK p : p = Oldest(R)
  OBVIOUS
<1>3. o \in Q /\ \A g \in Q : o <= g
  BY <1>1, OldestIsLeast
<1>4. p \in R /\ \A g \in R : p <= g
  BY <1>2, OldestIsLeast
<1>5. o <= p /\ p <= o /\ o \in Nat /\ p \in Nat
  BY <1>3, <1>4
<1>6. o = p
  BY <1>5
<1> QED BY <1>1, <1>2, <1>6

LEMMA ShownIsNatural == FileInv => \A t : Shown(t) \in Nat
<1> SUFFICES ASSUME FileInv, NEW t PROVE Shown(t) \in Nat
  OBVIOUS
<1>1. CASE findProjection(t) = None
  BY <1>1 DEF Shown
<1>2. CASE findProjection(t) # None
  <2>1. PICK o : o = findProjection(t)
    OBVIOUS
  <2>2. o \in DOMAIN files /\ files[o].folder = "projections"
    <3>1. o \in Query("projections", t)
      BY <1>2, <2>1, QueryFinds DEF findProjection
    <3> QED BY <3>1 DEF Query
  <2>3. files[o].content \in Projections
    BY <2>2 DEF FileInv
  <2> QED BY <1>2, <2>1, <2>3, DriveAssumption DEF Shown
<1> QED BY <1>1, <1>2

\* Files that are added are younger; one that is written over stays what it
\* was, a projection of the same task or none.
LEMMA ShownStays ==
  ASSUME NEW t, NEW f, FileInv, FileInv', OnlyTouched(f),
         f \in DOMAIN files => \/ /\ files[f].folder # "projections"
                                  /\ files'[f].folder # "projections"
                               \/ /\ files'[f].folder = files[f].folder
                                  /\ files'[f].key = files[f].key
                                  /\ f = findProjection(t) =>
                                       files[f].content.state_seq <= files'[f].content.state_seq
  PROVE  Shown(t) <= Shown(t)'
<1>1. PICK Q : Q = Query("projections", t)
  OBVIOUS
<1>2. PICK R : R = Query("projections", t)'
  OBVIOUS
<1>3. Shown(t) \in Nat
  BY ShownIsNatural
<1>4. /\ DOMAIN files = 1 .. Len(files) /\ Len(files) \in Nat
      /\ DOMAIN files' = 1 .. Len(files') /\ Len(files') \in Nat
  BY AppendedTo DEF FileInv
<1>5. Q \subseteq DOMAIN files /\ R \subseteq DOMAIN files' /\ DOMAIN files \subseteq DOMAIN files'
  BY <1>1, <1>2 DEF Query, OnlyTouched
<1>6. \A g \in DOMAIN files : g \in R <=> g \in Q
  BY <1>1, <1>2, <1>5 DEF Query, OnlyTouched
<1>7. CASE Q = {}
  <2>1. Shown(t) = 0
    BY <1>1, <1>7 DEF Shown, findProjection, Oldest
  <2>2. Shown(t)' \in Nat
    <3>1. PICK p : p = Oldest(R)
      OBVIOUS
    <3>2. findProjection(t)' = p
      BY <1>2, <3>1 DEF findProjection
    <3>3. CASE p = None
      BY <3>2, <3>3 DEF Shown
    <3>4. CASE p # None
      <4>1. p \in R
        <5>1. R # {} /\ R \subseteq Nat
          BY <1>4, <1>5, <3>1, <3>4 DEF Oldest
        <5> QED BY <3>1, <5>1, OldestIsLeast
      <4>2. files'[p].content \in Projections
        BY <1>2, <4>1 DEF Query, FileInv
      <4> QED BY <3>2, <3>4, <4>2, DriveAssumption DEF Shown
    <3> QED BY <3>3, <3>4
  <2> QED BY <2>1, <2>2
<1>8. CASE Q # {}
  <2>1. PICK o : o = Oldest(Q)
    OBVIOUS
  <2>2. Oldest(R) = o
    <3>1. \A g \in R \ Q : \A h \in Q : h <= g
      BY <1>4, <1>5, <1>6
    <3>2. R \subseteq Nat /\ Q \subseteq R
      BY <1>4, <1>5, <1>6
    <3> QED BY <1>8, <2>1, <3>1, <3>2, OldestStays
  <2>3. o \in Q
    BY <1>4, <1>5, <1>8, <2>1, OldestIsLeast
  <2>4. findProjection(t) = o /\ findProjection(t)' = o
    BY <1>1, <1>2, <2>1, <2>2 DEF findProjection
  <2>5. CASE o = None
    BY <1>3, <2>4, <2>5 DEF Shown
  <2>6. CASE o # None
    <3>1. Shown(t) = files[o].content.state_seq /\ Shown(t)' = files'[o].content.state_seq
      BY <2>4, <2>6 DEF Shown
    <3>2. o \in DOMAIN files /\ files[o].folder = "projections" /\ files[o].key = t
      BY <1>1, <2>3 DEF Query
    <3>3. o # f => files'[o] = files[o]
      BY <3>2 DEF OnlyTouched
    <3>4. CASE o # f
      BY <1>3, <3>1, <3>3, <3>4
    <3>5. CASE o = f
      BY <2>4, <3>1, <3>2, <3>5
    <3> QED BY <3>4, <3>5
  <2> QED BY <2>5, <2>6
<1> QED BY <1>7, <1>8

LEMMA AddingShows ==
  ASSUME FileInv, NEW file, IsFile(file), unanswered \subseteq unanswered',
         files' = files \/ files' = Append(files, file), NEW t
  PROVE  Shown(t) <= Shown(t)'
BY FileAdded, ShownStays

LEMMA SameShows ==
  ASSUME FileInv, UNCHANGED files, NEW t
  PROVE  Shown(t) <= Shown(t)'
<1>1. Shown(t)' = Shown(t)
  BY DEF Shown, findProjection, Query, Oldest
<1> QED BY <1>1, ShownIsNatural

LEMMA ArtifactsShow ==
  ASSUME DriveInv, NEW c \in Callers, Publish(c) \/ deleteStagingFile(c), NEW t
  PROVE  Shown(t) <= Shown(t)'
<1>1. PICK f : f = call[c].staged
  OBVIOUS
<1>2. f \in DOMAIN files /\ files[f].folder # "projections"
  BY <1>1 DEF DriveInv, CallInv, Fits, Holding, Publish, deleteStagingFile, At
<1>3. \E folder \in {"artifacts", "gone"} :
        files' = files \/ files' = [files EXCEPT ![f] = [files[f] EXCEPT !.folder = folder]]
  BY <1>1 DEF Publish, deleteStagingFile, Update
<1>4. PICK folder \in {"artifacts", "gone"} :
        files' = files \/ files' = [files EXCEPT ![f] = [files[f] EXCEPT !.folder = folder]]
  BY <1>3
<1> DEFINE file == [folder |-> folder, key |-> files[f].key, content |-> files[f].content]
<1>4a. [files[f] EXCEPT !.folder = folder] = file
  BY <1>2 DEF DriveInv, FileInv
<1>4b. files' = files \/ files' = [files EXCEPT ![f] = file]
  BY <1>4, <1>4a
<1>5. IsFile(file) /\ file.folder # "projections"
  BY DEF IsFile
<1> HIDE DEF file
<1>6. unanswered \subseteq unanswered'
  BY DEF Publish, deleteStagingFile, withDriveRetry
<1>7. FileInv' /\ OnlyTouched(f) /\ (files' # files => files'[f] = file)
  BY <1>2, <1>4b, <1>5, <1>6, FileReplaced DEF DriveInv
<1>8. files'[f].folder # "projections"
  BY <1>2, <1>5, <1>7
<1> QED BY <1>2, <1>7, <1>8, ShownStays DEF DriveInv

\* What an update may make go back is what was found, and not what it was
\* compared with.
LEMMA UpdateShows ==
  ASSUME DriveInv, NEW c \in Callers, UpdateProjection(c), NEW t
  PROVE  \/ Shown(t) <= Shown(t)'
         \/ /\ call[c].file = findProjection(t)
            /\ files[call[c].file].content # call[c].current
            /\ files'[call[c].file].content = call[c].snapshot
<1>1. PICK y : y = call[c]
  OBVIOUS
<1>2. y.at = "updateProjection" /\ Fits(y) /\ Writing(y)
  BY <1>1 DEF UpdateProjection, At, DriveInv, CallInv, Writing
<1>3. PICK file : file = Projected(y.snapshot)
  OBVIOUS
<1>4. PICK f : f = y.file
  OBVIOUS
<1>5. /\ f \in DOMAIN files /\ files[f].folder = "projections"
      /\ files[f].key = file.key
      /\ file.folder = "projections" /\ file.content = y.snapshot /\ IsFile(file)
  BY <1>2, <1>3, <1>4, KeyIsKept DEF DriveInv
<1>6. files[f].content = y.current => files[f].content.state_seq <= file.content.state_seq
  BY <1>2, <1>5 DEF Fits
<1>7. /\ files' = files \/ files' = [files EXCEPT ![f] = file]
      /\ unanswered \subseteq unanswered'
  BY <1>1, <1>3, <1>4 DEF UpdateProjection, Update, withDriveRetry
<1>8. FileInv' /\ OnlyTouched(f) /\ (files' # files => files'[f] = file)
  BY <1>5, <1>7, FileReplaced DEF DriveInv
<1>9. CASE files' = files
  BY <1>9, SameShows DEF DriveInv
<1>10. CASE files' # files /\ (f = findProjection(t) => files[f].content = y.current)
  BY <1>5, <1>6, <1>8, <1>10, ShownStays DEF DriveInv
<1>11. CASE files' # files /\ f = findProjection(t) /\ files[f].content # y.current
  BY <1>1, <1>4, <1>5, <1>8, <1>11
<1> QED BY <1>9, <1>10, <1>11

LEMMA CreatesShow ==
  ASSUME DriveInv, NEW c \in Callers, NEW t,
         \/ CreateStaged(c) \/ UploadStaged(c)
         \/ CreateProjection(c) \/ publishMailboxEnvelope(c)
  PROVE  Shown(t) <= Shown(t)'
<1>1. CASE CreateStaged(c) \/ UploadStaged(c)
  <2>1. PICK file : file = Staged(call[c].ref)
    OBVIOUS
  <2>2. IsFile(file)
    BY <2>1 DEF IsFile, Staged
  <2>3. (files' = files \/ files' = Append(files, file)) /\ unanswered \subseteq unanswered'
    BY <1>1, <2>1 DEF CreateStaged, UploadStaged, Create, withDriveRetry
  <2> QED BY <2>2, <2>3, AddingShows DEF DriveInv
<1>2. CASE CreateProjection(c)
  <2>1. PICK file : file = Projected(call[c].snapshot)
    OBVIOUS
  <2>2. call[c].snapshot \in Projections
    BY <1>2 DEF DriveInv, CallInv, Fits, CreateProjection, At
  <2>3. IsFile(file)
    BY <2>1, <2>2 DEF IsFile, Projected
  <2>4. (files' = files \/ files' = Append(files, file)) /\ unanswered \subseteq unanswered'
    BY <1>2, <2>1 DEF CreateProjection, Create, withDriveRetry
  <2> QED BY <2>3, <2>4, AddingShows DEF DriveInv
<1>3. CASE publishMailboxEnvelope(c)
  <2>1. PICK file : file = [folder |-> "lane", key |-> None, content |-> call[c].message]
    OBVIOUS
  <2>2. IsFile(file)
    BY <2>1 DEF IsFile
  <2>3. (files' = files \/ files' = Append(files, file)) /\ unanswered \subseteq unanswered'
    BY <1>3, <2>1 DEF publishMailboxEnvelope, Create, withDriveRetry
  <2> QED BY <2>2, <2>3, AddingShows DEF DriveInv
<1> QED BY <1>1, <1>2, <1>3

LEMMA StepShows ==
  ASSUME DriveInv, [Next]_vars, NEW s \in Projections
  PROVE  \/ Shown(s.task) <= Shown(s.task)'
         \/ \E c \in Callers :
              /\ At(c, "updateProjection")
              /\ call[c].file = findProjection(s.task)
              /\ files[call[c].file].content # call[c].current
              /\ files'[call[c].file].content = call[c].snapshot
<1> PICK t : t = s.task
  OBVIOUS
<1>1. CASE UNCHANGED files
  BY <1>1, SameShows DEF DriveInv
<1>2. ASSUME NEW c \in Callers, Publish(c) \/ deleteStagingFile(c)
      PROVE  Shown(s.task) <= Shown(s.task)'
  BY <1>2, ArtifactsShow
<1>3. ASSUME NEW c \in Callers, \/ CreateStaged(c) \/ UploadStaged(c)
                                \/ CreateProjection(c) \/ publishMailboxEnvelope(c)
      PROVE  Shown(s.task) <= Shown(s.task)'
  BY <1>3, CreatesShow
<1>4. ASSUME NEW c \in Callers, UpdateProjection(c)
      PROVE  \/ Shown(s.task) <= Shown(s.task)'
             \/ /\ At(c, "updateProjection")
                /\ call[c].file = findProjection(s.task)
                /\ files[call[c].file].content # call[c].current
                /\ files'[call[c].file].content = call[c].snapshot
  <2>1. At(c, "updateProjection")
    BY <1>4 DEF UpdateProjection
  <2> QED BY <1>4, <2>1, UpdateShows
<1>5. ASSUME NEW c \in Callers,
             \/ \E ref \in Puts : Put(c, ref)
             \/ \E r \in Projections : Project(c, r)
             \/ \E m \in Envelopes : PublishEnvelope(c, m)
             \/ FindArtifact(c) \/ OpenSession(c) \/ FindProjection(c)
             \/ readProjection(c) \/ ReadFails(c)
      PROVE  UNCHANGED files
  BY <1>5 DEF Put, Project, PublishEnvelope, Begin, FindArtifact, OpenSession, FindProjection,
     readProjection, ReadFails, driveVars
<1>6. CASE UNCHANGED vars \/ StartReading \/ readDriveChanges \/ ReadChangesFails
  BY <1>1, <1>6 DEF vars, driveVars, StartReading, readDriveChanges, ReadChangesFails
<1> QED BY <1>1, <1>2, <1>3, <1>4, <1>5, <1>6 DEF Next

\* The projection of a task only goes forward, whoever writes it, but for a
\* write decided on content that has been replaced.
THEOREM ProjectionGoesForwardAlways == Spec => ProjectionGoesForward
<1>1. DriveInv /\ [Next]_vars =>
        [\A s \in Projections :
           \/ Shown(s.task) <= Shown(s.task)'
           \/ \E c \in Callers :
                /\ At(c, "updateProjection")
                /\ call[c].file = findProjection(s.task)
                /\ files[call[c].file].content # call[c].current
                /\ files'[call[c].file].content = call[c].snapshot]_vars
  BY StepShows
<1> QED BY <1>1, DriveStart, DriveStep, PTL DEF Spec, ProjectionGoesForward

-----------------------------------------------------------------------------
(* The observer of changes.                                                *)

ObserverInv ==
  /\ IsSeq(log)
  /\ token \in 0 .. Len(log)
  /\ {log[i] : i \in 1 .. token} \subseteq known
  /\ reading # None =>
       /\ reading.cursor \in token .. Len(log)
       /\ {log[i] : i \in token + 1 .. reading.cursor} \subseteq reading.changes

LEMMA ChangeKeepsObserver ==
  ASSUME ObserverInv, NEW f, log' = log \/ log' = Append(log, f), UNCHANGED observerVars
  PROVE  ObserverInv'
<1>1. CASE log' = log
  BY <1>1 DEF ObserverInv, observerVars
<1>2. CASE log' = Append(log, f)
  <2>1. /\ IsSeq(log') /\ Len(log) \in Nat /\ Len(log') = Len(log) + 1
        /\ \A i \in 1 .. Len(log) : log'[i] = log[i]
    BY <1>2, AppendedTo DEF ObserverInv
  <2>2. \A i \in 1 .. token : log'[i] = log[i]
    BY <2>1 DEF ObserverInv
  <2>3. reading # None => \A i \in token + 1 .. reading.cursor : log'[i] = log[i]
    BY <2>1 DEF ObserverInv
  <2> QED BY <2>1, <2>2, <2>3 DEF ObserverInv, observerVars
<1> QED BY <1>1, <1>2

LEMMA PageKeepsObserver ==
  ASSUME ObserverInv, readDriveChanges
  PROVE  ObserverInv'
<1>1. PICK upto : upto = IF reading.cursor + PageSize < Len(log)
                         THEN reading.cursor + PageSize ELSE Len(log)
  OBVIOUS
<1>2. PICK got : got = reading.changes \cup {log[i] : i \in reading.cursor + 1 .. upto}
  OBVIOUS
<1>3. Len(log) \in Nat /\ token \in Nat /\ reading.cursor \in token .. Len(log)
      /\ upto \in reading.cursor .. Len(log)
  BY <1>1, AppendedTo, DriveAssumption DEF ObserverInv, readDriveChanges
<1>4. {log[i] : i \in token + 1 .. upto} \subseteq got
  <2>1. ASSUME NEW i \in token + 1 .. upto PROVE log[i] \in got
    <3>1. i \in token + 1 .. reading.cursor \/ i \in reading.cursor + 1 .. upto
      BY <1>3
    <3> QED BY <1>2, <3>1 DEF ObserverInv, readDriveChanges
  <2> QED BY <2>1
<1>5. log' = log
  BY DEF readDriveChanges, driveVars
<1>6. CASE upto < Len(log)
  <2>1. /\ reading' = [cursor |-> upto, changes |-> got]
        /\ UNCHANGED <<token, known>>
    BY <1>1, <1>2, <1>6 DEF readDriveChanges
  <2>2. reading'.cursor = upto /\ reading'.changes = got
    BY <2>1
  <2> QED BY <1>3, <1>4, <1>5, <2>1, <2>2 DEF ObserverInv
<1>7. CASE ~ (upto < Len(log))
  <2>1. reading' = None /\ token' = upto /\ known' = known \cup got
    BY <1>1, <1>2, <1>7 DEF readDriveChanges
  <2>2. ASSUME NEW i \in 1 .. upto PROVE log[i] \in known \cup got
    <3>1. i \in 1 .. token \/ i \in token + 1 .. upto
      BY <1>3
    <3> QED BY <1>4, <3>1 DEF ObserverInv
  <2> QED BY <1>3, <1>5, <2>1, <2>2 DEF ObserverInv
<1> QED BY <1>6, <1>7

LEMMA StartKeepsObserver ==
  ASSUME ObserverInv, StartReading
  PROVE  ObserverInv'
<1>1. /\ reading' = [cursor |-> token, changes |-> {}] /\ log' = log
      /\ UNCHANGED <<token, known>>
  BY DEF StartReading, driveVars
<1>2. reading'.cursor = token /\ reading'.changes = {}
  BY <1>1
<1>3. Len(log) \in Nat /\ token \in 0 .. Len(log) /\ token + 1 .. token = {}
  BY AppendedTo DEF ObserverInv
<1> QED BY <1>1, <1>2, <1>3 DEF ObserverInv

LEMMA ObserverStep == ObserverInv /\ [Next]_vars => ObserverInv'
<1> SUFFICES ASSUME ObserverInv, [Next]_vars PROVE ObserverInv'
  OBVIOUS
<1>1. ASSUME NEW c \in Callers,
             \/ \E ref \in Puts : Put(c, ref)
             \/ \E s \in Projections : Project(c, s)
             \/ \E m \in Envelopes : PublishEnvelope(c, m)
             \/ FindArtifact(c) \/ OpenSession(c) \/ FindProjection(c)
             \/ readProjection(c) \/ ReadFails(c)
      PROVE  UNCHANGED <<log, observerVars>>
  BY <1>1 DEF Put, Project, PublishEnvelope, Begin, FindArtifact, OpenSession, FindProjection,
     readProjection, ReadFails, driveVars
<1>2. ASSUME NEW c \in Callers,
             \/ CreateStaged(c) \/ UploadStaged(c) \/ Publish(c) \/ deleteStagingFile(c)
             \/ CreateProjection(c) \/ UpdateProjection(c) \/ publishMailboxEnvelope(c)
      PROVE  (\E f : log' = log \/ log' = Append(log, f)) /\ UNCHANGED observerVars
  BY <1>2 DEF CreateStaged, UploadStaged, Publish, deleteStagingFile, CreateProjection,
     UpdateProjection, publishMailboxEnvelope, withDriveRetry
<1>3. CASE UNCHANGED vars
  BY <1>3, ChangeKeepsObserver DEF vars, driveVars
<1>4. CASE ReadChangesFails
  BY <1>4 DEF ReadChangesFails, ObserverInv, driveVars
<1> QED BY <1>1, <1>2, <1>3, <1>4, ChangeKeepsObserver, PageKeepsObserver, StartKeepsObserver
       DEF Next

LEMMA ObserverStart == Init => ObserverInv
<1> SUFFICES ASSUME Init PROVE ObserverInv
  OBVIOUS
<1>1. log \in Seq({}) /\ Len(log) = 0 /\ token = 0
  BY DEF Init
<1>2. 1 .. token = {}
  BY <1>1
<1> QED BY <1>1, <1>2 DEF ObserverInv, IsSeq, Init

\* Whatever the page size and however often a reading fails, the observer
\* has been told of every change before its token.
THEOREM ObserverMissesNothingAlways == Spec => []ObserverMissesNothing
<1>1. ObserverInv => ObserverMissesNothing
  BY DEF ObserverInv, ObserverMissesNothing
<1> QED BY <1>1, ObserverStart, ObserverStep, PTL DEF Spec
=============================================================================
