---------------------------- MODULE DriveAdapter ----------------------------
(***************************************************************************)
(* packages/drive-adapter: immutable artifacts, task projections, mailbox  *)
(* envelopes and the reader of changes, over one Drive.                    *)
(*                                                                         *)
(* Drive has no transactions and no unique names: a call of the adapter is *)
(* a series of requests, and other callers act between two of them. Of a   *)
(* request that writes, the caller may miss the answer: it is retried, or  *)
(* the call throws, and what the request did stays done.                   *)
(***************************************************************************)
EXTENDS Naturals, Sequences, FiniteSets

CONSTANTS
  Callers,         \* processes that use the adapter
  Puts,            \* artifact references: records [digest, media]
  LargeDigests,    \* digests of the artifacts uploaded in a session
  Projections,     \* snapshots to project: records [task, state_seq, state]
  Clipped,         \* Clipped[id]: the first 120 characters of a task_id
  Envelopes,       \* ids of mailbox envelopes
  PageSize,        \* pageSize of readDriveChanges
  MaxFiles,        \* bound: files ever created
  MaxCalls,        \* bound: calls of the adapter
  MaxLosses,       \* bound: files of which an answer is lost
  None

ASSUME DriveAssumption ==
  /\ PageSize \in Nat \ {0}
  /\ MaxFiles \in Nat /\ MaxCalls \in Nat /\ MaxLosses \in Nat
  /\ \A s \in Projections :
       s.state_seq \in Nat /\ Clipped[Clipped[s.task]] = Clipped[s.task]
  /\ None \notin Projections

VARIABLES
  files,           \* the files of the Drive, by the order of their creation
  log,             \* its changes: the id of the file each of them was to
  unanswered,      \* files written by a request whose answer was lost
  call,            \* call[c]: the call c has open, by its next request
  calls,           \* how many calls have begun
  refs,            \* artifact references the adapter has returned
  token,           \* the page token the observer keeps
  known,           \* the files the observer has been told of
  reading          \* its open readDriveChanges: [cursor, changes], or None

driveVars == <<files, log, unanswered>>
observerVars == <<token, known, reading>>
vars == <<driveVars, call, calls, refs, observerVars>>

Idle == [at |-> "idle"]
At(c, request) == call[c].at = request

Init ==
  /\ files = <<>> /\ log = <<>> /\ unanswered = {}
  /\ call = [c \in Callers |-> Idle]
  /\ calls = 0
  /\ refs = {}
  /\ token = 0 /\ known = {} /\ reading = None

-----------------------------------------------------------------------------
(* Requests.                                                               *)

\* files.list with a query on folder and appProperties, oldest first.
Query(folder, key) ==
  {f \in DOMAIN files : files[f].folder = folder /\ files[f].key = key}
Oldest(found) == IF found = {} THEN None ELSE CHOOSE f \in found : \A g \in found : f <= g

\* withDriveRetry around a request that writes file f. Nothing is done and the
\* call throws; or it is done, and then the answer comes, or is lost and the
\* request is made again or the call throws. Requests refused and made again
\* change nothing.
Outcomes == {"done", "refused", "again", "lost"}

withDriveRetry(c, outcome, f, next, thrown) ==
  /\ outcome \in {"again", "lost"} =>
       f \notin unanswered /\ Cardinality(unanswered) < MaxLosses
  /\ unanswered' = IF outcome \in {"again", "lost"} THEN unanswered \cup {f} ELSE unanswered
  /\ log' = IF outcome = "refused" THEN log ELSE Append(log, f)
  /\ call' = [call EXCEPT ![c] = CASE outcome = "done"  -> next
                                   [] outcome = "again" -> @
                                   [] OTHER             -> thrown]

Create(outcome, file) ==
  /\ Len(files) < MaxFiles
  /\ files' = IF outcome = "refused" THEN files ELSE Append(files, file)

Update(outcome, f, file) ==
  files' = IF outcome = "refused" THEN files ELSE [files EXCEPT ![f] = file]

Begin(c, request) ==
  /\ At(c, "idle") /\ calls < MaxCalls
  /\ calls' = calls + 1
  /\ call' = [call EXCEPT ![c] = request]
  /\ UNCHANGED <<driveVars, refs, observerVars>>

Goto(c, request) == call' = [call EXCEPT ![c] = request]

\* A request that only reads fails for good: the call throws.
ReadFails(c) ==
  /\ call[c].at \in {"find", "findProjection", "readProjection"}
  /\ Goto(c, Idle)
  /\ UNCHANGED <<driveVars, calls, refs, observerVars>>

-----------------------------------------------------------------------------
(* Artifacts. Bytes that do not have the digest are refused before all this.*)

assertFileMatches(f, ref) == files[f].key = ref.digest /\ files[f].content = ref.media

BugFindsStaged(ref) ==
  Oldest(Query("artifacts", ref.digest) \cup Query("staging", ref.digest))

findImmutableArtifact(ref) == Oldest(Query("artifacts", ref.digest))

Put(c, ref) == Begin(c, [at |-> "find", ref |-> ref])

\* An artifact that is there is returned, or refused as a conflict.
FindArtifact(c) ==
  LET ref == call[c].ref
      f == findImmutableArtifact(ref)
  IN  /\ At(c, "find")
      /\ IF f = None
         THEN /\ Goto(c, [at |-> IF ref.digest \in LargeDigests THEN "session" ELSE "create",
                          ref |-> ref])
              /\ UNCHANGED refs
         ELSE /\ Goto(c, Idle)
              /\ refs' = IF assertFileMatches(f, ref)
                         THEN refs \cup {[file |-> f, ref |-> ref]} ELSE refs
      /\ UNCHANGED <<driveVars, calls, observerVars>>

\* The POST that opens an upload session.
OpenSession(c) ==
  /\ At(c, "session")
  /\ \E opened \in BOOLEAN :
       Goto(c, IF opened THEN [at |-> "upload", ref |-> call[c].ref] ELSE Idle)
  /\ UNCHANGED <<driveVars, calls, refs, observerVars>>

\* The file in the staging folder, by files.create or by the PUT of a session,
\* which is made again from a new session.
Staged(ref) == [folder |-> "staging", key |-> ref.digest, content |-> ref.media]

CreateStaged(c) ==
  LET f == Len(files) + 1
      ref == call[c].ref
  IN  /\ At(c, "create")
      /\ \E outcome \in Outcomes :
           /\ Create(outcome, Staged(ref))
           /\ withDriveRetry(c, outcome, f, [at |-> "publish", ref |-> ref, staged |-> f], Idle)
      /\ UNCHANGED <<calls, refs, observerVars>>

UploadStaged(c) ==
  LET f == Len(files) + 1
      ref == call[c].ref
  IN  /\ At(c, "upload")
      /\ \E outcome \in Outcomes :
           /\ Create(outcome, Staged(ref))
           /\ IF outcome = "again"
              THEN withDriveRetry(c, "lost", f, Idle, [at |-> "session", ref |-> ref])
              ELSE withDriveRetry(c, outcome, f, [at |-> "publish", ref |-> ref, staged |-> f], Idle)
      /\ UNCHANGED <<calls, refs, observerVars>>

\* The move into the artifact folder. When it throws, the file is deleted.
Publish(c) ==
  LET f == call[c].staged IN
  /\ At(c, "publish")
  /\ \E outcome \in Outcomes :
       /\ Update(outcome, f, [files[f] EXCEPT !.folder = "artifacts"])
       /\ withDriveRetry(c, outcome, f, Idle, [at |-> "delete", staged |-> f])
       /\ refs' = IF outcome = "done"
                  THEN refs \cup {[file |-> f, ref |-> call[c].ref]} ELSE refs
  /\ UNCHANGED <<calls, observerVars>>

\* Best effort: whatever happens, the error of the publication is thrown.
deleteStagingFile(c) ==
  LET f == call[c].staged IN
  /\ At(c, "delete")
  /\ \E outcome \in {"done", "refused"} :
       /\ Update(outcome, f, [files[f] EXCEPT !.folder = "gone"])
       /\ withDriveRetry(c, outcome, f, Idle, Idle)
  /\ UNCHANGED <<calls, refs, observerVars>>

-----------------------------------------------------------------------------
(* Task projections.                                                       *)

\* The query has the whole task_id, the file its first 120 characters: of a
\* longer id nothing is found, and an id of 120 finds the longer ones' files.
findProjection(task) == Oldest(Query("projections", task))

Project(c, s) == Begin(c, [at |-> "findProjection", snapshot |-> s])

FindProjection(c) ==
  LET f == findProjection(call[c].snapshot.task) IN
  /\ At(c, "findProjection")
  /\ Goto(c, [at |-> IF f = None THEN "createProjection" ELSE "readProjection",
              snapshot |-> call[c].snapshot, file |-> f])
  /\ UNCHANGED <<driveVars, calls, refs, observerVars>>

BugStaleWritten(current, s) == current # s

\* Neither stale nor the same snapshot again.
worthWriting(current, s) == current.state_seq <= s.state_seq /\ current # s

readProjection(c) ==
  LET current == files[call[c].file].content IN
  /\ At(c, "readProjection")
  /\ Goto(c, IF worthWriting(current, call[c].snapshot)
             THEN [at |-> "updateProjection", snapshot |-> call[c].snapshot,
                   file |-> call[c].file, current |-> current]
             ELSE Idle)
  /\ UNCHANGED <<driveVars, calls, refs, observerVars>>

Projected(s) == [folder |-> "projections", key |-> Clipped[s.task], content |-> s]

CreateProjection(c) ==
  /\ At(c, "createProjection")
  /\ \E outcome \in Outcomes :
       /\ Create(outcome, Projected(call[c].snapshot))
       /\ withDriveRetry(c, outcome, Len(files) + 1, Idle, Idle)
  /\ UNCHANGED <<calls, refs, observerVars>>

UpdateProjection(c) ==
  LET f == call[c].file IN
  /\ At(c, "updateProjection")
  /\ \E outcome \in Outcomes :
       /\ Update(outcome, f, Projected(call[c].snapshot))
       /\ withDriveRetry(c, outcome, f, Idle, Idle)
  /\ UNCHANGED <<calls, refs, observerVars>>

-----------------------------------------------------------------------------
(* Mailbox envelopes. Nothing looks one up, so they need no key.           *)

PublishEnvelope(c, m) == Begin(c, [at |-> "envelope", message |-> m])

publishMailboxEnvelope(c) ==
  /\ At(c, "envelope")
  /\ \E outcome \in Outcomes :
       /\ Create(outcome, [folder |-> "lane", key |-> None, content |-> call[c].message])
       /\ withDriveRetry(c, outcome, Len(files) + 1, Idle, Idle)
  /\ UNCHANGED <<calls, refs, observerVars>>

-----------------------------------------------------------------------------
(* Changes. A page token is a place in the log.                            *)

StartReading ==
  /\ reading = None /\ token < Len(log)
  /\ reading' = [cursor |-> token, changes |-> {}]
  /\ UNCHANGED <<driveVars, call, calls, refs, token, known>>

\* One page: the last one says where to start the next time.
readDriveChanges ==
  /\ reading # None
  /\ LET upto == IF reading.cursor + PageSize < Len(log)
                 THEN reading.cursor + PageSize ELSE Len(log)
         got == reading.changes \cup {log[i] : i \in reading.cursor + 1 .. upto}
     IN  IF upto < Len(log)
         THEN /\ reading' = [cursor |-> upto, changes |-> got]
              /\ UNCHANGED <<token, known>>
         ELSE /\ reading' = None
              /\ token' = upto
              /\ known' = known \cup got
  /\ UNCHANGED <<driveVars, call, calls, refs>>

BugCursorKept ==
  /\ reading # None
  /\ reading' = None
  /\ token' = reading.cursor
  /\ UNCHANGED <<driveVars, call, calls, refs, known>>

\* A page fails for good: the pages before it are dropped, the token stays.
ReadChangesFails ==
  /\ reading # None
  /\ reading' = None
  /\ UNCHANGED <<driveVars, call, calls, refs, token, known>>

-----------------------------------------------------------------------------
Next ==
  \/ \E c \in Callers :
       \/ \E ref \in Puts : Put(c, ref)
       \/ \E s \in Projections : Project(c, s)
       \/ \E m \in Envelopes : PublishEnvelope(c, m)
       \/ FindArtifact(c)
       \/ OpenSession(c)
       \/ CreateStaged(c)
       \/ UploadStaged(c)
       \/ Publish(c)
       \/ deleteStagingFile(c)
       \/ FindProjection(c)
       \/ readProjection(c)
       \/ CreateProjection(c)
       \/ UpdateProjection(c)
       \/ publishMailboxEnvelope(c)
       \/ ReadFails(c)
  \/ StartReading
  \/ readDriveChanges
  \/ ReadChangesFails

Spec == Init /\ [][Next]_vars

-----------------------------------------------------------------------------
\* A reference the adapter has returned leads to the artifact, of that digest
\* and media type, for good, whatever puts of the same bytes interleave and
\* fail. Only one case is excepted: the answer to the publication of the very
\* file was lost, after which its publisher may delete it again.
RefsStayReadable ==
  \A r \in refs :
    \/ files[r.file] = [folder |-> "artifacts", key |-> r.ref.digest, content |-> r.ref.media]
    \/ r.file \in unanswered

\* What is found under a task_id.
Shown(task) ==
  IF findProjection(task) = None THEN 0
  ELSE files[findProjection(task)].content.state_seq

\* Lost answers, retries, duplicate files and the files of longer ids never make
\* what is found under a task_id go back. Only a write may that was decided on
\* content replaced since. Of an id of more than 120 characters nothing is found
\* at all. (ProjectionIsMonotonic is what both cost.)
ProjectionGoesForward ==
  [][\A s \in Projections :
       \/ Shown(s.task) <= Shown(s.task)'
       \/ \E c \in Callers :
            /\ At(c, "updateProjection")
            /\ call[c].file = findProjection(s.task)
            /\ files[call[c].file].content # call[c].current
            /\ files'[call[c].file].content = call[c].snapshot]_vars

\* A step that writes the projection of a snapshot.
Projects(s) ==
  \E f \in DOMAIN files' :
    /\ files'[f] = Projected(s)
    /\ f \in DOMAIN files => files[f] # files'[f]

\* "Mutable task-status projections with monotonically increasing state_seq"
\* (docs/ADR-0006): whoever projects and whatever the task_id, none is written
\* while a later one of the same task is there.
ProjectionIsMonotonic ==
  [][\A s, later \in Projections :
       /\ later.task = s.task /\ later.state_seq > s.state_seq
       /\ \E f \in DOMAIN files : files[f] = Projected(later)
       => ~ Projects(s)]_vars

\* The observer has been told of every change before the token it keeps,
\* whatever changes between two pages and however often a reading fails.
ObserverMissesNothing == {log[i] : i \in 1 .. token} \subseteq known
=============================================================================
