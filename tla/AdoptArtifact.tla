---------------------------- MODULE AdoptArtifact ----------------------------
(***************************************************************************)
(* The attempts of one adoptArtifact activity, and of later runs with the  *)
(* same effect key (workflows/temporal/src/activities.js).  The ledger is  *)
(* a JSON file guarded by a lock file; each await on the file system is a  *)
(* step, and a worker process may die between any two of them.             *)
(*                                                                         *)
(* All attempts of one key adopt the same candidate, whose digest is part  *)
(* of the key, so a receipt is told apart by its fence_generation alone.   *)
(***************************************************************************)
EXTENDS Naturals

CONSTANTS
  MaxAttempts,     \* bound: attempts, in the order Temporal starts them
  Environments,    \* the sets of Faults that may occur together
  NULL

\* "crash": a worker process dies.  "overlap": an attempt is silent past its
\* heartbeat timeout and alive, so that the next one runs beside it.  "stall":
\* a live attempt holds the lock past staleMs.  "leak": an attempt cannot close
\* or remove its lock file.
Faults == {"crash", "overlap", "stall", "leak"}

ASSUME AttemptsAssumption ==
  /\ MaxAttempts \in Nat \ {0}
  /\ Environments \in SUBSET SUBSET Faults
  /\ NULL \notin Nat

VARIABLES
  faults,          \* what may go wrong in this behaviour
  entry,           \* the ledger file, NULL while it does not exist
  objects,         \* fence generations whose receipt is in the object store
  lock,            \* the attempt whose open(wx) created the lock file, or NULL
  lockOld,         \* the lock file's mtime is older than staleMs
  pc,              \* pc[a]: the await attempt a stands at
  claim,           \* claim[a]: the effect record a has claimed, in its memory
  granted,         \* granted[a]: the record a last saw or wrote as its claim
  answer           \* answer[a]: the adoption a is going to report

vars == <<faults, entry, objects, lock, lockOld, pc, claim, granted, answer>>

Attempts == 1 .. MaxAttempts
Generations == 1 .. MaxAttempts

Contract == INSTANCE EffectLedger
  WITH Owners        <- Attempts,
       Subjects      <- {"candidate"},
       Results       <- Generations,
       MaxGeneration <- MaxAttempts,
       LateFailures  <- FALSE,
       record        <- IF entry = NULL THEN NULL ELSE entry.effect,
       view          <- granted,
       told          <- answer

Critical == {"read", "writeClaim", "publish", "writeCompleted", "unlock", "abort"}
Running == Critical \cup {"open", "stat", "removeStale"}
Over == {"returned", "failed", "crashed"}

Entries == [effect : Contract!Records, adoption_ref : Generations \cup {NULL}]

ASSUME NullIsNoEntry == NULL \notin Contract!Records /\ NULL \notin Entries

TypeOK ==
  /\ faults \in SUBSET Faults
  /\ entry \in Entries \cup {NULL}
  /\ objects \in SUBSET Generations
  /\ lock \in Attempts \cup {NULL}
  /\ lockOld \in BOOLEAN
  /\ pc \in [Attempts -> {"idle"} \cup Running \cup Over]
  /\ claim \in [Attempts -> Contract!Records \cup {NULL}]
  /\ granted \in [Attempts -> Contract!Records \cup {NULL}]
  /\ answer \in [Attempts -> Generations \cup {NULL}]

-----------------------------------------------------------------------------
Go(a, from, to) ==
  /\ pc[a] = from
  /\ pc' = [pc EXCEPT ![a] = to]
  /\ UNCHANGED faults

\* Temporal starts an attempt when the one before it is over: failed, dead, or
\* returned with the answer lost on its way (or asked for again by a new run).
\* One that only fell silent is still there.
mayStart(a) ==
  a > 1 =>
    pc[a - 1] \in Over \/ ("overlap" \in faults /\ pc[a - 1] # "idle")

Begin(a) ==
  /\ mayStart(a)
  /\ Go(a, "idle", "open")
  /\ UNCHANGED <<entry, objects, lock, lockOld, claim, granted, answer>>

(* withFileLock.                                                           *)

OpenLock(a) ==
  /\ IF lock = NULL
       THEN Go(a, "open", "read") /\ lock' = a /\ lockOld' = FALSE
       ELSE Go(a, "open", "stat") /\ UNCHANGED <<lock, lockOld>>
  /\ UNCHANGED <<entry, objects, claim, granted, answer>>

\* (Variants named Bug... are mistakes this code could contain.  Nothing uses
\* them here: they show which property would notice.)

BugAnyLockIsStale == lock # NULL

isStale == lock # NULL /\ lockOld

\* stat: an old lock is to be removed.  A lock that is young or gone means
\* another round, unless timeoutMs is over (EFFECT_LOCK_TIMEOUT).
StatLock(a) ==
  /\ IF isStale
       THEN Go(a, "stat", "removeStale")
       ELSE Go(a, "stat", "open") \/ Go(a, "stat", "failed")
  /\ UNCHANGED <<entry, objects, lock, lockOld, claim, granted, answer>>

\* rm removes whatever lock file is there by now.
RemoveStaleLock(a) ==
  /\ Go(a, "removeStale", "open") \/ Go(a, "removeStale", "failed")
  /\ lock' = NULL
  /\ UNCHANGED <<entry, objects, lockOld, claim, granted, answer>>

\* The lock file gets old: staleMs has passed since it was created.
LockAges ==
  /\ lock # NULL
  /\ ~lockOld
  /\ pc[lock] \in Over \/ "stall" \in faults
  /\ lockOld' = TRUE
  /\ UNCHANGED <<faults, entry, objects, lock, pc, claim, granted, answer>>

\* finally: the lock file is removed, whoever's it is; the attempt reports its
\* answer, or the error that brought it here.
Unlock(a) ==
  /\ Go(a, "unlock", "returned") \/ Go(a, "abort", "failed")
  /\ lock' = NULL
  /\ UNCHANGED <<entry, objects, lockOld, claim, granted, answer>>

(* The operation under the lock.                                           *)

BugNeverRecorded == FALSE

\* The file records a completed adoption.
isRecorded == entry # NULL /\ entry.effect.status = "SUCCEEDED"

\* An adoption on record is replayed.
ReplayAdoption(a) ==
  /\ isRecorded
  /\ Go(a, "read", "unlock")
  /\ answer' = [answer EXCEPT ![a] = entry.adoption_ref]
  /\ granted' = [granted EXCEPT ![a] = entry.effect]
  /\ UNCHANGED <<entry, objects, lock, lockOld, claim>>

\* Any other entry is taken over, whoever's it is.
ClaimInMemory(a) ==
  /\ ~isRecorded
  /\ Go(a, "read", "writeClaim")
  /\ claim' = [claim EXCEPT ![a] =
                 Contract!claimEffect(IF entry = NULL THEN NULL ELSE entry.effect,
                                      a, "candidate")]
  /\ UNCHANGED <<entry, objects, lock, lockOld, granted, answer>>

WriteClaim(a) ==
  /\ Go(a, "writeClaim", "publish")
  /\ entry' = [effect |-> claim[a], adoption_ref |-> NULL]
  /\ granted' = [granted EXCEPT ![a] = claim[a]]
  /\ UNCHANGED <<objects, lock, lockOld, claim, answer>>

BugReceiptOfNext(c) == c.generation + 1

\* The receipt of an adoption under claim c: all its other fields are the
\* effect's own.
receiptOf(c) == c.generation

BugReceiptNotStored(a) ==
  /\ Go(a, "publish", "writeCompleted")
  /\ UNCHANGED <<entry, objects, lock, lockOld, claim, granted, answer>>

\* immutableJson: the receipt goes to the content-addressed store.
PublishReceipt(a) ==
  /\ Go(a, "publish", "writeCompleted")
  /\ objects' = objects \cup {receiptOf(claim[a])}
  /\ UNCHANGED <<entry, lock, lockOld, claim, granted, answer>>

\* completeEffect is applied to the claim in memory, not to the file's record:
\* its fence compares the claim with itself.
WriteCompleted(a) ==
  /\ Go(a, "writeCompleted", "unlock")
  /\ Contract!mayComplete(claim[a], claim[a], receiptOf(claim[a]))
  /\ entry' = [effect       |-> Contract!completeEffect(claim[a], receiptOf(claim[a])),
               adoption_ref |-> receiptOf(claim[a])]
  /\ answer' = [answer EXCEPT ![a] = receiptOf(claim[a])]
  /\ UNCHANGED <<objects, lock, lockOld, claim, granted>>

\* A file operation fails: under the lock, the finally block is next, unless it
\* is that block which fails.
FileError(a) ==
  /\ \/ Go(a, "open", "failed")
     \/ \E at \in {"read", "writeClaim", "publish", "writeCompleted"} : Go(a, at, "abort")
     \/ "leak" \in faults /\ \E at \in {"unlock", "abort"} : Go(a, at, "failed")
  /\ UNCHANGED <<entry, objects, lock, lockOld, claim, granted, answer>>

\* The worker process dies; what it wrote stays, its lock file too.
Crash(a) ==
  /\ "crash" \in faults
  /\ \E at \in Running : Go(a, at, "crashed")
  /\ UNCHANGED <<entry, objects, lock, lockOld, claim, granted, answer>>

-----------------------------------------------------------------------------
Init ==
  /\ faults \in Environments
  /\ entry = NULL
  /\ objects = {}
  /\ lock = NULL
  /\ lockOld = FALSE
  /\ pc = [a \in Attempts |-> "idle"]
  /\ claim = [a \in Attempts |-> NULL]
  /\ granted = [a \in Attempts |-> NULL]
  /\ answer = [a \in Attempts |-> NULL]

Step(a) ==
  \/ Begin(a)
  \/ OpenLock(a)
  \/ StatLock(a)
  \/ RemoveStaleLock(a)
  \/ ReplayAdoption(a)
  \/ ClaimInMemory(a)
  \/ WriteClaim(a)
  \/ PublishReceipt(a)
  \/ WriteCompleted(a)
  \/ Unlock(a)
  \/ FileError(a)
  \/ Crash(a)

Next == LockAges \/ \E a \in Attempts : Step(a)

Spec == Init /\ [][Next]_vars

-----------------------------------------------------------------------------
(* Properties.                                                             *)

\* The file, the lock and the crashes between their writes amount to the
\* contract's atomic ledger: each written claim is a claim the stored record
\* allowed, each completion one its fence allowed.
ImplementsLedger == Contract!Spec

\* Attempts that report an adoption report the same one, whichever of them took
\* the effect over from a dead one, replayed it or came too late.
OneAdoptionReported == Contract!AllToldTheSame

\* An attempt that has been fenced off writes nothing over the record of the one
\* that took over: the file's record changes hands only with its generation.
FencedOffWritesNothing == Contract!FenceMovesForward

\* No two attempts are between open(wx) and rm of the lock file at once.
MutualExclusion ==
  \A a, b \in Attempts : pc[a] \in Critical /\ pc[b] \in Critical => a = b

\* Whatever adoption the ledger shows, or an attempt reports, can be read:
\* its receipt was stored first.
AdoptionHasReceipt ==
  /\ entry # NULL /\ entry.adoption_ref # NULL => entry.adoption_ref \in objects
  /\ \A a \in Attempts : answer[a] # NULL => answer[a] \in objects

\* The adoption of an effect key, once recorded, is the adoption for good: this
\* is what effect fencing is for.
AdoptionIsStable ==
  [][entry # NULL /\ entry.adoption_ref # NULL =>
       entry' # NULL /\ entry'.adoption_ref = entry.adoption_ref]_vars
=============================================================================
