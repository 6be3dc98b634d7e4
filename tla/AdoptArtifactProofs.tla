-------------------------- MODULE AdoptArtifactProofs --------------------------
(***************************************************************************)
(* Proofs about the attempts of adoptArtifact, for any number of them.     *)
(*                                                                         *)
(* That what is adopted has its receipt holds whatever goes wrong.  The    *)
(* rest needs the lock, and the lock needs NeverBoth: attempts overlap, or *)
(* lock files outlive their attempts, not both.  Under the lock, what an   *)
(* attempt has read is still so when it writes, which is all the atomic    *)
(* ledger of the contract asks for.                                        *)
(***************************************************************************)
EXTENDS AdoptArtifact, FiniteSetTheorems, TLAPS

Places == {"idle"} \cup Running \cup Over
Waiting == {"idle", "open", "stat", "removeStale", "read"}
Claimed == {"writeClaim", "publish", "writeCompleted"}

\* What the file says to the contract.
Recorded == IF entry = NULL THEN NULL ELSE entry.effect

-----------------------------------------------------------------------------
(* How attempts move.                                                      *)

\* An attempt goes from one await to another, and no other attempt moves.
LEMMA GoMoves ==
  ASSUME pc \in [Attempts -> Places], NEW a \in Attempts, NEW from, NEW to \in Places,
         Go(a, from, to)
  PROVE  /\ pc' \in [Attempts -> Places]
         /\ pc[a] = from /\ pc'[a] = to
         /\ \A b \in Attempts : b # a => pc'[b] = pc[b]
         /\ faults' = faults
BY DEF Go

\* The steps that leave entry, objects and claims alone.  None of them brings
\* an attempt under a claim, or back before it.
QuietStep ==
  /\ UNCHANGED <<faults, entry, objects, claim, granted, answer>>
  /\ pc' \in [Attempts -> Places]
  /\ lock' \in Attempts \cup {NULL} /\ lockOld' \in BOOLEAN
  /\ \A a \in Attempts :
       /\ pc'[a] \in Claimed => pc'[a] = pc[a]
       /\ pc'[a] \in Waiting => pc[a] \in Waiting

LEMMA StepKinds ==
  ASSUME TypeOK, Next
  PROVE  \/ QuietStep
         \/ \E a \in Attempts :
              \/ ReplayAdoption(a) \/ ClaimInMemory(a) \/ WriteClaim(a)
              \/ PublishReceipt(a) \/ WriteCompleted(a)
<1>. pc \in [Attempts -> Places] /\ lock \in Attempts \cup {NULL} /\ lockOld \in BOOLEAN
  BY DEF TypeOK, Places
<1>. USE DEF Places, Running, Critical, Over, Waiting, Claimed
<1>1. CASE LockAges
  BY <1>1 DEF LockAges, QuietStep
<1>2. ASSUME NEW a \in Attempts, Begin(a)
      PROVE  QuietStep
  BY <1>2, GoMoves DEF Begin, QuietStep
<1>3. ASSUME NEW a \in Attempts, OpenLock(a)
      PROVE  QuietStep
  <2>1. CASE lock = NULL
    BY <1>3, <2>1, GoMoves DEF OpenLock, QuietStep
  <2>2. CASE lock # NULL
    BY <1>3, <2>2, GoMoves DEF OpenLock, QuietStep
  <2>. QED BY <2>1, <2>2
<1>4. ASSUME NEW a \in Attempts, StatLock(a)
      PROVE  QuietStep
  <2>1. /\ \E to \in {"removeStale", "open", "failed"} : Go(a, "stat", to)
        /\ UNCHANGED <<entry, objects, lock, lockOld, claim, granted, answer>>
    BY <1>4 DEF StatLock
  <2>. QED BY <2>1, GoMoves DEF QuietStep
<1>5. ASSUME NEW a \in Attempts, RemoveStaleLock(a)
      PROVE  QuietStep
  <2>1. /\ \E to \in {"open", "failed"} : Go(a, "removeStale", to)
        /\ lock' = NULL
        /\ UNCHANGED <<entry, objects, lockOld, claim, granted, answer>>
    BY <1>5 DEF RemoveStaleLock
  <2>. QED BY <2>1, GoMoves DEF QuietStep
<1>6. ASSUME NEW a \in Attempts, Unlock(a)
      PROVE  QuietStep
  <2>1. CASE Go(a, "unlock", "returned")
    BY <1>6, <2>1, GoMoves DEF Unlock, QuietStep
  <2>2. CASE Go(a, "abort", "failed")
    BY <1>6, <2>2, GoMoves DEF Unlock, QuietStep
  <2>. QED BY <1>6, <2>1, <2>2 DEF Unlock
<1>7. ASSUME NEW a \in Attempts, FileError(a)
      PROVE  QuietStep
  <2>1. UNCHANGED <<entry, objects, lock, lockOld, claim, granted, answer>>
    BY <1>7 DEF FileError
  <2>2. PICK at \in Running, to \in {"failed", "abort"} : Go(a, at, to)
    BY <1>7 DEF FileError
  <2>. QED BY <2>1, <2>2, GoMoves DEF QuietStep
<1>8. ASSUME NEW a \in Attempts, Crash(a)
      PROVE  QuietStep
  <2>1. PICK at \in Running : Go(a, at, "crashed")
    BY <1>8 DEF Crash
  <2>. QED BY <1>8, <2>1, GoMoves DEF Crash, QuietStep
<1>. QED
  BY <1>1, <1>2, <1>3, <1>4, <1>5, <1>6, <1>7, <1>8 DEF Next, Step

-----------------------------------------------------------------------------
(* What a claim is.                                                        *)

\* A claim on what the file says is a started record of the claimant's, of a
\* generation that is new, or was the claimant's own.
LEMMA ClaimResult ==
  ASSUME entry \in Entries \cup {NULL}, ~ isRecorded, NEW a \in Attempts
  PROVE  LET c == Contract!claimEffect(Recorded, a, "candidate")
         IN  /\ c \in Contract!Records
             /\ c.owner = a /\ c.status # "SUCCEEDED"
             /\ c.subject = "candidate"
             /\ c.generation <= IF entry = NULL THEN 1 ELSE entry.effect.generation + 1
<1>. USE NullIsNoEntry DEF Contract!claimEffect, Recorded
<1>1. CASE entry = NULL
  BY <1>1 DEF Contract!firstClaim, Contract!Records, Contract!EFFECT_STATUSES
<1>2. CASE entry # NULL /\ entry.effect.owner = a
  BY <1>2 DEF Entries, isRecorded, Contract!Records
<1>3. CASE entry # NULL /\ entry.effect.owner # a
  <2>. DEFINE r == entry.effect
  <2>1. r \in Contract!Records /\ r.status # "SUCCEEDED"
    BY <1>3 DEF Entries, isRecorded
  <2>2. Contract!claimEffect(Recorded, a, "candidate") = Contract!takeOver(r, a)
    BY <1>3, <2>1
  <2>3. r.generation + 1 \in Nat \ {0}
    BY <2>1 DEF Contract!Records
  <2>4. /\ Contract!takeOver(r, a) \in Contract!Records
        /\ Contract!takeOver(r, a).owner = a
        /\ Contract!takeOver(r, a).status = "STARTED"
        /\ Contract!takeOver(r, a).subject = "candidate"
        /\ Contract!takeOver(r, a).generation = r.generation + 1
    <3>. HIDE DEF r
    <3>. QED
      BY <2>1, <2>3 DEF Contract!takeOver, Contract!Records, Contract!EFFECT_STATUSES
  <2>. QED BY <1>3, <2>2, <2>3, <2>4
<1>. QED BY <1>1, <1>2, <1>3

\* A completion keeps all of the record but its status and result.
LEMMA CompletedRecord ==
  ASSUME NEW r \in Contract!Records, NEW x \in Generations
  PROVE  /\ Contract!completeEffect(r, x) \in Contract!Records
         /\ Contract!completeEffect(r, x).generation = r.generation
         /\ Contract!completeEffect(r, x).status = "SUCCEEDED"
         /\ Contract!completeEffect(r, x).result = x
BY DEF Contract!completeEffect, Contract!Records, Contract!EFFECT_STATUSES

-----------------------------------------------------------------------------
(* Types.  A receipt is named by a generation, so that its type is a bound  *)
(* on generations: there are no more of them than attempts that claimed.    *)

Claimants == {a \in Attempts : claim[a] # NULL}

ClaimInv ==
  \A a \in Attempts :
    /\ pc[a] \in Waiting => claim[a] = NULL
    /\ pc[a] \in Claimed => claim[a] # NULL

CountInv ==
  /\ entry # NULL => entry.effect.generation <= Cardinality(Claimants)
  /\ \A a \in Claimants : claim[a].generation <= Cardinality(Claimants)

TypeInv == TypeOK /\ ClaimInv /\ CountInv

LEMMA ClaimantsBounded ==
  IsFiniteSet(Claimants) /\ Cardinality(Claimants) \in 0 .. MaxAttempts
<1>1. IsFiniteSet(Attempts) /\ Cardinality(Attempts) = MaxAttempts
  BY AttemptsAssumption, FS_Interval DEF Attempts
<1>2. Claimants \subseteq Attempts
  BY DEF Claimants
<1>. QED
  BY <1>1, <1>2, FS_Subset, FS_CardinalityType

\* Every receipt under a claim is of a generation in bounds.
LEMMA ReceiptBounded ==
  ASSUME TypeInv, NEW a \in Attempts, claim[a] # NULL
  PROVE  receiptOf(claim[a]) \in Generations
<1>1. claim[a] \in Contract!Records /\ a \in Claimants
  BY DEF TypeInv, TypeOK, Claimants
<1>2. claim[a].generation \in Nat \ {0} /\ claim[a].generation <= Cardinality(Claimants)
  BY <1>1 DEF TypeInv, CountInv, Contract!Records
<1>. QED
  BY <1>2, ClaimantsBounded, AttemptsAssumption DEF receiptOf, Generations

\* A further claimant makes one more.
LEMMA ClaimCounts ==
  ASSUME TypeInv, NEW a \in Attempts, pc[a] = "read", ClaimInMemory(a)
  PROVE  /\ Cardinality(Claimants') = Cardinality(Claimants) + 1
         /\ claim'[a] \in Contract!Records
         /\ claim'[a].generation <= Cardinality(Claimants')
         /\ \A b \in Attempts : b # a => claim'[b] = claim[b]
<1>. DEFINE c == Contract!claimEffect(Recorded, a, "candidate")
<1>1. claim' = [claim EXCEPT ![a] = c] /\ ~ isRecorded
  BY DEF ClaimInMemory, Recorded
<1>2. /\ c \in Contract!Records
      /\ c.generation <= IF entry = NULL THEN 1 ELSE entry.effect.generation + 1
  BY <1>1, ClaimResult DEF TypeInv, TypeOK
<1>3. claim[a] = NULL /\ claim \in [Attempts -> Contract!Records \cup {NULL}]
  BY DEF TypeInv, ClaimInv, TypeOK, Waiting
<1>4. c # NULL /\ claim'[a] = c /\ \A b \in Attempts : b # a => claim'[b] = claim[b]
  <2>. HIDE DEF c
  <2>. QED BY <1>1, <1>2, <1>3, NullIsNoEntry
<1>5. Claimants' = Claimants \cup {a} /\ a \notin Claimants
  BY <1>3, <1>4 DEF Claimants
<1>6. Cardinality(Claimants') = Cardinality(Claimants) + 1
  BY <1>5, ClaimantsBounded, FS_AddElement
<1>7. c.generation <= Cardinality(Claimants')
  <2>1. Cardinality(Claimants) \in Nat /\ c.generation \in Nat
    BY <1>2, ClaimantsBounded DEF Contract!Records
  <2>2. CASE entry = NULL
    BY <1>2, <1>6, <2>1, <2>2
  <2>3. CASE entry # NULL
    <3>1. entry.effect.generation \in Nat /\ entry.effect.generation <= Cardinality(Claimants)
      BY <2>3 DEF TypeInv, TypeOK, Entries, CountInv, Contract!Records
    <3>. QED BY <1>2, <1>6, <2>1, <2>3, <3>1
  <2>. QED BY <2>2, <2>3
<1>. QED BY <1>2, <1>4, <1>6, <1>7

LEMMA TypeStart == Init => TypeInv
<1>. SUFFICES ASSUME Init PROVE TypeInv
  OBVIOUS
<1>1. TypeOK
  BY AttemptsAssumption DEF Init, TypeOK, Running, Critical, Over
<1>2. ClaimInv
  BY DEF Init, ClaimInv, Waiting, Claimed
<1>3. CountInv
  BY DEF Init, CountInv, Claimants
<1>. QED BY <1>1, <1>2, <1>3 DEF TypeInv

LEMMA TypeStep == TypeInv /\ [Next]_vars => TypeInv'
<1>. SUFFICES ASSUME TypeInv, [Next]_vars PROVE TypeInv'
  OBVIOUS
<1>. TypeOK /\ ClaimInv /\ CountInv /\ pc \in [Attempts -> Places]
  BY DEF TypeInv, TypeOK, Places
<1>0. CASE UNCHANGED vars
  BY <1>0 DEF vars, TypeInv, TypeOK, ClaimInv, CountInv, Claimants
<1>1. CASE QuietStep
  <2>1. TypeOK'
    BY <1>1 DEF TypeOK, QuietStep, Places
  <2>2. ClaimInv'
    BY <1>1 DEF ClaimInv, QuietStep
  <2>3. CountInv'
    BY <1>1 DEF CountInv, Claimants, QuietStep
  <2>. QED BY <2>1, <2>2, <2>3 DEF TypeInv
<1>2. ASSUME NEW a \in Attempts, ReplayAdoption(a)
      PROVE  TypeInv'
  <2>1. Go(a, "read", "unlock")
    BY <1>2 DEF ReplayAdoption
  <2>2. /\ pc' \in [Attempts -> Places] /\ pc'[a] = "unlock" /\ faults' = faults
        /\ \A b \in Attempts : b # a => pc'[b] = pc[b]
    BY <2>1, GoMoves DEF Places, Running, Critical
  <2>3. entry.effect \in Contract!Records /\ entry.adoption_ref \in Generations \cup {NULL}
    BY <1>2 DEF ReplayAdoption, isRecorded, TypeOK, Entries
  <2>4. TypeOK'
    BY <1>2, <2>2, <2>3 DEF ReplayAdoption, TypeOK, Places
  <2>5. ClaimInv'
    BY <1>2, <2>2 DEF ReplayAdoption, ClaimInv, Waiting, Claimed
  <2>6. CountInv'
    BY <1>2 DEF ReplayAdoption, CountInv, Claimants
  <2>. QED BY <2>4, <2>5, <2>6 DEF TypeInv
<1>3. ASSUME NEW a \in Attempts, ClaimInMemory(a)
      PROVE  TypeInv'
  <2>1. Go(a, "read", "writeClaim")
    BY <1>3 DEF ClaimInMemory
  <2>2. /\ pc' \in [Attempts -> Places] /\ pc'[a] = "writeClaim" /\ faults' = faults
        /\ pc[a] = "read" /\ \A b \in Attempts : b # a => pc'[b] = pc[b]
    BY <2>1, GoMoves DEF Places, Running, Critical
  <2>3. /\ Cardinality(Claimants') = Cardinality(Claimants) + 1
        /\ claim'[a] \in Contract!Records
        /\ claim'[a].generation <= Cardinality(Claimants')
        /\ \A b \in Attempts : b # a => claim'[b] = claim[b]
    BY <1>3, <2>2, ClaimCounts
  <2>4. claim' \in [Attempts -> Contract!Records \cup {NULL}]
    BY <1>3, <2>3 DEF ClaimInMemory, TypeOK
  <2>5. TypeOK'
    BY <1>3, <2>2, <2>4 DEF ClaimInMemory, TypeOK, Places
  <2>6. ClaimInv'
    BY <2>2, <2>3, NullIsNoEntry DEF ClaimInv, Waiting, Claimed
  <2>7. CountInv'
    <3>1. Cardinality(Claimants) \in Nat
      BY ClaimantsBounded
    <3>2. entry' = entry
      BY <1>3 DEF ClaimInMemory
    <3>3. entry # NULL => entry.effect.generation \in Nat
      BY DEF TypeOK, Entries, Contract!Records
    <3>4. \A b \in Claimants : claim[b].generation \in Nat
      BY DEF TypeOK, Claimants, Contract!Records
    <3>5. ASSUME NEW b \in Claimants', b # a
          PROVE  claim'[b].generation <= Cardinality(Claimants')
      <4>1. b \in Claimants /\ claim'[b] = claim[b]
        BY <2>3, <3>5 DEF Claimants
      <4>. QED BY <2>3, <3>1, <3>4, <4>1 DEF CountInv
    <3>. QED BY <2>3, <3>1, <3>2, <3>3, <3>5 DEF CountInv
  <2>. QED BY <2>5, <2>6, <2>7 DEF TypeInv
<1>4. ASSUME NEW a \in Attempts, WriteClaim(a)
      PROVE  TypeInv'
  <2>1. Go(a, "writeClaim", "publish")
    BY <1>4 DEF WriteClaim
  <2>2. /\ pc' \in [Attempts -> Places] /\ pc'[a] = "publish" /\ faults' = faults
        /\ pc[a] = "writeClaim" /\ \A b \in Attempts : b # a => pc'[b] = pc[b]
    BY <2>1, GoMoves DEF Places, Running, Critical
  <2>3. claim[a] # NULL /\ claim[a] \in Contract!Records
    BY <2>2 DEF ClaimInv, TypeOK, Claimed
  <2>4. entry' \in Entries /\ entry'.effect = claim[a]
    BY <1>4, <2>3 DEF WriteClaim, Entries
  <2>5. TypeOK'
    BY <1>4, <2>2, <2>3, <2>4 DEF WriteClaim, TypeOK, Places
  <2>6. ClaimInv'
    BY <1>4, <2>2 DEF WriteClaim, ClaimInv, Waiting, Claimed
  <2>7. CountInv'
    BY <1>4, <2>3, <2>4 DEF WriteClaim, CountInv, Claimants
  <2>. QED BY <2>5, <2>6, <2>7 DEF TypeInv
<1>5. ASSUME NEW a \in Attempts, PublishReceipt(a)
      PROVE  TypeInv'
  <2>1. Go(a, "publish", "writeCompleted")
    BY <1>5 DEF PublishReceipt
  <2>2. /\ pc' \in [Attempts -> Places] /\ pc'[a] = "writeCompleted" /\ faults' = faults
        /\ pc[a] = "publish" /\ \A b \in Attempts : b # a => pc'[b] = pc[b]
    BY <2>1, GoMoves DEF Places, Running, Critical
  <2>3. claim[a] # NULL
    BY <2>2 DEF ClaimInv, Claimed
  <2>4. receiptOf(claim[a]) \in Generations
    BY <2>3, ReceiptBounded
  <2>5. TypeOK'
    BY <1>5, <2>2, <2>4 DEF PublishReceipt, TypeOK, Places
  <2>6. ClaimInv'
    BY <1>5, <2>2 DEF PublishReceipt, ClaimInv, Waiting, Claimed
  <2>7. CountInv'
    BY <1>5 DEF PublishReceipt, CountInv, Claimants
  <2>. QED BY <2>5, <2>6, <2>7 DEF TypeInv
<1>6. ASSUME NEW a \in Attempts, WriteCompleted(a)
      PROVE  TypeInv'
  <2>1. Go(a, "writeCompleted", "unlock")
    BY <1>6 DEF WriteCompleted
  <2>2. /\ pc' \in [Attempts -> Places] /\ pc'[a] = "unlock" /\ faults' = faults
        /\ pc[a] = "writeCompleted" /\ \A b \in Attempts : b # a => pc'[b] = pc[b]
    BY <2>1, GoMoves DEF Places, Running, Critical
  <2>3. claim[a] # NULL /\ claim[a] \in Contract!Records
    BY <2>2 DEF ClaimInv, TypeOK, Claimed
  <2>. DEFINE x == receiptOf(claim[a])
  <2>4. x \in Generations
    BY <2>3, ReceiptBounded
  <2>. DEFINE r == Contract!completeEffect(claim[a], x)
  <2>5. r \in Contract!Records /\ r.generation = claim[a].generation
    BY <2>3, <2>4, CompletedRecord
  <2>6. /\ entry' = [effect |-> r, adoption_ref |-> x]
        /\ answer' = [answer EXCEPT ![a] = x]
        /\ UNCHANGED <<objects, lock, lockOld, claim, granted>>
    BY <1>6 DEF WriteCompleted
  <2>. HIDE DEF x, r
  <2>7. entry' \in Entries
    BY <2>4, <2>5, <2>6 DEF Entries
  <2>8. TypeOK'
    BY <2>2, <2>4, <2>6, <2>7 DEF TypeOK, Places
  <2>9. ClaimInv'
    BY <2>2, <2>6 DEF ClaimInv, Waiting, Claimed
  <2>10. CountInv'
    BY <2>3, <2>5, <2>6 DEF CountInv, Claimants
  <2>. QED BY <2>8, <2>9, <2>10 DEF TypeInv
<1>. QED
  BY <1>0, <1>1, <1>2, <1>3, <1>4, <1>5, <1>6, StepKinds

LEMMA TypeInvAlways == Spec => []TypeInv
BY TypeStart, TypeStep, PTL DEF Spec

\* Every file, lock and record of an attempt has its type, whatever goes wrong:
\* generations are never more than attempts.
THEOREM TypeCorrect == Spec => []TypeOK
<1>1. TypeInv => TypeOK
  BY DEF TypeInv
<1>. QED BY <1>1, TypeInvAlways, PTL

-----------------------------------------------------------------------------
(* Receipts, whatever goes wrong.                                          *)

\* The receipt is stored before the file or an attempt speaks of it.
ReceiptInv ==
  /\ AdoptionHasReceipt
  /\ \A a \in Attempts : pc[a] = "writeCompleted" => receiptOf(claim[a]) \in objects

LEMMA ReceiptStep == TypeInv /\ ReceiptInv /\ [Next]_vars => ReceiptInv'
<1>. SUFFICES ASSUME TypeInv, ReceiptInv, [Next]_vars PROVE ReceiptInv'
  OBVIOUS
<1>. /\ TypeOK /\ pc \in [Attempts -> Places]
     /\ claim \in [Attempts -> Contract!Records \cup {NULL}]
     /\ answer \in [Attempts -> Generations \cup {NULL}]
  BY DEF TypeInv, TypeOK, Places
<1>. USE DEF ReceiptInv, AdoptionHasReceipt
<1>0. CASE UNCHANGED vars
  BY <1>0 DEF vars
<1>1. CASE QuietStep
  BY <1>1 DEF QuietStep, Claimed
<1>2. ASSUME NEW a \in Attempts, ReplayAdoption(a)
      PROVE  ReceiptInv'
  <2>1. pc[a] = "read" /\ pc'[a] = "unlock" /\ \A b \in Attempts : b # a => pc'[b] = pc[b]
    BY <1>2, GoMoves DEF ReplayAdoption, Places, Running, Critical
  <2>2. /\ entry # NULL /\ answer'[a] = entry.adoption_ref
        /\ \A b \in Attempts : b # a => answer'[b] = answer[b]
        /\ UNCHANGED <<entry, objects, claim>>
    BY <1>2 DEF ReplayAdoption, isRecorded
  <2>. QED BY <2>1, <2>2
<1>3. ASSUME NEW a \in Attempts, ClaimInMemory(a)
      PROVE  ReceiptInv'
  <2>1. pc[a] = "read" /\ pc'[a] = "writeClaim" /\ \A b \in Attempts : b # a => pc'[b] = pc[b]
    BY <1>3, GoMoves DEF ClaimInMemory, Places, Running, Critical
  <2>2. /\ \A b \in Attempts : b # a => claim'[b] = claim[b]
        /\ UNCHANGED <<entry, objects, answer>>
    BY <1>3 DEF ClaimInMemory
  <2>. QED BY <2>1, <2>2
<1>4. ASSUME NEW a \in Attempts, WriteClaim(a)
      PROVE  ReceiptInv'
  <2>1. pc'[a] = "publish" /\ \A b \in Attempts : b # a => pc'[b] = pc[b]
    BY <1>4, GoMoves DEF WriteClaim, Places, Running, Critical
  <2>. QED BY <1>4, <2>1 DEF WriteClaim
<1>5. ASSUME NEW a \in Attempts, PublishReceipt(a)
      PROVE  ReceiptInv'
  <2>1. \A b \in Attempts : b # a => pc'[b] = pc[b]
    BY <1>5, GoMoves DEF PublishReceipt, Places, Running, Critical
  <2>. QED BY <1>5, <2>1 DEF PublishReceipt
<1>6. ASSUME NEW a \in Attempts, WriteCompleted(a)
      PROVE  ReceiptInv'
  <2>. DEFINE x == receiptOf(claim[a])
  <2>1. /\ pc[a] = "writeCompleted" /\ pc'[a] = "unlock"
        /\ \A b \in Attempts : b # a => pc'[b] = pc[b]
    BY <1>6, GoMoves DEF WriteCompleted, Places, Running, Critical
  <2>2. /\ entry'.adoption_ref = x /\ answer' = [answer EXCEPT ![a] = x]
        /\ UNCHANGED <<objects, claim>>
    BY <1>6 DEF WriteCompleted
  <2>3. x \in objects
    BY <2>1
  <2>. HIDE DEF x
  <2>. QED BY <2>1, <2>2, <2>3
<1>. QED
  BY <1>0, <1>1, <1>2, <1>3, <1>4, <1>5, <1>6, StepKinds

\* Whatever adoption the file or an attempt tells of can be read, also when
\* attempts overlap, stall and lose their locks.
THEOREM AdoptionHasReceiptAlways == Spec => []AdoptionHasReceipt
<1>1. Init => ReceiptInv
  BY DEF Init, ReceiptInv, AdoptionHasReceipt
<1>2. ReceiptInv => AdoptionHasReceipt
  BY DEF ReceiptInv
<1>. QED BY <1>1, <1>2, ReceiptStep, TypeInvAlways, PTL DEF Spec

-----------------------------------------------------------------------------
(* The lock.                                                               *)

\* Attempts overlap, or lock files are left behind by attempts that died, or
\* got old in their hands; not both.
NeverBoth == \A f \in Environments : "overlap" \in f => f = {"overlap"}

\* Side by side, attempts never give up a lock but by removing it, so that the
\* lock file is always its owner's, and young.
LockIsHeld ==
  /\ ~ lockOld
  /\ lock # NULL => pc[lock] \in Critical
  /\ \A a \in Attempts :
       /\ pc[a] \in Critical => lock = a
       /\ pc[a] # "removeStale"

\* Otherwise they are one after the other, whatever becomes of the lock.
OneAfterTheOther ==
  \A a, b \in Attempts : a < b /\ pc[b] # "idle" => pc[a] \in Over

LockInv ==
  /\ faults \in Environments
  /\ IF "overlap" \in faults THEN LockIsHeld ELSE OneAfterTheOther

LEMMA LockExcludes ==
  ASSUME LockInv
  PROVE  MutualExclusion
<1>1. CASE "overlap" \in faults
  BY <1>1, NullIsNoEntry, AttemptsAssumption DEF LockInv, LockIsHeld, MutualExclusion, Attempts
<1>2. CASE "overlap" \notin faults
  <2>. SUFFICES ASSUME NEW a \in Attempts, NEW b \in Attempts,
                       pc[a] \in Critical, pc[b] \in Critical, a # b
                PROVE  FALSE
    BY DEF MutualExclusion
  <2>1. a < b \/ b < a
    BY AttemptsAssumption DEF Attempts
  <2>. QED BY <1>2, <2>1 DEF LockInv, OneAfterTheOther, Critical, Over
<1>. QED BY <1>1, <1>2

\* An attempt that is over stays so, and one that starts is preceded only by
\* attempts that are.
LEMMA InTurnStep ==
  ASSUME TypeInv, "overlap" \notin faults, OneAfterTheOther, Next
  PROVE  OneAfterTheOther'
<1>. pc \in [Attempts -> Places]
  BY DEF TypeInv, TypeOK, Places
<1>. USE DEF Places, Running, Critical, Over
<1>1. CASE LockAges
  BY <1>1 DEF LockAges, OneAfterTheOther
<1>2. ASSUME NEW a \in Attempts, Begin(a)
      PROVE  OneAfterTheOther'
  <2>1. /\ pc[a] = "idle" /\ pc'[a] = "open"
        /\ \A b \in Attempts : b # a => pc'[b] = pc[b]
    BY <1>2, GoMoves DEF Begin
  <2>2. ASSUME NEW b \in Attempts, b < a
        PROVE  pc[b] \in Over
    <3>1. a - 1 \in Attempts /\ a > 1 /\ (b = a - 1 \/ b < a - 1)
      BY <2>2, AttemptsAssumption DEF Attempts
    <3>2. pc[a - 1] \in Over
      BY <1>2, <3>1 DEF Begin, mayStart
    <3>. QED BY <3>1, <3>2 DEF OneAfterTheOther
  <2>. QED BY <2>1, <2>2, AttemptsAssumption DEF OneAfterTheOther, Attempts
<1>3. ASSUME NEW a \in Attempts, Step(a), ~ Begin(a)
      PROVE  OneAfterTheOther'
  <2>1. PICK from \in Running, to \in Places : Go(a, from, to)
    <3>1. \E at \in {"read", "writeClaim", "publish", "writeCompleted", "unlock", "abort",
                     "open", "stat", "removeStale"} :
            \E to \in Places : Go(a, at, to)
      BY <1>3 DEF Step, OpenLock, StatLock, RemoveStaleLock, ReplayAdoption, ClaimInMemory,
                  WriteClaim, PublishReceipt, WriteCompleted, Unlock, FileError, Crash
    <3>. QED BY <3>1
  <2>2. /\ pc[a] \in Running /\ \A b \in Attempts : b # a => pc'[b] = pc[b]
    BY <2>1, GoMoves
  <2>. QED BY <2>2 DEF OneAfterTheOther
<1>. QED
  BY <1>1, <1>2, <1>3 DEF Next

\* Without crash, leak and stall, critical attempts leave by removing the lock.
LEMMA HeldStep ==
  ASSUME TypeInv, faults = {"overlap"}, LockIsHeld, Next
  PROVE  LockIsHeld'
<1>. /\ pc \in [Attempts -> Places] /\ lock \in Attempts \cup {NULL}
     /\ NULL \notin Attempts
  BY AttemptsAssumption DEF TypeInv, TypeOK, Places, Attempts
<1>. USE DEF Places, Running, Critical, Over, LockIsHeld
<1>1. ~ LockAges
  BY DEF LockAges
<1>2. ASSUME NEW a \in Attempts, Begin(a)
      PROVE  LockIsHeld'
  BY <1>2, GoMoves DEF Begin
<1>3. ASSUME NEW a \in Attempts, OpenLock(a)
      PROVE  LockIsHeld'
  <2>1. CASE lock = NULL
    BY <1>3, <2>1, GoMoves DEF OpenLock
  <2>2. CASE lock # NULL
    BY <1>3, <2>2, GoMoves DEF OpenLock
  <2>. QED BY <2>1, <2>2
<1>4. ASSUME NEW a \in Attempts, StatLock(a)
      PROVE  LockIsHeld'
  <2>1. PICK to \in {"open", "failed"} : Go(a, "stat", to)
    BY <1>4 DEF StatLock, isStale
  <2>. QED BY <1>4, <2>1, GoMoves DEF StatLock
<1>5. ASSUME NEW a \in Attempts, RemoveStaleLock(a)
      PROVE  FALSE
  BY <1>5 DEF RemoveStaleLock, Go
<1>6. ASSUME NEW a \in Attempts, Unlock(a)
      PROVE  LockIsHeld'
  <2>1. PICK from \in {"unlock", "abort"}, to \in {"returned", "failed"} : Go(a, from, to)
    BY <1>6 DEF Unlock
  <2>2. /\ pc[a] \in Critical /\ pc'[a] \notin Critical \cup {"removeStale"}
        /\ \A b \in Attempts : b # a => pc'[b] = pc[b]
    BY <2>1, GoMoves
  <2>. QED BY <1>6, <2>2 DEF Unlock
<1>7. ASSUME NEW a \in Attempts, FileError(a)
      PROVE  LockIsHeld'
  <2>1. CASE Go(a, "open", "failed")
    BY <1>7, <2>1, GoMoves DEF FileError
  <2>2. ASSUME NEW at \in {"read", "writeClaim", "publish", "writeCompleted"}, Go(a, at, "abort")
        PROVE  LockIsHeld'
    BY <1>7, <2>2, GoMoves DEF FileError
  <2>. QED BY <1>7, <2>1, <2>2 DEF FileError
<1>8. ~ \E a \in Attempts : Crash(a)
  BY DEF Crash
<1>9. ASSUME NEW a \in Attempts,
             ReplayAdoption(a) \/ ClaimInMemory(a) \/ WriteClaim(a)
               \/ PublishReceipt(a) \/ WriteCompleted(a)
      PROVE  LockIsHeld'
  <2>1. PICK from \in {"read", "writeClaim", "publish", "writeCompleted"},
             to \in {"writeClaim", "publish", "writeCompleted", "unlock"} : Go(a, from, to)
    BY <1>9 DEF ReplayAdoption, ClaimInMemory, WriteClaim, PublishReceipt, WriteCompleted
  <2>2. UNCHANGED <<lock, lockOld>>
    BY <1>9 DEF ReplayAdoption, ClaimInMemory, WriteClaim, PublishReceipt, WriteCompleted
  <2>. QED BY <2>1, <2>2, GoMoves
<1>. QED
  BY <1>1, <1>2, <1>3, <1>4, <1>5, <1>6, <1>7, <1>8, <1>9 DEF Next, Step

LEMMA FaultsStay == [Next]_vars => faults' = faults
BY DEF Next, vars, Step, Go, LockAges, Begin, OpenLock, StatLock, RemoveStaleLock,
       ReplayAdoption, ClaimInMemory, WriteClaim, PublishReceipt, WriteCompleted, Unlock,
       FileError, Crash

LEMMA LockStep ==
  ASSUME NeverBoth
  PROVE  TypeInv /\ LockInv /\ [Next]_vars => LockInv'
<1>. SUFFICES ASSUME TypeInv, LockInv, [Next]_vars PROVE LockInv'
  OBVIOUS
<1>0. faults' = faults
  BY FaultsStay
<1>1. CASE UNCHANGED vars
  BY <1>1 DEF vars, LockInv, LockIsHeld, OneAfterTheOther
<1>2. CASE Next /\ "overlap" \in faults
  BY <1>0, <1>2, HeldStep DEF LockInv, NeverBoth
<1>3. CASE Next /\ "overlap" \notin faults
  BY <1>0, <1>3, InTurnStep DEF LockInv
<1>. QED BY <1>1, <1>2, <1>3

LEMMA LockStart == Init => LockInv
BY DEF Init, LockInv, LockIsHeld, OneAfterTheOther, Critical

\* No two attempts are at once between creating the lock file and removing it,
\* for any number of attempts, stale locks and takeovers.
THEOREM MutualExclusionAlways ==
  ASSUME NeverBoth
  PROVE  Spec => []MutualExclusion
<1>1. LockInv => MutualExclusion
  BY LockExcludes
<1>2. TypeInv /\ LockInv /\ [Next]_vars => LockInv'
  BY LockStep
<1>. QED BY <1>1, <1>2, LockStart, TypeInvAlways, PTL DEF Spec

-----------------------------------------------------------------------------
(* The ledger.                                                             *)

\* The file says one thing about the adoption.
FileIsCoherent ==
  entry # NULL =>
    IF entry.effect.status = "SUCCEEDED"
    THEN entry.adoption_ref # NULL /\ entry.adoption_ref = entry.effect.result
    ELSE entry.adoption_ref = NULL

\* What an attempt has computed from the file is still so when it writes.
NothingStale ==
  \A a \in Attempts :
    /\ pc[a] = "writeClaim" =>
         ~ isRecorded /\ claim[a] = Contract!claimEffect(Recorded, a, "candidate")
    /\ pc[a] \in {"publish", "writeCompleted"} =>
         /\ entry # NULL /\ entry.effect = claim[a] /\ granted[a] = claim[a]
         /\ claim[a].owner = a /\ claim[a].status # "SUCCEEDED"

LedgerInv == FileIsCoherent /\ NothingStale

\* The attempt that writes is the only one with something to go stale.
LEMMA WriterAlone ==
  ASSUME LockInv, NEW a \in Attempts, pc[a] \in Critical,
         NEW b \in Attempts, b # a
  PROVE  pc[b] \notin Claimed
BY LockExcludes DEF MutualExclusion, Critical, Claimed

LEMMA LedgerStep == TypeInv /\ LockInv /\ LedgerInv /\ [Next]_vars => LedgerInv'
<1>. SUFFICES ASSUME TypeInv, LockInv, LedgerInv, [Next]_vars PROVE LedgerInv'
  OBVIOUS
<1>. /\ TypeOK /\ pc \in [Attempts -> Places]
     /\ entry \in Entries \cup {NULL}
     /\ claim \in [Attempts -> Contract!Records \cup {NULL}]
     /\ granted \in [Attempts -> Contract!Records \cup {NULL}]
  BY DEF TypeInv, TypeOK, Places
<1>0. CASE UNCHANGED vars
  BY <1>0 DEF vars, LedgerInv, FileIsCoherent, NothingStale, isRecorded, Recorded
<1>1. CASE QuietStep
  <2>1. entry' = entry /\ claim' = claim /\ granted' = granted
    BY <1>1 DEF QuietStep
  <2>2. \A a \in Attempts : pc'[a] \in Claimed => pc'[a] = pc[a]
    BY <1>1 DEF QuietStep
  <2>3. FileIsCoherent'
    BY <2>1 DEF LedgerInv, FileIsCoherent
  <2>4. NothingStale'
    BY <2>1, <2>2 DEF LedgerInv, NothingStale, isRecorded, Recorded, Claimed
  <2>. QED BY <2>3, <2>4 DEF LedgerInv
<1>2. ASSUME NEW a \in Attempts, ReplayAdoption(a)
      PROVE  LedgerInv'
  <2>1. /\ pc[a] = "read" /\ pc'[a] = "unlock"
        /\ \A b \in Attempts : b # a => pc'[b] = pc[b]
    BY <1>2, GoMoves DEF ReplayAdoption, Places, Running, Critical
  <2>2. /\ entry' = entry /\ claim' = claim
        /\ \A b \in Attempts : b # a => granted'[b] = granted[b]
    BY <1>2 DEF ReplayAdoption
  <2>3. NothingStale'
    BY <2>1, <2>2 DEF LedgerInv, NothingStale, isRecorded, Recorded
  <2>. QED BY <2>2, <2>3 DEF LedgerInv, FileIsCoherent
<1>3. ASSUME NEW a \in Attempts, ClaimInMemory(a)
      PROVE  LedgerInv'
  <2>1. /\ pc[a] = "read" /\ pc'[a] = "writeClaim"
        /\ \A b \in Attempts : b # a => pc'[b] = pc[b]
    BY <1>3, GoMoves DEF ClaimInMemory, Places, Running, Critical
  <2>. DEFINE c == Contract!claimEffect(Recorded, a, "candidate")
  <2>2. claim' = [claim EXCEPT ![a] = c] /\ ~ isRecorded /\ entry' = entry /\ granted' = granted
    BY <1>3 DEF ClaimInMemory, Recorded
  <2>3. /\ claim'[a] = c /\ \A b \in Attempts : b # a => claim'[b] = claim[b]
        /\ Recorded' = Recorded
    <3>. HIDE DEF c
    <3>. QED BY <2>2 DEF Recorded
  <2>4. ASSUME NEW b \in Attempts, pc'[b] = "writeClaim"
        PROVE  (~ isRecorded)' /\ claim'[b] = Contract!claimEffect(Recorded, b, "candidate")'
    <3>1. CASE b = a
      BY <2>2, <2>3, <3>1 DEF isRecorded
    <3>2. CASE b # a
      BY <2>1, <2>4, <3>2, WriterAlone DEF Critical, Claimed
    <3>. QED BY <3>1, <3>2
  <2>5. ASSUME NEW b \in Attempts, pc'[b] \in {"publish", "writeCompleted"}
        PROVE  FALSE
    BY <2>1, <2>5, WriterAlone DEF Critical, Claimed
  <2>6. NothingStale'
    BY <2>4, <2>5 DEF NothingStale
  <2>. QED BY <2>2, <2>6 DEF LedgerInv, FileIsCoherent
<1>4. ASSUME NEW a \in Attempts, WriteClaim(a)
      PROVE  LedgerInv'
  <2>1. /\ pc[a] = "writeClaim" /\ pc'[a] = "publish"
        /\ \A b \in Attempts : b # a => pc'[b] = pc[b]
    BY <1>4, GoMoves DEF WriteClaim, Places, Running, Critical
  <2>2. ~ isRecorded /\ claim[a] = Contract!claimEffect(Recorded, a, "candidate")
    BY <2>1 DEF LedgerInv, NothingStale
  <2>3. claim[a] \in Contract!Records /\ claim[a].owner = a /\ claim[a].status # "SUCCEEDED"
    BY <2>2, ClaimResult
  <2>4. /\ entry' # NULL /\ entry'.effect = claim[a] /\ entry'.adoption_ref = NULL
        /\ granted'[a] = claim[a] /\ claim' = claim
    <3>1. entry' = [effect |-> claim[a], adoption_ref |-> NULL]
      BY <1>4 DEF WriteClaim
    <3>2. entry' \in Entries
      BY <2>3, <3>1 DEF Entries
    <3>. QED BY <1>4, <3>1, <3>2, NullIsNoEntry DEF WriteClaim
  <2>5. FileIsCoherent'
    BY <2>3, <2>4 DEF FileIsCoherent
  <2>6. ASSUME NEW b \in Attempts, b # a
        PROVE  pc'[b] \notin Claimed
    BY <2>1, <2>6, WriterAlone DEF Critical
  <2>7. NothingStale'
    BY <2>1, <2>3, <2>4, <2>6 DEF NothingStale, Claimed
  <2>. QED BY <2>5, <2>7 DEF LedgerInv
<1>5. ASSUME NEW a \in Attempts, PublishReceipt(a)
      PROVE  LedgerInv'
  <2>1. /\ pc[a] = "publish" /\ pc'[a] = "writeCompleted"
        /\ \A b \in Attempts : b # a => pc'[b] = pc[b]
    BY <1>5, GoMoves DEF PublishReceipt, Places, Running, Critical
  <2>2. entry' = entry /\ claim' = claim /\ granted' = granted
    BY <1>5 DEF PublishReceipt
  <2>. QED BY <2>1, <2>2 DEF LedgerInv, FileIsCoherent, NothingStale, isRecorded, Recorded
<1>6. ASSUME NEW a \in Attempts, WriteCompleted(a)
      PROVE  LedgerInv'
  <2>1. /\ pc[a] = "writeCompleted" /\ pc'[a] = "unlock"
        /\ \A b \in Attempts : b # a => pc'[b] = pc[b]
    BY <1>6, GoMoves DEF WriteCompleted, Places, Running, Critical
  <2>. DEFINE x == receiptOf(claim[a])
              r == Contract!completeEffect(claim[a], x)
  <2>2. claim[a] # NULL /\ claim[a] \in Contract!Records
    BY <2>1 DEF TypeInv, ClaimInv, Claimed
  <2>3. x \in Generations
    BY <2>2, ReceiptBounded
  <2>4. r.status = "SUCCEEDED" /\ r.result = x
    BY <2>2, <2>3, CompletedRecord
  <2>5. entry' = [effect |-> r, adoption_ref |-> x]
    BY <1>6 DEF WriteCompleted
  <2>6. x # NULL
    BY <2>3, AttemptsAssumption DEF Generations
  <2>7. FileIsCoherent'
    <3>. HIDE DEF x, r
    <3>. QED BY <2>4, <2>5, <2>6 DEF FileIsCoherent
  <2>8. \A b \in Attempts : pc'[b] \notin Claimed
    BY <2>1, WriterAlone DEF Critical, Claimed
  <2>9. NothingStale'
    BY <2>8 DEF NothingStale, Claimed
  <2>. QED BY <2>7, <2>9 DEF LedgerInv
<1>. QED
  BY <1>0, <1>1, <1>2, <1>3, <1>4, <1>5, <1>6, StepKinds

LEMMA LedgerStart == Init => LedgerInv
BY DEF Init, LedgerInv, FileIsCoherent, NothingStale

LEMMA LedgerAlways ==
  ASSUME NeverBoth
  PROVE  Spec => [](TypeInv /\ LockInv /\ LedgerInv)
<1>1. TypeInv /\ LockInv /\ [Next]_vars => LockInv'
  BY LockStep
<1>. QED
  BY <1>1, LedgerStart, LedgerStep, LockStart, TypeInvAlways, PTL DEF Spec

\* Once the file records an adoption no attempt replaces it, however many there
\* are and however they die.
THEOREM AdoptionIsStableAlways ==
  ASSUME NeverBoth
  PROVE  Spec => AdoptionIsStable
<1>. DEFINE Stable == entry # NULL /\ entry.adoption_ref # NULL =>
                        entry' # NULL /\ entry'.adoption_ref = entry.adoption_ref
<1>1. TypeInv /\ LockInv /\ LedgerInv /\ [Next]_vars => [Stable]_vars
  <2>. SUFFICES ASSUME TypeInv, LedgerInv, Next, entry # NULL, entry.adoption_ref # NULL
                PROVE  entry' = entry
    OBVIOUS
  <2>1. entry.effect.status = "SUCCEEDED"
    BY DEF LedgerInv, FileIsCoherent
  <2>2. ASSUME NEW a \in Attempts, WriteClaim(a)
        PROVE  FALSE
    BY <2>1, <2>2 DEF WriteClaim, Go, LedgerInv, NothingStale, isRecorded
  <2>3. ASSUME NEW a \in Attempts, WriteCompleted(a)
        PROVE  FALSE
    BY <2>1, <2>3 DEF WriteCompleted, Go, LedgerInv, NothingStale
  <2>. QED
    BY <2>2, <2>3, StepKinds
       DEF TypeInv, QuietStep, ReplayAdoption, ClaimInMemory, PublishReceipt
<1>2. Spec => [](TypeInv /\ LockInv /\ LedgerInv)
  BY LedgerAlways
<1>. QED BY <1>1, <1>2, PTL DEF Spec, AdoptionIsStable

-----------------------------------------------------------------------------
(* The atomic ledger of the contract.                                      *)

\* A replay is a claim of a completed effect,
LEMMA ReplayClaims ==
  ASSUME TypeInv, LedgerInv, NEW a \in Attempts, ReplayAdoption(a)
  PROVE  Contract!Claim(a, "candidate", TRUE)
<1>. DEFINE r == entry.effect
<1>1. /\ entry # NULL /\ entry \in Entries /\ r.status = "SUCCEEDED" /\ r \in Contract!Records
      /\ entry.adoption_ref = r.result
  BY DEF ReplayAdoption, isRecorded, TypeInv, TypeOK, Entries, LedgerInv, FileIsCoherent
<1>2. r # NULL /\ r.subject = "candidate"
  BY <1>1, NullIsNoEntry DEF Contract!Records
<1>3. /\ entry' = entry
      /\ granted' = [granted EXCEPT ![a] = r]
      /\ answer' = [answer EXCEPT ![a] = r.result]
  BY <1>1 DEF ReplayAdoption
<1>4. r.generation <= MaxAttempts
  <2>1. r.generation \in Nat /\ r.generation <= Cardinality(Claimants)
    BY <1>1 DEF TypeInv, CountInv, Contract!Records
  <2>. QED BY <2>1, ClaimantsBounded, AttemptsAssumption
<1>5. Contract!claimEffect(r, a, "candidate") = r
  <2>. HIDE DEF r
  <2>. QED BY <1>1, <1>2 DEF Contract!claimEffect
<1>. QED
  BY <1>1, <1>2, <1>3, <1>4, <1>5 DEF Contract!Claim, Contract!mayClaim

\* a written claim is a claim on what the file says by then,
LEMMA WriteClaims ==
  ASSUME TypeInv, LedgerInv, NEW a \in Attempts, WriteClaim(a)
  PROVE  Contract!Claim(a, "candidate", TRUE)
<1>1. /\ ~ isRecorded /\ claim[a] = Contract!claimEffect(Recorded, a, "candidate")
      /\ entry' = [effect |-> claim[a], adoption_ref |-> NULL]
      /\ granted' = [granted EXCEPT ![a] = claim[a]] /\ answer' = answer
  BY DEF WriteClaim, Go, LedgerInv, NothingStale
<1>2. claim[a] \in Contract!Records /\ claim[a].status # "SUCCEEDED"
  BY <1>1, ClaimResult DEF TypeInv, TypeOK
<1>3. entry' # NULL /\ entry'.effect = claim[a]
  <2>1. entry' \in Entries
    BY <1>1, <1>2 DEF Entries
  <2>. QED BY <1>1, <2>1, NullIsNoEntry
<1>4. claim[a].generation <= MaxAttempts
  <2>1. a \in Claimants
    BY <1>2, NullIsNoEntry DEF Claimants
  <2>2. claim[a].generation \in Nat /\ claim[a].generation <= Cardinality(Claimants)
    BY <1>2, <2>1 DEF TypeInv, CountInv, Contract!Records
  <2>. QED BY <2>2, ClaimantsBounded, AttemptsAssumption
<1>5. Contract!mayClaim(Recorded, a, "candidate", TRUE)
  BY DEF Contract!mayClaim, Recorded, TypeInv, TypeOK, Entries, Contract!Records
<1>6. answer' = [answer EXCEPT ![a] = @]
  BY <1>1 DEF TypeInv, TypeOK
<1>. QED
  BY <1>1, <1>2, <1>3, <1>4, <1>5, <1>6 DEF Contract!Claim, Recorded

\* and a completion is one that the fence of the file's record allows.
LEMMA WriteCompletes ==
  ASSUME TypeInv, LedgerInv, NEW a \in Attempts, WriteCompleted(a)
  PROVE  \E x \in Generations : Contract!Complete(a, x)
<1>. DEFINE x == receiptOf(claim[a])
            r == Contract!completeEffect(claim[a], x)
<1>1. /\ pc[a] = "writeCompleted" /\ entry # NULL /\ entry.effect = claim[a]
      /\ granted[a] = claim[a] /\ claim[a].owner = a /\ claim[a].status # "SUCCEEDED"
  BY DEF WriteCompleted, Go, LedgerInv, NothingStale
<1>2. claim[a] # NULL /\ claim[a] \in Contract!Records
  BY <1>1 DEF TypeInv, TypeOK, ClaimInv, Claimed
<1>3. x \in Generations
  BY <1>2, ReceiptBounded
<1>4. /\ entry' = [effect |-> r, adoption_ref |-> x]
      /\ answer' = [answer EXCEPT ![a] = x] /\ granted' = granted
  BY DEF WriteCompleted
<1>5. r \in Contract!Records
  BY <1>2, <1>3, CompletedRecord
<1>6. entry' # NULL /\ entry'.effect = r
  <2>. HIDE DEF r, x
  <2>1. entry' \in Entries
    BY <1>3, <1>4, <1>5 DEF Entries
  <2>. QED BY <1>4, <2>1, NullIsNoEntry
<1>7. Contract!mayComplete(claim[a], [granted[a] EXCEPT !.owner = a], x)
  BY <1>1, <1>2 DEF Contract!mayComplete, Contract!holdsFence, Contract!Records
<1>8. Contract!Complete(a, x)
  <2>. HIDE DEF x
  <2>. QED BY <1>1, <1>2, <1>4, <1>6, <1>7 DEF Contract!Complete, Contract!claimOf
<1>. QED BY <1>3, <1>8

\* Files, locks and the crashes between their writes amount to the contract's
\* atomic ledger, for any number of attempts.
THEOREM ImplementsLedgerAlways ==
  ASSUME NeverBoth
  PROVE  Spec => ImplementsLedger
<1>1. Init => Contract!Init
  BY DEF Init, Contract!Init
<1>2. TypeInv /\ LockInv /\ LedgerInv /\ [Next]_vars => [Contract!Next]_(Contract!ledger)
  <2>. SUFFICES ASSUME TypeInv, LedgerInv, [Next]_vars
                PROVE  Contract!Next \/ UNCHANGED Contract!ledger
    OBVIOUS
  <2>1. ASSUME NEW a \in Attempts, ReplayAdoption(a) \/ WriteClaim(a)
        PROVE  Contract!Next
    BY <2>1, ReplayClaims, WriteClaims DEF Contract!Next
  <2>2. ASSUME NEW a \in Attempts, WriteCompleted(a)
        PROVE  Contract!Next
    BY <2>2, WriteCompletes DEF Contract!Next
  <2>3. ASSUME NEW a \in Attempts, ClaimInMemory(a) \/ PublishReceipt(a)
        PROVE  UNCHANGED Contract!ledger
    BY <2>3 DEF ClaimInMemory, PublishReceipt, Contract!ledger
  <2>4. CASE QuietStep \/ UNCHANGED vars
    BY <2>4 DEF QuietStep, vars, Contract!ledger
  <2>. QED
    BY <2>1, <2>2, <2>3, <2>4, StepKinds DEF TypeInv
<1>3. Spec => [](TypeInv /\ LockInv /\ LedgerInv)
  BY LedgerAlways
<1>. QED BY <1>1, <1>2, <1>3, PTL DEF Spec, ImplementsLedger, Contract!Spec

\* The ledger that EffectLedgerProofs is about: the same one, as Contract.
Proved == INSTANCE EffectLedgerProofs
  WITH Owners        <- Attempts,
       Subjects      <- {"candidate"},
       Results       <- Generations,
       MaxGeneration <- MaxAttempts,
       LateFailures  <- FALSE,
       record        <- IF entry = NULL THEN NULL ELSE entry.effect,
       view          <- granted,
       told          <- answer

\* The contract the attempts implement is the one the theorems there are about.
LEMMA ContractIsProved == Contract!Spec => Proved!Spec
<1>. USE DEF Contract!Records, Proved!Records, Contract!EFFECT_STATUSES, Proved!EFFECT_STATUSES
<1>1. Contract!Init => Proved!Init
  BY DEF Contract!Init, Proved!Init
<1>2. [Contract!Next]_(Contract!ledger) => [Proved!Next]_(Proved!ledger)
  <2>1. ASSUME NEW o \in Attempts, NEW s \in {"candidate"}, NEW takeover \in BOOLEAN,
               Contract!Claim(o, s, takeover)
        PROVE  Proved!Claim(o, s, takeover)
    BY <2>1 DEF Contract!Claim, Proved!Claim, Contract!mayClaim, Proved!mayClaim,
       Contract!claimEffect, Proved!claimEffect, Contract!firstClaim, Proved!firstClaim,
       Contract!takeOver, Proved!takeOver
  <2>2. ASSUME NEW o \in Attempts, NEW x \in Generations, Contract!Complete(o, x)
        PROVE  Proved!Complete(o, x)
    BY <2>2 DEF Contract!Complete, Proved!Complete, Contract!mayComplete, Proved!mayComplete,
       Contract!completeEffect, Proved!completeEffect, Contract!claimOf, Proved!claimOf,
       Contract!holdsFence, Proved!holdsFence
  <2>3. ASSUME NEW o \in Attempts, Contract!Fail(o)
        PROVE  Proved!Fail(o)
    BY <2>3 DEF Contract!Fail, Proved!Fail, Contract!failEffect, Proved!failEffect,
       Contract!claimOf, Proved!claimOf, Contract!holdsFence, Proved!holdsFence
  <2>. QED BY <2>1, <2>2, <2>3 DEF Contract!Next, Proved!Next, Contract!ledger, Proved!ledger
<1>. QED BY <1>1, <1>2, PTL DEF Contract!Spec, Proved!Spec

LEMMA NullIsNoRecordHere == Proved!NullIsNoRecord
BY NullIsNoEntry DEF Proved!NullIsNoRecord, Contract!Records, Proved!Records,
   Contract!EFFECT_STATUSES, Proved!EFFECT_STATUSES

\* Whoever of any number of attempts reports an adoption reports the same one:
\* what is proved of every atomic ledger is so of the files.
THEOREM AllReportTheSame ==
  ASSUME NeverBoth
  PROVE  Spec => []OneAdoptionReported
<1>1. Proved!Spec => []Proved!AllToldTheSame
  BY NullIsNoRecordHere, Proved!EffectHappensOnce
<1>2. Proved!AllToldTheSame => OneAdoptionReported
  BY DEF OneAdoptionReported, Contract!AllToldTheSame, Proved!AllToldTheSame
<1>3. Spec => Contract!Spec
  BY ImplementsLedgerAlways DEF ImplementsLedger
<1>. QED BY <1>1, <1>2, <1>3, ContractIsProved, PTL

\* Nor does an attempt whose claim has been taken over write over the one that
\* took it.
THEOREM FencedOffWritesNothingAlways ==
  ASSUME NeverBoth
  PROVE  Spec => FencedOffWritesNothing
<1>. DEFINE Forward(r, s) ==
       r # NULL =>
         /\ s.subject = r.subject
         /\ \/ s.generation = r.generation + 1 /\ r.status # "SUCCEEDED"
            \/ s.generation = r.generation /\ s.owner = r.owner
<1>1. Proved!Spec => Proved!FenceMovesForward
  BY NullIsNoRecordHere, Proved!FenceOnlyAdvances
<1>2. [Forward(Recorded, Recorded')]_(Proved!ledger) => [Forward(Recorded, Recorded')]_(Contract!ledger)
  BY DEF Proved!ledger, Contract!ledger
<1>3. Spec => Contract!Spec
  BY ImplementsLedgerAlways DEF ImplementsLedger
<1>. QED
  BY <1>1, <1>2, <1>3, ContractIsProved, PTL
  DEF FencedOffWritesNothing, Contract!FenceMovesForward, Proved!FenceMovesForward, Recorded
=============================================================================
