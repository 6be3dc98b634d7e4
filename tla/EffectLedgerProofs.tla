-------------------------- MODULE EffectLedgerProofs --------------------------
(***************************************************************************)
(* Proofs about the effect contract, for any sets of owners, subjects and  *)
(* results and any bound on generations.                                   *)
(*                                                                         *)
(* The invariants the runs check are not inductive.  Type correctness and  *)
(* the fence need Fenced: an owner that holds a claim does so of a record  *)
(* that exists, and no claim is newer than the record.  That everyone is   *)
(* told the same needs ToldIsRecorded: what an owner was told is the result*)
(* of the stored, completed record.                                        *)
(***************************************************************************)
EXTENDS EffectLedger, TLAPS

\* What a claim returns: a started record of generation 1 for the claimant,
LEMMA ClaimFirst ==
  ASSUME NEW o \in Owners, NEW s \in Subjects
  PROVE  /\ claimEffect(NULL, o, s) = firstClaim(o, s)
         /\ firstClaim(o, s) \in Records
BY DEF claimEffect, firstClaim, Records, EFFECT_STATUSES

\* the recorded one, if it is completed or the claimant's own,
LEMMA ClaimKeeps ==
  ASSUME NullIsNoRecord, NEW r \in Records, NEW o, NEW s, r.status = "SUCCEEDED" \/ r.owner = o
  PROVE  claimEffect(r, o, s) = r
BY DEF claimEffect, NullIsNoRecord

\* or a started one of the next generation, for the claimant.
LEMMA ClaimTakesOver ==
  ASSUME NullIsNoRecord, NEW r \in Records, NEW o \in Owners, NEW s,
         r.status # "SUCCEEDED", r.owner # o
  PROVE  /\ claimEffect(r, o, s) = takeOver(r, o)
         /\ takeOver(r, o) \in Records
         /\ takeOver(r, o).subject = r.subject
         /\ takeOver(r, o).owner = o
         /\ takeOver(r, o).generation = r.generation + 1
         /\ takeOver(r, o).status = "STARTED"
<1>1. claimEffect(r, o, s) = takeOver(r, o)
  BY DEF claimEffect, NullIsNoRecord
<1>2. r.generation + 1 \in Nat \ {0}
  BY DEF Records
<1>3. takeOver(r, o) \in Records
  BY <1>2 DEF takeOver, Records, EFFECT_STATUSES
<1>4. takeOver(r, o).generation = r.generation + 1
  BY DEF takeOver, Records
<1>5. /\ takeOver(r, o).owner = o
      /\ takeOver(r, o).subject = r.subject
      /\ takeOver(r, o).status = "STARTED"
  BY DEF takeOver, Records
<1>. QED
  BY <1>1, <1>3, <1>4, <1>5

\* Completing and failing a record change its status, and its result at most.
LEMMA CompleteResult ==
  ASSUME NEW r \in Records, NEW x \in Results
  PROVE  LET c == completeEffect(r, x)
         IN  /\ c \in Records
             /\ c.subject = r.subject /\ c.owner = r.owner /\ c.generation = r.generation
             /\ c.status = "SUCCEEDED" /\ c.result = x
BY DEF completeEffect, Records, EFFECT_STATUSES

LEMMA FailResult ==
  ASSUME NEW r \in Records
  PROVE  LET c == failEffect(r)
         IN  /\ c \in Records
             /\ c.subject = r.subject /\ c.owner = r.owner /\ c.generation = r.generation
BY DEF failEffect, Records, EFFECT_STATUSES

\* A completion of what is completed already changes nothing.
LEMMA CompleteAgain ==
  ASSUME NEW r \in Records, NEW x, r.status = "SUCCEEDED", r.result = x
  PROVE  completeEffect(r, x) = r
BY DEF completeEffect, Records

-----------------------------------------------------------------------------
(* The fence.                                                              *)

\* A claim is of a record that exists, is not newer than it, and is the
\* recorded owner's if it is of the recorded generation.
Fenced ==
  /\ \A o \in Owners :
       view[o] # NULL =>
         /\ record # NULL
         /\ view[o].generation <= record.generation
         /\ view[o].generation = record.generation => view[o].owner = record.owner
  /\ OneOwnerPerGeneration

\* What a claim does to a record of the ledger.
LEMMA ClaimStep ==
  ASSUME NullIsNoRecord, TypeOK,
         NEW o \in Owners, NEW s \in Subjects, NEW takeover \in BOOLEAN,
         Claim(o, s, takeover)
  PROVE  /\ record' \in Records
         /\ record = NULL \/ record' = record
              \/ /\ record.status # "SUCCEEDED"
                 /\ record'.subject = record.subject
                 /\ record'.generation = record.generation + 1
<1>1. CASE record = NULL
  BY <1>1, ClaimFirst DEF Claim
<1>2. CASE record # NULL /\ (record.status = "SUCCEEDED" \/ record.owner = o)
  BY <1>2, ClaimKeeps DEF Claim, TypeOK
<1>3. CASE record # NULL /\ record.status # "SUCCEEDED" /\ record.owner # o
  BY <1>3, ClaimTakesOver DEF Claim, TypeOK
<1>. QED
  BY <1>1, <1>2, <1>3

LEMMA FencedInductive ==
  ASSUME NullIsNoRecord
  PROVE  TypeOK /\ Fenced /\ [Next]_ledger => TypeOK' /\ Fenced'
<1>. SUFFICES ASSUME TypeOK, Fenced, Next
              PROVE  TypeOK' /\ Fenced'
  BY DEF TypeOK, Fenced, OneOwnerPerGeneration, ledger
<1>1. ASSUME NEW o \in Owners, NEW s \in Subjects, NEW takeover \in BOOLEAN,
             Claim(o, s, takeover)
      PROVE  TypeOK' /\ Fenced'
  <2>1. /\ record' \in Records
        /\ record = NULL \/ record' = record \/ record'.generation = record.generation + 1
    BY <1>1, ClaimStep
  <2>2. /\ view' = [view EXCEPT ![o] = record']
        /\ told' = [told EXCEPT ![o] = IF record'.status = "SUCCEEDED" THEN record'.result ELSE @]
    BY <1>1 DEF Claim
  <2>3. TypeOK'
    BY <2>1, <2>2 DEF TypeOK, Records
  <2>4. ASSUME NEW p \in Owners, p # o, view[p] # NULL
        PROVE  /\ view'[p] = view[p]
               /\ view[p].generation <= record'.generation
               /\ view[p].generation = record'.generation => view[p].owner = record'.owner
    <3>1. /\ record # NULL /\ view[p].generation <= record.generation
          /\ view[p].generation = record.generation => view[p].owner = record.owner
      BY <2>4 DEF Fenced
    <3>2. view[p].generation \in Nat /\ record.generation \in Nat
      BY <2>4, <3>1 DEF TypeOK, Records
    <3>. QED
      BY <2>1, <2>2, <2>4, <3>1, <3>2 DEF TypeOK
  <2>5. view'[o] = record' /\ record' # NULL /\ record'.generation \in Nat
    BY <2>1, <2>2 DEF NullIsNoRecord, TypeOK, Records
  <2>. QED
    BY <2>2, <2>3, <2>4, <2>5 DEF Fenced, OneOwnerPerGeneration, TypeOK
<1>2. ASSUME NEW o \in Owners, NEW x \in Results, Complete(o, x)
      PROVE  TypeOK' /\ Fenced'
  <2>1. record \in Records /\ view' = view
    BY <1>2 DEF Complete, Fenced, TypeOK
  <2>2. /\ record' \in Records
        /\ record'.generation = record.generation /\ record'.owner = record.owner
    BY <1>2, <2>1, CompleteResult DEF Complete
  <2>3. TypeOK'
    BY <1>2, <2>1, <2>2 DEF TypeOK, Complete
  <2>. QED
    BY <2>1, <2>2, <2>3 DEF NullIsNoRecord, Fenced, OneOwnerPerGeneration
<1>3. ASSUME NEW o \in Owners, Fail(o)
      PROVE  TypeOK' /\ Fenced'
  <2>1. record \in Records /\ view' = view /\ told' = told
    BY <1>3 DEF Fail, Fenced, TypeOK
  <2>2. /\ record' \in Records
        /\ record'.generation = record.generation /\ record'.owner = record.owner
    BY <1>3, <2>1, FailResult DEF Fail
  <2>. QED
    BY <2>1, <2>2 DEF NullIsNoRecord, TypeOK, Fenced, OneOwnerPerGeneration
<1>. QED
  BY <1>1, <1>2, <1>3 DEF Next

LEMMA FencedInvariant ==
  ASSUME NullIsNoRecord
  PROVE  Spec => [](TypeOK /\ Fenced)
<1>1. Init => TypeOK /\ Fenced
  BY DEF Init, TypeOK, Fenced, OneOwnerPerGeneration
<1>. QED
  BY <1>1, FencedInductive, PTL DEF Spec

\* Type correctness of the ledger (validateEffectRecord accepts every record it
\* ever stores).
THEOREM TypeCorrect ==
  ASSUME NullIsNoRecord
  PROVE  Spec => []TypeOK
BY FencedInvariant, PTL

\* Two claims of one generation are one owner's, for any number of owners and
\* any order of claims, takeovers, completions and failures.
THEOREM GenerationHasOneOwner ==
  ASSUME NullIsNoRecord
  PROVE  Spec => []OneOwnerPerGeneration
<1>1. Fenced => OneOwnerPerGeneration
  BY DEF Fenced
<1>. QED
  BY <1>1, FencedInvariant, PTL

\* The stored record never goes back to an older generation or to another
\* owner of the same one, whatever fenced-off owners still try.
THEOREM FenceOnlyAdvances ==
  ASSUME NullIsNoRecord
  PROVE  Spec => FenceMovesForward
<1>. DEFINE Forward ==
       record # NULL =>
         /\ record'.subject = record.subject
         /\ \/ record'.generation = record.generation + 1 /\ record.status # "SUCCEEDED"
            \/ record'.generation = record.generation /\ record'.owner = record.owner
<1>1. TypeOK /\ [Next]_ledger => [Forward]_ledger
  <2>. SUFFICES ASSUME TypeOK, Next, record # NULL
                PROVE  /\ record'.subject = record.subject
                       /\ \/ record'.generation = record.generation + 1 /\ record.status # "SUCCEEDED"
                          \/ record'.generation = record.generation /\ record'.owner = record.owner
    OBVIOUS
  <2>1. record \in Records
    BY DEF TypeOK
  <2>2. ASSUME NEW o \in Owners, NEW s \in Subjects, NEW takeover \in BOOLEAN,
               Claim(o, s, takeover)
        PROVE  /\ record'.subject = record.subject
               /\ \/ record'.generation = record.generation + 1 /\ record.status # "SUCCEEDED"
                  \/ record'.generation = record.generation /\ record'.owner = record.owner
    BY <2>2, ClaimStep
  <2>3. ASSUME NEW o \in Owners, NEW x \in Results, Complete(o, x)
        PROVE  /\ record'.subject = record.subject
               /\ record'.generation = record.generation /\ record'.owner = record.owner
    BY <2>1, <2>3, CompleteResult DEF Complete
  <2>4. ASSUME NEW o \in Owners, Fail(o)
        PROVE  /\ record'.subject = record.subject
               /\ record'.generation = record.generation /\ record'.owner = record.owner
    BY <2>1, <2>4, FailResult DEF Fail
  <2>. QED
    BY <2>2, <2>3, <2>4 DEF Next
<1>. QED
  BY <1>1, TypeCorrect, PTL DEF Spec, FenceMovesForward
-----------------------------------------------------------------------------
(* The result.  Owners report a failure only of an effect they have not    *)
(* completed: failEffect itself would not refuse it.                       *)

\* What an owner was told is on record.
ToldIsRecorded ==
  \A o \in Owners :
    told[o] # NULL =>
      record # NULL /\ record.status = "SUCCEEDED" /\ record.result = told[o]

\* No step changes a completed record.
LEMMA CompletedStays ==
  ASSUME NullIsNoRecord, LateFailures = FALSE, TypeOK, record # NULL, record.status = "SUCCEEDED", Next
  PROVE  record' = record
<1>. record \in Records
  BY DEF TypeOK
<1>1. ASSUME NEW o \in Owners, NEW s \in Subjects, NEW takeover \in BOOLEAN,
             Claim(o, s, takeover)
      PROVE  record' = record
  BY <1>1, ClaimStep
<1>2. ASSUME NEW o \in Owners, NEW x \in Results, Complete(o, x)
      PROVE  record' = record
  BY <1>2, CompleteAgain DEF Complete, mayComplete
<1>3. ASSUME NEW o \in Owners, Fail(o)
      PROVE  FALSE
  BY <1>3 DEF Fail
<1>. QED
  BY <1>1, <1>2, <1>3 DEF Next

LEMMA ToldInductive ==
  ASSUME NullIsNoRecord, LateFailures = FALSE
  PROVE  TypeOK /\ Fenced /\ ToldIsRecorded /\ [Next]_ledger => ToldIsRecorded'
<1>. SUFFICES ASSUME TypeOK, Fenced, ToldIsRecorded, Next,
                     NEW p \in Owners, told'[p] # NULL
              PROVE  /\ record' # NULL
                     /\ record'.status = "SUCCEEDED"
                     /\ record'.result = told'[p]
  BY DEF ToldIsRecorded, ledger
<1>1. CASE told'[p] = told[p]
  BY <1>1, CompletedStays DEF ToldIsRecorded
<1>2. CASE told'[p] # told[p]
  <2>1. ASSUME NEW o \in Owners, NEW s \in Subjects, NEW takeover \in BOOLEAN,
               Claim(o, s, takeover)
        PROVE  record'.status = "SUCCEEDED" /\ record'.result = told'[p] /\ record' # NULL
    BY <1>2, <2>1, ClaimStep DEF NullIsNoRecord, Claim, TypeOK
  <2>2. ASSUME NEW o \in Owners, NEW x \in Results, Complete(o, x)
        PROVE  record'.status = "SUCCEEDED" /\ record'.result = told'[p] /\ record' # NULL
    <3>1. record \in Records
      BY <2>2 DEF Complete, Fenced, TypeOK
    <3>2. p = o /\ told'[p] = x
      BY <1>2, <2>2 DEF Complete, TypeOK
    <3>3. record' \in Records /\ record'.status = "SUCCEEDED" /\ record'.result = x
      BY <2>2, <3>1, CompleteResult DEF Complete
    <3>. QED
      BY <3>2, <3>3 DEF NullIsNoRecord
  <2>3. ASSUME NEW o \in Owners, Fail(o)
        PROVE  FALSE
    BY <1>2, <2>3 DEF Fail
  <2>. QED
    BY <2>1, <2>2, <2>3 DEF Next
<1>. QED
  BY <1>1, <1>2

\* The exactly-once promise of the ledger: whoever is told that the effect
\* happened is told the same result, for any number of owners and takeovers.
THEOREM EffectHappensOnce ==
  ASSUME NullIsNoRecord, LateFailures = FALSE
  PROVE  Spec => []AllToldTheSame
<1>1. Init => ToldIsRecorded
  BY DEF Init, ToldIsRecorded
<1>2. TypeOK /\ Fenced /\ ToldIsRecorded /\ [Next]_ledger => ToldIsRecorded'
  BY ToldInductive
<1>3. ToldIsRecorded => AllToldTheSame
  BY DEF ToldIsRecorded, AllToldTheSame
<1>. QED
  BY <1>1, <1>2, <1>3, FencedInvariant, PTL DEF Spec

\* A completed effect is never reclaimed, completed otherwise or failed.
THEOREM SuccessIsFinal ==
  ASSUME NullIsNoRecord, LateFailures = FALSE
  PROVE  Spec => SucceededIsFinal
<1>1. TypeOK /\ [Next]_ledger =>
        [record # NULL /\ record.status = "SUCCEEDED" => record' = record]_ledger
  BY CompletedStays
<1>. QED
  BY <1>1, TypeCorrect, PTL DEF Spec, SucceededIsFinal
=============================================================================
