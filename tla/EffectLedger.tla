---------------------------- MODULE EffectLedger ----------------------------
(***************************************************************************)
(* The effect contract of packages/contracts/src/effects.js, as a ledger   *)
(* that applies it: one stored record per effect key, and owners (workers, *)
(* activity attempts) that claim the effect, perform it outside the ledger *)
(* and then complete or fail it under the generation they were given.      *)
(* Each call reads and writes the record in one step: this is what the     *)
(* contract promises when nothing comes in between.  AdoptArtifact is the  *)
(* code that has to earn it with a file and a lock; its runs check this    *)
(* contract and what it promises by way of its attempts.                   *)
(*                                                                         *)
(* A call that throws (EffectConflict, EffectBusy, StaleFence) changes     *)
(* nothing, so it is the absence of a step.                                *)
(***************************************************************************)
EXTENDS Naturals

CONSTANTS
  Owners,          \* identities that claim the effect
  Subjects,        \* digests of what the effect is about
  Results,         \* digests of what performing it may produce
  MaxGeneration,   \* bound: no takeover from this generation on
  LateFailures,    \* TRUE: an owner may report a failure of the effect after
                   \* it has been completed under that owner's generation
  NULL

VARIABLES
  record,          \* the stored effect record, NULL before the first claim
  view,            \* view[o]: the record o was given when it last claimed
  told             \* told[o]: the result o has been told the effect has

ledger == <<record, view, told>>

EFFECT_STATUSES == {"STARTED", "SUCCEEDED", "FAILED"}

Records ==
  [subject    : Subjects,
   owner      : Owners,
   generation : Nat \ {0},
   status     : EFFECT_STATUSES,
   result     : Results \cup {NULL}]

\* What the theorems ask of the constants of an instance.
NullIsNoRecord == NULL \notin Records

TypeOK ==
  /\ record \in Records \cup {NULL}
  /\ view \in [Owners -> Records \cup {NULL}]
  /\ told \in [Owners -> Results \cup {NULL}]

-----------------------------------------------------------------------------
(* The three functions of the contract.                                    *)

firstClaim(o, s) ==
  [subject |-> s, owner |-> o, generation |-> 1, status |-> "STARTED", result |-> NULL]

\* claimEffect throws unless the subject is the recorded one and the effect
\* is done, or the caller's already, or taken over on purpose.
mayClaim(r, o, s, takeover) ==
  r # NULL =>
    /\ r.subject = s
    /\ r.status = "SUCCEEDED" \/ r.owner = o \/ takeover

\* (Variants named Bug... are mistakes this code could contain.  Nothing uses
\* them here: they show which property would notice.)

BugSameGeneration(r, o) ==
  [r EXCEPT !.owner = o, !.status = "STARTED", !.result = NULL]

\* A takeover is a new generation.
takeOver(r, o) ==
  [r EXCEPT !.owner = o, !.generation = @ + 1, !.status = "STARTED", !.result = NULL]

claimEffect(r, o, s) ==
  CASE r = NULL                                -> firstClaim(o, s)
    [] r # NULL /\ (r.status = "SUCCEEDED"
                    \/ r.owner = o)            -> r
    [] OTHER                                   -> takeOver(r, o)

\* The fence of completeEffect and failEffect: owner and generation of the
\* claim are the recorded ones.
holdsFence(r, claim) == r.owner = claim.owner /\ r.generation = claim.generation

\* A completed effect accepts the same result again, from anyone; any other
\* completion needs the fence.
mayComplete(r, claim, result) ==
  IF r.status = "SUCCEEDED" THEN r.result = result ELSE holdsFence(r, claim)

completeEffect(r, result) == [r EXCEPT !.status = "SUCCEEDED", !.result = result]

\* failEffect asks for the fence and for nothing else.
failEffect(r) == [r EXCEPT !.status = "FAILED"]

-----------------------------------------------------------------------------
\* The claim of o, on the owner's own identity.
claimOf(o) == [view[o] EXCEPT !.owner = o]

Init ==
  /\ record = NULL
  /\ view = [o \in Owners |-> NULL]
  /\ told = [o \in Owners |-> NULL]

Claim(o, s, takeover) ==
  /\ mayClaim(record, o, s, takeover)
  /\ record' = claimEffect(record, o, s)
  /\ record'.generation <= MaxGeneration
  /\ view' = [view EXCEPT ![o] = record']
  /\ told' = [told EXCEPT ![o] = IF record'.status = "SUCCEEDED" THEN record'.result ELSE @]

Complete(o, result) ==
  /\ view[o] # NULL
  /\ mayComplete(record, claimOf(o), result)
  /\ record' = completeEffect(record, result)
  /\ told' = [told EXCEPT ![o] = result]
  /\ UNCHANGED view

Fail(o) ==
  /\ view[o] # NULL
  /\ holdsFence(record, claimOf(o))
  /\ record.status = "SUCCEEDED" => LateFailures
  /\ record' = failEffect(record)
  /\ UNCHANGED <<view, told>>

Next ==
  \E o \in Owners :
    \/ \E s \in Subjects, takeover \in BOOLEAN : Claim(o, s, takeover)
    \/ \E result \in Results : Complete(o, result)
    \/ Fail(o)

Spec == Init /\ [][Next]_ledger

-----------------------------------------------------------------------------
(* Properties.                                                             *)

\* Everyone who is told that the effect happened is told the same result:
\* an effect behind the ledger happens as if exactly once, however many
\* owners performed it.
AllToldTheSame ==
  \A o1, o2 \in Owners : told[o1] # NULL /\ told[o2] # NULL => told[o1] = told[o2]

\* A generation belongs to one owner: two claims of the same generation that
\* have not been overtaken by success are the same owner's.
OneOwnerPerGeneration ==
  \A o1, o2 \in Owners :
    /\ view[o1] # NULL /\ view[o2] # NULL
    /\ view[o1].generation = view[o2].generation
    => view[o1].owner = view[o2].owner

\* What an owner that has been fenced off tries to write has no effect: the
\* stored record changes only by a takeover, which advances the generation,
\* or by its own owner, and never names another subject.
FenceMovesForward ==
  [][record # NULL =>
       /\ record'.subject = record.subject
       /\ \/ record'.generation = record.generation + 1 /\ record.status # "SUCCEEDED"
          \/ record'.generation = record.generation /\ record'.owner = record.owner]_ledger

\* A completed effect stays completed, with its result.
SucceededIsFinal ==
  [][record # NULL /\ record.status = "SUCCEEDED" => record' = record]_ledger
=============================================================================
