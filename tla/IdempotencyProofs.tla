-------------------------- MODULE IdempotencyProofs --------------------------
(***************************************************************************)
(* Proofs about Idempotency for any keys, requests and handlers, any time  *)
(* to live and any number of faults.                                       *)
(***************************************************************************)
EXTENDS Idempotency, TLAPS

\* The steps at which a handler's transaction holds its key.
Holding == {"started", "completed", "settled"}

\* A request in hand has a key and a fingerprint.
Sessions == \A h \in Handlers : pc[h] # "idle" => key[h] \in Keys /\ print[h] \in Prints

\* The lock of a key and the transaction that holds it name each other.
Locks ==
    /\ \A h \in Handlers : pc[h] \in Holding => lock[key[h]] = h
    /\ \A k \in Keys : lock[k] # NoOne => pc[lock[k]] \in Holding /\ key[lock[k]] = k

\* What a transaction found under its lock stays so until it ends: a claim of its
\* own replaces nothing or an expired record, and a detached claim it completes
\* is still in progress.
FoundUnderLock ==
    /\ \A k \in Keys : status[k] = "absent" => left[k] = 0
    /\ \A h \in Handlers :
        /\ pc[h] \in {"started", "completed"} => left[key[h]] = 0
        /\ pc[h] = "settled" => status[key[h]] = "in_progress"

\* A completed record holds the response of an effect of its own request.
RecordsAreEffects ==
    \A k \in Keys : status[k] = "completed" => <<k, hash[k], response[k]>> \in applied

\* The inductive invariant.
Inv ==
    /\ TypeOK /\ Sessions
    /\ Locks /\ FoundUnderLock
    /\ OneEffectPerRecord
    /\ RecordsAreEffects /\ AnswersAreEffects

\* What the configuration assumption says of the constants.
LEMMA ConfigFacts ==
    /\ Ttl \in Nat \ {0} /\ MaxEffects \in Nat /\ MaxFaults \in Nat
    /\ NoKey \notin Keys /\ NoPrint \notin Prints /\ NoOne \notin Handlers
  BY IdempotencyAssumption DEF ConfigValid

\* The invariant holds of the empty table.
LEMMA InitInv == Init => Inv
  BY ConfigFacts DEF Init, Inv, TypeOK, Sessions, Locks, FoundUnderLock, OneEffectPerRecord,
     RecordsAreEffects, AnswersAreEffects, Holding

\* What an open transaction may count on.
LEMMA HoldingFacts ==
  ASSUME Inv, NEW h \in Handlers, pc[h] \in Holding
  PROVE  /\ key[h] \in Keys /\ print[h] \in Prints /\ lock[key[h]] = h
         /\ \A g \in Handlers : pc[g] \in Holding /\ key[g] = key[h] => g = h
  BY DEF Inv, TypeOK, Sessions, Locks, Holding

-----------------------------------------------------------------------------
\* Every step keeps the invariant.
LEMMA NextInv == Inv /\ [Next]_vars => Inv'
  <1> SUFFICES ASSUME Inv, [Next]_vars PROVE Inv'
    OBVIOUS
  <1>1. ASSUME NEW h \in Handlers, NEW k \in Keys, NEW p \in Prints,
              ClaimInserts(h, k, p)
       PROVE  Inv'
    <2> USE <1>1 DEF ClaimInserts, LockKey, Enter, records, history
    <2>1. TypeOK' /\ Sessions'
      BY ConfigFacts DEF Inv, TypeOK, Sessions
    <2>2. Locks'
      BY ConfigFacts DEF Inv, TypeOK, Sessions, Locks, Holding, Unlocked
    <2>3. FoundUnderLock'
      BY ConfigFacts DEF Inv, TypeOK, Sessions, Locks, FoundUnderLock, Holding,
                           Unlocked
    <2>4. OneEffectPerRecord' /\ RecordsAreEffects' /\ AnswersAreEffects'
      BY ConfigFacts DEF Inv, TypeOK, Sessions, OneEffectPerRecord, RecordsAreEffects,
                           AnswersAreEffects
    <2> QED
      BY <2>1, <2>2, <2>3, <2>4 DEF Inv
  <1>2. ASSUME NEW h \in Handlers, NEW k \in Keys, NEW p \in Prints,
              ClaimMeetsRecord(h, k, p)
       PROVE  Inv'
    <2> USE <1>2 DEF ClaimMeetsRecord, Enter, records, history
    <2>1. TypeOK' /\ Sessions'
      BY ConfigFacts DEF Inv, TypeOK, Sessions
    <2>2. Locks'
      BY ConfigFacts DEF Inv, TypeOK, Sessions, Locks, Holding, Unlocked
    <2>3. FoundUnderLock'
      BY ConfigFacts DEF Inv, TypeOK, Sessions, Locks, FoundUnderLock, Holding,
                           Unlocked
    <2>4. OneEffectPerRecord' /\ RecordsAreEffects' /\ AnswersAreEffects'
      BY ConfigFacts DEF Inv, TypeOK, Sessions, OneEffectPerRecord, RecordsAreEffects,
                           AnswersAreEffects
    <2> QED
      BY <2>1, <2>2, <2>3, <2>4 DEF Inv
  <1>3. ASSUME NEW h \in Handlers, ClaimReclaims(h)
       PROVE  Inv'
    <2> USE <1>3 DEF ClaimReclaims, Expired, LockKey, Enter, records, history
    <2>1. TypeOK' /\ Sessions'
      BY ConfigFacts DEF Inv, TypeOK, Sessions
    <2>2. Locks'
      BY ConfigFacts DEF Inv, TypeOK, Sessions, Locks, Holding, Unlocked
    <2>3. FoundUnderLock'
      BY ConfigFacts DEF Inv, TypeOK, Sessions, Locks, FoundUnderLock, Holding,
                           Unlocked
    <2>4. OneEffectPerRecord' /\ RecordsAreEffects' /\ AnswersAreEffects'
      BY ConfigFacts DEF Inv, TypeOK, Sessions, OneEffectPerRecord, RecordsAreEffects,
                           AnswersAreEffects
    <2> QED
      BY <2>1, <2>2, <2>3, <2>4 DEF Inv
  <1>4. ASSUME NEW h \in Handlers, ClaimReplays(h)
       PROVE  Inv'
    <2> USE <1>4 DEF ClaimReplays, SameRequest, Leave, Enter, records
    <2>1. TypeOK' /\ Sessions'
      BY ConfigFacts DEF Inv, TypeOK, Sessions
    <2>2. Locks'
      BY ConfigFacts DEF Inv, TypeOK, Sessions, Locks, Holding, Unlocked
    <2>3. FoundUnderLock'
      BY ConfigFacts DEF Inv, TypeOK, Sessions, Locks, FoundUnderLock, Holding,
                           Unlocked
    <2>4. OneEffectPerRecord' /\ RecordsAreEffects' /\ AnswersAreEffects'
      BY ConfigFacts DEF Inv, TypeOK, Sessions, OneEffectPerRecord, RecordsAreEffects,
                           AnswersAreEffects
    <2> QED
      BY <2>1, <2>2, <2>3, <2>4 DEF Inv
  <1>5. ASSUME NEW h \in Handlers, ClaimRefuses(h)
       PROVE  Inv'
    <2> USE <1>5 DEF ClaimRefuses, Leave, Enter, records, history
    <2>1. TypeOK' /\ Sessions'
      BY ConfigFacts DEF Inv, TypeOK, Sessions
    <2>2. Locks'
      BY ConfigFacts DEF Inv, TypeOK, Sessions, Locks, Holding, Unlocked
    <2>3. FoundUnderLock'
      BY ConfigFacts DEF Inv, TypeOK, Sessions, Locks, FoundUnderLock, Holding,
                           Unlocked
    <2>4. OneEffectPerRecord' /\ RecordsAreEffects' /\ AnswersAreEffects'
      BY ConfigFacts DEF Inv, TypeOK, Sessions, OneEffectPerRecord, RecordsAreEffects,
                           AnswersAreEffects
    <2> QED
      BY <2>1, <2>2, <2>3, <2>4 DEF Inv
  <1>6. ASSUME NEW h \in Handlers, Complete(h)
       PROVE  Inv'
    <2> USE <1>6 DEF Complete, Completable, LockKey, Enter, records, history
    <2>1. TypeOK' /\ Sessions'
      BY ConfigFacts DEF Inv, TypeOK, Sessions
    <2>2. Locks'
      BY ConfigFacts DEF Inv, TypeOK, Sessions, Locks, Holding, Unlocked
    <2>3. FoundUnderLock'
      BY ConfigFacts DEF Inv, TypeOK, Sessions, Locks, FoundUnderLock, Holding,
                           Unlocked
    <2>4. OneEffectPerRecord' /\ RecordsAreEffects' /\ AnswersAreEffects'
      BY ConfigFacts DEF Inv, TypeOK, Sessions, OneEffectPerRecord, RecordsAreEffects,
                           AnswersAreEffects
    <2> QED
      BY <2>1, <2>2, <2>3, <2>4 DEF Inv
  <1>7. ASSUME NEW h \in Handlers, CompleteRefused(h)
       PROVE  Inv'
    <2> USE <1>7 DEF CompleteRefused, Unlock, Leave, Enter, records, history
    <2>1. TypeOK' /\ Sessions'
      BY ConfigFacts DEF Inv, TypeOK, Sessions
    <2>2. Locks'
      BY ConfigFacts DEF Inv, TypeOK, Sessions, Locks, Holding, Unlocked
    <2>3. FoundUnderLock'
      BY ConfigFacts DEF Inv, TypeOK, Sessions, Locks, FoundUnderLock, Holding,
                           Unlocked
    <2>4. OneEffectPerRecord' /\ RecordsAreEffects' /\ AnswersAreEffects'
      BY ConfigFacts DEF Inv, TypeOK, Sessions, OneEffectPerRecord, RecordsAreEffects,
                           AnswersAreEffects
    <2> QED
      BY <2>1, <2>2, <2>3, <2>4 DEF Inv
  <1>8. ASSUME NEW h \in Handlers, CommitClaim(h)
       PROVE  Inv'
    <2> USE <1>8 DEF CommitClaim, WriteRecord, ReplaceRecord, Unlock, Enter
    <2>0. /\ key[h] \in Keys /\ print[h] \in Prints /\ lock[key[h]] = h
          /\ \A g \in Handlers : pc[g] \in Holding /\ key[g] = key[h] => g = h
      BY HoldingFacts DEF Holding
    <2>1. TypeOK' /\ Sessions'
      BY <2>0, ConfigFacts DEF Inv, TypeOK, Sessions
    <2>2. Locks'
      BY <2>0, ConfigFacts DEF Inv, TypeOK, Sessions, Locks, Holding, Unlocked
    <2>3. FoundUnderLock'
      BY <2>0, ConfigFacts DEF Inv, TypeOK, Sessions, Locks, FoundUnderLock, Holding,
                           Unlocked
    <2>4. OneEffectPerRecord' /\ RecordsAreEffects' /\ AnswersAreEffects'
      BY <2>0, ConfigFacts DEF Inv, TypeOK, Sessions, OneEffectPerRecord, RecordsAreEffects,
                           AnswersAreEffects
    <2> QED
      BY <2>1, <2>2, <2>3, <2>4 DEF Inv
  <1>9. ASSUME NEW h \in Handlers, CommitCompleted(h)
       PROVE  Inv'
    <2> USE <1>9 DEF CommitCompleted, WriteRecord, ReplaceRecord, SpendFault, Unlock, Leave,
                     Enter
    <2>0. /\ key[h] \in Keys /\ print[h] \in Prints /\ lock[key[h]] = h
          /\ \A g \in Handlers : pc[g] \in Holding /\ key[g] = key[h] => g = h
      BY HoldingFacts DEF Holding
    <2>1. TypeOK' /\ Sessions'
      BY <2>0, ConfigFacts DEF Inv, TypeOK, Sessions
    <2>2. Locks'
      BY <2>0, ConfigFacts DEF Inv, TypeOK, Sessions, Locks, Holding, Unlocked
    <2>3. FoundUnderLock'
      BY <2>0, ConfigFacts DEF Inv, TypeOK, Sessions, Locks, FoundUnderLock, Holding,
                           Unlocked
    <2>4. OneEffectPerRecord'
      BY <2>0 DEF Inv, TypeOK, OneEffectPerRecord, FoundUnderLock
    <2>5. RecordsAreEffects' /\ AnswersAreEffects'
      BY <2>0 DEF Inv, TypeOK, RecordsAreEffects, AnswersAreEffects
    <2> QED
      BY <2>1, <2>2, <2>3, <2>4, <2>5 DEF Inv
  <1>10. ASSUME NEW h \in Handlers, Rollback(h)
       PROVE  Inv'
    <2> USE <1>10 DEF Rollback, SpendFault, Unlock, Leave, Enter, records, history
    <2>0. /\ key[h] \in Keys /\ print[h] \in Prints /\ lock[key[h]] = h
          /\ \A g \in Handlers : pc[g] \in Holding /\ key[g] = key[h] => g = h
      BY HoldingFacts DEF Holding
    <2>1. TypeOK' /\ Sessions'
      BY <2>0, ConfigFacts DEF Inv, TypeOK, Sessions
    <2>2. Locks'
      BY <2>0, ConfigFacts DEF Inv, TypeOK, Sessions, Locks, Holding, Unlocked
    <2>3. FoundUnderLock'
      BY <2>0, ConfigFacts DEF Inv, TypeOK, Sessions, Locks, FoundUnderLock, Holding,
                           Unlocked
    <2>4. OneEffectPerRecord' /\ RecordsAreEffects' /\ AnswersAreEffects'
      BY <2>0, ConfigFacts DEF Inv, TypeOK, Sessions, OneEffectPerRecord, RecordsAreEffects,
                           AnswersAreEffects
    <2> QED
      BY <2>1, <2>2, <2>3, <2>4 DEF Inv
  <1>11. ASSUME NEW h \in Handlers, Forget(h)
       PROVE  Inv'
    <2> USE <1>11 DEF Forget, SpendFault, Leave, Enter, records, history
    <2>1. TypeOK' /\ Sessions'
      BY ConfigFacts DEF Inv, TypeOK, Sessions
    <2>2. Locks'
      BY ConfigFacts DEF Inv, TypeOK, Sessions, Locks, Holding, Unlocked
    <2>3. FoundUnderLock'
      BY ConfigFacts DEF Inv, TypeOK, Sessions, Locks, FoundUnderLock, Holding,
                           Unlocked
    <2>4. OneEffectPerRecord' /\ RecordsAreEffects' /\ AnswersAreEffects'
      BY ConfigFacts DEF Inv, TypeOK, Sessions, OneEffectPerRecord, RecordsAreEffects,
                           AnswersAreEffects
    <2> QED
      BY <2>1, <2>2, <2>3, <2>4 DEF Inv
  <1>12. ASSUME Elapse
       PROVE  Inv'
    <2> USE <1>12 DEF Elapse, Older, history
    <2>1. TypeOK' /\ Sessions'
      BY ConfigFacts DEF Inv, TypeOK, Sessions
    <2>2. Locks'
      BY ConfigFacts DEF Inv, TypeOK, Sessions, Locks, Holding, Unlocked
    <2>3. FoundUnderLock'
      BY ConfigFacts DEF Inv, TypeOK, Sessions, Locks, FoundUnderLock, Holding,
                           Unlocked
    <2>4. OneEffectPerRecord' /\ RecordsAreEffects' /\ AnswersAreEffects'
      BY ConfigFacts DEF Inv, TypeOK, Sessions, OneEffectPerRecord, RecordsAreEffects,
                           AnswersAreEffects
    <2> QED
      BY <2>1, <2>2, <2>3, <2>4 DEF Inv
  <1>13. ASSUME UNCHANGED vars
       PROVE  Inv'
    <2> USE <1>13 DEF vars, records, session, history
    <2>1. TypeOK' /\ Sessions'
      BY ConfigFacts DEF Inv, TypeOK, Sessions
    <2>2. Locks'
      BY ConfigFacts DEF Inv, TypeOK, Sessions, Locks, Holding, Unlocked
    <2>3. FoundUnderLock'
      BY ConfigFacts DEF Inv, TypeOK, Sessions, Locks, FoundUnderLock, Holding,
                           Unlocked
    <2>4. OneEffectPerRecord' /\ RecordsAreEffects' /\ AnswersAreEffects'
      BY ConfigFacts DEF Inv, TypeOK, Sessions, OneEffectPerRecord, RecordsAreEffects,
                           AnswersAreEffects
    <2> QED
      BY <2>1, <2>2, <2>3, <2>4 DEF Inv
  <1> QED
    BY <1>1, <1>2, <1>3, <1>4, <1>5, <1>6, <1>7, <1>8, <1>9, <1>10, <1>11, <1>12, <1>13 DEF Next, HandlerStep

\* The inductive invariant holds throughout.
LEMMA Invariance == Spec => []Inv
  BY InitInv, NextInv, PTL DEF Spec

\* The columns of a record and a handler's variables keep their types.
THEOREM TypeCorrect == Spec => []TypeOK
  <1>1. Inv => TypeOK
    BY DEF Inv
  <1> QED
    BY <1>1, Invariance, PTL

\* Every effect belongs to one completed record, the present one or one that was
\* replaced after its expiry.
THEOREM EffectsHaveRecords == Spec => []OneEffectPerRecord
  <1>1. Inv => OneEffectPerRecord
    BY DEF Inv
  <1> QED
    BY <1>1, Invariance, PTL

\* A client is given only responses of committed effects of its own request.
THEOREM AnswersAreOwn == Spec => []AnswersAreEffects
  <1>1. Inv => AnswersAreEffects
    BY DEF Inv
  <1> QED
    BY <1>1, Invariance, PTL

-----------------------------------------------------------------------------
\* Within its time to live a completed record is what every retry is answered
\* from: no claim, late completion or rollback changes its request or response.
CompletedIsFixed ==
    [][\A k \in Keys : status[k] = "completed" /\ left[k] > 0 =>
           status'[k] = "completed" /\ hash'[k] = hash[k] /\ response'[k] = response[k]]_vars

\* complete_inner and the reclaim of claim_inner never overwrite a live response.
THEOREM ReplayIsStable == Spec => CompletedIsFixed
  <1> DEFINE Fixed == \A k \in Keys : status[k] = "completed" /\ left[k] > 0 =>
                          status'[k] = "completed" /\ hash'[k] = hash[k] /\ response'[k] = response[k]
  <1>1. Inv /\ [Next]_vars => [Fixed]_vars
    <2> SUFFICES ASSUME Inv, Next PROVE Fixed
      OBVIOUS
    <2>1. ASSUME NEW h \in Handlers, CommitClaim(h) \/ CommitCompleted(h)
          PROVE  Fixed
      <3>1. pc[h] \in Holding
        BY <2>1 DEF CommitClaim, CommitCompleted, Holding
      <3>2. key[h] \in Keys /\ (left[key[h]] = 0 \/ status[key[h]] = "in_progress")
        BY <3>1, HoldingFacts DEF Inv, FoundUnderLock, Holding
      <3>3. \A k \in Keys \ {key[h]} :
                status'[k] = status[k] /\ hash'[k] = hash[k] /\ response'[k] = response[k]
        BY <2>1 DEF CommitClaim, CommitCompleted, WriteRecord, Inv, TypeOK
      <3> QED
        BY <3>2, <3>3
    <2>2. ASSUME UNCHANGED <<status, hash, response>>
          PROVE  Fixed
      BY <2>2
    <2> QED
      BY <2>1, <2>2 DEF Next, HandlerStep, ClaimInserts, ClaimMeetsRecord, ClaimReclaims,
         ClaimReplays, ClaimRefuses, Complete, CompleteRefused, Rollback, Forget, Elapse, records
  <1> QED
    BY <1>1, Invariance, PTL DEF Spec, CompletedIsFixed
=============================================================================
