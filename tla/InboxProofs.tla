---------------------------- MODULE InboxProofs ----------------------------
(***************************************************************************)
(* Proofs about Inbox for any keys, bodies, consumers and instants, any    *)
(* retention and any number of faults.                                     *)
(***************************************************************************)
EXTENDS Inbox, TLAPS

\* A delivery in hand has a key and a body.
Sessions == \A c \in Consumers : pc[c] # "idle" => key[c] \in Keys /\ input[c] \in Bodies

\* The lock of a key and the open transaction that wrote or locked it name each
\* other, and only an open transaction has an uncommitted insertion.
Locks ==
    /\ \A k \in Keys : lock[k] # NoOne => pc[lock[k]] \in Holding /\ key[lock[k]] = k
    /\ \A c \in Consumers : inserted[c] => pc[c] \in Holding

\* A processed receipt is there, and the effect of its body was committed.
ProcessedWasApplied ==
    \A k \in Keys : processed[k] => Present(k) /\ <<k, body[k]>> \in applied

\* The inductive invariant.
Inv ==
    /\ TypeOK /\ Sessions
    /\ Locks /\ HolderKeepsClaim
    /\ EffectsMatchReceipts /\ ProcessedWasApplied /\ AckedWasApplied

\* What the configuration assumption says of the constants.
LEMMA ConfigFacts ==
    /\ Retention \in Nat \ {0} /\ RedeliveryWindow \in Nat \ {0} /\ MaxFaults \in Nat
    /\ NoBody \notin Bodies /\ NoKey \notin Keys
    /\ NoOne \notin Consumers /\ NoInstant \notin Instants
  BY InboxAssumption DEF ConfigValid

\* The invariant holds of the empty table.
LEMMA InitInv == Init => Inv
  BY ConfigFacts DEF Init, Inv, TypeOK, Sessions, Locks, HolderKeepsClaim, Fenced, Present,
     EffectsMatchReceipts, ProcessedWasApplied, AckedWasApplied, Steps, Holding

\* What an open transaction may count on.
LEMMA HoldingFacts ==
  ASSUME Inv, NEW c \in Consumers, pc[c] \in Holding
  PROVE  /\ key[c] \in Keys /\ input[c] \in Bodies /\ lock[key[c]] = c
         /\ body[key[c]] = input[c] /\ receivedAt[key[c]] = claim[c] /\ ~processed[key[c]]
         /\ \A d \in Consumers : pc[d] \in Holding /\ key[d] = key[c] => d = c
  BY DEF Inv, TypeOK, Sessions, HolderKeepsClaim, Holding, Fenced, Matches

\* The types of the receipt table.
RowTypes ==
    /\ body \in [Keys -> Bodies \cup {NoBody}]
    /\ receivedAt \in [Keys -> Instants \cup {NoInstant}]
    /\ processed \in [Keys -> BOOLEAN]
    /\ left \in [Keys -> 0..Retention]

\* Deleting receipts keeps the types of the table.
LEMMA DeleteTypes ==
  ASSUME RowTypes, NEW S, DeleteReceipts(S)
  PROVE  RowTypes'
  <1>1. body' \in [Keys -> Bodies \cup {NoBody}]
    BY DEF RowTypes, DeleteReceipts
  <1>2. receivedAt' \in [Keys -> Instants \cup {NoInstant}]
    BY DEF RowTypes, DeleteReceipts
  <1>3. processed' \in [Keys -> BOOLEAN]
    <2>1. \A k \in Keys : (IF k \in S THEN FALSE ELSE processed[k]) \in BOOLEAN
      BY Zenon DEF RowTypes
    <2> QED
      BY <2>1, Zenon DEF DeleteReceipts
  <1>4. left' \in [Keys -> 0..Retention]
    BY ConfigFacts DEF RowTypes, DeleteReceipts
  <1> QED
    BY <1>1, <1>2, <1>3, <1>4 DEF RowTypes

-----------------------------------------------------------------------------
\* Every step keeps the invariant.
LEMMA NextInv == Inv /\ [Next]_vars => Inv'
  <1> SUFFICES ASSUME Inv, [Next]_vars PROVE Inv'
    OBVIOUS
  <1>1. ASSUME NEW c \in Consumers, NEW k \in Keys, NEW b \in Bodies, NEW t \in Instants,
              ClaimInserts(c, k, b, t)
       PROVE  Inv'
    <2> USE <1>1 DEF ClaimInserts, InsertReceipt, Enter, history
    <2>1. TypeOK' /\ Sessions'
      BY ConfigFacts DEF Inv, TypeOK, Sessions, Steps
    <2>2. Locks'
      BY ConfigFacts DEF Inv, TypeOK, Locks, Holding, Unlocked
    <2>3. HolderKeepsClaim'
      BY ConfigFacts DEF Inv, TypeOK, Sessions, Locks, HolderKeepsClaim, Holding,
                           Unlocked, Fenced, Present, Matches
    <2>4. EffectsMatchReceipts' /\ ProcessedWasApplied' /\ AckedWasApplied'
      BY ConfigFacts, Zenon DEF Inv, TypeOK, Sessions, EffectsMatchReceipts, ProcessedWasApplied,
                           AckedWasApplied, Present
    <2> QED
      BY <2>1, <2>2, <2>3, <2>4 DEF Inv
  <1>2. ASSUME NEW c \in Consumers, NEW k \in Keys, NEW b \in Bodies, ClaimMeetsRow(c, k, b)
       PROVE  Inv'
    <2> USE <1>2 DEF ClaimMeetsRow, Enter, rows, history
    <2>1. TypeOK' /\ Sessions'
      BY ConfigFacts DEF Inv, TypeOK, Sessions, Steps
    <2>2. Locks'
      BY ConfigFacts DEF Inv, TypeOK, Locks, Holding, Unlocked
    <2>3. HolderKeepsClaim'
      BY ConfigFacts DEF Inv, TypeOK, Sessions, Locks, HolderKeepsClaim, Holding,
                           Unlocked, Fenced, Present, Matches
    <2>4. EffectsMatchReceipts' /\ ProcessedWasApplied' /\ AckedWasApplied'
      BY ConfigFacts DEF Inv, TypeOK, Sessions, EffectsMatchReceipts, ProcessedWasApplied,
                           AckedWasApplied, Present
    <2> QED
      BY <2>1, <2>2, <2>3, <2>4 DEF Inv
  <1>3. ASSUME NEW c \in Consumers, ClaimClassifies(c)
       PROVE  Inv'
    <2> USE <1>3 DEF ClaimClassifies, Leave, Enter, rows
    <2>1. TypeOK' /\ Sessions'
      BY ConfigFacts DEF Inv, TypeOK, Sessions, Steps
    <2>2. Locks'
      BY ConfigFacts DEF Inv, TypeOK, Locks, Holding, Unlocked
    <2>3. HolderKeepsClaim'
      BY ConfigFacts DEF Inv, TypeOK, Sessions, Locks, HolderKeepsClaim, Holding,
                           Unlocked, Fenced, Present, Matches
    <2>4. EffectsMatchReceipts' /\ ProcessedWasApplied' /\ AckedWasApplied'
      BY ConfigFacts DEF Inv, TypeOK, Sessions, EffectsMatchReceipts, ProcessedWasApplied,
                           AckedWasApplied, Present, Matches
    <2> QED
      BY <2>1, <2>2, <2>3, <2>4 DEF Inv
  <1>4. ASSUME NEW c \in Consumers, NEW k \in Keys, NEW b \in Bodies, Resume(c, k, b)
       PROVE  Inv'
    <2> USE <1>4 DEF Resume, Enter, rows, history
    <2>1. TypeOK' /\ Sessions'
      BY ConfigFacts DEF Inv, TypeOK, Sessions, Steps
    <2>2. Locks'
      BY ConfigFacts DEF Inv, TypeOK, Locks, Holding, Unlocked
    <2>3. HolderKeepsClaim'
      BY ConfigFacts DEF Inv, TypeOK, Sessions, Locks, HolderKeepsClaim, Holding,
                           Unlocked, Fenced, Present, Matches
    <2>4. EffectsMatchReceipts' /\ ProcessedWasApplied' /\ AckedWasApplied'
      BY ConfigFacts DEF Inv, TypeOK, Sessions, EffectsMatchReceipts, ProcessedWasApplied,
                           AckedWasApplied, Present
    <2> QED
      BY <2>1, <2>2, <2>3, <2>4 DEF Inv
  <1>5. ASSUME NEW c \in Consumers, Complete(c) \/ Release(c)
       PROVE  Inv'
    <2> USE <1>5 DEF Complete, Release, rows, history
    <2>1. TypeOK' /\ Sessions'
      BY ConfigFacts DEF Inv, TypeOK, Sessions, Steps
    <2>2. Locks'
      BY ConfigFacts DEF Inv, TypeOK, Locks, Holding, Unlocked
    <2>3. HolderKeepsClaim'
      BY ConfigFacts DEF Inv, TypeOK, Sessions, Locks, HolderKeepsClaim, Holding,
                           Unlocked, Fenced, Present, Matches
    <2>4. EffectsMatchReceipts' /\ ProcessedWasApplied' /\ AckedWasApplied'
      BY ConfigFacts DEF Inv, TypeOK, Sessions, EffectsMatchReceipts, ProcessedWasApplied,
                           AckedWasApplied, Present
    <2> QED
      BY <2>1, <2>2, <2>3, <2>4 DEF Inv
  <1>6. ASSUME NEW c \in Consumers, ClaimIsLost(c)
       PROVE  Inv'
    <2> USE <1>6 DEF ClaimIsLost, Leave, Enter, rows, history
    <2>1. TypeOK' /\ Sessions'
      BY ConfigFacts DEF Inv, TypeOK, Sessions, Steps
    <2>2. Locks'
      BY ConfigFacts DEF Inv, TypeOK, Locks, Holding, Unlocked
    <2>3. HolderKeepsClaim'
      BY ConfigFacts DEF Inv, TypeOK, Sessions, Locks, HolderKeepsClaim, Holding,
                           Unlocked, Fenced, Present, Matches
    <2>4. EffectsMatchReceipts' /\ ProcessedWasApplied' /\ AckedWasApplied'
      BY ConfigFacts DEF Inv, TypeOK, Sessions, EffectsMatchReceipts, ProcessedWasApplied,
                           AckedWasApplied, Present
    <2> QED
      BY <2>1, <2>2, <2>3, <2>4 DEF Inv
  <1>7. ASSUME NEW c \in Consumers, CommitClaim(c)
       PROVE  Inv'
    <2> USE <1>7 DEF CommitClaim, Unlock, Enter, rows, history
    <2>0. /\ key[c] \in Keys /\ input[c] \in Bodies /\ lock[key[c]] = c
          /\ body[key[c]] = input[c] /\ ~processed[key[c]]
          /\ \A d \in Consumers : pc[d] \in Holding /\ key[d] = key[c] => d = c
      BY HoldingFacts DEF Holding
    <2>1. TypeOK' /\ Sessions'
      BY <2>0, ConfigFacts DEF Inv, TypeOK, Sessions, Steps
    <2>2. Locks'
      BY <2>0, ConfigFacts DEF Inv, TypeOK, Locks, Holding, Unlocked
    <2>3. HolderKeepsClaim'
      BY <2>0, ConfigFacts DEF Inv, TypeOK, Sessions, Locks, HolderKeepsClaim, Holding,
                           Unlocked, Fenced, Present, Matches
    <2>4. EffectsMatchReceipts' /\ ProcessedWasApplied' /\ AckedWasApplied'
      BY <2>0, ConfigFacts DEF Inv, TypeOK, Sessions, EffectsMatchReceipts, ProcessedWasApplied,
                           AckedWasApplied, Present
    <2> QED
      BY <2>1, <2>2, <2>3, <2>4 DEF Inv
  <1>8. ASSUME NEW c \in Consumers, CommitCompleted(c)
       PROVE  Inv'
    <2> USE <1>8 DEF CommitCompleted, Unlock, Leave, Enter
    <2>0. /\ key[c] \in Keys /\ input[c] \in Bodies /\ lock[key[c]] = c
          /\ body[key[c]] = input[c] /\ ~processed[key[c]]
          /\ \A d \in Consumers : pc[d] \in Holding /\ key[d] = key[c] => d = c
      BY HoldingFacts DEF Holding
    <2>1. TypeOK' /\ Sessions'
      BY <2>0, ConfigFacts DEF Inv, TypeOK, Sessions, Steps
    <2>2. Locks'
      BY <2>0, ConfigFacts DEF Inv, TypeOK, Locks, Holding, Unlocked
    <2>3. HolderKeepsClaim'
      BY <2>0, ConfigFacts DEF Inv, TypeOK, Sessions, Locks, HolderKeepsClaim, Holding,
                           Unlocked, Fenced, Present, Matches
    <2>4. EffectsMatchReceipts' /\ ProcessedWasApplied' /\ AckedWasApplied'
      BY <2>0, ConfigFacts DEF Inv, TypeOK, Sessions, EffectsMatchReceipts, ProcessedWasApplied,
                           AckedWasApplied, Present
    <2> QED
      BY <2>1, <2>2, <2>3, <2>4 DEF Inv
  <1>9. ASSUME NEW c \in Consumers, CommitReleased(c)
       PROVE  Inv'
    <2> USE <1>9 DEF CommitReleased, Unlock, Leave, Enter, history
    <2>0. /\ key[c] \in Keys /\ input[c] \in Bodies /\ lock[key[c]] = c
          /\ body[key[c]] = input[c] /\ ~processed[key[c]]
          /\ \A d \in Consumers : pc[d] \in Holding /\ key[d] = key[c] => d = c
      BY HoldingFacts DEF Holding
    <2>1. RowTypes'
      BY DeleteTypes DEF Inv, TypeOK, RowTypes
    <2>2. TypeOK' /\ Sessions'
      BY <2>0, <2>1, ConfigFacts, Zenon DEF Inv, TypeOK, Sessions, Steps, RowTypes
    <2>3. Locks'
      BY <2>0, ConfigFacts DEF Inv, TypeOK, Locks, Holding, Unlocked
    <2>4. HolderKeepsClaim'
      BY <2>0, ConfigFacts DEF Inv, TypeOK, Sessions, Locks, HolderKeepsClaim, Holding,
                           Unlocked, Fenced, Present, Matches, DeleteReceipts
    <2>5. EffectsMatchReceipts' /\ ProcessedWasApplied' /\ AckedWasApplied'
      BY <2>0, ConfigFacts DEF Inv, TypeOK, Sessions, EffectsMatchReceipts, ProcessedWasApplied,
                           AckedWasApplied, Present, DeleteReceipts
    <2> QED
      BY <2>1, <2>2, <2>3, <2>4, <2>5 DEF Inv
  <1>10. ASSUME NEW c \in Consumers, Rollback(c)
         PROVE  Inv'
    <2>0. /\ key[c] \in Keys /\ lock[key[c]] = c /\ ~processed[key[c]]
          /\ \A d \in Consumers : pc[d] \in Holding /\ key[d] = key[c] => d = c
      BY <1>10, HoldingFacts DEF Rollback
    <2>1. RowTypes'
      BY <1>10, DeleteTypes DEF Rollback, Inv, TypeOK, RowTypes, rows
    <2>2. /\ Unlock(c) /\ Leave(c) /\ faults < MaxFaults /\ faults' = faults + 1
          /\ UNCHANGED <<owner, window, history>>
      BY <1>10 DEF Rollback
    <2>3. TypeOK' /\ Sessions'
      BY <2>0, <2>1, <2>2, ConfigFacts DEF Inv, TypeOK, RowTypes, Sessions, Steps, Unlock,
                                        Leave, Enter, history
    <2>4. Locks'
      BY <2>0, <2>2, ConfigFacts DEF Inv, TypeOK, Locks, Holding, Unlock, Leave, Enter
    <2>5. \A k \in Keys \ {key[c]} : /\ body'[k] = body[k] /\ receivedAt'[k] = receivedAt[k]
                                      /\ processed'[k] = processed[k]
      <3>1. CASE inserted[c]
        <4> TAKE k \in Keys \ {key[c]}
        <4>1. DeleteReceipts({key[c]}) /\ k \in Keys /\ k \notin {key[c]}
          BY <1>10, <3>1 DEF Rollback
        <4> QED
          BY <4>1 DEF DeleteReceipts
      <3>2. CASE ~inserted[c]
        BY <1>10, <3>2 DEF Rollback, rows
      <3> QED
        BY <3>1, <3>2
    <2>6. ~processed'[key[c]]
      BY <1>10, <2>0, Zenon DEF Rollback, DeleteReceipts, rows
    <2>7. HolderKeepsClaim'
      BY <2>0, <2>2, <2>5 DEF Inv, TypeOK, Sessions, HolderKeepsClaim, Holding, Unlock,
                              Leave, Enter, Fenced, Present, Matches
    <2>8. EffectsMatchReceipts' /\ ProcessedWasApplied' /\ AckedWasApplied'
      BY <2>0, <2>2, <2>5, <2>6 DEF Inv, EffectsMatchReceipts, ProcessedWasApplied,
                                    AckedWasApplied, Present, history
    <2> QED
      BY <2>3, <2>4, <2>7, <2>8 DEF Inv
  <1>11. ASSUME NEW c \in Consumers, Forget(c)
       PROVE  Inv'
    <2> USE <1>11 DEF Forget, Leave, Enter, rows, history
    <2>1. TypeOK' /\ Sessions'
      BY ConfigFacts DEF Inv, TypeOK, Sessions, Steps
    <2>2. Locks'
      BY ConfigFacts DEF Inv, TypeOK, Locks, Holding, Unlocked
    <2>3. HolderKeepsClaim'
      BY ConfigFacts DEF Inv, TypeOK, Sessions, Locks, HolderKeepsClaim, Holding,
                           Unlocked, Fenced, Present, Matches
    <2>4. EffectsMatchReceipts' /\ ProcessedWasApplied' /\ AckedWasApplied'
      BY ConfigFacts DEF Inv, TypeOK, Sessions, EffectsMatchReceipts, ProcessedWasApplied,
                           AckedWasApplied, Present
    <2> QED
      BY <2>1, <2>2, <2>3, <2>4 DEF Inv
  <1>12. ASSUME NEW c \in Consumers, NEW k \in Keys, TakeOver(c, k)
       PROVE  Inv'
    <2> USE <1>12 DEF TakeOver, rows, session, history
    <2>1. TypeOK' /\ Sessions'
      BY ConfigFacts DEF Inv, TypeOK, Sessions, Steps
    <2>2. Locks'
      BY ConfigFacts DEF Inv, TypeOK, Locks, Holding, Unlocked
    <2>3. HolderKeepsClaim'
      BY ConfigFacts DEF Inv, TypeOK, Sessions, Locks, HolderKeepsClaim, Holding,
                           Unlocked, Fenced, Present, Matches
    <2>4. EffectsMatchReceipts' /\ ProcessedWasApplied' /\ AckedWasApplied'
      BY ConfigFacts DEF Inv, TypeOK, Sessions, EffectsMatchReceipts, ProcessedWasApplied,
                           AckedWasApplied, Present
    <2> QED
      BY <2>1, <2>2, <2>3, <2>4 DEF Inv
  <1>13. ASSUME CleanupExpired
       PROVE  Inv'
    <2> USE <1>13 DEF session
    <2>0. PICK S \in SUBSET {k \in Keys : Present(k) /\ processed[k] /\ Unlocked(k)} :
              /\ DeleteReceipts(S)
              /\ forgotten' = [k \in Keys |-> IF k \in S THEN forgotten[k] + 1 ELSE forgotten[k]]
              /\ UNCHANGED <<lock, owner, window, session, effects, applied, acked, faults>>
      BY DEF CleanupExpired, Expired, Committed
    <2>1. RowTypes'
      BY <2>0, DeleteTypes DEF Inv, TypeOK, RowTypes
    <2>2. TypeOK' /\ Sessions'
      BY <2>0, <2>1, ConfigFacts DEF Inv, TypeOK, Sessions, Steps, RowTypes
    <2>3. Locks'
      BY <2>0, ConfigFacts DEF Inv, TypeOK, Locks, Holding, Unlocked
    <2>4. HolderKeepsClaim'
      BY <2>0, ConfigFacts DEF Inv, TypeOK, Sessions, Locks, HolderKeepsClaim, Holding,
                           Unlocked, Fenced, Present, Matches, DeleteReceipts
    <2>5. EffectsMatchReceipts' /\ ProcessedWasApplied' /\ AckedWasApplied'
      BY <2>0, ConfigFacts DEF Inv, TypeOK, Sessions, EffectsMatchReceipts, ProcessedWasApplied,
                           AckedWasApplied, Present, DeleteReceipts
    <2> QED
      BY <2>1, <2>2, <2>3, <2>4, <2>5 DEF Inv
  <1>14. ASSUME Elapse
       PROVE  Inv'
    <2> USE <1>14 DEF Elapse, session, history
    <2>1. TypeOK' /\ Sessions'
      BY ConfigFacts DEF Inv, TypeOK, Sessions, Steps
    <2>2. Locks'
      BY ConfigFacts DEF Inv, TypeOK, Locks, Holding, Unlocked
    <2>3. HolderKeepsClaim'
      BY ConfigFacts DEF Inv, TypeOK, Sessions, Locks, HolderKeepsClaim, Holding,
                           Unlocked, Fenced, Present, Matches
    <2>4. EffectsMatchReceipts' /\ ProcessedWasApplied' /\ AckedWasApplied'
      BY ConfigFacts DEF Inv, TypeOK, Sessions, EffectsMatchReceipts, ProcessedWasApplied,
                           AckedWasApplied, Present
    <2> QED
      BY <2>1, <2>2, <2>3, <2>4, Zenon DEF Inv
  <1>15. ASSUME UNCHANGED vars
       PROVE  Inv'
    <2> USE <1>15 DEF vars, rows, session, history
    <2>1. TypeOK' /\ Sessions'
      BY ConfigFacts DEF Inv, TypeOK, Sessions, Steps
    <2>2. Locks'
      BY ConfigFacts DEF Inv, TypeOK, Locks, Holding, Unlocked
    <2>3. HolderKeepsClaim'
      BY ConfigFacts DEF Inv, TypeOK, Sessions, Locks, HolderKeepsClaim, Holding,
                           Unlocked, Fenced, Present, Matches
    <2>4. EffectsMatchReceipts' /\ ProcessedWasApplied' /\ AckedWasApplied'
      BY ConfigFacts DEF Inv, TypeOK, Sessions, EffectsMatchReceipts, ProcessedWasApplied,
                           AckedWasApplied, Present
    <2> QED
      BY <2>1, <2>2, <2>3, <2>4 DEF Inv
  <1> QED
    BY <1>1, <1>2, <1>3, <1>4, <1>5, <1>6, <1>7, <1>8, <1>9, <1>10, <1>11, <1>12, <1>13, <1>14, <1>15 DEF Next, ConsumerStep

\* The inductive invariant holds throughout.
LEMMA Invariance == Spec => []Inv
  BY InitInv, NextInv, PTL DEF Spec

\* The columns of a receipt and a consumer's variables keep their types.
THEOREM TypeCorrect == Spec => []TypeOK
  <1>1. Inv => TypeOK
    BY DEF Inv
  <1> QED
    BY <1>1, Invariance, PTL

\* The claim of an open transaction cannot be lost: cleanup skips its row, and
\* every other statement waits for it.
THEOREM ClaimsAreKept == Spec => []HolderKeepsClaim
  <1>1. Inv => HolderKeepsClaim
    BY DEF Inv
  <1> QED
    BY <1>1, Invariance, PTL

\* The effects committed for a key are its processed receipts, those removed by
\* cleanup included.
THEOREM Deduplicated == Spec => []EffectsMatchReceipts
  <1>1. Inv => EffectsMatchReceipts
    BY DEF Inv
  <1> QED
    BY <1>1, Invariance, PTL

\* Only a delivery whose own body took effect is acknowledged.
THEOREM AckedApplied == Spec => []AckedWasApplied
  <1>1. Inv => AckedWasApplied
    BY DEF Inv
  <1> QED
    BY <1>1, Invariance, PTL

-----------------------------------------------------------------------------
(* Once per event, when receipts outlive redeliveries.                     *)

\* A receipt lives at least as long as its key is redelivered; once it is
\* forgotten the key is not delivered again.
Outlived ==
    \A k \in Keys :
        /\ Present(k) => window[k] <= left[k]
        /\ forgotten[k] > 0 => forgotten[k] = 1 /\ window[k] = 0 /\ ~Present(k)

\* A natural number that is not positive is zero.
LEMMA NotPositive ==
    ASSUME NEW n \in Nat, ~(n > 0)
    PROVE  n = 0
  OBVIOUS

\* Every step keeps Outlived when retention covers the window.
LEMMA NextOutlived ==
  ASSUME RedeliveryWindow <= Retention
  PROVE  Inv /\ Outlived /\ [Next]_vars => Outlived'
  <1> SUFFICES ASSUME Inv, Outlived, [Next]_vars PROVE Outlived'
    OBVIOUS
  <1>1. ASSUME NEW c \in Consumers, NEW k \in Keys, NEW b \in Bodies, NEW t \in Instants,
               ClaimInserts(c, k, b, t)
        PROVE  Outlived'
    BY <1>1, ConfigFacts DEF ClaimInserts, InsertReceipt, Inv, TypeOK, Outlived, Present, history
  <1>2. ASSUME UNCHANGED <<body, left, window, forgotten>>
        PROVE  Outlived'
    BY <1>2 DEF Outlived, Present
  <1>3. ASSUME NEW S, DeleteReceipts(S), UNCHANGED <<window, forgotten>>
        PROVE  Outlived'
    BY <1>3 DEF Outlived, Present, DeleteReceipts, Inv, TypeOK
  <1>4. ASSUME NEW c \in Consumers, CommitReleased(c) \/ Rollback(c)
        PROVE  Outlived'
    BY <1>2, <1>3, <1>4 DEF CommitReleased, Rollback, rows, history
  <1>5. ASSUME CleanupExpired
        PROVE  Outlived'
    <2>1. PICK S \in SUBSET {k \in Keys : Present(k) /\ left[k] = 0} :
              /\ DeleteReceipts(S) /\ UNCHANGED window
              /\ forgotten' = [k \in Keys |-> IF k \in S THEN forgotten[k] + 1 ELSE forgotten[k]]
      BY <1>5 DEF CleanupExpired, Expired, Committed
    <2> SUFFICES ASSUME NEW k \in Keys
                 PROVE  /\ Present(k)' => window'[k] <= left'[k]
                        /\ forgotten'[k] > 0 =>
                               forgotten'[k] = 1 /\ window'[k] = 0 /\ ~Present(k)'
      BY DEF Outlived
    <2>2. CASE k \in S
      <3>1. left[k] = 0 /\ window[k] \in Nat /\ window[k] <= left[k] /\ forgotten[k] \in Nat
        BY <2>2 DEF Outlived, Inv, TypeOK
      <3>2. forgotten[k] = 0
        <4>1. ~(forgotten[k] > 0)
          BY <2>2, Zenon DEF Outlived
        <4> QED
          BY <3>1, <4>1, NotPositive, Zenon
      <3> QED
        BY <2>1, <2>2, <3>1, <3>2 DEF DeleteReceipts, Present
    <2>3. CASE k \notin S
      BY <2>1, <2>3 DEF DeleteReceipts, Present, Outlived
    <2> QED
      BY <2>2, <2>3
  <1>6. ASSUME Elapse
        PROVE  Outlived'
    BY <1>6 DEF Elapse, Seen, Outlived, Present, Inv, TypeOK, history
  <1>7. ASSUME NEW c \in Consumers,
               \/ ClaimClassifies(c) \/ Complete(c) \/ Release(c) \/ ClaimIsLost(c)
               \/ CommitClaim(c) \/ CommitCompleted(c) \/ Forget(c)
               \/ \E k \in Keys : \/ TakeOver(c, k)
                                  \/ \E b \in Bodies : ClaimMeetsRow(c, k, b) \/ Resume(c, k, b)
        PROVE  Outlived'
    BY <1>2, <1>7, Zenon DEF ClaimClassifies, Complete, Release, ClaimIsLost, CommitClaim,
                      CommitCompleted, Forget, TakeOver, ClaimMeetsRow, Resume, rows, history
  <1>8. CASE UNCHANGED vars
    BY <1>2, <1>8 DEF vars, rows, history
  <1> QED
    BY <1>1, <1>4, <1>5, <1>6, <1>7, <1>8 DEF Next, ConsumerStep

\* With a retention of at least the broker's redelivery window, the effect of an
\* event is committed at most once, whatever fails.
THEOREM OncePerEvent ==
  ASSUME RedeliveryWindow <= Retention
  PROVE  Spec => []OneEffectPerEvent
  <1>1. Init => Outlived
    BY DEF Init, Outlived, Present
  <1>2. Inv /\ Outlived /\ [Next]_vars => Outlived'
    BY NextOutlived
  <1>3. Inv /\ Outlived => OneEffectPerEvent
    <2> SUFFICES ASSUME Inv, Outlived, NEW k \in Keys PROVE effects[k] <= 1
      BY DEF OneEffectPerEvent
    <2>1. CASE processed[k]
      <3>1. Present(k) /\ effects[k] = forgotten[k] + 1
        BY <2>1, Zenon DEF Inv, ProcessedWasApplied, EffectsMatchReceipts
      <3> QED
        BY <3>1 DEF Inv, TypeOK, Outlived
    <2>2. CASE ~processed[k]
      BY <2>2 DEF Inv, TypeOK, EffectsMatchReceipts, Outlived
    <2> QED
      BY <2>1, <2>2
  <1> QED
    BY <1>1, <1>2, <1>3, Invariance, PTL DEF Spec
=============================================================================
