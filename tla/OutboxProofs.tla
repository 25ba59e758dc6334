---------------------------- MODULE OutboxProofs ----------------------------
(***************************************************************************)
(* Proofs about Outbox for every set of events and relays, every validated *)
(* configuration and any number of faults.  The last section is about the  *)
(* specification MCOutbox adds: relays that keep to their time limits.     *)
(***************************************************************************)
EXTENDS MCOutbox, TLAPS

RowType ==
    /\ phase \in [Events -> Phase]
    /\ stamp \in [Events -> Int]
    /\ attempts \in [Events -> Nat]
    /\ token \in [Events -> Nat]
    /\ lease \in [Events -> 0..LeaseDuration]
    /\ nextToken \in Nat \ {0}

RelayType ==
    /\ pc \in [Relays -> PC]
    /\ held \in [Relays -> [Events -> Nat]]
    /\ current \in [Relays -> Events \cup {NoEvent}]
    /\ left \in [Relays -> 0..PublicationTimeout]
    /\ result \in [Relays -> {"none", "ok", "failed"}]
    /\ called \subseteq Events

OtherType ==
    /\ draining \in [Relays -> BOOLEAN]
    /\ delivered \in SUBSET Events
    /\ faults \in 0..MaxFaults

\* What a relay carries: only events it claimed, under fences handed out.
RelayInv ==
    \A r \in Relays :
        /\ pc[r] \in {"publish", "mark"} => /\ current[r] \in Events
                                            /\ held[r][current[r]] # 0
        /\ pc[r] = "mark" /\ result[r] = "ok" => current[r] \in delivered
        /\ \A e \in Events : /\ held[r][e] < nextToken
                             /\ held[r][e] # 0 => attempts[e] > 0

\* What a row looks like: the lease columns of the table's CHECK constraints
\* and the attempt limit.
RowInv ==
    \A e \in Events :
        /\ token[e] < nextToken
        /\ token[e] = 0 => lease[e] = 0
        /\ phase[e] # "unpublished" => token[e] = 0
        /\ attempts[e] <= MaxAttempts

\* The invariants about rows and the broker together.
RowFacts == RowType /\ RowInv /\ PublishedWasDelivered /\ CleanupLosesNothing

\* The inductive invariant.
Inv ==
    /\ RowFacts
    /\ RelayType /\ RelayInv /\ FencesAreExclusive
    /\ OtherType

LEMMA TypeParts == TypeOK <=> RowType /\ RelayType /\ OtherType
  BY DEF TypeOK, RowType, RelayType, OtherType

-----------------------------------------------------------------------------
(* The statements of the repository keep the facts about rows.             *)

\* What every step leaves behind for the broker's history.
Growing == delivered' \in SUBSET Events /\ delivered \subseteq delivered'

LEMMA LeaseRowsFacts ==
  ASSUME RowFacts, Growing, NEW B \in SUBSET ClaimableSet, LeaseRows(B)
  PROVE  /\ RowFacts'
         /\ nextToken' = nextToken + 1
         /\ \A e \in Events : attempts'[e] >= attempts[e]
         /\ \A e \in B : e \in Events /\ attempts'[e] > 0
  <1>0. LeaseDuration \in Nat /\ MaxAttempts \in Nat
    BY OutboxAssumption DEF ConfigValid
  <1>1. \A e \in B : e \in Events /\ phase[e] = "unpublished" /\ attempts[e] < MaxAttempts
    BY DEF ClaimableSet, Claimable
  <1>2. RowType'
    BY <1>0 DEF RowFacts, RowType, LeaseRows
  <1>3. RowInv'
    BY <1>0, <1>1 DEF RowFacts, RowType, RowInv, LeaseRows
  <1>4. PublishedWasDelivered'
    BY <1>1 DEF RowFacts, PublishedWasDelivered, LeaseRows, Growing
  <1>5. CleanupLosesNothing'
    BY <1>0, <1>1 DEF RowFacts, RowType, CleanupLosesNothing, LeaseRows, Growing
  <1> QED
    BY <1>1, <1>2, <1>3, <1>4, <1>5 DEF RowFacts, RowType, LeaseRows

LEMMA SameRowsFacts ==
  ASSUME RowFacts, Growing, UNCHANGED rowVars
  PROVE  RowFacts' /\ nextToken' = nextToken /\ attempts' = attempts
  <1>1. RowType' /\ RowInv'
    BY DEF RowFacts, RowType, RowInv, rowVars
  <1>2. PublishedWasDelivered' /\ CleanupLosesNothing'
    BY DEF RowFacts, PublishedWasDelivered, CleanupLosesNothing, rowVars, Growing
  <1> QED
    BY <1>1, <1>2 DEF RowFacts, rowVars

LEMMA MarkFacts ==
  ASSUME RowFacts, Growing, NEW r \in Relays, current[r] \in Events, MarkStatement(r),
         result[r] = "ok" => current[r] \in delivered
  PROVE  RowFacts' /\ nextToken' = nextToken /\ attempts' = attempts
  <1> DEFINE e == current[r]
  <1>0. LeaseDuration \in Nat /\ RetryDelay \in Nat
    BY OutboxAssumption DEF ConfigValid
  <1>1. CASE ~LeaseIsLive(e, held[r][e])
    BY <1>1, SameRowsFacts DEF MarkStatement
  <1>2. CASE LeaseIsLive(e, held[r][e]) /\ result[r] = "ok"
    <2>1. RecordPublished(e) /\ e \in delivered
      BY <1>2 DEF MarkStatement
    <2>2. RowType'
      BY <1>0, <2>1 DEF RowFacts, RowType, RecordPublished, Phase
    <2>3. RowInv'
      BY <2>1 DEF RowFacts, RowType, RowInv, RecordPublished
    <2>4. PublishedWasDelivered' /\ CleanupLosesNothing'
      BY <2>1 DEF RowFacts, RowType, PublishedWasDelivered, CleanupLosesNothing,
                  RecordPublished, Growing
    <2> QED
      BY <2>1, <2>2, <2>3, <2>4 DEF RowFacts, RecordPublished
  <1>3. CASE LeaseIsLive(e, held[r][e]) /\ result[r] # "ok"
    <2>1. RecordFailed(e)
      BY <1>3 DEF MarkStatement
    <2>2. RowType'
      BY <1>0, <2>1 DEF RowFacts, RowType, RecordFailed
    <2>3. RowInv'
      BY <2>1 DEF RowFacts, RowType, RowInv, RecordFailed
    <2>4. PublishedWasDelivered' /\ CleanupLosesNothing'
      BY <2>1 DEF RowFacts, RowType, PublishedWasDelivered, CleanupLosesNothing,
                  RecordFailed, Growing
    <2> QED
      BY <2>1, <2>2, <2>3, <2>4 DEF RowFacts, RecordFailed
  <1> QED
    BY <1>1, <1>2, <1>3

-----------------------------------------------------------------------------
(* The ways a relay moves on keep the facts about relays.                  *)

\* Rows only move forward under the relays.
Forward ==
    /\ nextToken \in Nat /\ nextToken' \in Nat /\ nextToken' >= nextToken
    /\ attempts \in [Events -> Nat] /\ attempts' \in [Events -> Nat]
    /\ \A e \in Events : attempts'[e] >= attempts[e]

RelayFacts == RelayType /\ RelayInv /\ FencesAreExclusive

LEMMA ProceedFacts ==
  ASSUME RelayFacts, Forward, Growing, NEW r \in Relays, NEW h \in [Events -> Nat],
         \A e \in Events : /\ h[e] < nextToken'
                           /\ h[e] # 0 => attempts'[e] > 0
                           /\ h[e] # 0 => \A s \in Relays \ {r} : h[e] # held[s][e],
         Proceed(r, h)
  PROVE  RelayFacts'
  <1>0. PublicationTimeout \in Nat
    BY OutboxAssumption DEF ConfigValid
  <1>1. held' = [held EXCEPT ![r] = h] /\ result' = [result EXCEPT ![r] = "none"]
    BY DEF Proceed
  <1>2. FencesAreExclusive'
    BY <1>1 DEF RelayFacts, RelayType, FencesAreExclusive
  <1>3. CASE \E e \in Events :
                /\ h[e] # 0
                /\ pc' = [pc EXCEPT ![r] = "publish"]
                /\ current' = [current EXCEPT ![r] = e]
                /\ left' = [left EXCEPT ![r] = PublicationTimeout]
                /\ called' = called \cup {e}
    <2>1. RelayType'
      BY <1>0, <1>1, <1>3 DEF RelayFacts, RelayType, PC
    <2>2. RelayInv'
      BY <1>1, <1>3 DEF RelayFacts, RelayType, RelayInv, PC, Forward, Growing
    <2> QED
      BY <1>2, <2>1, <2>2 DEF RelayFacts
  <1>4. CASE /\ pc' = [pc EXCEPT ![r] = "top"]
             /\ current' = [current EXCEPT ![r] = NoEvent]
             /\ left' = [left EXCEPT ![r] = 0]
             /\ UNCHANGED called
    <2>1. RelayType'
      BY <1>0, <1>1, <1>4 DEF RelayFacts, RelayType, PC
    <2>2. RelayInv'
      BY <1>1, <1>4 DEF RelayFacts, RelayType, RelayInv, PC, Forward, Growing
    <2> QED
      BY <1>2, <2>1, <2>2 DEF RelayFacts
  <1> QED
    BY <1>3, <1>4 DEF Proceed

LEMMA GoDownFacts ==
  ASSUME RelayFacts, Forward, Growing, NEW r \in Relays, GoDown(r)
  PROVE  RelayFacts'
  <1>0. PublicationTimeout \in Nat
    BY OutboxAssumption DEF ConfigValid
  <1>1. RelayType'
    BY <1>0 DEF RelayFacts, RelayType, GoDown, PC, NothingHeld
  <1>2. RelayInv'
    BY DEF RelayFacts, RelayType, RelayInv, GoDown, PC, NothingHeld, Forward, Growing
  <1>3. FencesAreExclusive'
    BY DEF RelayFacts, RelayType, FencesAreExclusive, GoDown, NothingHeld
  <1> QED
    BY <1>1, <1>2, <1>3 DEF RelayFacts

\* A relay that only moves its program counter to a place outside a batch.
LEMMA MoveFacts ==
  ASSUME RelayFacts, Forward, Growing, NEW r \in Relays, NEW p \in {"top", "claim"},
         pc' = [pc EXCEPT ![r] = p], UNCHANGED <<held, current, left, result, called>>
  PROVE  RelayFacts'
  BY DEF RelayFacts, RelayType, RelayInv, FencesAreExclusive, PC, Forward, Growing

LEMMA PublishReturnsFacts ==
  ASSUME RelayFacts, Forward, Growing, NEW r \in Relays, NEW o \in {"ok", "failed"},
         PublishReturns(r, o), o = "ok" => current[r] \in delivered'
  PROVE  RelayFacts'
  <1>0. PublicationTimeout \in Nat
    BY OutboxAssumption DEF ConfigValid
  <1>1. RelayType'
    BY <1>0 DEF RelayFacts, RelayType, PublishReturns, PC
  <1>2. RelayInv'
    BY DEF RelayFacts, RelayType, RelayInv, PublishReturns, PC, Forward, Growing
  <1>3. FencesAreExclusive'
    BY DEF RelayFacts, FencesAreExclusive, PublishReturns
  <1> QED
    BY <1>1, <1>2, <1>3 DEF RelayFacts

\* Relays that do not move.
LEMMA StayFacts ==
  ASSUME RelayFacts, Forward, Growing, UNCHANGED <<pc, held, current, result, called>>,
         left' \in [Relays -> 0..PublicationTimeout]
  PROVE  RelayFacts'
  BY DEF RelayFacts, RelayType, RelayInv, FencesAreExclusive, Forward, Growing

-----------------------------------------------------------------------------
(* The inductive invariant holds initially and is kept by every action.    *)

LEMMA InitInv == Init => Inv
  <1> SUFFICES ASSUME Init PROVE Inv
    OBVIOUS
  <1>0. ConfigValid /\ MaxFaults \in Nat
    BY OutboxAssumption
  <1>1. RowType /\ RelayType /\ OtherType
    BY <1>0 DEF Init, RowType, RelayType, OtherType, ConfigValid, Phase, PC, NothingHeld
  <1>2. RowInv /\ PublishedWasDelivered /\ CleanupLosesNothing
    BY <1>0 DEF Init, RowInv, PublishedWasDelivered, CleanupLosesNothing, ConfigValid
  <1>3. RelayInv /\ FencesAreExclusive
    BY DEF Init, RelayInv, FencesAreExclusive, NothingHeld
  <1> QED
    BY <1>1, <1>2, <1>3 DEF Inv, RowFacts

LEMMA SameForward ==
  ASSUME Inv, RowFacts', nextToken' = nextToken, attempts' = attempts
  PROVE  Forward
  BY DEF Inv, RowFacts, RowType, Forward

LEMMA NoGrowth ==
  ASSUME Inv, UNCHANGED delivered
  PROVE  Growing
  BY DEF Inv, OtherType, Growing

LEMMA MayGrow ==
  ASSUME Inv, NEW r \in Relays, MayBeDelivered(r)
  PROVE  Growing
  BY DEF Inv, OtherType, Growing, MayBeDelivered

LEMMA AppendInv ==
  ASSUME Inv, NEW e \in Events, Append(e)
  PROVE  Inv'
  <1>0. Growing /\ RetryDelay \in Nat
    BY NoGrowth, OutboxAssumption DEF Append, ConfigValid
  <1>1. RowType'
    BY <1>0 DEF Inv, RowFacts, RowType, Append, Phase
  <1>2. RowInv'
    BY DEF Inv, RowFacts, RowType, RowInv, Append
  <1>3. PublishedWasDelivered' /\ CleanupLosesNothing'
    BY DEF Inv, RowFacts, RowType, PublishedWasDelivered, CleanupLosesNothing, Append
  <1>4. RowFacts'
    BY <1>1, <1>2, <1>3 DEF RowFacts
  <1>5. RelayFacts'
    BY <1>0, <1>4, SameForward, StayFacts DEF Inv, RelayFacts, RelayType, Append, relayVars
  <1> QED
    BY <1>4, <1>5 DEF Inv, RelayFacts, OtherType, Append

LEMMA CleanupInv ==
  ASSUME Inv, CleanupRetained
  PROVE  Inv'
  <1>0. Growing
    BY NoGrowth DEF CleanupRetained
  <1>1. PICK B \in FirstOf({e \in Events : Cleanable(e)}, CleanupBatch) :
           /\ phase' = [e \in Events |-> IF e \in B THEN "deleted" ELSE phase[e]]
           /\ token' = [e \in Events |-> IF e \in B THEN 0 ELSE token[e]]
           /\ stamp' = [e \in Events |-> IF e \in B THEN 0 ELSE stamp[e]]
    BY Zenon DEF CleanupRetained
  <1>2. B \subseteq {e \in Events : Cleanable(e)}
    BY DEF FirstOf
  <1>3. MaxAttempts \in Nat
    BY OutboxAssumption DEF ConfigValid
  <1>4. RowType'
    BY <1>1 DEF Inv, RowFacts, RowType, CleanupRetained, Phase
  <1>5. RowInv'
    BY <1>1, <1>2, <1>3 DEF Inv, RowFacts, RowType, RowInv, CleanupRetained, Cleanable
  <1>6. PublishedWasDelivered'
    BY <1>1, <1>2 DEF Inv, RowFacts, RowType, PublishedWasDelivered, CleanupRetained
  <1>7. CleanupLosesNothing'
    <2> SUFFICES ASSUME NEW e \in Events, phase'[e] = "deleted"
                 PROVE  (e \in delivered' \/ attempts'[e] = MaxAttempts) /\ lease'[e] = 0
      BY DEF CleanupLosesNothing
    <2>1. CASE e \in B
      <3>1. Cleanable(e)
        BY <1>2, <2>1
      <3>2. lease[e] = 0
        BY <3>1 DEF Cleanable, Inv, RowFacts, RowInv
      <3>3. e \in delivered \/ attempts[e] = MaxAttempts
        BY <3>1, <1>3 DEF Cleanable, Inv, RowFacts, RowType, RowInv, PublishedWasDelivered
      <3> QED
        BY <3>2, <3>3 DEF CleanupRetained
    <2>2. CASE e \notin B
      BY <1>1, <2>2 DEF Inv, RowFacts, RowType, CleanupLosesNothing, CleanupRetained
    <2> QED
      BY <2>1, <2>2
  <1>8. RowFacts'
    BY <1>4, <1>5, <1>6, <1>7 DEF RowFacts
  <1>9. RelayFacts'
    BY <1>0, <1>8, SameForward, StayFacts
       DEF Inv, RelayFacts, RelayType, CleanupRetained, relayVars
  <1> QED
    BY <1>8, <1>9 DEF Inv, RelayFacts, OtherType, CleanupRetained

LEMMA ElapseInv ==
  ASSUME Inv, Elapse
  PROVE  Inv'
  <1>0. Growing /\ LeaseDuration \in Nat /\ PublicationTimeout \in Nat
    BY NoGrowth, OutboxAssumption DEF Elapse, ConfigValid
  <1>1. RowType'
    BY <1>0 DEF Inv, RowFacts, RowType, Elapse
  <1>2. RowInv'
    BY DEF Inv, RowFacts, RowType, RowInv, Elapse
  <1>3. PublishedWasDelivered' /\ CleanupLosesNothing'
    BY DEF Inv, RowFacts, RowType, PublishedWasDelivered, CleanupLosesNothing, Elapse
  <1>4. RowFacts'
    BY <1>1, <1>2, <1>3 DEF RowFacts
  <1>5. left' \in [Relays -> 0..PublicationTimeout]
    BY <1>0 DEF Inv, RelayType, Elapse
  <1>6. RelayFacts'
    BY <1>0, <1>4, <1>5, SameForward, StayFacts DEF Inv, RelayFacts, Elapse
  <1> QED
    BY <1>4, <1>6 DEF Inv, RelayFacts, OtherType, Elapse

LEMMA StartInv ==
  ASSUME Inv, NEW r \in Relays, Start(r) \/ Drain(r) \/ ClaimNothing(r) \/ LoopHead(r)
  PROVE  Inv'
  <1>1. UNCHANGED rowVars /\ Growing /\ UNCHANGED <<delivered, faults>>
    BY NoGrowth DEF Start, Drain, ClaimNothing, LoopHead
  <1>2. RowFacts' /\ Forward
    BY <1>1, SameRowsFacts, SameForward DEF Inv
  <1>3. draining' \in [Relays -> BOOLEAN]
    BY Zenon DEF Inv, OtherType, Start, Drain, ClaimNothing, LoopHead
  <1>4. RelayFacts'
    <2>1. CASE Start(r) \/ ClaimNothing(r)
      BY <1>1, <1>2, <2>1, MoveFacts DEF Inv, RelayFacts, Start, ClaimNothing
    <2>2. CASE Drain(r)
      BY <1>1, <1>2, <2>2, StayFacts DEF Inv, RelayFacts, RelayType, Drain, relayVars
    <2>3. CASE LoopHead(r) /\ draining[r]
      BY <1>1, <1>2, <2>3, GoDownFacts DEF Inv, RelayFacts, LoopHead
    <2>4. CASE LoopHead(r) /\ ~draining[r]
      BY <1>1, <1>2, <2>4, MoveFacts DEF Inv, RelayFacts, LoopHead
    <2> QED
      BY <2>1, <2>2, <2>3, <2>4
  <1> QED
    BY <1>1, <1>2, <1>3, <1>4 DEF Inv, RelayFacts, OtherType

LEMMA ClaimInv ==
  ASSUME Inv, NEW r \in Relays, Claim(r)
  PROVE  Inv'
  <1>0. Growing
    BY NoGrowth DEF Claim
  <1>1. PICK B \in FirstOf(ClaimableSet, ClaimBatch) :
           LeaseRows(B) /\ Proceed(r, [e \in Events |-> IF e \in B THEN nextToken ELSE 0])
    BY DEF Claim
  <1> DEFINE h == [e \in Events |-> IF e \in B THEN nextToken ELSE 0]
  <1>2. B \in SUBSET ClaimableSet
    BY DEF FirstOf
  <1>3. /\ RowFacts' /\ nextToken' = nextToken + 1
        /\ \A e \in Events : attempts'[e] >= attempts[e]
        /\ \A e \in B : e \in Events /\ attempts'[e] > 0
    BY <1>0, <1>1, <1>2, LeaseRowsFacts DEF Inv
  <1>4. nextToken \in Nat \ {0} /\ Forward
    BY <1>3 DEF Forward, Inv, RowFacts, RowType
  <1>5. /\ h \in [Events -> Nat]
        /\ \A e \in Events : /\ h[e] < nextToken'
                             /\ h[e] # 0 => attempts'[e] > 0
    BY <1>3, <1>4
  <1>6. \A e \in Events : h[e] # 0 => \A s \in Relays \ {r} : h[e] # held[s][e]
    BY <1>4 DEF Inv, RelayType, RelayInv
  <1>7. RelayFacts'
    <2> HIDE DEF h
    <2> QED
      BY <1>0, <1>1, <1>4, <1>5, <1>6, ProceedFacts DEF Inv, RelayFacts, h
  <1> QED
    BY <1>0, <1>3, <1>7 DEF Inv, RelayFacts, OtherType, Claim

LEMMA ClaimErrorInv ==
  ASSUME Inv, NEW r \in Relays, ClaimError(r)
  PROVE  Inv'
  <1>0. Growing
    BY NoGrowth DEF ClaimError
  <1>1. RowFacts' /\ Forward
    <2>1. CASE UNCHANGED rowVars
      BY <1>0, <2>1, SameRowsFacts, SameForward DEF Inv
    <2>2. CASE \E B \in FirstOf(ClaimableSet, ClaimBatch) : LeaseRows(B)
      <3>1. PICK B \in FirstOf(ClaimableSet, ClaimBatch) : LeaseRows(B)
        BY <2>2
      <3>2. B \in SUBSET ClaimableSet
        BY DEF FirstOf
      <3>3. /\ RowFacts' /\ nextToken' = nextToken + 1
            /\ \A e \in Events : attempts'[e] >= attempts[e]
        BY <1>0, <3>1, <3>2, LeaseRowsFacts DEF Inv
      <3> QED
        BY <3>3 DEF Forward, Inv, RowFacts, RowType
    <2> QED
      BY <2>1, <2>2 DEF ClaimError
  <1>2. RelayFacts'
    BY <1>0, <1>1, GoDownFacts DEF Inv, RelayFacts, ClaimError
  <1> QED
    BY <1>0, <1>1, <1>2, OutboxAssumption
       DEF Inv, RelayFacts, OtherType, ClaimError, SpendFault, Growing

LEMMA PublishInv ==
  ASSUME Inv, NEW r \in Relays, PublishOk(r) \/ PublishError(r) \/ PublishTimeout(r)
  PROVE  Inv'
  <1>0. current[r] \in Events
    BY DEF Inv, RelayInv, PublishOk, PublishError, PublishTimeout, PublishReturns
  <1>1. Growing
    BY <1>0, MayGrow DEF PublishOk, PublishError, PublishTimeout, Growing, Inv, OtherType
  <1>2. UNCHANGED rowVars /\ UNCHANGED draining
    BY DEF PublishOk, PublishError, PublishTimeout, PublishReturns
  <1>3. RowFacts' /\ Forward
    BY <1>1, <1>2, SameRowsFacts, SameForward DEF Inv
  <1>4. RelayFacts'
    <2>1. CASE PublishOk(r)
      BY <1>1, <1>3, <2>1, PublishReturnsFacts DEF Inv, RelayFacts, PublishOk
    <2>2. CASE PublishError(r) \/ PublishTimeout(r)
      BY <1>1, <1>3, <2>2, PublishReturnsFacts
         DEF Inv, RelayFacts, PublishError, PublishTimeout
    <2> QED
      BY <2>1, <2>2
  <1>5. faults' \in 0..MaxFaults
    BY OutboxAssumption DEF Inv, OtherType, PublishOk, PublishError, PublishTimeout, SpendFault
  <1> QED
    BY <1>1, <1>2, <1>3, <1>4, <1>5 DEF Inv, RelayFacts, OtherType, Growing

LEMMA MarkInv ==
  ASSUME Inv, NEW r \in Relays, Mark(r)
  PROVE  Inv'
  <1>0. Growing
    BY NoGrowth DEF Mark
  <1>1. current[r] \in Events /\ (result[r] = "ok" => current[r] \in delivered)
    BY DEF Inv, RelayInv, Mark
  <1>2. RowFacts' /\ nextToken' = nextToken /\ attempts' = attempts
    BY <1>0, <1>1, MarkFacts DEF Inv, Mark
  <1>3. Forward
    BY <1>2, SameForward
  <1> DEFINE h == [held[r] EXCEPT ![current[r]] = 0]
  <1>4. /\ h \in [Events -> Nat]
        /\ \A e \in Events : h[e] # 0 => h[e] = held[r][e]
    BY <1>1 DEF Inv, RelayType
  <1>5. \A e \in Events : /\ h[e] < nextToken'
                          /\ h[e] # 0 => attempts'[e] > 0
                          /\ h[e] # 0 => \A s \in Relays \ {r} : h[e] # held[s][e]
    BY <1>2, <1>4 DEF Inv, RelayInv, RelayType, FencesAreExclusive, RowFacts, RowType
  <1>6. RelayFacts'
    <2>1. Proceed(r, h)
      BY DEF Mark
    <2> HIDE DEF h
    <2> QED
      BY <1>0, <1>3, <1>4, <1>5, <2>1, ProceedFacts DEF Inv, RelayFacts
  <1> QED
    BY <1>0, <1>2, <1>6 DEF Inv, RelayFacts, OtherType, Mark

LEMMA MarkErrorInv ==
  ASSUME Inv, NEW r \in Relays, MarkError(r)
  PROVE  Inv'
  <1>0. Growing
    BY NoGrowth DEF MarkError
  <1>1. current[r] \in Events /\ (result[r] = "ok" => current[r] \in delivered)
    BY DEF Inv, RelayInv, MarkError
  <1>2. RowFacts' /\ nextToken' = nextToken /\ attempts' = attempts
    BY <1>0, <1>1, MarkFacts, SameRowsFacts DEF Inv, MarkError
  <1>3. RelayFacts'
    BY <1>0, <1>2, SameForward, GoDownFacts DEF Inv, RelayFacts, MarkError
  <1> QED
    BY <1>0, <1>2, <1>3, OutboxAssumption
       DEF Inv, RelayFacts, OtherType, MarkError, SpendFault, Growing

LEMMA CrashInv ==
  ASSUME Inv, NEW r \in Relays, Crash(r)
  PROVE  Inv'
  <1>0. Growing
    BY NoGrowth, MayGrow DEF Crash
  <1>1. RowFacts' /\ Forward
    BY <1>0, SameRowsFacts, SameForward DEF Inv, Crash
  <1>2. RelayFacts'
    BY <1>0, <1>1, GoDownFacts DEF Inv, RelayFacts, Crash
  <1> QED
    BY <1>0, <1>1, <1>2, OutboxAssumption
       DEF Inv, RelayFacts, OtherType, Crash, SpendFault, Growing

LEMMA StutterInv ==
  ASSUME Inv, UNCHANGED vars
  PROVE  Inv'
  <1>1. Growing /\ RowFacts' /\ Forward
    BY NoGrowth, SameRowsFacts, SameForward DEF Inv, vars
  <1>2. RelayFacts'
    BY <1>1, StayFacts DEF Inv, RelayFacts, RelayType, vars, relayVars
  <1> QED
    BY <1>1, <1>2 DEF Inv, RelayFacts, OtherType, vars

LEMMA NextInv == Inv /\ [Next]_vars => Inv'
  <1> SUFFICES ASSUME Inv, [Next]_vars PROVE Inv'
    OBVIOUS
  <1>1. ASSUME NEW r \in Relays, RelayStep(r) PROVE Inv'
    BY <1>1, StartInv, ClaimInv, ClaimErrorInv, PublishInv, MarkInv, MarkErrorInv, CrashInv
       DEF RelayStep
  <1> QED
    BY <1>1, AppendInv, CleanupInv, ElapseInv, StutterInv DEF Next, Tick

-----------------------------------------------------------------------------
(* Theorems.                                                               *)

LEMMA InvHolds == Spec => []Inv
  BY InitInv, NextInv, PTL DEF Spec

\* Every column and every relay variable keeps its type.
THEOREM TypeCorrect == Spec => []TypeOK
  <1>1. Inv => TypeOK
    BY TypeParts DEF Inv, RowFacts
  <1> QED
    BY <1>1, InvHolds, PTL

\* claim never gives two relays the same fence for a row, for any number of
\* relays, faults and expired leases.
THEOREM FencesExclusive == Spec => []FencesAreExclusive
  <1>1. Inv => FencesAreExclusive
    BY DEF Inv
  <1> QED
    BY <1>1, InvHolds, PTL

\* A row is marked published only when the broker has accepted its event.
THEOREM PublishedDelivered == Spec => []PublishedWasDelivered
  <1>1. Inv => PublishedWasDelivered
    BY DEF Inv, RowFacts
  <1> QED
    BY <1>1, InvHolds, PTL

\* cleanup_retained removes only delivered or exhausted events without a live
\* lease.
THEOREM CleanupSafe == Spec => []CleanupLosesNothing
  <1>1. Inv => CleanupLosesNothing
    BY DEF Inv, RowFacts
  <1> QED
    BY <1>1, InvHolds, PTL

\* A late mark never reopens or restamps a settled row.
THEOREM SettledFinal == Spec => SettledIsFinal
  <1> DEFINE Final(e) ==
        /\ phase[e] = "published" => /\ phase'[e] \in {"published", "deleted"}
                                     /\ attempts'[e] = attempts[e]
                                     /\ stamp'[e] <= stamp[e] \/ phase'[e] = "deleted"
        /\ phase[e] = "deleted" => phase'[e] = "deleted"
  <1>1. ASSUME Inv, [Next]_vars PROVE [\A e \in Events : Final(e)]_vars
    <2> SUFFICES ASSUME Next, NEW e \in Events PROVE Final(e)
      BY <1>1
    <2>0. RowType
      BY <1>1 DEF Inv, RowFacts
    <2>1. ASSUME UNCHANGED rowVars PROVE Final(e)
      BY <2>0, <2>1 DEF rowVars, RowType
    <2>2. ASSUME NEW f \in Events, Append(f) PROVE Final(e)
      BY <2>0, <2>2 DEF Append, RowType
    <2>3. ASSUME NEW n, NEW B \in FirstOf(ClaimableSet, n), LeaseRows(B) PROVE Final(e)
      BY <2>0, <2>3 DEF LeaseRows, FirstOf, ClaimableSet, Claimable, RowType
    <2>4. ASSUME NEW r \in Relays, pc[r] = "mark", MarkStatement(r) PROVE Final(e)
      <3>1. current[r] \in Events
        BY <1>1, <2>4 DEF Inv, RelayInv
      <3> QED
        BY <2>0, <2>1, <2>4, <3>1
           DEF MarkStatement, LeaseIsLive, RecordPublished, RecordFailed, RowType
    <2>5. CASE CleanupRetained
      BY <2>0, <2>5 DEF CleanupRetained, RowType
    <2>6. CASE Tick
      BY <2>0, <2>6 DEF Tick, Elapse, RowType
    <2>7. ASSUME NEW r \in Relays, RelayStep(r) PROVE Final(e)
      <3>1. CASE Claim(r) \/ ClaimError(r)
        BY <2>1, <2>3, <3>1, Zenon DEF Claim, ClaimError
      <3>2. CASE Mark(r) \/ MarkError(r)
        BY <2>1, <2>4, <3>2 DEF Mark, MarkError
      <3>3. CASE ~(Claim(r) \/ ClaimError(r) \/ Mark(r) \/ MarkError(r))
        <4>1. UNCHANGED rowVars
          BY <2>7, <3>3 DEF RelayStep, Start, Drain, LoopHead, ClaimNothing, PublishOk,
                            PublishError, PublishTimeout, PublishReturns, Crash
        <4> QED
          BY <2>1, <4>1
      <3> QED
        BY <3>1, <3>2, <3>3
    <2> QED
      BY <2>2, <2>5, <2>6, <2>7 DEF Next
  <1> QED
    BY <1>1, InvHolds, PTL DEF Spec, SettledIsFinal

-----------------------------------------------------------------------------
(* Refinement: every step of the outbox is a step of PublicationIntent or  *)
(* leaves the intent alone.                                                *)

LEMMA StepIsIntentStep ==
  ASSUME Inv, Inv', [Next]_vars
  PROVE  [Intent!Next]_(Intent!vars)
  <1> USE DEF Intent!vars
  <1>0. RowType /\ delivered \in SUBSET Events /\ MaxAttempts \in Nat
    BY OutboxAssumption DEF Inv, RowFacts, OtherType, ConfigValid
  <1>1. ASSUME UNCHANGED <<phase, attempts>>, UNCHANGED delivered
        PROVE  UNCHANGED Intent!vars
    BY <1>1 DEF IntentOf
  <1>2. ASSUME UNCHANGED <<phase, attempts>>, NEW r \in Relays, pc[r] = "publish",
               delivered' = delivered \/ delivered' = delivered \cup {current[r]}
        PROVE  [Intent!Next]_(Intent!vars)
    <2>1. current[r] \in Events /\ attempts[current[r]] > 0
      BY <1>2 DEF Inv, RelayInv
    <2>2. [e \in Events |-> IntentOf(e)]' = [e \in Events |-> IntentOf(e)]
      BY <1>2 DEF IntentOf
    <2>3. CASE delivered' = delivered \cup {current[r]}
      <3>1. Intent!Show(current[r])
        BY <1>2, <2>1, <2>2, <2>3 DEF Intent!Show
      <3> QED
        BY <2>1, <3>1 DEF Intent!Next
    <2>4. CASE delivered' = delivered
      BY <1>1, <1>2, <2>4
    <2> QED
      BY <1>2, <2>3, <2>4
  <1>3. ASSUME NEW n, NEW B \in FirstOf(ClaimableSet, n), LeaseRows(B), UNCHANGED delivered
        PROVE  [Intent!Next]_(Intent!vars)
    <2>1. B \in SUBSET Events /\ \A e \in B : IntentOf(e) = "pending" /\ attempts[e] < MaxAttempts
      BY DEF FirstOf, ClaimableSet, Claimable, IntentOf
    <2>2. [e \in Events |-> IntentOf(e)]' = [e \in Events |-> IntentOf(e)]
      BY <1>3 DEF IntentOf, LeaseRows
    <2>3. Intent!Try(B)
      BY <1>3, <2>1, <2>2 DEF Intent!Try, LeaseRows
    <2> QED
      BY <2>1, <2>3 DEF Intent!Next
  <1>4. ASSUME NEW e \in Events, Append(e) PROVE [Intent!Next]_(Intent!vars)
    <2>1. [f \in Events |-> IntentOf(f)]' = [[f \in Events |-> IntentOf(f)] EXCEPT ![e] = "pending"]
      BY <1>0, <1>4, Zenon DEF Append, IntentOf, RowType
    <2>2. IntentOf(e) = "absent"
      BY <1>4 DEF Append, IntentOf
    <2>3. Intent!Record(e)
      BY <1>4, <2>1, <2>2 DEF Intent!Record, Append
    <2> QED
      BY <2>3 DEF Intent!Next
  <1>5. ASSUME NEW r \in Relays, pc[r] = "mark", MarkStatement(r), UNCHANGED delivered
        PROVE  [Intent!Next]_(Intent!vars)
    <2> DEFINE e == current[r]
    <2>1. e \in Events /\ (result[r] = "ok" => e \in delivered)
      BY <1>5 DEF Inv, RelayInv
    <2>2. CASE LeaseIsLive(e, held[r][e]) /\ result[r] = "ok"
      <3>1. RecordPublished(e)
        BY <1>5, <2>2 DEF MarkStatement
      <3>2. [f \in Events |-> IntentOf(f)]' =
                [[f \in Events |-> IntentOf(f)] EXCEPT ![e] = "published"]
        BY <1>0, <2>1, <3>1, Zenon DEF RecordPublished, IntentOf, RowType
      <3>3. IntentOf(e) = "pending"
        BY <2>2 DEF LeaseIsLive, IntentOf
      <3>4. Intent!Settle(e)
        BY <1>5, <2>1, <2>2, <3>1, <3>2, <3>3 DEF Intent!Settle, RecordPublished
      <3> QED
        BY <2>1, <3>4 DEF Intent!Next
    <2>3. CASE ~(LeaseIsLive(e, held[r][e]) /\ result[r] = "ok")
      <3>1. UNCHANGED <<phase, attempts>>
        BY <1>5, <2>3 DEF MarkStatement, RecordFailed, rowVars
      <3> QED
        BY <1>1, <1>5, <3>1
    <2> QED
      BY <2>2, <2>3
  <1>6. CASE CleanupRetained
    <2>1. PICK B \in FirstOf({e \in Events : Cleanable(e)}, CleanupBatch) :
             phase' = [e \in Events |-> IF e \in B THEN "deleted" ELSE phase[e]]
      BY <1>6 DEF CleanupRetained
    <2>2. B \in SUBSET Events /\ \A e \in B : Cleanable(e)
      BY DEF FirstOf
    <2>3. \A e \in B : \/ IntentOf(e) = "published"
                       \/ IntentOf(e) = "pending" /\ attempts[e] = MaxAttempts
      BY <1>0, <2>2 DEF Cleanable, IntentOf, Inv, RowFacts, RowInv, RowType
    <2>4. [e \in Events |-> IntentOf(e)]' =
             [e \in Events |-> IF e \in B THEN "gone" ELSE IntentOf(e)]
      BY <2>1 DEF IntentOf
    <2>5. Intent!Forget(B)
      BY <1>6, <2>2, <2>3, <2>4 DEF Intent!Forget, CleanupRetained
    <2> QED
      BY <2>2, <2>5 DEF Intent!Next
  <1>7. ASSUME NEW r \in Relays, RelayStep(r) PROVE [Intent!Next]_(Intent!vars)
    <2>1. CASE Claim(r)
      BY <1>3, <2>1 DEF Claim
    <2>2. CASE ClaimError(r)
      BY <1>1, <1>3, <2>2 DEF ClaimError, rowVars
    <2>3. CASE PublishOk(r) \/ PublishError(r) \/ PublishTimeout(r)
      <3>1. pc[r] = "publish" /\ UNCHANGED <<phase, attempts>>
        BY <2>3 DEF PublishOk, PublishError, PublishTimeout, PublishReturns, rowVars
      <3>2. current[r] \in Events
        BY <3>1 DEF Inv, RelayInv
      <3>3. delivered' = delivered \/ delivered' = delivered \cup {current[r]}
        BY <2>3, <3>2 DEF PublishOk, PublishError, PublishTimeout, MayBeDelivered
      <3> QED
        BY <1>2, <3>1, <3>3
    <2>4. CASE Mark(r)
      BY <1>5, <2>4 DEF Mark
    <2>5. CASE MarkError(r)
      BY <1>1, <1>5, <2>5 DEF MarkError, rowVars
    <2>6. CASE Crash(r)
      <3>1. UNCHANGED <<phase, attempts>>
        BY <2>6 DEF Crash, rowVars
      <3>2. CASE pc[r] = "publish"
        <4>1. current[r] \in Events
          BY <3>2 DEF Inv, RelayInv
        <4>2. delivered' = delivered \/ delivered' = delivered \cup {current[r]}
          BY <2>6, <3>2, <4>1 DEF Crash, MayBeDelivered
        <4> QED
          BY <1>2, <3>1, <3>2, <4>2
      <3>3. CASE pc[r] # "publish"
        BY <1>1, <2>6, <3>1, <3>3 DEF Crash
      <3> QED
        BY <3>2, <3>3
    <2>7. CASE Start(r) \/ Drain(r) \/ LoopHead(r) \/ ClaimNothing(r)
      BY <1>1, <2>7 DEF Start, Drain, LoopHead, ClaimNothing, rowVars
    <2> QED
      BY <1>7, <2>1, <2>2, <2>3, <2>4, <2>5, <2>6, <2>7 DEF RelayStep
  <1>8. CASE Tick \/ UNCHANGED vars
    BY <1>1, <1>8 DEF Tick, Elapse, vars, rowVars
  <1> QED
    BY <1>4, <1>6, <1>7, <1>8 DEF Next

\* The outbox with its relays implements PublicationIntent, whatever the
\* number of events, relays and faults and whatever the valid configuration.
THEOREM ImplementsPromise == Spec => ImplementsIntent
  <1>1. Init => Intent!Init
    BY DEF Init, Intent!Init, IntentOf
  <1>2. Inv /\ Inv' /\ [Next]_vars => [Intent!Next]_(Intent!vars)
    BY StepIsIntentStep
  <1> QED
    BY <1>1, <1>2, InvHolds, PTL DEF Spec, ImplementsIntent, Intent!Spec

-----------------------------------------------------------------------------
(* A relay that is never delayed outside the publisher keeps its leases.   *)

INSTANCE FiniteSetTheorems

\* What relay r has claimed and not yet marked.
Batch(r) == {e \in Events : held[r][e] # 0}

\* How long the publications of the rest of the batch last at most: the running one
\* what is left of its timeout, every other one the whole timeout.
TimeLeft(r) == (Cardinality(Batch(r)) - 1) * PublicationTimeout + left[r]

\* A relay carries events only while it works on a batch, and the lease of each
\* outlasts what the batch still takes.
KeepsLease(r) ==
    /\ pc[r] \notin {"publish", "mark"} => Batch(r) = {}
    /\ \A e \in Batch(r) : LeaseIsLive(e, held[r][e]) /\ lease[e] > TimeLeft(r)

BatchesFit == \A r \in Relays : KeepsLease(r)

\* The rows under a live lease stay as they are, but for those that `mine' fences.
LeasedRowsStay(mine) ==
    \A e \in Events : phase[e] = "unpublished" /\ lease[e] > 0 /\ token[e] # mine[e] =>
        phase'[e] = phase[e] /\ token'[e] = token[e] /\ lease'[e] = lease[e]

\* The batch is finite, and its publications take a natural number of ticks.
LEMMA BatchCounts ==
  ASSUME NEW B \in SUBSET Events
  PROVE  /\ IsFiniteSet(B) /\ Cardinality(B) \in Nat
         /\ B # {} => Cardinality(B) - 1 \in Nat
         /\ \A e \in B : Cardinality(B \ {e}) = Cardinality(B) - 1
         /\ PublicationTimeout \in Nat \ {0}
  <1>1. IsFiniteSet(B) /\ Cardinality(B) \in Nat
    BY OutboxAssumption, FS_Subset, FS_CardinalityType
  <1>2. B # {} => Cardinality(B) # 0
    BY <1>1, FS_EmptySet
  <1>3. \A e \in B : Cardinality(B \ {e}) = Cardinality(B) - 1
    BY <1>1, FS_RemoveElement
  <1> QED
    BY <1>1, <1>2, <1>3, OutboxAssumption DEF ConfigValid

\* Products of naturals: what the window of a batch is made of.
LEMMA Windows ==
  ASSUME NEW n \in Nat, NEW m \in Nat, NEW t \in Nat
  PROVE  /\ n * t \in Nat
         /\ (n - 1) * t + t = n * t
         /\ n <= m => n * t <= m * t
  OBVIOUS

\* A relay that does not move keeps its leases while their rows stay.
LEMMA StillKeepsLease ==
  ASSUME Inv, NEW r \in Relays, KeepsLease(r), NEW mine, LeasedRowsStay(mine),
         pc'[r] = pc[r], held'[r] = held[r], left'[r] = left[r],
         \A e \in Batch(r) : held[r][e] # mine[e]
  PROVE  KeepsLease(r)'
  <1>1. Batch(r)' = Batch(r)
    BY Zenon DEF Batch
  <1>2. TimeLeft(r)' = TimeLeft(r)
    BY <1>1, Zenon DEF TimeLeft
  <1>3. ASSUME NEW e \in Batch(r)
        PROVE  LeaseIsLive(e, held[r][e])' /\ lease'[e] = lease[e]
    <2>1. e \in Events /\ LeaseIsLive(e, held[r][e]) /\ token[e] # mine[e]
      BY <1>3, Zenon DEF KeepsLease, Batch, LeaseIsLive
    <2>2. phase'[e] = phase[e] /\ token'[e] = token[e] /\ lease'[e] = lease[e]
      BY <2>1, Zenon DEF LeasedRowsStay, LeaseIsLive
    <2> QED
      BY <2>1, <2>2, Zenon DEF LeaseIsLive
  <1> QED
    BY <1>1, <1>2, <1>3, Zenon DEF KeepsLease

\* The steps in which no relay moves, and no time passes.
LEMMA OthersKeepLeases ==
  ASSUME Inv, BatchesFit, LeasedRowsStay(NothingHeld), UNCHANGED <<pc, held, left>>
  PROVE  BatchesFit'
  <1> SUFFICES ASSUME NEW r \in Relays PROVE KeepsLease(r)'
    BY Zenon DEF BatchesFit
  <1>1. \A e \in Batch(r) : held[r][e] # NothingHeld[e]
    BY Zenon DEF Batch, NothingHeld
  <1>2. pc'[r] = pc[r] /\ held'[r] = held[r] /\ left'[r] = left[r] /\ KeepsLease(r)
    BY Zenon DEF BatchesFit
  <1> QED
    BY <1>1, <1>2, StillKeepsLease, Zenon

\* A relay's step touches no lease of another, whose fences differ from its own.
LEMMA RelayKeepsLeases ==
  ASSUME Inv, BatchesFit, NEW s \in Relays, LeasedRowsStay(held[s]), KeepsLease(s)',
         \A r \in Relays : r # s => pc'[r] = pc[r] /\ held'[r] = held[r] /\ left'[r] = left[r]
  PROVE  BatchesFit'
  <1> SUFFICES ASSUME NEW r \in Relays, r # s PROVE KeepsLease(r)'
    BY Zenon DEF BatchesFit
  <1>1. \A e \in Batch(r) : held[r][e] # held[s][e]
    BY Zenon DEF Inv, FencesAreExclusive, Batch
  <1>2. pc'[r] = pc[r] /\ held'[r] = held[r] /\ left'[r] = left[r] /\ KeepsLease(r)
    BY Zenon DEF BatchesFit
  <1> QED
    BY <1>1, <1>2, StillKeepsLease, Zenon

\* A relay without a batch has no lease to keep.
LEMMA EmptyHanded ==
  ASSUME NEW r \in Relays, \A e \in Events : held'[r][e] = 0
  PROVE  KeepsLease(r)'
  <1>1. Batch(r)' = {}
    BY Zenon DEF Batch
  <1> QED
    BY <1>1, Zenon DEF KeepsLease

\* LeaseRows and the marks pass over live leases that are not the relay's own.
LEMMA LeaseRowsPassOver ==
  ASSUME Inv, NEW B \in SUBSET ClaimableSet, LeaseRows(B), NEW mine
  PROVE  LeasedRowsStay(mine)
  <1>1. \A e \in B : lease[e] = 0
    BY DEF ClaimableSet, Claimable
  <1>2. phase' = phase /\ lease \in [Events -> 0..LeaseDuration]
    BY DEF LeaseRows, Inv, RowFacts, RowType
  <1>3. ASSUME NEW e \in Events, lease[e] > 0
        PROVE  token'[e] = token[e] /\ lease'[e] = lease[e]
    <2>1. e \notin B
      BY <1>1, <1>3
    <2> QED
      BY <2>1 DEF LeaseRows
  <1> QED
    BY <1>2, <1>3, Zenon DEF LeasedRowsStay

LEMMA MarkPassesOver ==
  ASSUME Inv, NEW s \in Relays, current[s] \in Events, MarkStatement(s)
  PROVE  /\ LeasedRowsStay(held[s])
         /\ \A e \in Events : e # current[s] =>
                phase'[e] = phase[e] /\ token'[e] = token[e] /\ lease'[e] = lease[e]
  <1> DEFINE c == current[s]
  <1>1. \A e \in Events : e # c =>
            phase'[e] = phase[e] /\ token'[e] = token[e] /\ lease'[e] = lease[e]
    BY DEF MarkStatement, RecordPublished, RecordFailed, Inv, RowFacts, RowType, rowVars
  <1>2. CASE LeaseIsLive(c, held[s][c])
    BY <1>1, <1>2, Zenon DEF LeaseIsLive, LeasedRowsStay
  <1>3. CASE ~LeaseIsLive(c, held[s][c])
    BY <1>3, Zenon DEF MarkStatement, rowVars, LeasedRowsStay
  <1> QED
    BY <1>1, <1>2, <1>3, Zenon

\* The claim: the lease that OutboxConfig::validate demands covers the whole batch.
LEMMA ClaimKeepsLeases ==
  ASSUME Inv, BatchesFit, NEW s \in Relays, Claim(s)
  PROVE  BatchesFit'
  <1>1. PICK B \in FirstOf(ClaimableSet, ClaimBatch) :
              /\ B # {} /\ LeaseRows(B)
              /\ Proceed(s, [e \in Events |-> IF e \in B THEN nextToken ELSE 0])
    BY Zenon DEF Claim
  <1> DEFINE h == [e \in Events |-> IF e \in B THEN nextToken ELSE 0]
  <1>2. /\ B \in SUBSET ClaimableSet /\ B \in SUBSET Events
        /\ \A e \in B : phase[e] = "unpublished"
    BY <1>1 DEF FirstOf, ClaimableSet, Claimable
  <1>3. /\ ClaimBatch \in Nat /\ LeaseDuration \in Nat
        /\ LeaseDuration >= PublicationTimeout * ClaimBatch + 1
    BY OutboxAssumption DEF ConfigValid
  <1>4. Cardinality(B) <= ClaimBatch /\ Cardinality(B) \in Nat /\ PublicationTimeout \in Nat
    <2>1. ClaimableSet \in SUBSET Events
      BY DEF ClaimableSet
    <2>2. Cardinality(ClaimableSet) \in Nat /\ Cardinality(B) \in Nat /\ PublicationTimeout \in Nat
      BY <1>2, <2>1, BatchCounts, Zenon
    <2>3. Cardinality(B) = IF Cardinality(ClaimableSet) < ClaimBatch
                           THEN Cardinality(ClaimableSet) ELSE ClaimBatch
      BY <1>1, Zenon DEF FirstOf
    <2> QED
      BY <1>3, <2>2, <2>3
  <1>5. LeasedRowsStay(held[s])
    BY <1>1, <1>2, LeaseRowsPassOver, Zenon
  <1>6. nextToken \in Nat \ {0} /\ pc \in [Relays -> PC]
        /\ held \in [Relays -> [Events -> Nat]] /\ left \in [Relays -> 0..PublicationTimeout]
    BY DEF Inv, RowFacts, RowType, RelayType
  <1>7. held'[s] = h
    BY <1>1, <1>6 DEF Proceed
  <1>8. \A r \in Relays : r # s => pc'[r] = pc[r] /\ held'[r] = held[r] /\ left'[r] = left[r]
    BY <1>1, <1>6 DEF Proceed
  <1>9. KeepsLease(s)'
    <2>1. CASE \A e \in Events : h[e] = 0
      BY <1>7, <2>1, EmptyHanded, Zenon
    <2>2. CASE ~\A e \in Events : h[e] = 0
      <3>1. pc'[s] = "publish" /\ left'[s] = PublicationTimeout
        BY <1>1, <1>6, <2>2 DEF Proceed
      <3>2. Batch(s)' = B
        BY <1>2, <1>6, <1>7 DEF Batch
      <3>3. TimeLeft(s)' = Cardinality(B) * PublicationTimeout
        <4> DEFINE n == Cardinality(B)
                   t == PublicationTimeout
        <4>1. TimeLeft(s)' = (n - 1) * t + t
          BY <3>1, <3>2, Zenon DEF TimeLeft
        <4> HIDE DEF n
        <4>2. n \in Nat /\ t \in Nat
          BY <1>4 DEF n
        <4>3. (n - 1) * t + t = n * t
          BY <4>2, Windows
        <4> QED
          BY <4>1, <4>3 DEF n
      <3>4. LeaseDuration > TimeLeft(s)' /\ LeaseDuration > 0
        <4> DEFINE n == Cardinality(B)
                   t == PublicationTimeout
                   b == ClaimBatch
        <4> HIDE DEF n
        <4>1. n \in Nat /\ t \in Nat /\ b \in Nat /\ n <= b
          BY <1>3, <1>4 DEF n
        <4>2. n * t <= b * t /\ n * t \in Nat /\ b * t \in Nat
          BY <4>1, Windows
        <4>3. b * t = t * b
          BY <4>1
        <4> QED
          BY <1>3, <3>3, <4>2, <4>3 DEF n
      <3>5. ASSUME NEW e \in B
            PROVE  LeaseIsLive(e, held[s][e])' /\ lease'[e] = LeaseDuration
        <4>1. token'[e] = nextToken /\ lease'[e] = LeaseDuration /\ phase'[e] = "unpublished"
          BY <1>1, <1>2, <3>5 DEF LeaseRows
        <4>2. held'[s][e] = nextToken
          BY <1>2, <1>7, <3>5
        <4> QED
          BY <3>4, <4>1, <4>2, Zenon DEF LeaseIsLive
      <3> QED
        BY <3>1, <3>2, <3>4, <3>5, Zenon DEF KeepsLease
    <2> QED
      BY <2>1, <2>2
  <1> QED
    BY <1>5, <1>8, <1>9, RelayKeepsLeases, Zenon

\* The mark: one publication is over, and a whole timeout is left for each of the rest.
LEMMA MarkKeepsLeases ==
  ASSUME Inv, BatchesFit, NEW s \in Relays, Mark(s)
  PROVE  BatchesFit'
  <1> DEFINE c == current[s]
             h == [held[s] EXCEPT ![c] = 0]
  <1>1. pc[s] = "mark" /\ MarkStatement(s) /\ Proceed(s, h)
    BY Zenon DEF Mark
  <1>2. c \in Events /\ held[s][c] # 0
    BY <1>1 DEF Inv, RelayInv
  <1>3. /\ pc \in [Relays -> PC] /\ held \in [Relays -> [Events -> Nat]]
        /\ left \in [Relays -> 0..PublicationTimeout] /\ left[s] \in Nat
        /\ held[s] \in [Events -> Nat] /\ PublicationTimeout \in Nat /\ lease \in [Events -> Nat]
    BY OutboxAssumption DEF Inv, RelayType, ConfigValid, RowFacts, RowType
  <1>4. /\ LeasedRowsStay(held[s])
        /\ \A e \in Events : e # c =>
               phase'[e] = phase[e] /\ token'[e] = token[e] /\ lease'[e] = lease[e]
    BY <1>1, <1>2, MarkPassesOver, Zenon
  <1>5. held'[s] = h
    BY <1>1, <1>3 DEF Proceed
  <1>6. \A r \in Relays : r # s => pc'[r] = pc[r] /\ held'[r] = held[r] /\ left'[r] = left[r]
    BY <1>1, <1>3 DEF Proceed
  <1>7. KeepsLease(s)'
    <2>1. CASE \A e \in Events : h[e] = 0
      BY <1>5, <2>1, EmptyHanded, Zenon
    <2>2. CASE ~\A e \in Events : h[e] = 0
      <3>1. pc'[s] = "publish" /\ left'[s] = PublicationTimeout
        BY <1>1, <1>3, <2>2 DEF Proceed
      <3>2. Batch(s)' = Batch(s) \ {c} /\ c \in Batch(s)
        BY <1>2, <1>3, <1>5 DEF Batch
      <3>3. TimeLeft(s)' <= TimeLeft(s)
        <4> DEFINE n == Cardinality(Batch(s))
                   t == PublicationTimeout
        <4>1. Batch(s) \in SUBSET Events /\ Batch(s) # {}
          BY <3>2 DEF Batch
        <4>2. n - 1 \in Nat /\ n \in Nat /\ Cardinality(Batch(s) \ {c}) = n - 1
          BY <3>2, <4>1, BatchCounts, Zenon
        <4>3. TimeLeft(s)' = ((n - 1) - 1) * t + t
          BY <3>1, <3>2, <4>2, Zenon DEF TimeLeft
        <4>4. TimeLeft(s) = (n - 1) * t + left[s]
          BY DEF TimeLeft
        <4> HIDE DEF n
        <4>5. (n - 1) * t \in Nat /\ ((n - 1) - 1) * t + t = (n - 1) * t
          BY <1>3, <4>2, Windows
        <4> QED
          BY <1>3, <4>3, <4>4, <4>5
      <3>4. TimeLeft(s)' \in Int /\ TimeLeft(s) \in Int
        <4>1. Batch(s) \in SUBSET Events /\ Batch(s)' \in SUBSET Events
          BY <3>2 DEF Batch
        <4>2. Cardinality(Batch(s)) \in Nat /\ Cardinality(Batch(s)') \in Nat
          BY <4>1, BatchCounts, Zenon
        <4>3. TimeLeft(s)' = (Cardinality(Batch(s)') - 1) * PublicationTimeout + left'[s]
          BY Zenon DEF TimeLeft
        <4> HIDE DEF TimeLeft
        <4>4. TimeLeft(s) = (Cardinality(Batch(s)) - 1) * PublicationTimeout + left[s]
          BY Zenon DEF TimeLeft
        <4> QED
          BY <1>3, <3>1, <4>2, <4>3, <4>4, SMTT(20)
      <3>5. ASSUME NEW e \in Batch(s) \ {c}
            PROVE  LeaseIsLive(e, held[s][e])' /\ lease'[e] > TimeLeft(s)'
        <4>1. e \in Events /\ LeaseIsLive(e, held[s][e]) /\ lease[e] > TimeLeft(s)
          BY <3>5, Zenon DEF BatchesFit, KeepsLease, Batch
        <4>2. held'[s][e] = held[s][e]
          BY <1>3, <1>5, <3>5, <4>1
        <4>3. phase'[e] = phase[e] /\ token'[e] = token[e] /\ lease'[e] = lease[e]
          BY <1>4, <3>5, <4>1
        <4>4. LeaseIsLive(e, held[s][e])'
          BY <4>1, <4>2, <4>3, Zenon DEF LeaseIsLive
        <4>5. lease[e] \in Nat
          BY <1>3, <4>1
        <4> QED
          BY <3>3, <3>4, <4>1, <4>3, <4>4, <4>5, SMTT(20)
      <3> QED
        BY <3>1, <3>2, <3>5, Zenon DEF KeepsLease
    <2> QED
      BY <2>1, <2>2
  <1> QED
    BY <1>4, <1>6, <1>7, RelayKeepsLeases, Zenon

\* A publication that returns gives up what is left of its timeout.
LEMMA PublishKeepsLeases ==
  ASSUME Inv, BatchesFit, NEW s \in Relays, NEW o, PublishReturns(s, o)
  PROVE  BatchesFit'
  <1>1. /\ pc \in [Relays -> PC] /\ left \in [Relays -> 0..PublicationTimeout] /\ left[s] \in Nat
        /\ lease \in [Events -> Nat] /\ PublicationTimeout \in Nat
    BY OutboxAssumption DEF Inv, RelayType, ConfigValid, RowFacts, RowType
  <1>2. /\ pc'[s] = "mark" /\ left'[s] = 0 /\ held' = held
        /\ phase' = phase /\ token' = token /\ lease' = lease
        /\ \A r \in Relays : r # s => pc'[r] = pc[r] /\ held'[r] = held[r] /\ left'[r] = left[r]
    BY <1>1 DEF PublishReturns, rowVars
  <1>3. LeasedRowsStay(held[s])
    BY <1>2, Zenon DEF LeasedRowsStay
  <1>4. Batch(s)' = Batch(s)
    BY <1>2, Zenon DEF Batch
  <1>5. ASSUME NEW e \in Batch(s)
        PROVE  LeaseIsLive(e, held[s][e])' /\ lease'[e] > TimeLeft(s)'
    <2>1. e \in Events /\ LeaseIsLive(e, held[s][e]) /\ lease[e] > TimeLeft(s)
      BY <1>5, Zenon DEF BatchesFit, KeepsLease, Batch
    <2>2. LeaseIsLive(e, held[s][e])'
      BY <1>2, <2>1, Zenon DEF LeaseIsLive
    <2> DEFINE k == (Cardinality(Batch(s)) - 1) * PublicationTimeout
    <2>3. k \in Int
      <3>1. Batch(s) \in SUBSET Events
        BY DEF Batch
      <3>2. Cardinality(Batch(s)) \in Nat
        BY <3>1, BatchCounts, Zenon
      <3> QED
        BY <1>1, <3>2
    <2>4. TimeLeft(s) = k + left[s] /\ TimeLeft(s)' = k + 0
      BY <1>2, <1>4, Zenon DEF TimeLeft
    <2> HIDE DEF k
    <2>5. lease'[e] > TimeLeft(s)'
      BY <1>1, <1>2, <2>1, <2>3, <2>4, SMTT(20)
    <2> QED
      BY <2>2, <2>5
  <1>6. KeepsLease(s)'
    BY <1>2, <1>4, <1>5, Zenon DEF KeepsLease
  <1> QED
    BY <1>2, <1>3, <1>6, RelayKeepsLeases, Zenon

\* The steps of a relay.
LEMMA RelayStepKeepsLeases ==
  ASSUME Inv, BatchesFit, NEW s \in Relays, RelayStep(s)
  PROVE  BatchesFit'
  <1>1. pc \in [Relays -> PC] /\ held \in [Relays -> [Events -> Nat]]
        /\ left \in [Relays -> 0..PublicationTimeout]
    BY DEF Inv, RelayType
  <1>2. ASSUME UNCHANGED rowVars PROVE LeasedRowsStay(held[s])
    BY <1>2, Zenon DEF LeasedRowsStay, rowVars
  <1>3. ASSUME GoDown(s), LeasedRowsStay(held[s]) PROVE BatchesFit'
    <2>1. \A r \in Relays : r # s => pc'[r] = pc[r] /\ held'[r] = held[r] /\ left'[r] = left[r]
      BY <1>1, <1>3 DEF GoDown
    <2>2. \A e \in Events : held'[s][e] = 0
      BY <1>1, <1>3 DEF GoDown, NothingHeld
    <2> QED
      BY <1>3, <2>1, <2>2, EmptyHanded, RelayKeepsLeases, Zenon
  <1>4. ASSUME NEW p \in PC, pc[s] \in {"down", "top", "claim"}, pc' = [pc EXCEPT ![s] = p],
               UNCHANGED <<rowVars, held, left>>
        PROVE  BatchesFit'
    <2>1. \A r \in Relays : r # s => pc'[r] = pc[r] /\ held'[r] = held[r] /\ left'[r] = left[r]
      BY <1>1, <1>4
    <2>2. pc[s] \notin {"publish", "mark"}
      BY <1>4
    <2>3. Batch(s) = {}
      BY <2>2, Zenon DEF BatchesFit, KeepsLease
    <2>4. \A e \in Events : held'[s][e] = 0
      BY <1>4, <2>3, Zenon DEF Batch
    <2> QED
      BY <1>2, <1>4, <2>1, <2>4, EmptyHanded, RelayKeepsLeases, Zenon
  <1>5. CASE Start(s) \/ ClaimNothing(s) \/ (LoopHead(s) /\ ~draining[s])
    <2>1. /\ pc[s] \in {"down", "top", "claim"} /\ UNCHANGED <<rowVars, held, left>>
          /\ \E p \in PC : pc' = [pc EXCEPT ![s] = p]
      BY <1>5 DEF Start, ClaimNothing, LoopHead, PC
    <2> QED
      BY <1>4, <2>1, Zenon
  <1>6. CASE Drain(s)
    <2>1. UNCHANGED <<pc, held, left>> /\ UNCHANGED rowVars
      BY <1>6, Zenon DEF Drain, relayVars
    <2>2. LeasedRowsStay(NothingHeld)
      BY <2>1, Zenon DEF LeasedRowsStay, rowVars
    <2> QED
      BY <2>1, <2>2, OthersKeepLeases, Zenon
  <1>7. CASE LoopHead(s) /\ draining[s]
    BY <1>2, <1>3, <1>7, Zenon DEF LoopHead
  <1>8. CASE ClaimError(s)
    <2>1. ASSUME NEW B \in FirstOf(ClaimableSet, ClaimBatch), LeaseRows(B)
          PROVE  LeasedRowsStay(held[s])
      <3>1. B \in SUBSET ClaimableSet
        BY DEF FirstOf
      <3> QED
        BY <2>1, <3>1, LeaseRowsPassOver, Zenon
    <2> QED
      BY <1>2, <1>3, <1>8, <2>1, Zenon DEF ClaimError
  <1>9. CASE PublishOk(s) \/ PublishError(s) \/ PublishTimeout(s)
    BY <1>9, PublishKeepsLeases, Zenon DEF PublishOk, PublishError, PublishTimeout
  <1>10. CASE MarkError(s)
    <2>1. current[s] \in Events
      BY <1>10 DEF MarkError, Inv, RelayInv
    <2> QED
      BY <1>2, <1>3, <1>10, <2>1, MarkPassesOver, Zenon DEF MarkError
  <1>11. CASE Crash(s)
    BY <1>2, <1>3, <1>11, Zenon DEF Crash
  <1> QED
    BY <1>5, <1>6, <1>7, <1>8, <1>9, <1>10, <1>11, ClaimKeepsLeases, MarkKeepsLeases, Zenon
    DEF RelayStep

\* Appending and retention touch no row under a live lease.
LEMMA RowStepsKeepLeases ==
  ASSUME Inv, BatchesFit, CleanupRetained \/ \E e \in Events : Append(e)
  PROVE  BatchesFit'
  <1>1. /\ phase \in [Events -> Phase] /\ token \in [Events -> Nat]
        /\ lease \in [Events -> 0..LeaseDuration]
    BY DEF Inv, RowFacts, RowType
  <1>2. CASE CleanupRetained
    <2>1. PICK B \in FirstOf({e \in Events : Cleanable(e)}, CleanupBatch) :
              /\ phase' = [e \in Events |-> IF e \in B THEN "deleted" ELSE phase[e]]
              /\ token' = [e \in Events |-> IF e \in B THEN 0 ELSE token[e]]
      BY <1>2, Zenon DEF CleanupRetained
    <2>2. \A e \in B : token[e] = 0 \/ lease[e] = 0
      BY DEF FirstOf, Cleanable
    <2>3. UNCHANGED <<lease, pc, held, left>>
      BY <1>2, Zenon DEF CleanupRetained, relayVars
    <2>4. LeasedRowsStay(NothingHeld)
      <3> SUFFICES ASSUME NEW e \in Events, lease[e] > 0, token[e] # NothingHeld[e]
                   PROVE  phase'[e] = phase[e] /\ token'[e] = token[e] /\ lease'[e] = lease[e]
        BY Zenon DEF LeasedRowsStay
      <3>1. token[e] # 0
        BY DEF NothingHeld
      <3>2. e \notin B
        BY <1>1, <2>2, <3>1
      <3> QED
        BY <2>1, <2>3, <3>2
    <2> QED
      BY <2>3, <2>4, OthersKeepLeases, Zenon
  <1>3. ASSUME NEW e \in Events, Append(e) PROVE BatchesFit'
    <2>1. UNCHANGED <<token, lease, pc, held, left>>
      BY <1>3, Zenon DEF Append, relayVars
    <2>2. phase[e] = "absent" /\ phase' = [phase EXCEPT ![e] = "unpublished"]
      BY <1>3, Zenon DEF Append
    <2>3. LeasedRowsStay(NothingHeld)
      BY <1>1, <2>1, <2>2 DEF LeasedRowsStay
    <2> QED
      BY <2>1, <2>3, OthersKeepLeases, Zenon
  <1> QED
    BY <1>2, <1>3, Zenon

\* A tick takes as much from the leases of a batch as from its running publication.
LEMMA TickKeepsLeases ==
  ASSUME Inv, BatchesFit, Prompt, Tick
  PROVE  BatchesFit'
  <1>1. /\ left \in [Relays -> 0..PublicationTimeout] /\ lease \in [Events -> Nat]
        /\ PublicationTimeout \in Nat
    BY OutboxAssumption DEF Inv, RelayType, ConfigValid, RowFacts, RowType
  <1>2. UNCHANGED <<phase, token, pc, held>>
    BY Zenon DEF Tick, Elapse
  <1> SUFFICES ASSUME NEW r \in Relays PROVE KeepsLease(r)'
    BY Zenon DEF BatchesFit
  <1>3. Batch(r)' = Batch(r) /\ KeepsLease(r)
    BY <1>2, Zenon DEF Batch, BatchesFit
  <1>4. ASSUME NEW e \in Batch(r)
        PROVE  LeaseIsLive(e, held[r][e])' /\ lease'[e] > TimeLeft(r)'
    <2>1. e \in Events /\ LeaseIsLive(e, held[r][e]) /\ lease[e] > TimeLeft(r)
      BY <1>3, <1>4, Zenon DEF KeepsLease, Batch
    <2>2. pc[r] \in {"publish", "mark"}
      BY <1>3, <1>4, Zenon DEF KeepsLease
    <2>3. left[r] > 0 /\ left[r] \in Nat
      BY <1>1, <2>2 DEF Prompt
    <2>4. left'[r] = left[r] - 1
      BY <2>3 DEF Tick, Elapse
    <2> DEFINE k == (Cardinality(Batch(r)) - 1) * PublicationTimeout
    <2>5. k \in Nat
      <3> DEFINE n == Cardinality(Batch(r)) - 1
      <3>1. Batch(r) \in SUBSET Events /\ Batch(r) # {}
        BY <1>4 DEF Batch
      <3>2. n \in Nat
        BY <3>1, BatchCounts, Zenon
      <3> HIDE DEF n
      <3>3. n * PublicationTimeout \in Nat
        BY <1>1, <3>2, Windows
      <3> QED
        BY <3>3 DEF n
    <2>6. TimeLeft(r) = k + left[r] /\ TimeLeft(r)' = k + left'[r]
      BY <1>3, Zenon DEF TimeLeft
    <2> HIDE DEF k
    <2>7. lease[e] \in Nat /\ lease[e] > 0 /\ lease'[e] = IF lease[e] > 0 THEN lease[e] - 1 ELSE 0
      BY <1>1, <2>1 DEF LeaseIsLive, Tick, Elapse
    <2>8. lease'[e] > TimeLeft(r)' /\ lease'[e] > 0
      BY <2>1, <2>3, <2>4, <2>5, <2>6, <2>7
    <2>9. LeaseIsLive(e, held[r][e])'
      BY <1>2, <2>1, <2>8, Zenon DEF LeaseIsLive
    <2> QED
      BY <2>8, <2>9
  <1> QED
    BY <1>2, <1>3, <1>4, Zenon DEF KeepsLease

\* With a configuration that OutboxConfig::validate accepts, a relay that is never delayed
\* outside the publisher does not lose a lease, however long its batches are, and whatever
\* the other relays, appends, failures and retention do meanwhile.
THEOREM PromptRelaysKeepLeases == MCSpec => []PromptRelayKeepsLease
  <1> DEFINE Fit == ~late => BatchesFit
  <1>1. MCInit => Inv /\ Fit
    <2> SUFFICES ASSUME MCInit PROVE Inv /\ Fit
      OBVIOUS
    <2>1. \A r \in Relays : Batch(r) = {}
      BY Zenon DEF MCInit, Init, NothingHeld, Batch
    <2>2. BatchesFit
      BY <2>1, Zenon DEF BatchesFit, KeepsLease
    <2> QED
      BY <2>2, InitInv, Zenon DEF MCInit
  <1>2. Inv /\ [MCNext]_<<vars, late>> => Inv'
    BY NextInv, Zenon DEF MCNext, Next
  <1>3. Inv /\ Fit /\ [MCNext]_<<vars, late>> => Fit'
    <2> SUFFICES ASSUME Inv, Fit, [MCNext]_<<vars, late>>, ~late' PROVE BatchesFit'
      BY Zenon
    <2>1. CASE UNCHANGED <<vars, late>>
      <3>1. UNCHANGED <<phase, token, lease, pc, held, left>>
        BY <2>1, Zenon DEF vars, rowVars, relayVars
      <3>2. LeasedRowsStay(NothingHeld)
        BY <3>1, Zenon DEF LeasedRowsStay
      <3> QED
        BY <2>1, <3>1, <3>2, OthersKeepLeases, Zenon
    <2>2. CASE Tick /\ late' = (late \/ ~Prompt)
      BY <2>2, TickKeepsLeases, Zenon
    <2>3. CASE /\ \/ \E e \in Events : Append(e)
                  \/ \E r \in Relays : RelayStep(r)
                  \/ CleanupRetained
               /\ UNCHANGED late
      BY <2>3, RowStepsKeepLeases, RelayStepKeepsLeases, Zenon
    <2> QED
      BY <2>1, <2>2, <2>3, Zenon DEF MCNext
  <1>4. Fit => PromptRelayKeepsLease
    BY Zenon DEF BatchesFit, KeepsLease, Batch, PromptRelayKeepsLease
  <1> QED
    BY <1>1, <1>2, <1>3, <1>4, PTL DEF MCSpec

=============================================================================
