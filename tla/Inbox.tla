------------------------------- MODULE Inbox -------------------------------
(***************************************************************************)
(* The transactional inbox (crates/inbox): receipts keyed by producer and   *)
(* event identifier, claimed, resumed, released and completed inside the    *)
(* consumer's own transactions.                                             *)
(*                                                                          *)
(* Headers and payload digest are one value, a body.  A transaction works on *)
(* one key; what it writes is seen by nobody until it commits, because every *)
(* other statement on the key waits for its lock (cleanup skips it).  So an  *)
(* insertion is put in the table at once and removed by a rollback, while a  *)
(* completion or a release is applied by the commit.  Times are kept as      *)
(* distances from now: left is expires_at - now, 0 once expired.  Receipt    *)
(* instants are only compared for equality, so an instant may be used again  *)
(* when neither a receipt nor a claim in hand carries it.                    *)
(***************************************************************************)
EXTENDS Naturals, FiniteSets

CONSTANTS
    Keys,             \* (producer, event_id)
    Bodies,           \* immutable headers and payload digest
    Consumers,
    Instants,         \* values of received_at
    Retention,
    CleanupBatch,
    RedeliveryWindow, \* how long after its first INSERT a key still reaches claim
    MaxFaults,        \* bound on rollbacks and consumer deaths
    NoBody, NoKey, NoOne, NoInstant

ConfigValid ==
    /\ Retention \in Nat \ {0}
    /\ CleanupBatch \in Nat \ {0}
    /\ RedeliveryWindow \in Nat \ {0}
    /\ MaxFaults \in Nat
    /\ NoBody \notin Bodies /\ NoKey \notin Keys
    /\ NoOne \notin Consumers /\ NoInstant \notin Instants

ASSUME InboxAssumption == ConfigValid

VARIABLES
    body, receivedAt, processed, left,   \* inbox_receipts
    lock,       \* the transaction that holds the key
    owner,      \* the consumer that holds the business lease of a detached claim
    window,     \* time for which a delivery of the key may still reach claim
    pc, key, input, claim,               \* a consumer: step, delivery and claim
    inserted,   \* the receipt was inserted by the consumer's open transaction
    effects,    \* how many business effects were committed, per key
    applied,    \* the deliveries whose effect was committed
    forgotten,  \* processed receipts that cleanup removed, per key
    acked,      \* deliveries acknowledged to the broker
    faults

rows == <<body, receivedAt, processed, left>>
session == <<pc, key, input, claim, inserted>>
history == <<effects, applied, forgotten, acked>>
vars == <<rows, lock, owner, window, session, history, faults>>

Steps == {"idle", "conflict", "claimed", "resumed", "detached", "completed", "released"}

\* Steps at which the consumer's transaction holds the row.
Holding == {"claimed", "resumed", "completed", "released"}

Init ==
    /\ body = [k \in Keys |-> NoBody]
    /\ receivedAt = [k \in Keys |-> NoInstant]
    /\ processed = [k \in Keys |-> FALSE]
    /\ left = [k \in Keys |-> 0]
    /\ lock = [k \in Keys |-> NoOne]
    /\ owner = [k \in Keys |-> NoOne]
    /\ window = [k \in Keys |-> RedeliveryWindow]
    /\ pc = [c \in Consumers |-> "idle"]
    /\ key = [c \in Consumers |-> NoKey]
    /\ input = [c \in Consumers |-> NoBody]
    /\ claim = [c \in Consumers |-> NoInstant]
    /\ inserted = [c \in Consumers |-> FALSE]
    /\ effects = [k \in Keys |-> 0]
    /\ applied = {}
    /\ forgotten = [k \in Keys |-> 0]
    /\ acked = {}
    /\ faults = 0

Present(k) == body[k] # NoBody

Unlocked(k) == lock[k] = NoOne

\* The receipt is there for other transactions to see.
Committed(k) == Present(k) /\ \A c \in Consumers : inserted[c] => key[c] # k

-----------------------------------------------------------------------------
\* A consumer's moves.

Enter(c, step, k, b, t, ins) ==
    /\ pc' = [pc EXCEPT ![c] = step]
    /\ key' = [key EXCEPT ![c] = k]
    /\ input' = [input EXCEPT ![c] = b]
    /\ claim' = [claim EXCEPT ![c] = t]
    /\ inserted' = [inserted EXCEPT ![c] = ins]

Leave(c) == Enter(c, "idle", NoKey, NoBody, NoInstant, FALSE)

\* Instants of other receipts and claims for the key are in the past.
FreshInstant(k, t) ==
    \A c \in Consumers : key[c] = k => claim[c] # t

InsertReceipt(k, b, t) ==
    /\ body' = [body EXCEPT ![k] = b]
    /\ receivedAt' = [receivedAt EXCEPT ![k] = t]
    /\ processed' = [processed EXCEPT ![k] = FALSE]
    /\ left' = [left EXCEPT ![k] = Retention]

DeleteReceipts(S) ==
    /\ body' = [k \in Keys |-> IF k \in S THEN NoBody ELSE body[k]]
    /\ receivedAt' = [k \in Keys |-> IF k \in S THEN NoInstant ELSE receivedAt[k]]
    /\ processed' = [k \in Keys |-> IF k \in S THEN FALSE ELSE processed[k]]
    /\ left' = [k \in Keys |-> IF k \in S THEN 0 ELSE left[k]]

\* claim_inner, first statement: the INSERT finds no row and takes the key.
ClaimInserts(c, k, b, t) ==
    /\ pc[c] = "idle" /\ window[k] > 0
    /\ ~Present(k) /\ Unlocked(k) /\ FreshInstant(k, t)
    /\ InsertReceipt(k, b, t)
    /\ lock' = [lock EXCEPT ![k] = c]
    /\ Enter(c, "claimed", k, b, t, TRUE)
    /\ UNCHANGED <<owner, window, history, faults>>

\* ... or it does nothing because of a committed row.  It waits for a
\* transaction that has written the row, not for one that only locked it.
ClaimMeetsRow(c, k, b) ==
    /\ pc[c] = "idle" /\ window[k] > 0
    /\ Committed(k)
    /\ Unlocked(k) \/ \E d \in Consumers : lock[k] = d /\ pc[d] = "resumed"
    /\ Enter(c, "conflict", k, b, NoInstant, FALSE)
    /\ UNCHANGED <<rows, lock, owner, window, history, faults>>

\* Mutated form of Matches: the digest and headers are not compared.
MatchesKeyOnly(k, b) == TRUE

\* The receipt a statement's WHERE clause names by its immutable columns.
Matches(k, b) == body[k] = b

\* claim_inner, second statement: the row is locked and read.  Only a duplicate
\* is acknowledged; a vanished row, a conflict and a claim in progress are not.
ClaimClassifies(c) ==
    LET k == key[c]
        duplicate == Present(k) /\ Matches(k, input[c]) /\ processed[k]
    IN  /\ pc[c] = "conflict" /\ Unlocked(k)
        /\ acked' = IF duplicate THEN acked \cup {<<k, input[c]>>} ELSE acked
        /\ Leave(c)
        /\ UNCHANGED <<rows, lock, owner, window, effects, applied, forgotten, faults>>

\* Mutated form of Resume: an expired receipt cannot be resumed.
ResumeUnexpired(c, k, b) ==
    /\ pc[c] = "idle" /\ owner[k] = c /\ Unlocked(k)
    /\ Present(k) /\ Matches(k, b) /\ ~processed[k] /\ left[k] > 0
    /\ lock' = [lock EXCEPT ![k] = c]
    /\ Enter(c, "resumed", k, b, receivedAt[k], FALSE)
    /\ UNCHANGED <<rows, owner, window, history, faults>>

\* resume_inner, in a transaction that has validated the business lease.
Resume(c, k, b) ==
    /\ pc[c] = "idle" /\ owner[k] = c /\ Unlocked(k)
    /\ Present(k) /\ Matches(k, b) /\ ~processed[k]
    /\ lock' = [lock EXCEPT ![k] = c]
    /\ Enter(c, "resumed", k, b, receivedAt[k], FALSE)
    /\ UNCHANGED <<rows, owner, window, history, faults>>

\* Mutated form of Fenced: AND processed_at IS NULL is dropped.
FencedEvenProcessed(k, b, t) ==
    Present(k) /\ Matches(k, b) /\ receivedAt[k] = t

\* The WHERE clause of the fenced completion and release.
Fenced(k, b, t) ==
    Present(k) /\ Matches(k, b) /\ receivedAt[k] = t /\ ~processed[k]

\* complete_inner after the business effect, in the transaction of the claim
\* or, for a detached claim, in a new one.
Complete(c) ==
    /\ \/ pc[c] \in {"claimed", "resumed"}
       \/ pc[c] = "detached" /\ Unlocked(key[c])
    /\ Fenced(key[c], input[c], claim[c])
    /\ lock' = [lock EXCEPT ![key[c]] = c]
    /\ pc' = [pc EXCEPT ![c] = "completed"]
    /\ UNCHANGED <<rows, owner, window, key, input, claim, inserted, history, faults>>

\* release_inner.
Release(c) ==
    /\ \/ pc[c] \in {"claimed", "resumed"}
       \/ pc[c] = "detached" /\ Unlocked(key[c])
    /\ Fenced(key[c], input[c], claim[c])
    /\ lock' = [lock EXCEPT ![key[c]] = c]
    /\ pc' = [pc EXCEPT ![c] = "released"]
    /\ UNCHANGED <<rows, owner, window, key, input, claim, inserted, history, faults>>

\* Either statement finds no row of its claim: ClaimLost or CorruptData.
ClaimIsLost(c) ==
    /\ pc[c] = "detached" /\ Unlocked(key[c])
    /\ ~Fenced(key[c], input[c], claim[c])
    /\ Leave(c)
    /\ UNCHANGED <<rows, lock, owner, window, history, faults>>

-----------------------------------------------------------------------------
\* The ends of a consumer's transaction.

Unlock(c) == lock' = [lock EXCEPT ![key[c]] = NoOne]

\* The claim is committed with the business lease and no effect yet.
CommitClaim(c) ==
    /\ pc[c] = "claimed"
    /\ Enter(c, "detached", key[c], input[c], claim[c], FALSE)
    /\ Unlock(c)
    /\ owner' = [owner EXCEPT ![key[c]] = c]
    /\ UNCHANGED <<rows, window, history, faults>>

\* Effect and completion are committed together, then the delivery is acked.
CommitCompleted(c) ==
    LET k == key[c]
        d == <<k, input[c]>>
    IN  /\ pc[c] = "completed"
        /\ processed' = [processed EXCEPT ![k] = TRUE]
        /\ effects' = [effects EXCEPT ![k] = @ + 1]
        /\ applied' = applied \cup {d}
        /\ acked' = acked \cup {d}
        /\ owner' = [owner EXCEPT ![k] = NoOne]
        /\ Unlock(c)
        /\ Leave(c)
        /\ UNCHANGED <<body, receivedAt, left, window, forgotten, faults>>

CommitReleased(c) ==
    /\ pc[c] = "released"
    /\ DeleteReceipts({key[c]})
    /\ owner' = [owner EXCEPT ![key[c]] = NoOne]
    /\ Unlock(c)
    /\ Leave(c)
    /\ UNCHANGED <<window, history, faults>>

\* Mutated form of Rollback: the claim was not part of the transaction.
RollbackKeepsReceipt(c) ==
    /\ pc[c] \in Holding /\ faults < MaxFaults
    /\ UNCHANGED rows
    /\ Unlock(c)
    /\ Leave(c)
    /\ faults' = faults + 1
    /\ UNCHANGED <<owner, window, history>>

\* Any error, or the consumer's death, rolls an open transaction back.  An
\* application clock behind the database's makes complete_inner fail like this.
Rollback(c) ==
    /\ pc[c] \in Holding /\ faults < MaxFaults
    /\ IF inserted[c] THEN DeleteReceipts({key[c]}) ELSE UNCHANGED rows
    /\ Unlock(c)
    /\ Leave(c)
    /\ faults' = faults + 1
    /\ UNCHANGED <<owner, window, history>>

\* A consumer dies, or gives its delivery back, with nothing written.
Forget(c) ==
    /\ pc[c] \in {"conflict", "detached"} /\ faults < MaxFaults
    /\ Leave(c)
    /\ faults' = faults + 1
    /\ UNCHANGED <<rows, lock, owner, window, history>>

\* The business lease of an unfinished claim runs out and goes to c.
TakeOver(c, k) ==
    /\ pc[c] = "idle" /\ owner[k] # NoOne /\ owner[k] # c /\ Unlocked(k)
    /\ owner' = [owner EXCEPT ![k] = c]
    /\ UNCHANGED <<rows, lock, window, session, history, faults>>

-----------------------------------------------------------------------------
\* Cleanup and time.

\* Mutated form of Expired: a receipt is dropped one unit early.
ExpiredEarly(k) == Committed(k) /\ processed[k] /\ left[k] <= 1 /\ Unlocked(k)

Expired(k) == Committed(k) /\ processed[k] /\ left[k] = 0 /\ Unlocked(k)

\* One batch of cleanup_expired_with: all expired receipts or as many as fit.
\* It takes the oldest; expired receipts differ in nothing the model keeps.
CleanupExpired ==
    LET due == {k \in Keys : Expired(k)}
    IN  \E S \in SUBSET due :
        /\ S # {} /\ Cardinality(S) <= CleanupBatch
        /\ S = due \/ Cardinality(S) = CleanupBatch
        /\ DeleteReceipts(S)
        /\ forgotten' = [k \in Keys |-> IF k \in S THEN forgotten[k] + 1 ELSE forgotten[k]]
        /\ UNCHANGED <<lock, owner, window, session, effects, applied, acked, faults>>

Seen(k) == window[k] < RedeliveryWindow \/ Present(k)

Elapse ==
    /\ \E k \in Keys : left[k] > 0 \/ (Seen(k) /\ window[k] > 0)
    /\ left' = [k \in Keys |-> IF left[k] > 0 THEN left[k] - 1 ELSE 0]
    /\ window' = [k \in Keys |-> IF Seen(k) /\ window[k] > 0 THEN window[k] - 1 ELSE window[k]]
    /\ UNCHANGED <<body, receivedAt, processed, lock, owner, session, history, faults>>

-----------------------------------------------------------------------------
ConsumerStep(c) ==
    \/ ClaimClassifies(c) \/ Complete(c) \/ Release(c) \/ ClaimIsLost(c)
    \/ CommitClaim(c) \/ CommitCompleted(c) \/ CommitReleased(c)
    \/ Rollback(c) \/ Forget(c)
    \/ \E k \in Keys :
        \/ TakeOver(c, k)
        \/ \E b \in Bodies :
            \/ ClaimMeetsRow(c, k, b)
            \/ Resume(c, k, b)
            \/ \E t \in Instants : ClaimInserts(c, k, b, t)

Next ==
    \/ \E c \in Consumers : ConsumerStep(c)
    \/ CleanupExpired
    \/ Elapse

Spec == Init /\ [][Next]_vars

\* A consumer finishes the transaction it has open and does not give a delivery
\* back for ever, the broker delivers again until the window closes, and the
\* business lease of an unfinished claim always comes to a consumer that resumes
\* it.  Nothing forces time to pass.
FairSpec ==
    /\ Spec
    /\ \A k \in Keys :
        /\ WF_vars(\E c \in Consumers :
               key[c] = k /\ (CommitCompleted(c) \/ CommitReleased(c)))
        /\ SF_vars(\E c \in Consumers : key[c] = k /\ Complete(c))
        /\ SF_vars(\E c \in Consumers :
               key[c] = k /\ (ClaimClassifies(c) \/ ClaimIsLost(c)))
        /\ SF_vars(\E c \in Consumers : TakeOver(c, k))
        /\ SF_vars(\E c \in Consumers, b \in Bodies : Resume(c, k, b))
        /\ SF_vars(\E c \in Consumers, b \in Bodies, t \in Instants :
               ClaimInserts(c, k, b, t))

-----------------------------------------------------------------------------
\* Properties.

\* The receipt table keeps its types, an absent row its defaults, and the lock
\* of a key is held by exactly the consumer whose open transaction wrote it.
TypeOK ==
    /\ body \in [Keys -> Bodies \cup {NoBody}]
    /\ receivedAt \in [Keys -> Instants \cup {NoInstant}]
    /\ processed \in [Keys -> BOOLEAN]
    /\ left \in [Keys -> 0..Retention]
    /\ lock \in [Keys -> Consumers \cup {NoOne}]
    /\ owner \in [Keys -> Consumers \cup {NoOne}]
    /\ window \in [Keys -> 0..RedeliveryWindow]
    /\ pc \in [Consumers -> Steps]
    /\ key \in [Consumers -> Keys \cup {NoKey}]
    /\ input \in [Consumers -> Bodies \cup {NoBody}]
    /\ claim \in [Consumers -> Instants \cup {NoInstant}]
    /\ inserted \in [Consumers -> BOOLEAN]
    /\ effects \in [Keys -> Nat] /\ forgotten \in [Keys -> Nat]
    /\ applied \subseteq Keys \X Bodies /\ acked \subseteq Keys \X Bodies
    /\ faults \in 0..MaxFaults

\* Deduplication: the effects committed for a key are exactly its processed
\* receipts, those that cleanup has removed included.  A redelivery, a rollback,
\* a takeover or a late completion never adds an effect of its own.
EffectsMatchReceipts ==
    \A k \in Keys : effects[k] = forgotten[k] + (IF processed[k] THEN 1 ELSE 0)

\* A delivery is acknowledged, as completed or as a duplicate, only when an
\* effect of that very body has been committed; a changed body under the same
\* key is a conflict and never acknowledged.
AckedWasApplied == acked \subseteq applied

\* A transaction that holds a receipt keeps its claim to the end: until it
\* commits or rolls back, no cleanup, takeover or other consumer can make its
\* completion or release miss the row.
HolderKeepsClaim ==
    \A c \in Consumers : pc[c] \in Holding =>
        lock[key[c]] = c /\ Fenced(key[c], input[c], claim[c])

\* When the last delivery of a key reaches the INSERT of claim within the
\* retention of its receipt, the event's effect is committed at most once.  A
\* consumer that holds a delivery longer before it claims is outside the window.
OneEffectPerEvent == \A k \in Keys : effects[k] <= 1

\* A committed claim is never stuck in progress: it is completed or released,
\* by its consumer or by whoever takes over the business lease.
ClaimsAreSettled ==
    \A k \in Keys :
        (Committed(k) /\ ~processed[k]) ~> (~Present(k) \/ processed[k])

\* A first delivery leads to a committed effect unless the broker gives up.
DeliveredIsProcessed ==
    \A k \in Keys : Seen(k) ~> (effects[k] > 0 \/ window[k] = 0)
=============================================================================
