---------------------------- MODULE Idempotency ----------------------------
(***************************************************************************)
(* Idempotent requests (crates/idempotency) as the handlers of the code use  *)
(* the store: claim_with, the business effect and complete_with on one        *)
(* connection, then one COMMIT (create_reference_record).  A handler may also *)
(* commit its claim first and complete it in a second transaction; the store  *)
(* permits that and has no owner token.                                       *)
(*                                                                           *)
(* A fingerprint stands for the request, and a response for the ordinal of    *)
(* the effect that produced it.  The row lock hides a transaction's writes    *)
(* from every other statement on the key, so they are applied by the commit.  *)
(* Times are distances from now: left is expires_at - now, 0 once expired.    *)
(***************************************************************************)
EXTENDS Naturals

CONSTANTS
    Keys,          \* (principal, tenant, operation, idempotency key)
    Prints,        \* request fingerprints
    Handlers,
    Ttl,
    MaxEffects,    \* bound: a key is claimed only while it has fewer effects
    MaxFaults,     \* bound on rollbacks, deaths and commits of unknown outcome
    NoKey, NoPrint, NoOne

ConfigValid ==
    /\ Ttl \in Nat \ {0}
    /\ MaxEffects \in Nat /\ MaxFaults \in Nat
    /\ NoKey \notin Keys /\ NoPrint \notin Prints /\ NoOne \notin Handlers

ASSUME IdempotencyAssumption == ConfigValid

VARIABLES
    status, hash, response, left,  \* idempotency_records
    lock,       \* the handler whose transaction holds the key
    pc, key, print,
    span,       \* what is left of the claim in the open transaction
    effects,    \* committed effects per key
    replaced,   \* completed records overwritten after their expiry, per key
    applied,    \* <<key, fingerprint, response>> of every committed effect
    answers,    \* <<key, fingerprint, response>> returned to a client
    faults

records == <<status, hash, response, left>>
session == <<pc, key, print, span>>
history == <<effects, replaced, applied, answers>>
vars == <<records, lock, session, history, faults>>

Init ==
    /\ status = [k \in Keys |-> "absent"]
    /\ hash = [k \in Keys |-> NoPrint]
    /\ response = [k \in Keys |-> 0]
    /\ left = [k \in Keys |-> 0]
    /\ lock = [k \in Keys |-> NoOne]
    /\ pc = [h \in Handlers |-> "idle"]
    /\ key = [h \in Handlers |-> NoKey]
    /\ print = [h \in Handlers |-> NoPrint]
    /\ span = [h \in Handlers |-> 0]
    /\ effects = [k \in Keys |-> 0]
    /\ replaced = [k \in Keys |-> 0]
    /\ applied = {}
    /\ answers = {}
    /\ faults = 0

Unlocked(k) == lock[k] = NoOne

Enter(h, step, k, p, s) ==
    /\ pc' = [pc EXCEPT ![h] = step]
    /\ key' = [key EXCEPT ![h] = k]
    /\ print' = [print EXCEPT ![h] = p]
    /\ span' = [span EXCEPT ![h] = s]

Leave(h) == Enter(h, "idle", NoKey, NoPrint, 0)

LockKey(h, k) == lock' = [lock EXCEPT ![k] = h]

Unlock(h) == lock' = [lock EXCEPT ![key[h]] = NoOne]

SpendFault ==
    /\ faults < MaxFaults
    /\ faults' = faults + 1

-----------------------------------------------------------------------------
\* claim_inner: the INSERT takes an unused key; it waits for a transaction that
\* holds the key, so it never meets an uncommitted record.
ClaimInserts(h, k, p) ==
    /\ pc[h] = "idle" /\ status[k] = "absent" /\ Unlocked(k)
    /\ LockKey(h, k)
    /\ Enter(h, "started", k, p, Ttl)
    /\ UNCHANGED <<records, history, faults>>

ClaimMeetsRecord(h, k, p) ==
    /\ pc[h] = "idle" /\ status[k] # "absent" /\ Unlocked(k)
    /\ effects[k] < MaxEffects
    /\ Enter(h, "conflict", k, p, 0)
    /\ UNCHANGED <<records, lock, history, faults>>

Expired(k) == left[k] = 0

\* Mutated form of ClaimReclaims: only completed records are claimed anew.
ClaimReclaimsCompleted(h) ==
    /\ pc[h] = "conflict" /\ Unlocked(key[h]) /\ Expired(key[h])
    /\ status[key[h]] = "completed"
    /\ LockKey(h, key[h])
    /\ Enter(h, "started", key[h], print[h], Ttl)
    /\ UNCHANGED <<records, history, faults>>

\* claim_inner after lock_record: an expired record is claimed anew ...
ClaimReclaims(h) ==
    /\ pc[h] = "conflict" /\ Unlocked(key[h]) /\ Expired(key[h])
    /\ LockKey(h, key[h])
    /\ Enter(h, "started", key[h], print[h], Ttl)
    /\ UNCHANGED <<records, history, faults>>

\* Mutated form of SameRequest: the stored fingerprint is not compared.
AnyRequest(k, p) == TRUE

SameRequest(k, p) == hash[k] = p

\* ... a completed one is replayed to the same request ...
ClaimReplays(h) ==
    LET k == key[h]
    IN  /\ pc[h] = "conflict" /\ Unlocked(k) /\ ~Expired(k)
        /\ SameRequest(k, print[h]) /\ status[k] = "completed"
        /\ answers' = answers \cup {<<k, print[h], response[k]>>}
        /\ Leave(h)
        /\ UNCHANGED <<records, lock, effects, replaced, applied, faults>>

\* ... and a different request, or one still in progress, is refused.
ClaimRefuses(h) ==
    LET k == key[h]
    IN  /\ pc[h] = "conflict" /\ Unlocked(k) /\ ~Expired(k)
        /\ ~SameRequest(k, print[h]) \/ status[k] = "in_progress"
        /\ Leave(h)
        /\ UNCHANGED <<records, lock, history, faults>>

\* Mutated form of Completable: AND status = 'in_progress' is dropped.
CompletableTwice(h) ==
    LET k == key[h]
    IN  \/ pc[h] = "started" /\ span[h] > 0
        \/ pc[h] = "detached" /\ Unlocked(k) /\ SameRequest(k, print[h]) /\ ~Expired(k)

\* The claim a transaction completes: the one it made itself, or for a detached
\* claim the record as it stands, matched by fingerprint, state and expiry only.
Completable(h) ==
    LET k == key[h]
    IN  \/ pc[h] = "started" /\ span[h] > 0
        \/ /\ pc[h] = "detached" /\ Unlocked(k)
           /\ SameRequest(k, print[h]) /\ status[k] = "in_progress" /\ ~Expired(k)

\* The business effect and complete_inner, in the transaction of the claim
\* (completed) or in a later one (settled).
Complete(h) ==
    /\ Completable(h)
    /\ LockKey(h, key[h])
    /\ IF pc[h] = "started"
       THEN Enter(h, "completed", key[h], print[h], span[h])
       ELSE Enter(h, "settled", key[h], print[h], left[key[h]])
    /\ UNCHANGED <<records, history, faults>>

\* complete_inner finds no such claim: ClaimExpired, ClaimLost or Conflict, and
\* the handler rolls its transaction back.
CompleteRefused(h) ==
    /\ \/ pc[h] = "started" /\ span[h] = 0 /\ Unlock(h)
       \/ pc[h] = "detached" /\ Unlocked(key[h]) /\ ~Completable(h) /\ UNCHANGED lock
    /\ Leave(h)
    /\ UNCHANGED <<records, history, faults>>

-----------------------------------------------------------------------------
\* The ends of a handler's transaction.

WriteRecord(k, s, p, r, t) ==
    /\ status' = [status EXCEPT ![k] = s]
    /\ hash' = [hash EXCEPT ![k] = p]
    /\ response' = [response EXCEPT ![k] = r]
    /\ left' = [left EXCEPT ![k] = t]

\* A transaction with a claim of its own replaces the record it found.
ReplaceRecord(h) ==
    LET k == key[h]
    IN  replaced' = IF pc[h] \in {"started", "completed"} /\ status[k] = "completed"
                    THEN [replaced EXCEPT ![k] = @ + 1]
                    ELSE replaced

CommitClaim(h) ==
    /\ pc[h] = "started"
    /\ WriteRecord(key[h], "in_progress", print[h], 0, span[h])
    /\ ReplaceRecord(h)
    /\ Unlock(h)
    /\ Enter(h, "detached", key[h], print[h], 0)
    /\ UNCHANGED <<effects, applied, answers, faults>>

\* Effect and response become visible together.  The client may not learn of it.
CommitCompleted(h) ==
    LET k == key[h]
        r == effects[k] + 1
    IN  /\ pc[h] \in {"completed", "settled"}
        /\ WriteRecord(k, "completed", print[h], r, span[h])
        /\ ReplaceRecord(h)
        /\ effects' = [effects EXCEPT ![k] = r]
        /\ applied' = applied \cup {<<k, print[h], r>>}
        /\ \/ answers' = answers \cup {<<k, print[h], r>>} /\ UNCHANGED faults
           \/ answers' = answers /\ SpendFault
        /\ Unlock(h)
        /\ Leave(h)

Rollback(h) ==
    /\ pc[h] \in {"started", "completed", "settled"} /\ SpendFault
    /\ Unlock(h)
    /\ Leave(h)
    /\ UNCHANGED <<records, history>>

Forget(h) ==
    /\ pc[h] \in {"conflict", "detached"} /\ SpendFault
    /\ Leave(h)
    /\ UNCHANGED <<records, lock, history>>

Older(n) == IF n > 0 THEN n - 1 ELSE 0

Elapse ==
    /\ left' = [k \in Keys |-> Older(left[k])]
    /\ span' = [h \in Handlers |-> Older(span[h])]
    /\ <<left', span'>> # <<left, span>>
    /\ UNCHANGED <<status, hash, response, lock, pc, key, print, history, faults>>

HandlerStep(h) ==
    \/ ClaimReclaims(h) \/ ClaimReplays(h) \/ ClaimRefuses(h)
    \/ Complete(h) \/ CompleteRefused(h)
    \/ CommitClaim(h) \/ CommitCompleted(h)
    \/ Rollback(h) \/ Forget(h)
    \/ \E k \in Keys, p \in Prints : ClaimInserts(h, k, p) \/ ClaimMeetsRecord(h, k, p)

Next ==
    \/ \E h \in Handlers : HandlerStep(h)
    \/ Elapse

Spec == Init /\ [][Next]_vars

\* Clients repeat a request until it is answered, handlers go on with what they
\* have begun, a handler does not lose its claim to the clock for ever, and time
\* passes.
FairSpec ==
    /\ Spec
    /\ WF_vars(Elapse)
    /\ \A k \in Keys :
        /\ WF_vars(\E h \in Handlers : key[h] = k /\ CommitCompleted(h))
        /\ SF_vars(\E h \in Handlers : key[h] = k /\ Complete(h))
        /\ SF_vars(\E h \in Handlers :
               key[h] = k /\ (ClaimReclaims(h) \/ ClaimReplays(h) \/ ClaimRefuses(h) \/ CompleteRefused(h)))
        /\ SF_vars(\E h \in Handlers, p \in Prints : ClaimInserts(h, k, p) \/ ClaimMeetsRecord(h, k, p))

-----------------------------------------------------------------------------
\* Properties.

\* Records and handlers keep their types, as the table's CHECKs and the claim
\* protocol say.
TypeOK ==
    /\ status \in [Keys -> {"absent", "in_progress", "completed"}]
    /\ hash \in [Keys -> Prints \cup {NoPrint}]
    /\ response \in [Keys -> Nat] /\ left \in [Keys -> 0..Ttl]
    /\ lock \in [Keys -> Handlers \cup {NoOne}]
    /\ pc \in [Handlers -> {"idle", "conflict", "started", "detached", "completed", "settled"}]
    /\ key \in [Handlers -> Keys \cup {NoKey}]
    /\ print \in [Handlers -> Prints \cup {NoPrint}]
    /\ span \in [Handlers -> 0..Ttl]
    /\ effects \in [Keys -> Nat] /\ replaced \in [Keys -> Nat]
    /\ applied \subseteq Keys \X Prints \X Nat /\ answers \subseteq Keys \X Prints \X Nat
    /\ faults \in 0..MaxFaults

\* Every effect of a key belongs to one completed record, the current one or one
\* that a claim replaced after its expiry: retries, rollbacks, reclaims and
\* late completions by a handler whose claim was reclaimed add none.
OneEffectPerRecord ==
    \A k \in Keys : effects[k] = replaced[k] + (IF status[k] = "completed" THEN 1 ELSE 0)

\* A client is only ever given the response of a committed effect of its own
\* request, also when the commit's outcome was unknown and it asked again.
AnswersAreEffects == answers \subseteq applied

\* Every key comes to give an answer, to some request made under it: a handler that
\* died with a committed claim blocks the key only until the claim expires.  Of two
\* requests that differ under one key the other is refused while the record lives.
EveryKeyIsAnswered == \A k \in Keys : <>(\E a \in answers : a[1] = k)
=============================================================================
