------------------------------- MODULE Outbox -------------------------------
(***************************************************************************)
(* The PostgreSQL transactional outbox (crates/outbox): rows of            *)
(* outbox_events, the atomic lease claim, the two fenced marks, retention  *)
(* cleanup, and the relay task that drives them under a supervisor.        *)
(*                                                                         *)
(* Every SQL statement is one atomic step: it runs in its own transaction  *)
(* and a row that SKIP LOCKED passes over is a row whose lock holder is    *)
(* ordered first.  The database clock is not a variable.  A timestamp is   *)
(* kept as its distance from now, cut off where no comparison in the code  *)
(* can tell further distances apart, so time never has to be bounded.      *)
(***************************************************************************)
EXTENDS Integers, FiniteSets

CONSTANTS
    Events,              \* identities of the events the business code appends
    Relays,              \* relay processes sharing the table
    ClaimBatch,          \* OutboxConfig::claim_batch
    PublicationTimeout,  \* OutboxConfig::publication_timeout, in ticks
    LeaseDuration,       \* OutboxConfig::lease_duration
    RetryDelay,          \* OutboxConfig::retry_delay
    MaxAttempts,         \* OutboxConfig::max_attempts
    Retention,           \* OutboxConfig::retention
    CleanupBatch,        \* OutboxConfig::cleanup_batch
    MaxFaults,           \* bound: failed publications, database errors, crashes
    NoEvent              \* a relay that is not working on an event

\* OutboxConfig::validate; one tick is the second that it adds to the window.
ConfigValid ==
    /\ ClaimBatch \in Nat \ {0}
    /\ PublicationTimeout \in Nat \ {0}
    /\ LeaseDuration \in Nat
    /\ LeaseDuration >= PublicationTimeout * ClaimBatch + 1
    /\ RetryDelay \in Nat \ {0}
    /\ MaxAttempts \in Nat \ {0}
    /\ Retention \in Nat \ {0}
    /\ CleanupBatch \in Nat \ {0}

ASSUME OutboxAssumption ==
    /\ ConfigValid
    /\ MaxFaults \in Nat
    /\ NoEvent \notin Events
    /\ IsFiniteSet(Events)

VARIABLES
    phase,      \* [Events -> Phase]: absent, unpublished, published or deleted
    stamp,      \* COALESCE(published_at, available_at) - now
    attempts,   \* attempt_count
    token,      \* lease_token, 0 for NULL
    lease,      \* lease_expires_at - now, 0 once expired and for NULL
    nextToken,  \* a number no claim has used as a fence
    pc,         \* where each relay is in run_relay
    draining,   \* TaskContext::is_draining of each relay
    held,       \* the fences of the claimed events a relay has not finished
    current,    \* the event a relay is publishing or marking
    left,       \* what remains of the running publication timeout
    result,     \* outcome of the finished publication
    delivered,  \* events the broker has accepted at least once (history)
    called,     \* the events the publisher was called for (history)
    faults      \* how much of MaxFaults is spent

rowVars   == <<phase, stamp, attempts, token, lease, nextToken>>
relayVars == <<pc, held, current, left, result>>
vars      == <<rowVars, relayVars, draining, delivered, called, faults>>

Phase  == {"absent", "unpublished", "published", "deleted"}
PC     == {"top", "claim", "publish", "mark", "down"}
Oldest == -(Retention + 1)      \* stamps at or beyond the retention horizon

TypeOK ==
    /\ phase \in [Events -> Phase]
    /\ stamp \in [Events -> Int]
    /\ attempts \in [Events -> Nat]
    /\ token \in [Events -> Nat]
    /\ lease \in [Events -> 0..LeaseDuration]
    /\ nextToken \in Nat \ {0}
    /\ pc \in [Relays -> PC]
    /\ draining \in [Relays -> BOOLEAN]
    /\ held \in [Relays -> [Events -> Nat]]
    /\ current \in [Relays -> Events \cup {NoEvent}]
    /\ left \in [Relays -> 0..PublicationTimeout]
    /\ result \in [Relays -> {"none", "ok", "failed"}]
    /\ delivered \in SUBSET Events
    /\ called \subseteq Events
    /\ faults \in 0..MaxFaults

NothingHeld == [e \in Events |-> 0]

Init ==
    /\ phase = [e \in Events |-> "absent"]
    /\ stamp = [e \in Events |-> 0]
    /\ attempts = [e \in Events |-> 0]
    /\ token = [e \in Events |-> 0]
    /\ lease = [e \in Events |-> 0]
    /\ nextToken = 1
    /\ pc = [r \in Relays |-> "down"]
    /\ draining = [r \in Relays |-> FALSE]
    /\ held = [r \in Relays |-> NothingHeld]
    /\ current = [r \in Relays |-> NoEvent]
    /\ left = [r \in Relays |-> 0]
    /\ result = [r \in Relays |-> "none"]
    /\ delivered = {}
    /\ called = {}
    /\ faults = 0

-----------------------------------------------------------------------------
(* The repository: PostgresOutbox.                                         *)

\* append, seen when the caller's transaction commits; a transaction that
\* rolls back leaves no trace.  available_at is now or in the future.
Append(e) ==
    /\ phase[e] = "absent"
    /\ phase' = [phase EXCEPT ![e] = "unpublished"]
    /\ \E delay \in 0..RetryDelay : stamp' = [stamp EXCEPT ![e] = delay]
    /\ UNCHANGED <<attempts, token, lease, nextToken, relayVars, draining,
                   delivered, called, faults>>

\* Mutated form: expired leases are never reclaimed.
ClaimableUnlessLeased(e) ==
    phase[e] = "unpublished" /\ stamp[e] <= 0 /\ attempts[e] < MaxAttempts /\ token[e] = 0

\* The WHERE clause of claim.
Claimable(e) ==
    /\ phase[e] = "unpublished"
    /\ stamp[e] <= 0
    /\ attempts[e] < MaxAttempts
    /\ lease[e] = 0

ClaimableSet == {e \in Events : Claimable(e)}

\* ORDER BY available_at ... LIMIT n: a batch of the first n rows of S.  Ties,
\* which the code breaks by occurred_at and id, may fall either way.
FirstOf(S, n) ==
    {B \in SUBSET S :
        /\ Cardinality(B) = IF Cardinality(S) < n THEN Cardinality(S) ELSE n
        /\ \A e \in B, f \in S \ B : stamp[e] <= stamp[f]}

\* Mutated forms: the fence is not renewed; the lease covers one publication.
LeaseRowsSameFence(B) ==
    /\ token' = [e \in Events |-> IF e \in B THEN nextToken ELSE token[e]]
    /\ lease' = [e \in Events |-> IF e \in B THEN LeaseDuration ELSE lease[e]]
    /\ attempts' = [e \in Events |-> IF e \in B THEN attempts[e] + 1 ELSE attempts[e]]
    /\ UNCHANGED <<phase, stamp, nextToken>>
LeaseRowsForOne(B) ==
    /\ token' = [e \in Events |-> IF e \in B THEN nextToken ELSE token[e]]
    /\ lease' = [e \in Events |-> IF e \in B THEN PublicationTimeout + 1 ELSE lease[e]]
    /\ attempts' = [e \in Events |-> IF e \in B THEN attempts[e] + 1 ELSE attempts[e]]
    /\ nextToken' = nextToken + 1
    /\ UNCHANGED <<phase, stamp>>

\* The UPDATE of claim.  A fence is only ever compared together with the row's
\* id, so one fresh number stands for the distinct UUIDs of the batch.
LeaseRows(B) ==
    /\ token' = [e \in Events |-> IF e \in B THEN nextToken ELSE token[e]]
    /\ lease' = [e \in Events |-> IF e \in B THEN LeaseDuration ELSE lease[e]]
    /\ attempts' = [e \in Events |-> IF e \in B THEN attempts[e] + 1 ELSE attempts[e]]
    /\ nextToken' = nextToken + 1
    /\ UNCHANGED <<phase, stamp>>

\* Mutated form: the mark names the row only.
LeaseNotChecked(e, t) == t # 0

\* The WHERE clause of mark_published and mark_failed.
LeaseIsLive(e, t) ==
    /\ phase[e] = "unpublished"
    /\ token[e] = t
    /\ lease[e] > 0

\* The SET clauses of mark_published ...
RecordPublished(e) ==
    /\ phase' = [phase EXCEPT ![e] = "published"]
    /\ stamp' = [stamp EXCEPT ![e] = 0]
    /\ token' = [token EXCEPT ![e] = 0]
    /\ lease' = [lease EXCEPT ![e] = 0]
    /\ UNCHANGED <<attempts, nextToken>>

\* ... and of mark_failed.
RecordFailed(e) ==
    /\ stamp' = [stamp EXCEPT ![e] = RetryDelay]
    /\ token' = [token EXCEPT ![e] = 0]
    /\ lease' = [lease EXCEPT ![e] = 0]
    /\ UNCHANGED <<phase, attempts, nextToken>>

\* Mutated form: any old row goes.
CleanableByAge(e) ==
    /\ token[e] = 0 \/ lease[e] = 0
    /\ phase[e] \in {"published", "unpublished"} /\ stamp[e] < -Retention

\* The candidates of cleanup_retained.
Cleanable(e) ==
    /\ token[e] = 0 \/ lease[e] = 0
    /\ \/ phase[e] = "published" /\ stamp[e] < -Retention
       \/ phase[e] = "unpublished" /\ attempts[e] >= MaxAttempts /\ stamp[e] < -Retention

CleanupRetained ==
    /\ \E B \in FirstOf({e \in Events : Cleanable(e)}, CleanupBatch) :
        /\ B # {}
        /\ phase' = [e \in Events |-> IF e \in B THEN "deleted" ELSE phase[e]]
        /\ token' = [e \in Events |-> IF e \in B THEN 0 ELSE token[e]]
        /\ stamp' = [e \in Events |-> IF e \in B THEN 0 ELSE stamp[e]]
    /\ UNCHANGED <<attempts, lease, nextToken, relayVars, draining, delivered,
                   called, faults>>

\* The filter of backlog_status for the unpublished rows that are out of attempts.
Exhausted(e) == lease[e] = 0 /\ attempts[e] >= MaxAttempts

-----------------------------------------------------------------------------
(* The relay task: run_relay under its supervisor.                         *)

\* Takes the next event of the claimed batch h, or returns to the loop head.
Proceed(r, h) ==
    /\ held' = [held EXCEPT ![r] = h]
    /\ result' = [result EXCEPT ![r] = "none"]
    /\ \/ \E e \in Events :
            /\ h[e] # 0
            /\ pc' = [pc EXCEPT ![r] = "publish"]
            /\ current' = [current EXCEPT ![r] = e]
            /\ left' = [left EXCEPT ![r] = PublicationTimeout]
            /\ called' = called \cup {e}
       \/ /\ \A e \in Events : h[e] = 0
          /\ pc' = [pc EXCEPT ![r] = "top"]
          /\ current' = [current EXCEPT ![r] = NoEvent]
          /\ left' = [left EXCEPT ![r] = 0]
          /\ UNCHANGED called

\* The task's future is gone: it returned, failed, panicked or was aborted.
GoDown(r) ==
    /\ pc' = [pc EXCEPT ![r] = "down"]
    /\ held' = [held EXCEPT ![r] = NothingHeld]
    /\ current' = [current EXCEPT ![r] = NoEvent]
    /\ left' = [left EXCEPT ![r] = 0]
    /\ result' = [result EXCEPT ![r] = "none"]
    /\ UNCHANGED called

SpendFault == faults < MaxFaults /\ faults' = faults + 1

\* The supervisor, or a new process, starts the task.
Start(r) ==
    /\ pc[r] = "down"
    /\ pc' = [pc EXCEPT ![r] = "top"]
    /\ draining' = [draining EXCEPT ![r] = FALSE]
    /\ UNCHANGED <<rowVars, held, current, left, result, delivered, called, faults>>

\* The process is asked to drain; the relay only looks at the loop head.
Drain(r) ==
    /\ pc[r] # "down" /\ ~draining[r]
    /\ draining' = [draining EXCEPT ![r] = TRUE]
    /\ UNCHANGED <<rowVars, relayVars, delivered, called, faults>>

\* Loop head: return when draining, otherwise go on to claim.
LoopHead(r) ==
    /\ pc[r] = "top"
    /\ IF draining[r]
         THEN GoDown(r)
         ELSE /\ pc' = [pc EXCEPT ![r] = "claim"]
              /\ UNCHANGED <<held, current, left, result, called>>
    /\ UNCHANGED <<rowVars, draining, delivered, faults>>

\* claim() returned no rows: sleep for the poll interval and loop.
ClaimNothing(r) ==
    /\ pc[r] = "claim" /\ ClaimableSet = {}
    /\ pc' = [pc EXCEPT ![r] = "top"]
    /\ UNCHANGED <<rowVars, held, current, left, result, draining, delivered, called, faults>>

Claim(r) ==
    /\ pc[r] = "claim"
    /\ \E B \in FirstOf(ClaimableSet, ClaimBatch) :
        /\ B # {}
        /\ LeaseRows(B)
        /\ Proceed(r, [e \in Events |-> IF e \in B THEN nextToken ELSE 0])
    /\ UNCHANGED <<draining, delivered, faults>>

\* claim() failed, before its statement committed or after (a lost connection,
\* or one row of the batch that decode_claimed rejects): the relay fails and
\* rows it leased stay leased.
ClaimError(r) ==
    /\ pc[r] = "claim"
    /\ \/ UNCHANGED rowVars
       \/ \E B \in FirstOf(ClaimableSet, ClaimBatch) : B # {} /\ LeaseRows(B)
    /\ GoDown(r)
    /\ SpendFault
    /\ UNCHANGED <<draining, delivered>>

\* The broker may have accepted an event whatever the publisher reports.
MayBeDelivered(r) ==
    delivered' \in {delivered, delivered \cup ({current[r]} \cap Events)}

PublishReturns(r, outcome) ==
    /\ pc[r] = "publish"
    /\ pc' = [pc EXCEPT ![r] = "mark"]
    /\ result' = [result EXCEPT ![r] = outcome]
    /\ left' = [left EXCEPT ![r] = 0]
    /\ UNCHANGED <<rowVars, held, current, draining, called>>

PublishOk(r) ==
    /\ PublishReturns(r, "ok")
    /\ delivered' = delivered \cup {current[r]}
    /\ UNCHANGED faults

PublishError(r) ==
    /\ PublishReturns(r, "failed")
    /\ MayBeDelivered(r)
    /\ SpendFault

\* Mutated form: a timeout is taken for success.
PublishTimeoutAsOk(r) ==
    /\ left[r] = 0
    /\ PublishReturns(r, "ok")
    /\ MayBeDelivered(r)
    /\ SpendFault

PublishTimeout(r) ==
    /\ left[r] = 0
    /\ PublishReturns(r, "failed")
    /\ MayBeDelivered(r)
    /\ SpendFault

\* mark_published or mark_failed as the outcome demands; a lost lease is only
\* counted.  Afterwards the relay turns to the rest of its batch.
MarkStatement(r) ==
    LET e == current[r] IN
    IF LeaseIsLive(e, held[r][e])
      THEN IF result[r] = "ok" THEN RecordPublished(e) ELSE RecordFailed(e)
      ELSE UNCHANGED rowVars

Mark(r) ==
    /\ pc[r] = "mark"
    /\ MarkStatement(r)
    /\ Proceed(r, [held[r] EXCEPT ![current[r]] = 0])
    /\ UNCHANGED <<draining, delivered, faults>>

\* The mark failed in the database, before or after it took effect: run_relay
\* returns and abandons the rest of its batch.
MarkError(r) ==
    /\ pc[r] = "mark"
    /\ MarkStatement(r) \/ UNCHANGED rowVars
    /\ GoDown(r)
    /\ SpendFault
    /\ UNCHANGED <<draining, delivered>>

\* The process dies, or the supervisor aborts the task after its shutdown
\* timeout.
Crash(r) ==
    /\ pc[r] # "down"
    /\ IF pc[r] = "publish" THEN MayBeDelivered(r) ELSE UNCHANGED delivered
    /\ GoDown(r)
    /\ SpendFault
    /\ UNCHANGED <<rowVars, draining>>

\* Time passes by one tick.
Elapse ==
    /\ stamp' = [e \in Events |-> IF phase[e] \in {"unpublished", "published"} /\ stamp[e] > Oldest
                                    THEN stamp[e] - 1 ELSE stamp[e]]
    /\ lease' = [e \in Events |-> IF lease[e] > 0 THEN lease[e] - 1 ELSE 0]
    /\ left' = [r \in Relays |-> IF left[r] > 0 THEN left[r] - 1 ELSE 0]
    /\ UNCHANGED <<phase, attempts, token, nextToken, pc, held, current, result,
                   draining, delivered, called, faults>>

Tick == Elapse

RelayStep(r) ==
    \/ Start(r) \/ Drain(r) \/ LoopHead(r) \/ ClaimNothing(r)
    \/ Claim(r) \/ ClaimError(r)
    \/ PublishOk(r) \/ PublishError(r) \/ PublishTimeout(r)
    \/ Mark(r) \/ MarkError(r) \/ Crash(r)

Next ==
    \/ \E e \in Events : Append(e)
    \/ \E r \in Relays : RelayStep(r)
    \/ CleanupRetained
    \/ Tick

Spec == Init /\ [][Next]_vars

-----------------------------------------------------------------------------
(* Time and scheduling assumptions.                                        *)

\* Time passes for a prompt relay only while a publication is running.
Prompt ==
    /\ \A r \in Relays : pc[r] = "publish" => left[r] > 0
    /\ \A r \in Relays : pc[r] # "mark"

\* The supervisor restarts a relay, a running relay is scheduled, a publisher
\* call that is not one of the faults returns, and time goes on.  Rolling
\* restarts may drain a relay before it claims, but not every time.
Fairness ==
    /\ WF_vars(Tick)
    /\ \A r \in Relays :
        /\ WF_vars(Start(r)) /\ WF_vars(LoopHead(r))
        /\ SF_vars(LoopHead(r) /\ ~draining[r])
        /\ WF_vars(ClaimNothing(r) \/ Claim(r))
        /\ WF_vars(PublishOk(r))
        /\ WF_vars(Mark(r))

FairSpec == Spec /\ Fairness

-----------------------------------------------------------------------------
(* Properties.                                                             *)

\* No two relays ever carry the same fence for a row, so at most one relay can
\* complete it: claim hands out a fresh fence although an expired holder is
\* still at work.
FencesAreExclusive ==
    \A r, s \in Relays, e \in Events :
        r # s /\ held[r][e] # 0 => held[r][e] # held[s][e]

\* A row says published_at only after the broker accepted the event, however
\* timeouts, late marks of expired leases and crashes interleave.
PublishedWasDelivered ==
    \A e \in Events : phase[e] = "published" => e \in delivered

\* cleanup_retained never removes an event that was neither delivered nor out
\* of attempts, and no relay with a live lease finds its row gone.
CleanupLosesNothing ==
    \A e \in Events : phase[e] = "deleted" =>
        /\ e \in delivered \/ attempts[e] = MaxAttempts
        /\ lease[e] = 0

\* A published row is never leased, re-published or reopened by a relay that
\* comes late, and a deleted row never returns.
SettledIsFinal ==
    [][\A e \in Events :
        /\ phase[e] = "published" => /\ phase'[e] \in {"published", "deleted"}
                                     /\ attempts'[e] = attempts[e]
                                     /\ stamp'[e] <= stamp[e] \/ phase'[e] = "deleted"
        /\ phase[e] = "deleted" => phase'[e] = "deleted"]_vars

\* How a row reads as an intent.
IntentOf(e) ==
    CASE phase[e] = "unpublished" -> "pending"
      [] phase[e] = "deleted" -> "gone"
      [] OTHER -> phase[e]

Intent == INSTANCE PublicationIntent WITH
    MaxTries <- MaxAttempts,
    intent <- [e \in Events |-> IntentOf(e)],
    tries <- attempts,
    seen <- delivered

\* The outbox implements its abstract promise: rows, leases, relays, faults and
\* cleanup together do nothing that PublicationIntent does not allow.
ImplementsIntent == Intent!Spec

\* At least once: when fewer than max_attempts things go wrong, every appended
\* event reaches the broker.  From some time on whatever was appended has done so:
\* there are finitely many events, and none is appended twice or leaves the broker.
EveryEventIsDelivered ==
    <>[](\A e \in Events : phase[e] # "absent" => e \in delivered)

\* "calls an application-supplied publisher at least once": an event that has
\* no attempts left was handed to the publisher.
ExhaustedWasTried ==
    \A e \in Events : phase[e] = "unpublished" /\ Exhausted(e) => e \in called
=============================================================================
