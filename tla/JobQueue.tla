------------------------------- MODULE JobQueue -------------------------------
(***************************************************************************)
(* The PGMQ job provider (crates/jobs-pgmq): one typed queue with its     *)
(* archive, its dead-letter queue and its control row, the workers that   *)
(* lease and settle messages, and the operators that pause and replay.    *)
(*                                                                         *)
(* A job has at most one source message at a time; `message' numbers the  *)
(* messages PGMQ allocated for it.  Dead, archived and removed records    *)
(* are counted, so that a record written twice is seen.  Times are kept   *)
(* as the time left, 0 once past.  A source read holds the control row    *)
(* FOR SHARE between its two steps.  A settlement begins on the client's  *)
(* clock and takes effect in the database at some later time.             *)
(***************************************************************************)
EXTENDS Integers

CONSTANTS Job,           \* enqueued jobs
          Worker,        \* worker loops, one attempt at a time
          None,
          MaxAttempts,   \* POLICY.max_attempts
          Timeout,       \* POLICY.timeout
          Grace,         \* lease_grace
          RetryDelay,    \* the longest backoff
          MaxReads,      \* bound: deliveries of one message
          MaxMessages,   \* bound: messages of one job
          MaxRevision,   \* bound: changes of the control row
          MaxFaults      \* bound: failures of workers and database

ASSUME JobQueueAssumption ==
    /\ None \notin Job
    /\ MaxAttempts \in Nat \ {0} /\ Timeout \in Nat \ {0} /\ Grace \in Nat \ {0}
    /\ RetryDelay \in Nat \ {0} /\ MaxReads \in Nat /\ MaxMessages \in Nat
    /\ MaxRevision \in Nat /\ MaxFaults \in Nat

VARIABLES source,              \* the jobs with a row in the source queue
          message, reads, vt,  \* its msg_id, read_ct and visibility
          dead, archived,      \* records in the dead queue and in the archive
          removed,             \* records deleted by retention
          paused, revision,    \* the control row
          corrupt,             \* the jobs whose stored envelope does not decode
          sharers,             \* the workers that hold it FOR SHARE
          worker,              \* what each worker is doing
          attempts,            \* history: attempts handed to the handler
          faults

queue == <<source, message, reads, vt>>
records == <<dead, archived, removed>>
control == <<paused, revision, corrupt>>
vars == <<queue, records, control, sharers, worker, attempts, faults>>

Idle == [pc |-> "idle", job |-> None, message |-> 0, reads |-> 0,
         deadline |-> 0, budget |-> 0, settle |-> "none"]

Init ==
    /\ source = {}
    /\ message = [j \in Job |-> 0] /\ reads = [j \in Job |-> 0] /\ vt = [j \in Job |-> 0]
    /\ dead = [j \in Job |-> 0] /\ archived = [j \in Job |-> 0]
    /\ removed = [j \in Job |-> 0]
    /\ paused = FALSE /\ revision = 0 /\ corrupt \in SUBSET Job
    /\ sharers = {}
    /\ worker = [w \in Worker |-> Idle]
    /\ attempts = [j \in Job |-> {}]
    /\ faults = 0

SpendFault == faults < MaxFaults /\ faults' = faults + 1

\* pgmq.send: a fresh message identifier, never read.
Send(j, delay) ==
    /\ source' = source \cup {j}
    /\ message' = [message EXCEPT ![j] = @ + 1]
    /\ reads' = [reads EXCEPT ![j] = 0]
    /\ vt' = [vt EXCEPT ![j] = delay]

\* enqueue, or enqueue_with once the caller's transaction commits.  A member of Job is
\* one successful call, not a job_id: the provider accepts the same job_id twice, and
\* the two messages are two jobs here.
Enqueue(j, delay) ==
    /\ message[j] = 0
    /\ Send(j, delay)
    /\ UNCHANGED <<records, control, sharers, worker, attempts, faults>>

-----------------------------------------------------------------------------
(* Operators.                                                              *)

\* A pause that does not wait for source reads under way.
SetPausedAtOnce(p) ==
    /\ revision < MaxRevision
    /\ paused' = p /\ revision' = revision + 1
    /\ UNCHANGED <<queue, records, corrupt, sharers, worker, attempts, faults>>

\* FOR UPDATE of the control row waits for every source read under way; a stale
\* revision changes nothing.
SetPaused(p) ==
    /\ revision < MaxRevision /\ sharers = {}
    /\ paused' = p /\ revision' = revision + 1
    /\ UNCHANGED <<queue, records, corrupt, sharers, worker, attempts, faults>>

\* A replay that leaves the dead record in place.
ReplayKeepingRecord(j) ==
    /\ paused /\ sharers = {} /\ dead[j] > 0 /\ j \notin corrupt
    /\ message[j] < MaxMessages
    /\ Send(j, 0)
    /\ UNCHANGED <<records, control, sharers, worker, attempts, faults>>

\* The stored envelope goes back under a new message identifier, and the dead record
\* is deleted; an envelope that does not decode is refused.
ReplayDead(j) ==
    /\ paused /\ sharers = {} /\ dead[j] > 0 /\ j \notin corrupt
    /\ message[j] < MaxMessages
    /\ Send(j, 0)
    /\ dead' = [dead EXCEPT ![j] = @ - 1]
    /\ UNCHANGED <<archived, removed, control, sharers, worker, attempts, faults>>

\* Retention deletes old archives and old dead records, in either order.
Cleanup(j) ==
    /\ \/ /\ archived[j] > 0
          /\ archived' = [archived EXCEPT ![j] = @ - 1] /\ UNCHANGED dead
       \/ /\ dead[j] > 0
          /\ dead' = [dead EXCEPT ![j] = @ - 1] /\ UNCHANGED archived
    /\ removed' = [removed EXCEPT ![j] = @ + 1]
    /\ UNCHANGED <<queue, control, sharers, worker, attempts, faults>>

-----------------------------------------------------------------------------
(* A worker: lease, attempt, settle.                                       *)

\* lease_seconds: one second beyond the storage deadline.
LeaseSeconds == Timeout + Grace + 1

\* storage_deadline counts from before the read.
LeaseBegins(w) ==
    /\ worker[w].pc = "idle" /\ ~paused
    /\ sharers' = sharers \cup {w}
    /\ worker' = [worker EXCEPT ![w].pc = "leasing", ![w].deadline = Timeout + Grace]
    /\ UNCHANGED <<queue, records, control, attempts, faults>>

Visible(j) == j \in source /\ vt[j] = 0

LeaseReads(w, j) ==
    /\ worker[w].pc = "leasing" /\ Visible(j) /\ reads[j] < MaxReads
    /\ reads' = [reads EXCEPT ![j] = @ + 1]
    /\ vt' = [vt EXCEPT ![j] = LeaseSeconds]
    /\ sharers' = sharers \ {w}
    /\ worker' = [worker EXCEPT ![w].pc = "leased", ![w].job = j,
                                ![w].message = message[j], ![w].reads = reads[j] + 1]
    /\ UNCHANGED <<source, message, records, control, attempts, faults>>

LeaseEmpty(w) ==
    /\ worker[w].pc = "leasing" /\ \A j \in Job : ~Visible(j)
    /\ sharers' = sharers \ {w}
    /\ worker' = [worker EXCEPT ![w] = Idle]
    /\ UNCHANGED <<queue, records, control, attempts, faults>>

Settling(w, s) == [worker EXCEPT ![w].pc = "settling", ![w].settle = s, ![w].budget = 0]

\* A check that is off by one.
UndeliverableLate(w) == worker[w].reads > MaxAttempts + 1 \/ worker[w].job \in corrupt

\* An attempt beyond the last, or an envelope that does not decode, is not handled.
Undeliverable(w) == worker[w].reads > MaxAttempts \/ worker[w].job \in corrupt

StartAttempt(w) ==
    LET j == worker[w].job IN
    /\ worker[w].pc = "leased"
    /\ IF Undeliverable(w)
       THEN worker' = Settling(w, "dead") /\ UNCHANGED attempts
       ELSE /\ worker' = [worker EXCEPT ![w].pc = "handling", ![w].budget = Timeout]
            /\ attempts' = [attempts EXCEPT ![j] = @ \cup {<<worker[w].message, worker[w].reads>>}]
    /\ UNCHANGED <<queue, records, control, sharers, faults>>

\* What an outcome asks of the queue.
Settlement(o, attempt) ==
    CASE o = "succeeded" -> "archive"
      [] o \in {"permanent", "panicked"} -> "dead"
      [] o = "cancelled" -> "release"
      [] OTHER -> IF attempt >= MaxAttempts THEN "dead" ELSE "retry"

\* An attempt without its timeout.
AttemptEndsUntimed(w, o) ==
    /\ worker[w].pc = "handling" /\ o # "timed_out"
    /\ worker' = Settling(w, Settlement(o, worker[w].reads))
    /\ UNCHANGED <<queue, records, control, sharers, attempts, faults>>

\* The handler returns or panics, or is dropped at its timeout or by cancellation.
AttemptEnds(w, o) ==
    /\ worker[w].pc = "handling"
    /\ o = "timed_out" => worker[w].budget = 0
    /\ worker' = Settling(w, Settlement(o, worker[w].reads))
    /\ UNCHANGED <<queue, records, control, sharers, attempts, faults>>

\* remaining_operation_budget: past the storage deadline nothing is sent.
SettleBegins(w) ==
    /\ worker[w].pc = "settling" /\ worker[w].deadline > 0
    /\ worker' = [worker EXCEPT ![w].pc = "sent"]
    /\ UNCHANGED <<queue, records, control, sharers, attempts, faults>>

\* An error stops the worker; its supervisor starts it again.
SettleExpires(w) ==
    /\ worker[w].pc = "settling" /\ worker[w].deadline = 0
    /\ worker' = [worker EXCEPT ![w] = Idle]
    /\ UNCHANGED <<queue, records, control, sharers, attempts, faults>>

\* A fence on the message alone.
OwnedMessage(w) ==
    worker[w].job \in source /\ message[worker[w].job] = worker[w].message

\* The fence every settlement repeats.
Owned(w) ==
    LET j == worker[w].job IN
    /\ j \in source
    /\ message[j] = worker[w].message /\ reads[j] = worker[w].reads

\* The transaction of archive_success, terminal_transfer or change_visibility; a lost
\* fence settles nothing and is no error.
Settle(w) ==
    LET j == worker[w].job
        s == worker[w].settle
    IN
    /\ worker[w].pc = "sent" /\ Owned(w)
    /\ source' = IF s \in {"archive", "dead"} THEN source \ {j} ELSE source
    /\ archived' = [archived EXCEPT ![j] = IF s = "archive" THEN @ + 1 ELSE @]
    /\ dead' = [dead EXCEPT ![j] = IF s = "dead" THEN @ + 1 ELSE @]
    /\ \E delay \in IF s = "retry" THEN 1..RetryDelay ELSE {0} :
          vt' = [vt EXCEPT ![j] = delay]
    /\ worker' = [worker EXCEPT ![w] = Idle]
    /\ UNCHANGED <<message, reads, removed, control, sharers, attempts, faults>>

SettleLost(w) ==
    /\ worker[w].pc = "sent" /\ ~Owned(w)
    /\ worker' = [worker EXCEPT ![w] = Idle]
    /\ UNCHANGED <<queue, records, control, sharers, attempts, faults>>

\* A storage failure, a shutdown between a read and its attempt, or the death of the
\* process: the locks go with the connection, and a lease that committed stays.
Stop(w) ==
    /\ worker[w].pc # "idle" /\ SpendFault
    /\ worker' = [worker EXCEPT ![w] = Idle]
    /\ sharers' = sharers \ {w}
    /\ UNCHANGED <<queue, records, control, attempts>>

Sooner(n) == IF n > 0 THEN n - 1 ELSE 0

\* Time passes for the visibility of messages and for the workers' deadlines.
Elapse ==
    /\ vt' = [j \in Job |-> Sooner(vt[j])]
    /\ worker' = [w \in Worker |->
          [worker[w] EXCEPT !.deadline = Sooner(@), !.budget = Sooner(@)]]
    /\ <<vt, worker>>' # <<vt, worker>>
    /\ UNCHANGED <<source, message, reads, records, control, sharers, attempts, faults>>

Outcome == {"succeeded", "permanent", "panicked", "retryable", "timed_out", "cancelled"}

WorkerStep(w) ==
    \/ LeaseBegins(w) \/ LeaseEmpty(w) \/ StartAttempt(w)
    \/ \E j \in Job : LeaseReads(w, j)
    \/ \E o \in Outcome : AttemptEnds(w, o)
    \/ SettleBegins(w) \/ SettleExpires(w) \/ Settle(w) \/ SettleLost(w)
    \/ Stop(w)

OperatorStep ==
    \/ \E j \in Job, delay \in {0, 1} : Enqueue(j, delay)
    \/ \E j \in Job : ReplayDead(j) \/ Cleanup(j)
    \/ \E p \in BOOLEAN : SetPaused(p)

Next == OperatorStep \/ (\E w \in Worker : WorkerStep(w)) \/ Elapse

Spec == Init /\ [][Next]_vars

\* Time passes, and each worker runs its loop, however slowly; nothing makes a handler
\* return, only its timeout ends it.
FairSpec ==
    /\ Spec
    /\ WF_vars(Elapse)
    /\ \A w \in Worker :
          /\ SF_vars(LeaseBegins(w)) /\ WF_vars(LeaseEmpty(w)) /\ WF_vars(StartAttempt(w))
          /\ \A j \in Job : SF_vars(LeaseReads(w, j))
          /\ WF_vars(AttemptEnds(w, "timed_out"))
          /\ WF_vars(SettleBegins(w)) /\ WF_vars(SettleExpires(w))
          /\ WF_vars(Settle(w)) /\ WF_vars(SettleLost(w))

-----------------------------------------------------------------------------
(* Properties.                                                             *)

WorkerState ==
    [pc : {"idle", "leasing", "leased", "handling", "settling", "sent"},
     job : Job \cup {None}, message : Nat, reads : Nat,
     deadline : 0..(Timeout + Grace), budget : 0..Timeout,
     settle : {"none", "archive", "dead", "retry", "release"}]

\* Types of the queue and of its workers; the workers that hold the control row are
\* exactly those inside a source read (lease_source).
TypeOK ==
    /\ source \subseteq Job
    /\ message \in [Job -> Nat] /\ reads \in [Job -> Nat] /\ vt \in [Job -> Nat]
    /\ dead \in [Job -> Nat] /\ archived \in [Job -> Nat] /\ removed \in [Job -> Nat]
    /\ paused \in BOOLEAN /\ revision \in 0..MaxRevision /\ corrupt \subseteq Job
    /\ worker \in [Worker -> WorkerState]
    /\ sharers = {w \in Worker : worker[w].pc = "leasing"}
    /\ attempts \in [Job -> SUBSET (Nat \X Nat)] /\ faults \in 0..MaxFaults

\* A job that was enqueued is in exactly one place: the source queue, the archive, the
\* dead-letter queue, or deleted by retention.  Settlements, replays and their failures
\* (archive_success, terminal_transfer, replay_dead) neither lose nor double it.
OnePlaceForEachJob ==
    \A j \in Job :
        (IF j \in source THEN 1 ELSE 0) + dead[j] + archived[j] + removed[j]
            = IF message[j] > 0 THEN 1 ELSE 0

\* Until its storage deadline, which it took before the read, a worker is the only holder
\* of its delivery: the message is still leased to it, whatever settlements of earlier
\* deliveries arrive late (lease_seconds against storage_deadline, and the fences).
HoldsUntilDeadline ==
    \A w \in Worker :
        worker[w].pc \in {"leased", "handling", "settling"} /\ worker[w].deadline > 0
            => Owned(w) /\ vt[worker[w].job] > 0

\* No lease commits after a pause has committed (the promise of set_paused, and what
\* lets replay_dead assume that the queue is still).
PausedLeasesNothing ==
    [][paused => \A j \in Job : reads'[j] <= reads[j]]_vars

\* The handler sees each attempt of a message at most once, and none beyond the policy's
\* last, however often leases are lost to crashes, timeouts and late settlements.
AttemptsAreFreshAndBounded ==
    [][\A w \in Worker :
          worker[w].pc = "leased" /\ worker'[w].pc = "handling" =>
              /\ <<worker[w].message, worker[w].reads>> \notin attempts[worker[w].job]
              /\ worker[w].reads \in 1..MaxAttempts]_vars

\* Every job in the source queue is eventually settled, unless the queue is paused: a job
\* cannot circulate for ever, since deliveries are counted and one beyond the last is moved
\* to the dead-letter queue, unless workers are so slow or so unlucky that MaxReads is met.
EveryJobSettles ==
    \A j \in Job : j \in source ~> (j \notin source \/ paused \/ reads[j] = MaxReads)

\* A pause drains: once the queue is paused, every worker comes to rest, or the queue is
\* resumed first.
PauseDrains ==
    paused ~> (~paused \/ \A w \in Worker : worker[w].pc = "idle")
=============================================================================
