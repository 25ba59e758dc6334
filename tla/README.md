# Omnius: TLA+ specification of the durable core

Omnius is a Rust workspace of service-kit crates. Most of them are request mapping, policy
checks or adapters around libraries. Its correctness rests on a handful of crates that share
PostgreSQL tables between processes that crash, stall, retry and overtake each other:

| Part | Source | Modules |
|---|---|---|
| transactional outbox and its relays | `crates/outbox` | `Outbox`, `PublicationIntent`, `OutboxProofs` |
| transactional inbox | `crates/inbox` | `Inbox`, `InboxProofs` |
| idempotency store and the idempotent create | `crates/idempotency`, `crates/reference-api` | `Idempotency`, `IdempotencyProofs` |
| schedules, calendar, materialisation | `crates/scheduler` (`repository.rs`, `calendar.rs`) | `Schedules`, `SchedulesProofs` |
| runs: dispatch and execution gate | `crates/scheduler` (`repository.rs`, `handler.rs`) | `ScheduledRuns`, `ScheduledRunsProofs` |
| PGMQ job provider | `crates/jobs-pgmq` | `JobQueue`, `JobQueueProofs` |
| durable MCP tasks | `crates/mcp-tasks` | `McpTasks`, `McpTasksProofs` |
| upload workflow and its reconcilers | `crates/upload-workflow` | `Uploads`, `UploadsProofs` |

How they meet: business code appends to the outbox in its own transaction; relays publish to a
broker; a consumer dedupes what the broker delivers through the inbox. A schedule materialises
runs; a dispatcher hands each run to a job provider; the provider's workers pass the execution
gate before the handler runs. The idempotency store does for client requests what the inbox
does for events. MCP tasks use three of these at once: a task's job leaves through the outbox,
runs in a job provider, and has an inbox receipt that changes in the same transactions as the task.

The `MC*` modules add what an instance needs and the specification does not have: symmetry, the
schedule definitions, the starting states of the gate instance, and the history variable `late`
of the outbox. `PROJECT.json` lists every other part of the repository with the reason it is not
modelled, the source lines of every definition, the hazards, the runs and the theorems.

**Extent.** The modules stand for about 6,650 lines in 22 source files. That is a large part of
what changes state in the eight crates above and about two percent of the repository. Nothing
here speaks about the parts `PROJECT.json` lists as not modelled.

## Conventions

* **Time.** No model has an absolute clock except `Schedules`, whose calendar needs one. A
  timestamp is the time left until it, 0 once past, and one action `Elapse` moves all of them.
  Comparisons in the code are with `clock_timestamp()`, so nothing else is observable.
* **Atomicity.** One SQL statement, or one transaction whose rows nobody else can see half
  written, is one step. Where a transaction holds row locks between statements that matter
  (the inbox claim, the idempotency claim, the execution gate, replay, the source read of
  PGMQ), its statements are separate steps and the lock is a variable.
* **Fences.** UUID tokens are only compared for equality. `Outbox` numbers them; `Schedules`
  and `ScheduledRuns` take any member of a set that nobody holds; in `McpTasks` a claim is its
  number within the generation, in `Uploads` the holder stands for its token.
* **Faults.** A crash, a lost answer, a database error or a failed call spends one unit of
  `MaxFaults`; `Uploads` has no such bound. Stalls are free: any process may stop at any step for any length of time. A
  specification with `Prompt` or `Urgent` in its passing of time leaves stalls out and says so.
* **Mutated forms.** Operators such as `LeaseRowsForOne`, placed before the definition they
  resemble, state that definition with a plausible mistake. They are not part of any
  specification. Each property is violated when one of them replaces the original.

## The modules

### Outbox

State: the columns of `outbox_events` (`phase`, `stamp`, `attempts`, `token`, `lease`) and, per
relay, where it stands in `run_relay` (`pc`, `held`, `current`, `left`, `result`, `draining`).
Actions: `Append`; `Claim`, `ClaimNothing`, `ClaimError`; `PublishOk`, `PublishError`,
`PublishTimeout` (the broker may have accepted the event whatever the publisher reports);
`Mark`, `MarkError` (before or after the statement took effect); `CleanupRetained`; `Start`,
`Drain`, `LoopHead`, `Crash`. `ConfigValid` is `OutboxConfig::validate`.

`PublicationIntent` is what the outbox promises, without leases, relays or batches: an intent
is recorded, tried at most `MaxTries` times, settled only after the broker has seen the event,
and forgotten only when settled or out of tries. `ImplementsIntent` is the refinement.

### Inbox

State: `inbox_receipts`, the open transaction of each consumer and its row lock, the lease
a business table gives to a claim committed before its effect (`owner`). Actions: the insert
and the classifying SELECT of `claim` as two steps, `Resume`, `Complete`, `Release`, the commits,
`Rollback`, `Forget` (death), `TakeOver`, `CleanupExpired`. Headers and payload digest are one
`body`; a second body for a key is the conflict case.

### Idempotency

State: `idempotency_records`, handlers with an open transaction and lock. Actions: insert,
meeting a record, reclaim after expiry, replay, refusal, completion, the commits (also of unknown
outcome), rollback and death. A response is the ordinal of the effect that produced it. The
models take an enabled store (`enabled = false` turns both calls into no-ops). Records are never
deleted by the code, only overwritten after expiry.

### Schedules

State: the columns of `scheduler_schedules`, the identities in `scheduler_job_runs`, the claims
each replica holds. Actions: create, update, pause, resume, replay; `ClaimDueSchedules`,
`Materialize`, `LoseClaim` (fence missed), `Abandon` (error or crash). `NextOccurrence`, `Rounds`,
`Occurrences` and `PlannedNext` are `evaluate_occurrences` for the three misfire policies; cron
and time zones are the set of instants they denote. A creation reads its clock before it commits,
so its first cursor may be in the past by then. A claim whose cursor is ahead of the clock the
evaluation reads is refused (`Evaluable`, the guard of `evaluate_occurrences`).

`Skip` plans no occurrence at all (`calendar.rs:69`), so a schedule with that policy never fires, however
punctual its replicas are. The guide (`docs/guides/backend/jobs-events-and-scheduling.md:140`) has
"`skip`: omit missed occurrences;". The model follows the code.

### ScheduledRuns

State: the columns of the runs of one schedule, the batches and hand-overs of replicas, the
provider's messages, the delivery each worker is busy with, the row locks of run and schedule.
Actions: `Materialize`; `ClaimPendingRuns`, `Enqueue`, `MarkDispatched`, `MarkDispatchRetry`;
`Deliver`, the gate (`GateLocksRun`, `GateLocksSchedule`, `GateCounts`, `GateClaims`,
`GateRefuses`, `GateAborts`), `StartHandler`, `Renew`, `HandlerEnds`, `Finish`, `Settle`; replay
with its opposite lock order; crashes. The provider is external here. `max_concurrent_runs` is
constant: after an update that lowers it the runs already executing may exceed it. A run whose
message the provider gives up stays `dispatched` until an administrator replays it.

### JobQueue

State: the source queue (`message`, `reads`, `vt`), counted records in archive and dead-letter
queue, the control row with the workers that hold it FOR SHARE, and one attempt per worker.
Actions: `Enqueue`, `SetPaused`, `ReplayDead`, `Cleanup`; `LeaseBegins`, `LeaseReads`,
`LeaseEmpty`, `StartAttempt`, `AttemptEnds`, `SettleBegins` (the check of the storage deadline on the
worker's clock), `Settle` or `SettleLost` (the fenced transaction, which may take effect any
time later), `SettleExpires`, `Stop`. A cancelled attempt is released at once but keeps its
delivery count, so `max_attempts` shutdowns can dead-letter a job that never failed; the model
contains this, and no document rules it out. A job of the model is one successful enqueue: the
provider does not deduplicate job identifiers.

### McpTasks

State: the row of each task with its lease, the inbox receipt of each generation's job, the
intents, messages and dead letters of those jobs, the workers, and the clients between the read
and the write of `tasks/update` and `tasks/cancel`. Actions: `Create`, `Get`, `UpdateReads`,
`UpdateInput`, `CancelReads`, `CancelAtomic`, `Relay`, `DeliverCancellation`; `Deliver`,
`ClaimExecution`, `Register`, `ExecutorEnds`, `RequireInput`, `SettleExecution`,
`AbandonExecution`, `Expire`, `ForgetReceipt`; the losses of answers, of those of a cancellation
too, of messages and of workers. A message carries its own read count: a retryable failure at the
last attempt makes it a dead letter, and a duplicate sent by the relay begins at zero. Two behaviours of the code that the model contains and a maintainer should know:

* a claim that commits and loses its answer leaves a running lease. The redelivery meets it, is
  told `Stale`, and the handler reports success (`worker.rs:66`), so the job is archived and
  nothing wakes the task before it expires. So does a worker whose lease another one took over
  (`worker.rs:94`, `:166`). `OnlyStaleAnswersStrand` says that, apart from dead letters, this is the
  only way, and the run `mcp_tasks_stranded` shows a task that nothing recovers;
* `abandon_execution` of a task that was cancelled and has expired since fails for good
  (`postgres.rs:916`: an expired task cannot become cancelled), where the port (`ports.rs:909`) has
  the cancellation end it; the expiry runner repairs the row.

### Uploads

State: the row of one upload, its four kinds of unfinished `upload_reconciliation` rows, the
bytes under the staging and the publication key, the objects a listing has shown, what callers
have yet to act on, the reconcilers, and the requests nobody waits for any more (`stray`). Uploads
share no row and no key, so one upload is the whole system. Actions: `Initiate`,
`PersistCredential`, `DirectWrite`; `PutProxied` and `FenceProxiedWrite`; `CompleteReads`,
`ActivateVerification`, `RejectPending`; `Status`, `Abandon`, `RepairOrphan`; `Claim` with its
sweep of expired uploads, `BeginPublication`, the effects on the blob store, each separate from
the transaction that records it, `Retry`, `LostLease`, `WorkerDies`, and `LateEffect`: a copy or a
delete that reaches the store after its sender has timed out or died. Callers and faults are
unbounded, and everybody may stall. One thing is taken from outside: a write with a direct
credential lands before the expiry recorded for that credential.

The fence of a publication (`repository.rs:1537`) has three gaps, which
`OnlyUnfencedDeletesLoseBytes` shows to be all of them: a delete that took place and was not
recorded when publication looked (its answer was lost, `retry` put the row back without lease
and without `completed_at`), one whose reconciler stalled past its lease, and one that was given up
and took effect late. `EveryStateHasItsWork` says that the row of the next step exists; a row whose
attempts are used up is still there, but nobody claims it.

## The runs

| Run | Instance | Shows |
|---|---|---|
| `outbox` | 2 events, 2 relays, batch 2, 2 attempts, 1 fault | fences are exclusive, cleanup loses nothing, settled rows stay settled, the window `validate` demands is long enough for a batch (`PromptRelayKeepsLease`; `late` remembers delays), refinement of `PublicationIntent`, and `EveryEventIsDelivered` when faults are fewer than attempts |
| `outbox_untried` | the same, 2 faults | **violated**: attempts are counted by the claim, so failures use them up before any publisher call |
| `inbox` | 1 key, 2 bodies, 2 consumers, 3 faults | one committed effect for each receipt, acknowledged means applied, `OneEffectPerEvent` within the retention; claims are settled, deliveries processed |
| `idempotency` | 1 key, 2 fingerprints, 3 handlers, 2 faults | one effect for each record, answers are those of committed effects of the same request; every key is answered |
| `schedules` | 1 schedule, all policies, 2 replicas, 3 revisions, 5 instants | `TypeOK` with the CHECK on leases, `InsertNeverCollides`, `NoOccurrenceIsLost`, `PlanIsEarliestMissed`, `RunsFollowTheRevision`; `DueIsBroughtUpToDate` |
| `scheduled_runs` | 3 runs, maximum 1, 2 workers, 1 replay, 1 fault | `BoundedConcurrency`, `AckedIsCompleted`, `OnlyOwnerFinishes` |
| `scheduled_runs_live` | 2 runs in a batch of 2, maximum 1, 1 replica, 1 worker, 1 replay, 1 fault | `HandlerInsideLease`, `NoRunIsStranded`; `EveryRunIsHandedOver`, `EveryDeliveryReturns` |
| `job_queue` | 1 job, 2 workers, 2 attempts, 2 messages, 1 fault | `OnePlaceForEachJob`, `HoldsUntilDeadline`, `PausedLeasesNothing`, `AttemptsAreFreshAndBounded`; `EveryJobSettles`, `PauseDrains` |
| `mcp_tasks` | 1 task, 2 workers, an updater, a canceller, 2 questions, 2 generations, 1 fault | `RecordsStayReadable`, `LastClaimPublishes`, `OnlyStaleAnswersStrand`, `CancelledStaysStopped` |
| `mcp_tasks_stranded` | the same | **violated**: a claimed task whose claim lost its answer is not recovered when the lease ends |
| `uploads` | 2 reconcilers, 2 attempts, any number of calls and faults | `PublishedIsScanned`, `OnlyUnfencedDeletesLoseBytes`, `EveryStateHasItsWork` |
| `uploads_fence` | the same | **violated**: an available upload whose bytes are gone |

Why the bounds are enough. The hazards are races between a holder whose lease ran out and its
successor, so two processes and a lease that can run out during every step reach them. Rows
interact only through batches, locks and concurrency limits: the outbox instance has a batch of two
events, the gate instance three runs under a limit of one. The bounds of the liveness instances
(`MaxReads`, `MaxCopies`, `MaxMessages`, `MaxEffects`) leave progress enabled, or the properties
would fail; `EveryJobSettles` names the one it may meet. Some cases are beyond an instance: two
schedules in one materialisation batch, and a taken-over MCP worker whose late answer is archived,
which needs `Ttl` at least 4. The theorems below cover both. The largest instance is `uploads`, with
two million distinct states, the next `mcp_tasks` with 1.7 million. Deadlock checking
is off where all work may be settled and nobody need bring more.

Three disagreements were met and are kept as violated runs:

* `docs/guides/backend/jobs-events-and-scheduling.md:110`, "calls an application-supplied publisher
  at least once", against `outbox_untried`;
* `docs/concepts/asynchronous-processing.md:77`, "Durable workers use bounded leases/visibility timeouts
  so abandoned work can be recovered.", against `mcp_tasks_stranded`;
* `crates/upload-workflow/src/repository.rs:987`, "A publication-key delete that began after this copy
  attempt forces a safe retry", against `uploads_fence`: the first of the three gaps above.

## Fairness

* Tasks restart and run their loops: `omnius-runtime` supervises them. This gives weak fairness
  for the steps of relays, replicas and workers.
* Strong fairness where a step can be interrupted again and again but not for ever: a relay that
  is drained by rolling restarts, a claim that meets a lock (PostgreSQL queues for row locks in
  order and breaks cycles), a provider call or a materialisation that fails now and then. In
  `ScheduledRuns` the steps a replica takes one after the other share one condition, and so do
  those of a worker at row locks; that a replay ends by aborting is assumed only in a lock cycle.
* Job handlers are not assumed to return: the execution budget ends them in `ScheduledRuns`
  (where the renewal timer of the same `select!` must also be served), the handler timeout in
  `JobQueue`. `Outbox` assumes that a publication which is not one of the faults succeeds;
  `Inbox` and `Idempotency` assume that business code entered again and again completes once.
  These last assumptions are about application code, and the properties are about what the
  stores add to it.
* Liveness in `ScheduledRuns` is for processes that act on due timers before time passes
  (`Urgent`). In `JobQueue` workers may be arbitrarily slow.
* The broker redelivers until its window closes (`Inbox`), clients repeat unanswered requests
  (`Idempotency`), administrators owe nothing.
* `McpTasks` and `Uploads` are checked for safety only and have no fairness.

## What is proved

Every safety invariant, action property and refinement that a passing run checks is also a
theorem, for every value of the constants that satisfies the module's named assumption (what
the configuration's `validate`, the types and the schema say): any sets of events, keys, workers
and replicas, any lengths of leases and timeouts, any number of faults. No theorem assumes
fairness. Two hypotheses are not the code's own: `OutboxAssumption` has finitely many events,
and `OncePerEvent` is for `RedeliveryWindow <= Retention`, which the code cannot enforce.

Few of the properties are inductive as they stand. Each proof module has an invariant `Inv` with
`Init => Inv` and `Inv /\ [Next]_vars => Inv'`, a lemma per action or group of like actions,
and the theorems follow from it.

| Module | Theorems | What the inductive invariant adds, and why |
|---|---|---|
| `OutboxProofs` | `TypeCorrect`, `FencesExclusive`, `PublishedDelivered`, `CleanupSafe`, `SettledFinal`, `ImplementsPromise`, `PromptRelaysKeepLeases` | fences in the table and in relays' hands are below `nextToken` (a fresh one differs from all); a relay that publishes or marks holds a fence for its event; a result "ok" means the broker has the event, also while the mark is still to come; settled rows carry no lease; attempts stay within the limit |
| `InboxProofs` | `TypeCorrect`, `ClaimsAreKept`, `Deduplicated`, `AckedApplied`, `OncePerEvent` | which open transaction owns which uncommitted row (`Sessions`, `Locks`), that a processed receipt was applied; for `OncePerEvent` that a receipt outlives its key's redeliveries (`Outlived`) |
| `IdempotencyProofs` | `TypeCorrect`, `EffectsHaveRecords`, `AnswersAreOwn`, `ReplayIsStable` | a record found under the lock stays as found (`FoundUnderLock`), every completed record holds the response of a committed effect (`RecordsAreEffects`) |
| `SchedulesProofs` | `TypeCorrect`, `NothingIsLost`, `InsertionsAreNew`, `PlansAreEarliest`, `RevisionIsFollowed` | cursors are instants of the definition in force (`Cursors`), no run is at its schedule's cursor, beyond it or in the future (`RunsBehind`), what a replica holds was due when it was claimed and is of the definition in force unless the schedule was changed since (`ClaimsWereDue`) |
| `ScheduledRunsProofs` | `SuccessIsRecorded`, `NothingIsForgotten`, `OwnersFinish`, `ConcurrencyIsBounded`, `HandlersHoldTheirLease`, `OneHandlerPerRun`, `HandlersAreFew`, `RowsAreComplete`, `TypeCorrect` | what a worker past each step of the gate has locked and seen (`Gate`, `Deliveries`), where the message of a handed-over run is (`HandedOver`); two further invariants below |
| `JobQueueProofs` | `TypeCorrect`, `NothingLostOrDoubled`, `LeaseOutlivesDeadline`, `PauseIsABarrier`, `AttemptsAreSound` | before its storage deadline a worker has its message, under a lease that ends later than the deadline (`Margins`), no two workers hold the same delivery (`Distinct`), attempts on record are behind the read count (`Attempted`), no read is open across a pause (`PausedIsStill`) |
| `McpTasksProofs` | `InvHolds`, `TypeCorrect`, `RecordsStay`, `OutcomesAreOfTheLastClaim`, `JobsAreKept`, `CancellationIsFinal` | lease, version, cancellation and the receipts of all generations agree, the lease is the last claim of its generation (`LeaseOK`, `ReceiptOK`), later generations have left no trace (`PublishedOK`), a stopped task has ended or records its cancellation (`StoppedOK`) |
| `UploadsProofs` | `InvHolds`, `TypeCorrect`, `OnlyScannedBytes`, `FenceHolds`, `WorkIsThere` | each state has its work, and verification wakes no earlier than the last credential ends (`Stages`); what a reconciler is about to copy is what was scanned, and while it may delete the publication under its lease the row says so (`TaskOK`), and a copy that was given up is one of scanned bytes (`Strays`); until it is published, what a scan copied is there, or it went without a record, or its delete was recorded (`CopyOK`) |

Four arguments take more than an invariant of rows and tokens.

* **A batch fits into its lease** (`PromptRelaysKeepLeases`). The publications of a batch run one
  after the other under one lease. `BatchesFit`: while no relay has been late, the lease of every
  event that a relay still carries exceeds (number of events carried - 1) times the timeout plus
  what is left of the running publication. A claim establishes it from
  `LeaseDuration > ClaimBatch * PublicationTimeout`, which is `validate`; a mark carries one event
  less and starts a new timeout; a tick takes one from both sides.
* **A handler runs inside its lease** (`HandlersHoldTheirLease`). `Timely`: no two workers have
  the same token; a worker about to start, or in, its handler holds the lease, the lease exceeds the
  handler's budget, and the budget stays `Safety` below what the lease lasts and twice that below
  the deadline, so a renewal finds the same relations again. `OneHandlerPerRun` follows: no two
  workers are in the handler of one run. This is for `PromptSpec`, where due timers are acted on
  before time passes; with stalls a handler can outlive its lease, and then `OwnersFinish` and
  `SuccessIsRecorded` say what still holds.
* **The maximum of concurrent runs** (`ConcurrencyIsBounded`). `Room`: the live executions are
  finitely many and at most the maximum, and a worker that has counted under the schedule's lock still
  finds room for its run. `HandlersAreFew` combines both: workers in a handler map one to one to
  live executions, so no more handlers run than `max_concurrent_runs`.
* **The calendar** (`SchedulesProofs`, first part). What the catch-up loop computes for any calendar
  and any number of rounds is shown by taking a least counterexample, which stands in for induction.

`ImplementsPromise` is the refinement: initial states map to initial states of
`PublicationIntent`, every step to one of its steps or a stutter.

**Only model-checked.** The liveness properties, since the prover has no rules for fairness and
`ENABLED`: `EveryEventIsDelivered`, `ClaimsAreSettled`, `DeliveredIsProcessed`,
`EveryKeyIsAnswered`, `DueIsBroughtUpToDate`, `EveryRunIsHandedOver`, `EveryDeliveryReturns`,
`EveryJobSettles`, `PauseDrains`. They hold for the instances above and no more is claimed. The
violated properties have counterexamples and need no proof.

## Not modelled

The bounds `MaxFaults`, `MaxReads`, `MaxCopies`, `MaxReplays`, `MaxRevision`, `MaxGeneration`,
`MaxEffects`, `MaxMessages` and `Horizon` are the models', not the code's; the theorems
hold for each value of them. Beyond that:

* The models do not share state. `ScheduledRuns` and `McpTasks` have their own account of the job
  provider, taken from how they use it, and not `JobQueue`; nobody has shown that `JobQueue`
  implements it. Outbox, broker and inbox are not composed either.
* Supervision and drain (`crates/runtime`), on which the fairness above rests.
* State machines of the same kind that would be worth modelling next: the Apalis Redis provider, the
  LLM usage ledger, the generator's journal, webhook receipts, MCP subscriptions and elicitation.
* Cryptography, parsing and formatting, request mapping, policy evaluation without state, vendor
  adapters. `PROJECT.json` names each with its reason.
