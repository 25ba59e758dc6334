------------------------------- MODULE McpTasks -------------------------------
(***************************************************************************)
(* Durable MCP tasks (crates/mcp-tasks): the task row and its lease, the   *)
(* inbox receipt of each execution job, the clients of tasks/update and    *)
(* tasks/cancel, the job workers and the expiry runner.                    *)
(*                                                                         *)
(* A task is named by its creation key: a repeated creation answers the    *)
(* row and changes nothing.  A generation has one committed job, so the    *)
(* generation stands for current_job_id.  Every repository call holds the  *)
(* row lock from its first statement to its commit and is one action; a    *)
(* call may also fail, or commit and lose its answer.  ttl and lease.left  *)
(* are the time left, 0 once past.  lease.at is claimed_at, as the number  *)
(* of the claim within its generation.                                     *)
(***************************************************************************)
EXTENDS Naturals

CONSTANTS Task, Worker,
          Updater, Canceller,  \* clients of tasks/update and of tasks/cancel
          InputKey,        \* the questions of an input round
          Ttl,             \* TaskConfig.ttl
          JobTimeout,      \* POLICY.timeout, the length of a lease
          Grace,           \* what the queue hides a message for beyond JobTimeout
          CancelAttempts,  \* MAX_CANCELLATION_ATTEMPTS
          MaxGeneration,   \* bound: executions of one task
          MaxDeliveries,   \* POLICY.max_attempts
          MaxFaults        \* bound: failures, duplicates and shutdowns

ASSUME McpTasksAssumption ==
    /\ Task # {} /\ InputKey # {} /\ Ttl \in Nat \ {0} /\ JobTimeout \in Nat \ {0} /\ Grace \in Nat
    /\ CancelAttempts \in Nat \ {0} /\ MaxGeneration \in Nat \ {0}
    /\ MaxDeliveries \in Nat \ {0} /\ MaxFaults \in Nat

VARIABLES task,        \* mcp_tasks
          receipt,     \* the inbox receipt of each generation's job
          intents,     \* execution intents waiting in the outbox
          cancelJobs,  \* cancellation jobs not yet delivered
          queue,       \* the jobs provider's visible messages, by job and read_ct
          dead,        \* jobs with a dead-lettered message
          signalled,   \* generations the cancellation runtime was told to stop
          worker, client,
          stopped,     \* history: tasks whose cancellation was acknowledged
          lastClaim,   \* history: claims granted to each generation
          published,   \* history: the claims whose outcome was committed
          strayed,     \* history: jobs archived by a Stale answer while the task was working
          faults

provider == <<intents, queue, dead>>
history == <<stopped, lastClaim, published, strayed>>
vars == <<task, receipt, provider, cancelJobs, signalled, worker, client, history, faults>>

Generation == 1..MaxGeneration

Reads == 0..MaxDeliveries

Client == Updater \cup Canceller

NoLease == [at |-> 0, version |-> 0, left |-> 0]

NoTask == [status |-> "absent", generation |-> 0, version |-> 0, cancel |-> FALSE,
           ttl |-> 0, pending |-> {}, lease |-> NoLease]

Resting == [pc |-> "idle", task |-> CHOOSE k \in Task : TRUE, generation |-> 0, at |-> 0,
            version |-> 0, read |-> 0, vt |-> 0, owned |-> FALSE, out |-> "none"]

Waiting == [pc |-> "idle", task |-> CHOOSE k \in Task : TRUE, generation |-> 0,
            version |-> 0, tries |-> 0]

PerGeneration(v) == [k \in Task |-> [g \in Generation |-> v]]

Init ==
    /\ task = [k \in Task |-> NoTask]
    /\ receipt = PerGeneration("none")
    /\ intents = {} /\ cancelJobs = {} /\ dead = {} /\ signalled = {}
    /\ queue = [m \in Task \X Generation \X Reads |-> 0]
    /\ worker = [w \in Worker |-> Resting]
    /\ client = [c \in Client |-> Waiting]
    /\ stopped = {}
    /\ lastClaim = PerGeneration(0) /\ published = PerGeneration({})
    /\ strayed = {}
    /\ faults = 0

SpendFault == faults < MaxFaults /\ faults' = faults + 1

Live(k) == task[k].status \in {"working", "input"}
Terminal(k) == task[k].status \in {"completed", "failed", "expired", "cancelled"}
Expired(k) == task[k].ttl = 0
Leased(k) == task[k].lease.at # 0

-----------------------------------------------------------------------------
(* The row.                                                                *)

\* transitioned, then persist_task: one version on, under the lease given.  The time
\* left of a task that has ended is not told apart.
Moved(k, status, lease) ==
    [task[k] EXCEPT !.status = status, !.version = @ + 1, !.lease = lease,
                    !.cancel = @ \/ status = "cancelled",
                    !.ttl = IF status \in {"working", "input"} THEN @ ELSE 0]

\* A receipt that is left open when its lease ends.
FinishReceiptNever(k) == UNCHANGED receipt

\* resume_delivery_receipt and complete_delivery_receipt, when there is a lease.
FinishReceipt(k) ==
    IF Leased(k)
    THEN /\ receipt[k][task[k].generation] = "open"
         /\ receipt' = [receipt EXCEPT ![k][task[k].generation] = "done"]
    ELSE UNCHANGED receipt

\* The task ends, with the receipt of the lease it may have.
End(k, status) ==
    /\ task' = [task EXCEPT ![k] = Moved(k, status, NoLease)]
    /\ FinishReceipt(k)

\* create_atomic: the row and the intent of its first execution.
Create(k) ==
    /\ task[k].status = "absent"
    /\ task' = [task EXCEPT ![k] = [NoTask EXCEPT !.status = "working", !.generation = 1,
                                                  !.version = 1, !.ttl = Ttl]]
    /\ intents' = intents \cup {<<k, 1>>}
    /\ UNCHANGED <<receipt, queue, dead, cancelJobs, signalled, worker, client,
                   history, faults>>

\* expire_batch, for one of its rows.
Expire(k) ==
    /\ Live(k) /\ Expired(k)
    /\ End(k, "expired")
    /\ UNCHANGED <<provider, cancelJobs, signalled, worker, client, history, faults>>

-----------------------------------------------------------------------------
(* Clients.                                                                *)

\* get: an expired row is ended before it is shown.
Get(k) ==
    IF Live(k) /\ Expired(k) THEN End(k, "expired") ELSE UNCHANGED <<task, receipt>>

\* The version and generation a client has read from the row r.
Read(c, k, r, op, tries) ==
    client' = [client EXCEPT ![c] = [pc |-> op, task |-> k, generation |-> r.generation,
                                     version |-> r.version, tries |-> tries]]

Done(c) == client' = [client EXCEPT ![c] = Waiting]

\* update: nothing to do unless the task waits for input.
UpdateReads(c, k) ==
    /\ client[c].pc = "idle" /\ task[k].status # "absent"
    /\ Get(k)
    /\ task'[k].status = "input" /\ Read(c, k, task'[k], "update", 0)
    /\ UNCHANGED <<provider, cancelJobs, signalled, worker, history, faults>>

\* A get on its own, or an update of a task that does not wait for input.
GetExpires(k) ==
    /\ task[k].status # "absent" /\ Live(k) /\ Expired(k)
    /\ Get(k)
    /\ UNCHANGED <<provider, cancelJobs, signalled, worker, client, history, faults>>

Unchanged(c) ==
    LET r == task[client[c].task]
    IN  r.version = client[c].version /\ r.generation = client[c].generation

\* update_input_atomic with answers to the questions S.
UpdateInput(c, S) ==
    LET k == client[c].task
        r == task[k]
        left == r.pending \ S
    IN
    /\ client[c].pc = "update"
    /\ Done(c)
    /\ \/ /\ ~Unchanged(c) \/ r.status # "input"
          /\ UNCHANGED <<task, receipt, intents>>
       \/ /\ Unchanged(c) /\ r.status = "input" /\ Expired(k)
          /\ End(k, "expired") /\ UNCHANGED intents
       \/ /\ Unchanged(c) /\ r.status = "input" /\ ~Expired(k) /\ left = r.pending
          /\ UNCHANGED <<task, receipt, intents>>
       \/ /\ Unchanged(c) /\ r.status = "input" /\ ~Expired(k) /\ left \notin {r.pending, {}}
          /\ task' = [task EXCEPT ![k] = [Moved(k, "input", NoLease) EXCEPT !.pending = left]]
          /\ UNCHANGED <<receipt, intents>>
       \/ /\ Unchanged(c) /\ r.status = "input" /\ ~Expired(k) /\ left = {}
          /\ r.generation < MaxGeneration
          /\ task' = [task EXCEPT ![k] =
                 [Moved(k, "working", NoLease) EXCEPT !.generation = @ + 1, !.pending = {},
                                                      !.cancel = FALSE]]
          /\ intents' = intents \cup {<<k, r.generation + 1>>}
          /\ UNCHANGED receipt
    /\ UNCHANGED <<queue, dead, cancelJobs, signalled, worker, history, faults>>

\* cancel: a terminal task is acknowledged at once.
CancelReads(c, k) ==
    /\ client[c].pc = "idle" /\ task[k].status # "absent" /\ k \notin stopped
    /\ Get(k)
    /\ IF task'[k].status \in {"working", "input"}
       THEN Read(c, k, task'[k], "cancel", 1) /\ UNCHANGED stopped
       ELSE stopped' = stopped \cup {k} /\ UNCHANGED client
    /\ UNCHANGED <<provider, cancelJobs, signalled, worker, lastClaim, published, strayed,
                   faults>>

\* The cancellation runtime may be told at once, and may be unavailable.
Signal(k, g) == signalled' = signalled \cup {<<k, g>>} \/ UNCHANGED signalled

Acknowledge(c, k) == Done(c) /\ stopped' = stopped \cup {k}

\* What cancel does with the answer: Stale is tried again with the row it returns, if
\* that is live; a request that a worker has to obey is signalled.
CancelAnswered(c) ==
    LET k == client[c].task
        r == task[k]
        again == client[c].tries < CancelAttempts
    IN
    \/ /\ ~Unchanged(c) /\ Terminal(k) /\ again
       /\ Acknowledge(c, k) /\ UNCHANGED signalled
    \/ /\ ~Unchanged(c) /\ ~Terminal(k) /\ again
       /\ Read(c, k, r, "cancel", client[c].tries + 1) /\ UNCHANGED <<stopped, signalled>>
    \/ /\ ~Unchanged(c) /\ ~again
       /\ Done(c) /\ UNCHANGED <<stopped, signalled>>
    \/ /\ Unchanged(c) /\ task'[k].status = "working" /\ task'[k].cancel
       /\ Acknowledge(c, k) /\ Signal(k, r.generation)
    \/ /\ Unchanged(c) /\ ~(task'[k].status = "working" /\ task'[k].cancel)
       /\ Acknowledge(c, k) /\ UNCHANGED signalled

\* cancel_atomic: a live lease keeps the task working until its worker settles;
\* otherwise the task ends here.  The answer may be lost, and tasks/cancel fails.
CancelAtomic(c) ==
    LET k == client[c].task
        r == task[k]
        held == Leased(k) /\ r.lease.left > 0
    IN
    /\ client[c].pc = "cancel"
    /\ \/ /\ ~Unchanged(c) \/ Terminal(k) \/ (Live(k) /\ r.cancel)
          /\ UNCHANGED <<task, receipt, cancelJobs>>
       \/ /\ Unchanged(c) /\ Live(k) /\ ~r.cancel /\ Expired(k)
          /\ End(k, "expired") /\ UNCHANGED cancelJobs
       \/ /\ Unchanged(c) /\ Live(k) /\ ~r.cancel /\ ~Expired(k)
          /\ cancelJobs' = cancelJobs \cup {<<k, r.generation>>}
          /\ IF held
             THEN /\ task' = [task EXCEPT ![k] =
                         [Moved(k, r.status, r.lease) EXCEPT !.cancel = TRUE]]
                  /\ UNCHANGED receipt
             ELSE End(k, "cancelled")
    /\ \/ CancelAnswered(c) /\ UNCHANGED faults
       \/ Done(c) /\ UNCHANGED <<stopped, signalled>> /\ SpendFault
    /\ UNCHANGED <<provider, worker, lastClaim, published, strayed>>

-----------------------------------------------------------------------------
(* Delivery: the outbox relay, the jobs provider and the inbox's cleanup.  *)

\* The relay publishes an intent, or publishes it again.
Relay(k, g) ==
    /\ <<k, g>> \in intents
    /\ queue' = [queue EXCEPT ![<<k, g, 0>>] = @ + 1]
    /\ \/ intents' = intents \ {<<k, g>>} /\ UNCHANGED faults
       \/ UNCHANGED intents /\ SpendFault
    /\ UNCHANGED <<task, receipt, dead, cancelJobs, signalled, worker, client, history>>

\* TaskCancellationJobHandler.
DeliverCancellation(k, g) ==
    /\ <<k, g>> \in cancelJobs
    /\ cancelJobs' = cancelJobs \ {<<k, g>>}
    /\ signalled' = signalled \cup {<<k, g>>}
    /\ UNCHANGED <<task, receipt, provider, worker, client, history, faults>>

\* A message is read for the n-th time, and handled unless its attempts are spent.
Deliver(w, k, g, n) ==
    /\ worker[w].pc = "idle" /\ queue[<<k, g, n - 1>>] > 0
    /\ queue' = [queue EXCEPT ![<<k, g, n - 1>>] = @ - 1]
    /\ IF n > MaxDeliveries
       THEN dead' = dead \cup {<<k, g>>} /\ UNCHANGED worker
       ELSE /\ worker' = [worker EXCEPT ![w] =
                   [Resting EXCEPT !.pc = "delivered", !.task = k, !.generation = g,
                                   !.read = n, !.vt = JobTimeout + Grace, !.owned = TRUE]]
            /\ UNCHANGED dead
    /\ UNCHANGED <<task, receipt, intents, cancelJobs, signalled, client, history, faults>>

\* The message this worker reads is visible again.
PutBack(w) ==
    [queue EXCEPT ![<<worker[w].task, worker[w].generation, worker[w].read>>] = @ + 1]

\* The worker died, or outlived its hold on the message.
Lapse(w) ==
    /\ worker[w].owned /\ worker[w].vt = 0
    /\ queue' = PutBack(w)
    /\ worker' = [worker EXCEPT ![w] = IF @.pc = "gone" THEN Resting
                                       ELSE [@ EXCEPT !.owned = FALSE]]
    /\ UNCHANGED <<task, receipt, intents, dead, cancelJobs, signalled, client, history,
                   faults>>

\* cleanup_expired_with of the inbox takes processed receipts only.
ForgetReceipt(k, g) ==
    /\ receipt[k][g] = "done"
    /\ receipt' = [receipt EXCEPT ![k][g] = "none"]
    /\ UNCHANGED <<task, provider, cancelJobs, signalled, worker, client, history, faults>>

-----------------------------------------------------------------------------
(* TaskExecutionJobHandler.                                                *)

\* A settlement that archives the message of a cancelled handler.
ReturnsArchivingCancelled(w, o) ==
    LET job == <<worker[w].task, worker[w].generation>>
        again == o = "retryable" /\ worker[w].read < MaxDeliveries
        over == \/ o = "permanent"
                \/ o = "retryable" /\ worker[w].read = MaxDeliveries
    IN
    /\ worker' = [worker EXCEPT ![w] = Resting]
    /\ queue' = IF worker[w].owned /\ again THEN PutBack(w) ELSE queue
    /\ dead' = IF worker[w].owned /\ over THEN dead \cup {job} ELSE dead
    /\ UNCHANGED intents

\* The handler returns o and the provider settles the message, if it is still this
\* delivery's: a success is archived, a permanent failure or a last attempt is kept dead,
\* and a retry or a release makes it visible again.
Returns(w, o) ==
    LET job == <<worker[w].task, worker[w].generation>>
        again == \/ o = "cancelled"
                 \/ o = "retryable" /\ worker[w].read < MaxDeliveries
        over == \/ o = "permanent"
                \/ o = "retryable" /\ worker[w].read = MaxDeliveries
    IN
    /\ worker' = [worker EXCEPT ![w] = Resting]
    /\ queue' = IF worker[w].owned /\ again THEN PutBack(w) ELSE queue
    /\ dead' = IF worker[w].owned /\ over THEN dead \cup {job} ELSE dead
    /\ UNCHANGED intents

\* The message of a worker that is gone stays hidden until it lapses.
Dies(w) ==
    /\ worker' = [worker EXCEPT ![w] =
           IF worker[w].owned
           THEN [Resting EXCEPT !.pc = "gone", !.task = worker[w].task, !.vt = worker[w].vt,
                                !.generation = worker[w].generation, !.read = worker[w].read,
                                !.owned = TRUE]
           ELSE Resting]
    /\ UNCHANGED provider

\* A call has committed: the handler returns o, or the answer or the worker is lost.
Answered(w, o) ==
    \/ Returns(w, o) /\ UNCHANGED faults
    \/ (Returns(w, "retryable") \/ Dies(w)) /\ SpendFault

\* The answer is Stale: the handler reports success, and the message is archived even
\* if the task is still working in its generation.
Stale(w) ==
    LET k == worker[w].task
        g == worker[w].generation
    IN
    \/ /\ Returns(w, "succeeded") /\ UNCHANGED faults
       /\ strayed' = IF /\ task[k].generation = g /\ task[k].status = "working"
                        /\ worker[w].owned
                     THEN strayed \cup {<<k, g>>} ELSE strayed
    \/ (Returns(w, "retryable") \/ Dies(w)) /\ SpendFault /\ UNCHANGED strayed

\* A call has committed: the handler goes on at pc, or the answer is lost.
GoesOn(w, next) ==
    \/ worker' = next /\ UNCHANGED <<provider, faults>>
    \/ (Returns(w, "retryable") \/ Dies(w)) /\ SpendFault

Calls == {"delivered", "abandoning", "requiring", "settling"}

\* A repository call that rolls back.
CallFails(w) ==
    /\ worker[w].pc \in Calls
    /\ Returns(w, "retryable") /\ SpendFault
    /\ UNCHANGED <<task, receipt, cancelJobs, signalled, client, history>>

\* Its job is current, and no lease is running.
Claimable(k, g) ==
    /\ task[k].generation = g /\ task[k].status = "working"
    /\ task[k].lease.left = 0

Least(m, n) == IF m <= n THEN m ELSE n

\* claim_execution: Stale, Inactive or Leased.  The receipt is claimed, or an old
\* lease's receipt is released and claimed again.
ClaimExecution(w) ==
    LET k == worker[w].task
        g == worker[w].generation
        at == lastClaim[k][g] + 1
    IN
    /\ worker[w].pc = "delivered"
    /\ \/ /\ ~Claimable(k, g)
          /\ Stale(w)
          /\ UNCHANGED <<task, receipt, lastClaim>>
       \/ /\ Claimable(k, g) /\ (Expired(k) \/ task[k].cancel)
          /\ task' = [task EXCEPT ![k] =
                 Moved(k, IF Expired(k) THEN "expired" ELSE "cancelled", NoLease)]
          /\ receipt[k][g] = IF Leased(k) THEN "open" ELSE "none"
          /\ receipt' = [receipt EXCEPT ![k][g] = "done"]
          /\ Answered(w, "succeeded")
          /\ UNCHANGED <<lastClaim, strayed>>
       \/ /\ Claimable(k, g) /\ ~Expired(k) /\ ~task[k].cancel
          /\ receipt[k][g] = IF Leased(k) THEN "open" ELSE "none"
          /\ receipt' = [receipt EXCEPT ![k][g] = "open"]
          /\ task' = [task EXCEPT ![k].lease =
                 [at |-> at, version |-> task[k].version,
                  left |-> Least(JobTimeout, task[k].ttl)]]
          /\ lastClaim' = [lastClaim EXCEPT ![k][g] = at]
          /\ GoesOn(w, [worker EXCEPT ![w].pc = "leased", ![w].at = at,
                                        ![w].version = task[k].version])
          /\ UNCHANGED strayed
    /\ UNCHANGED <<cancelJobs, signalled, client, stopped, published>>

\* Registration with the cancellation runtime; without it the claim is given back.
Register(w) ==
    /\ worker[w].pc = "leased"
    /\ \/ worker' = [worker EXCEPT ![w].pc = "executing"] /\ UNCHANGED faults
       \/ worker' = [worker EXCEPT ![w].pc = "abandoning"] /\ SpendFault
    /\ UNCHANGED <<task, receipt, provider, cancelJobs, signalled, client, history>>

\* A fence on the job alone.
ExactLeaseOfJob(w) ==
    LET r == task[worker[w].task]
    IN  Leased(worker[w].task) /\ r.generation = worker[w].generation

\* The lease is the one this worker claimed.
ExactLease(w) ==
    LET r == task[worker[w].task]
    IN  /\ Leased(worker[w].task) /\ r.generation = worker[w].generation
        /\ r.lease.at = worker[w].at /\ r.lease.version = worker[w].version

\* Nothing moved the row since the claim, except a cancellation request.
CancellationAdvanced(w) ==
    LET r == task[worker[w].task]
    IN  r.cancel /\ r.version = worker[w].version + 1

Publish(w) ==
    published' = [published EXCEPT ![worker[w].task][worker[w].generation] =
                      @ \cup {worker[w].at}]

\* abandon_execution: Stale, Released, Cancelled, or a refused transition.
AbandonExecution(w) ==
    LET k == worker[w].task
        g == worker[w].generation
    IN
    /\ worker[w].pc = "abandoning"
    /\ \/ /\ ~ExactLease(w)
          /\ Stale(w)
          /\ UNCHANGED <<task, receipt, published>>
       \/ /\ ExactLease(w) /\ task[k].version = worker[w].version
          /\ receipt[k][g] = "open"
          /\ receipt' = [receipt EXCEPT ![k][g] = "none"]
          /\ task' = [task EXCEPT ![k].lease = NoLease]
          /\ Answered(w, "retryable")
          /\ UNCHANGED <<published, strayed>>
       \/ /\ ExactLease(w) /\ CancellationAdvanced(w) /\ ~Expired(k)
          /\ End(k, "cancelled") /\ Publish(w)
          /\ Answered(w, "cancelled")
          /\ UNCHANGED strayed
       \/ /\ ExactLease(w) /\ CancellationAdvanced(w) /\ Expired(k)
          /\ Returns(w, "permanent")
          /\ UNCHANGED <<task, receipt, published, strayed, faults>>
    /\ UNCHANGED <<cancelJobs, signalled, client, stopped, lastClaim>>

\* The executor's result; it is cancelled through its token only, by the cancellation
\* runtime or by a shutdown.
ExecutorEnds(w, r) ==
    /\ worker[w].pc = "executing"
    /\ IF r = "cancelled" /\ <<worker[w].task, worker[w].generation>> \notin signalled
       THEN SpendFault ELSE UNCHANGED faults
    /\ worker' = [worker EXCEPT ![w].pc = IF r = "input" THEN "requiring" ELSE "settling",
                                ![w].out = r]
    /\ UNCHANGED <<task, receipt, provider, cancelJobs, signalled, client, history>>

\* An input round is asked although cancellation was requested.
MayPauseUnasked(w) ==
    /\ ExactLease(w)
    /\ task[worker[w].task].version = worker[w].version \/ CancellationAdvanced(w)
    /\ ~Expired(worker[w].task)

MayPause(w) ==
    /\ ExactLease(w) /\ task[worker[w].task].version = worker[w].version
    /\ ~task[worker[w].task].cancel /\ ~Expired(worker[w].task)

\* require_input: a stale pause is settled as a cancellation; a question asked in an
\* earlier round is refused.
RequireInput(w) ==
    LET k == worker[w].task
        g == worker[w].generation
    IN
    /\ worker[w].pc = "requiring"
    /\ \/ /\ ~MayPause(w)
          /\ GoesOn(w, [worker EXCEPT ![w].pc = "settling", ![w].out = "cancelled"])
          /\ UNCHANGED <<task, receipt, published>>
       \/ /\ MayPause(w) /\ g > 1
          /\ Returns(w, "permanent")
          /\ UNCHANGED <<task, receipt, published, faults>>
       \/ /\ MayPause(w)
          /\ task' = [task EXCEPT ![k] =
                 [Moved(k, "input", NoLease) EXCEPT !.pending = InputKey]]
          /\ FinishReceipt(k) /\ Publish(w)
          /\ Answered(w, "succeeded")
    /\ UNCHANGED <<cancelJobs, signalled, client, stopped, lastClaim, strayed>>

\* settle_execution; the handler's own outcome tells an interruption apart.
SettleExecution(w) ==
    LET k == worker[w].task
        current == /\ ExactLease(w) /\ task[k].status = "working"
                   /\ task[k].version = worker[w].version \/ CancellationAdvanced(w)
    IN
    /\ worker[w].pc = "settling"
    /\ \/ /\ ~current
          /\ Stale(w)
          /\ UNCHANGED <<task, receipt, published>>
       \/ /\ current
          /\ End(k, IF Expired(k) THEN "expired" ELSE worker[w].out) /\ Publish(w)
          /\ Answered(w, IF worker[w].out = "cancelled" THEN "cancelled" ELSE "succeeded")
          /\ UNCHANGED strayed
    /\ UNCHANGED <<cancelJobs, signalled, client, stopped, lastClaim>>

Running == {"delivered", "leased", "abandoning", "executing", "requiring", "settling"}

\* The jobs provider drops the handler at its timeout, or after a shutdown.
HandlerDropped(w, o) ==
    /\ worker[w].pc \in Running
    /\ \/ o = "retryable" /\ worker[w].vt <= Grace /\ UNCHANGED faults
       \/ o = "cancelled" /\ SpendFault
    /\ Returns(w, o)
    /\ UNCHANGED <<task, receipt, cancelJobs, signalled, client, history>>

WorkerDies(w) ==
    /\ worker[w].pc \in Running /\ SpendFault
    /\ Dies(w)
    /\ UNCHANGED <<task, receipt, cancelJobs, signalled, client, history>>

-----------------------------------------------------------------------------

Less(n) == IF n = 0 THEN 0 ELSE n - 1

Elapse ==
    /\ task' = [k \in Task |-> [task[k] EXCEPT !.ttl = Less(@), !.lease.left = Less(@)]]
    /\ worker' = [w \in Worker |-> [worker[w] EXCEPT !.vt = Less(@)]]
    /\ UNCHANGED <<receipt, provider, cancelJobs, signalled, client, history, faults>>

Next ==
    \/ \E k \in Task : Create(k) \/ Expire(k) \/ GetExpires(k)
    \/ \E c \in Updater, k \in Task : UpdateReads(c, k)
    \/ \E c \in Updater, S \in SUBSET InputKey : UpdateInput(c, S)
    \/ \E c \in Canceller, k \in Task : CancelReads(c, k)
    \/ \E c \in Canceller : CancelAtomic(c)
    \/ \E k \in Task, g \in Generation :
           Relay(k, g) \/ DeliverCancellation(k, g) \/ ForgetReceipt(k, g)
    \/ \E w \in Worker, k \in Task, g \in Generation, n \in 1..(MaxDeliveries + 1) :
           Deliver(w, k, g, n)
    \/ \E w \in Worker :
           \/ Lapse(w) \/ CallFails(w) \/ WorkerDies(w)
           \/ ClaimExecution(w) \/ Register(w) \/ AbandonExecution(w)
           \/ RequireInput(w) \/ SettleExecution(w)
    \/ \E w \in Worker, r \in {"completed", "failed", "input", "cancelled"} :
           ExecutorEnds(w, r)
    \/ \E w \in Worker, o \in {"retryable", "cancelled"} : HandlerDropped(w, o)
    \/ Elapse

Spec == Init /\ [][Next]_vars

-----------------------------------------------------------------------------
(* Properties.                                                             *)

Row == [status : {"absent", "working", "input", "completed", "failed", "expired", "cancelled"},
        generation : 0..MaxGeneration, version : Nat, cancel : BOOLEAN, ttl : 0..Ttl,
        pending : SUBSET InputKey, lease : [at : Nat, version : Nat, left : 0..JobTimeout]]

WorkerState == [pc : {"idle", "gone"} \cup Running, task : Task, generation : 0..MaxGeneration,
                at : Nat, version : Nat, read : Reads, vt : 0..(JobTimeout + Grace), owned : BOOLEAN,
                out : {"none", "completed", "failed", "input", "cancelled"}]

ClientState == [pc : {"idle", "update", "cancel"}, task : Task, generation : 0..MaxGeneration,
                version : Nat, tries : 0..CancelAttempts]

TypeOK ==
    /\ task \in [Task -> Row]
    /\ receipt \in [Task -> [Generation -> {"none", "open", "done"}]]
    /\ queue \in [Task \X Generation \X Reads -> Nat]
    /\ lastClaim \in [Task -> [Generation -> Nat]]
    /\ intents \cup cancelJobs \cup dead \cup signalled \cup strayed \subseteq Task \X Generation
    /\ worker \in [Worker -> WorkerState] /\ client \in [Client -> ClientState]
    /\ stopped \subseteq Task /\ published \in [Task -> [Generation -> SUBSET Nat]]
    /\ faults \in 0..MaxFaults

\* Every row can be decoded and every receipt a call needs is there, whatever calls
\* interleave or lose their answers: a lease belongs to a working row, is one version
\* behind it exactly when cancellation was requested, and its job's receipt is open;
\* a working row without a lease has no receipt.  decode_task_record, and the claim
\* and resume of a receipt, answer Integrity otherwise, for every later call.
RecordsStayReadable ==
    \A k \in Task :
        LET r == task[k] IN
        /\ Leased(k) =>
               /\ r.status = "working" /\ receipt[k][r.generation] = "open"
               /\ r.version = r.lease.version + (IF r.cancel THEN 1 ELSE 0)
        /\ r.status = "working" /\ ~Leased(k) => ~r.cancel /\ receipt[k][r.generation] = "none"
        /\ \A g \in Generation : receipt[k][g] = "open" => g = r.generation /\ Leased(k)

\* A generation's outcome is committed once, by the last worker that claimed it: a
\* worker whose lease was taken over, released or ended publishes nothing
\* (require_input, settle_execution and abandon_execution repeat the exact lease).
LastClaimPublishes ==
    \A k \in Task, g \in Generation :
        /\ published[k][g] \subseteq {lastClaim[k][g]}
        /\ published[k][g] # {} => ~(task[k].status = "working" /\ task[k].generation = g)

\* Once tasks/cancel was acknowledged, the task is not executed again: no claim is
\* granted, no input round is asked and no generation begins, whatever update or
\* worker raced the cancellation (the version is compared by every write, and
\* require_input refuses a cancelled row).
CancelledStaysStopped ==
    [][\A k \in stopped :
           /\ task'[k].generation = task[k].generation /\ lastClaim'[k] = lastClaim[k]
           /\ task'[k].status = "input" => task[k].status = "input"]_vars

\* The job of generation g is waiting, held by a worker or dead-lettered.
HasJob(k, g) ==
    \/ <<k, g>> \in intents \cup dead
    \/ \E n \in Reads : queue[<<k, g, n>>] > 0
    \/ \E w \in Worker : /\ worker[w].pc # "idle" /\ worker[w].owned
                          /\ worker[w].task = k /\ worker[w].generation = g

\* A working task has its job, whatever answers, workers and duplicates come and go.  The
\* one exception is a job archived by a Stale answer, which the handler reports as a
\* success: a redelivery that met the running lease of a claim that lost its answer, or a
\* worker whose lease another one took over.
OnlyStaleAnswersStrand ==
    \A k \in Task :
        task[k].status = "working" =>
            HasJob(k, task[k].generation) \/ <<k, task[k].generation>> \in strayed

\* Work that its worker abandoned can be recovered: when the lease of a working task has
\* run out, a job is left to claim it again.  The archived Stale answer of the handler
\* refutes it: nothing wakes the task then, and it sleeps until it expires.
AbandonedIsRecovered ==
    \A k \in Task :
        task[k].status = "working" /\ Leased(k) /\ task[k].lease.left = 0 =>
            HasJob(k, task[k].generation)

=============================================================================
