---------------------------- MODULE ScheduledRuns ----------------------------
(***************************************************************************)
(* The run side of the durable scheduler (crates/scheduler): the rows of  *)
(* scheduler_job_runs that belong to one schedule, the replicas that hand *)
(* them to a job provider, and the execution gate every delivery passes   *)
(* (ScheduledJobHandler).                                                  *)
(*                                                                         *)
(* Every timestamp is kept as the time left until it, 0 once it is past.  *)
(* A statement is one step.  The transactions of the gate and of replay   *)
(* hold row locks from one step to the next: the gate locks the run and   *)
(* then the schedule, replay the schedule and then the original run.  The *)
(* job provider is external: a queue that delivers at least once, returns *)
(* what a handler wants retried, and may give a message up.               *)
(***************************************************************************)
EXTENDS Integers, FiniteSets, FiniteSetsExt

CONSTANTS Run,             \* the runs of one schedule
          Replica,         \* scheduler tasks that dispatch
          Worker,          \* job workers, one delivery at a time
          Fence,           \* dispatch and execution tokens; bound: those in use at once
          None,            \* NULL, nobody
          Maximum,         \* max_concurrent_runs
          ExecutionLease,  \* execution_lease_duration
          Safety,          \* EXECUTION_FINISH_SAFETY
          JobTimeout,      \* from delivery to the deadline of the context
          DispatchLease,   \* dispatch_lease_duration
          RetryDelay,      \* dispatch_retry_delay
          Batch,           \* dispatch_claim_batch
          MaxCopies,       \* bound: messages of one run in the queue
          MaxReplays,      \* bound: replays begun
          MaxFaults        \* bound: failures of processes, database and provider

Administrator == "administrator"

ASSUME ScheduledRunsAssumption ==
    /\ None \notin Fence \cup Worker \cup Run \cup {Administrator}
    /\ Administrator \notin Worker
    /\ Maximum \in Nat \ {0} /\ Batch \in Nat \ {0}
    /\ Safety \in Nat \ {0} /\ ExecutionLease \in Nat /\ ExecutionLease > Safety
    /\ JobTimeout \in Nat /\ DispatchLease \in Nat \ {0} /\ RetryDelay \in Nat \ {0}
    /\ MaxCopies \in Nat /\ MaxReplays \in Nat /\ MaxFaults \in Nat

VARIABLES status, wait,           \* status; available_at
          dToken, dLease,         \* dispatch_lease_token and _expires_at
          eToken, eLease,         \* execution_lease_token and _expires_at
          dispatchedAt, startedAt,\* whether the column is set
          held,                   \* the claimed runs a replica has yet to hand over
          handoff,                \* the run it has handed over, with the provider's answer
          copies, dead,           \* messages in the queue; messages given up
          worker,                 \* the delivery a worker is busy with
          runLock, scheduleLock,  \* who holds the row
          replay,                 \* how far the replaying administrator is
          faults

row == <<status, wait, dToken, dLease, eToken, eLease, dispatchedAt, startedAt>>
dispatch == <<held, handoff>>
queue == <<copies, dead>>
locks == <<runLock, scheduleLock>>
vars == <<row, dispatch, queue, worker, locks, replay, faults>>

Idle == [pc |-> "idle", run |-> None, token |-> None, lasts |-> 0,
         deadline |-> 0, budget |-> 0, renewal |-> 0, outcome |-> "none",
         mine |-> FALSE]

Init ==
    /\ status = [x \in Run |-> "absent"]
    /\ wait = [x \in Run |-> 0]
    /\ dToken = [x \in Run |-> None] /\ dLease = [x \in Run |-> 0]
    /\ eToken = [x \in Run |-> None] /\ eLease = [x \in Run |-> 0]
    /\ dispatchedAt = [x \in Run |-> FALSE] /\ startedAt = [x \in Run |-> FALSE]
    /\ held = [d \in Replica |-> {}] /\ handoff = [d \in Replica |-> None]
    /\ copies = [x \in Run |-> 0] /\ dead = [x \in Run |-> 0]
    /\ worker = [w \in Worker |-> Idle]
    /\ runLock = [x \in Run |-> None] /\ scheduleLock = None
    /\ replay = [pc |-> "idle", run |-> None, begun |-> 0]
    /\ faults = 0

SpendFault == faults < MaxFaults /\ faults' = faults + 1

\* One unused fence is as good as another.
Unused ==
    Fence \ ({dToken[x] : x \in Run} \cup {eToken[x] : x \in Run}
             \cup {c.token : c \in UNION {held[d] : d \in Replica}}
             \cup {handoff[d].token : d \in {d \in Replica : handoff[d] # None}}
             \cup {worker[w].token : w \in Worker})

-----------------------------------------------------------------------------
(* New rows: materialize_due, and replay in two locking steps.             *)

InsertRun(x) ==
    /\ status[x] = "absent"
    /\ status' = [status EXCEPT ![x] = "pending_dispatch"]
    /\ UNCHANGED <<wait, dToken, dLease, eToken, eLease, dispatchedAt, startedAt>>

Materialize(x) ==
    /\ scheduleLock = None
    /\ InsertRun(x)
    /\ UNCHANGED <<dispatch, queue, worker, locks, replay, faults>>

\* Bound: a row of Run is left for the new run.
ReplayLocksSchedule ==
    /\ replay.pc = "idle" /\ replay.begun < MaxReplays /\ scheduleLock = None
    /\ \E y \in Run : status[y] = "absent"
    /\ \E x \in Run :
          /\ status[x] # "absent"
          /\ replay' = [pc |-> "schedule", run |-> x, begun |-> replay.begun + 1]
    /\ scheduleLock' = Administrator
    /\ UNCHANGED <<row, dispatch, queue, worker, runLock, faults>>

\* FOR SHARE of the original run, then the insertion and the commit.
ReplayInserts(x) ==
    /\ replay.pc = "schedule" /\ runLock[replay.run] = None
    /\ InsertRun(x)
    /\ replay' = [replay EXCEPT !.pc = "idle", !.run = None]
    /\ scheduleLock' = None
    /\ UNCHANGED <<dispatch, queue, worker, runLock, faults>>

\* The rows wait for each other; PostgreSQL aborts one of the transactions.
LockCycle(w) ==
    /\ replay.pc = "schedule" /\ worker[w].pc = "gate"
    /\ runLock[replay.run] = w

\* A factory error, a database error or the abort of a lock cycle.
ReplayAborts ==
    /\ replay.pc = "schedule"
    /\ replay' = [replay EXCEPT !.pc = "idle", !.run = None]
    /\ scheduleLock' = None
    /\ UNCHANGED <<row, dispatch, queue, worker, runLock, faults>>

-----------------------------------------------------------------------------
(* A replica: claim runs, hand each over, record the answer.               *)

\* A claim that never takes over a run another replica has begun to hand over.
ClaimableOnce(x) ==
    /\ wait[x] = 0 /\ runLock[x] = None
    /\ status[x] = "pending_dispatch"

Claimable(x) ==
    /\ wait[x] = 0 /\ runLock[x] = None
    /\ \/ status[x] = "pending_dispatch"
       \/ status[x] = "dispatching" /\ dLease[x] = 0

\* The batch is ordered by availability; the order of runs that became available
\* at different times is not kept, so any batch may come first.
ClaimPendingRuns(d) ==
    /\ held[d] = {} /\ handoff[d] = None
    /\ \E B \in SUBSET {x \in Run : Claimable(x)} :
          LET F == {f \in [B -> Unused] : \A x, y \in B : f[x] = f[y] => x = y}
              f == CHOOSE f \in F : TRUE
          IN  /\ B # {} /\ F # {}
              /\ Cardinality(B) = Min({Batch, Cardinality({x \in Run : Claimable(x)})})
              /\ status' = [x \in Run |-> IF x \in B THEN "dispatching" ELSE status[x]]
              /\ dToken' = [x \in Run |-> IF x \in B THEN f[x] ELSE dToken[x]]
              /\ dLease' = [x \in Run |-> IF x \in B THEN DispatchLease ELSE dLease[x]]
              /\ held' = [held EXCEPT ![d] = {[run |-> x, token |-> f[x]] : x \in B}]
    /\ UNCHANGED <<wait, eToken, eLease, dispatchedAt, startedAt, handoff, queue,
                   worker, locks, replay, faults>>

\* The provider's enqueue under the enqueue timeout.  An error, a foreign receipt or
\* a timeout says nothing of whether the message is in the queue.
Enqueue(d, accepted, ok) ==
    /\ handoff[d] = None
    /\ ok => accepted
    /\ IF ok THEN faults' = faults ELSE SpendFault
    /\ \E c \in held[d] :
          /\ accepted => copies[c.run] < MaxCopies
          /\ handoff' = [handoff EXCEPT ![d] = [run |-> c.run, token |-> c.token, ok |-> ok]]
          /\ held' = [held EXCEPT ![d] = @ \ {c}]
          /\ copies' = [copies EXCEPT ![c.run] = IF accepted THEN @ + 1 ELSE @]
    /\ UNCHANGED <<row, dead, worker, locks, replay>>

\* The fence of mark_dispatched and mark_dispatch_retry.
HoldsDispatch(h) ==
    /\ status[h.run] = "dispatching"
    /\ dToken[h.run] = h.token /\ dLease[h.run] > 0

ClearDispatch(x) ==
    /\ dToken' = [dToken EXCEPT ![x] = None]
    /\ dLease' = [dLease EXCEPT ![x] = 0]

\* An acknowledgement that trusts every answer of the provider.
MarkDispatchedAnyway(d) ==
    LET h == handoff[d] IN
    /\ h # None /\ runLock[h.run] = None
    /\ IF HoldsDispatch(h)
       THEN /\ status' = [status EXCEPT ![h.run] = "dispatched"]
            /\ dispatchedAt' = [dispatchedAt EXCEPT ![h.run] = TRUE]
            /\ ClearDispatch(h.run)
       ELSE UNCHANGED <<status, dispatchedAt, dToken, dLease>>
    /\ handoff' = [handoff EXCEPT ![d] = None]
    /\ UNCHANGED <<wait, eToken, eLease, startedAt, held, queue, worker, locks,
                   replay, faults>>

MarkDispatched(d) ==
    LET h == handoff[d] IN
    /\ h # None /\ h.ok /\ runLock[h.run] = None
    /\ IF HoldsDispatch(h)
       THEN /\ status' = [status EXCEPT ![h.run] = "dispatched"]
            /\ dispatchedAt' = [dispatchedAt EXCEPT ![h.run] = TRUE]
            /\ ClearDispatch(h.run)
       ELSE UNCHANGED <<status, dispatchedAt, dToken, dLease>>
    /\ handoff' = [handoff EXCEPT ![d] = None]
    /\ UNCHANGED <<wait, eToken, eLease, startedAt, held, queue, worker, locks,
                   replay, faults>>

\* A recorded failure ends the task, and the rest of its batch waits for the leases
\* to expire; a lost lease does not.
MarkDispatchRetry(d) ==
    LET h == handoff[d] IN
    /\ h # None /\ ~h.ok /\ runLock[h.run] = None
    /\ IF HoldsDispatch(h)
       THEN /\ status' = [status EXCEPT ![h.run] = "pending_dispatch"]
            /\ wait' = [wait EXCEPT ![h.run] = RetryDelay]
            /\ ClearDispatch(h.run)
            /\ held' = [held EXCEPT ![d] = {}]
       ELSE UNCHANGED <<status, wait, dToken, dLease, held>>
    /\ handoff' = [handoff EXCEPT ![d] = None]
    /\ UNCHANGED <<eToken, eLease, dispatchedAt, startedAt, queue, worker, locks,
                   replay, faults>>

ReplicaCrash(d) ==
    /\ held[d] # {} \/ handoff[d] # None
    /\ SpendFault
    /\ held' = [held EXCEPT ![d] = {}]
    /\ handoff' = [handoff EXCEPT ![d] = None]
    /\ UNCHANGED <<row, queue, worker, locks, replay>>

-----------------------------------------------------------------------------
(* A worker: a delivery, the execution gate, the handler, the settlement.  *)

\* The handler's future is dropped: its timers count no more.
Ends(w, o) ==
    [worker EXCEPT ![w].pc = "finishing", ![w].outcome = o, ![w].lasts = 0,
                   ![w].deadline = 0, ![w].budget = 0, ![w].renewal = 0]

\* ScheduledJobHandler::handle returns.
Returns(w, o) ==
    [worker EXCEPT ![w] = [Idle EXCEPT !.pc = "returned", !.run = worker[w].run,
                                       !.outcome = o, !.mine = worker[w].mine]]

Deliver(w, x) ==
    /\ worker[w].pc = "idle" /\ copies[x] > 0
    /\ copies' = [copies EXCEPT ![x] = @ - 1]
    /\ worker' = [worker EXCEPT ![w] = [Idle EXCEPT !.pc = "delivered", !.run = x,
                                        !.deadline = JobTimeout, !.mine = TRUE]]
    /\ UNCHANGED <<row, dispatch, dead, locks, replay, faults>>

\* What the gate answers from the run alone; the rest goes on to the schedule.
GateAnswer(x) ==
    CASE status[x] = "completed" -> "succeeded"
      [] status[x] \in {"failed", "absent"} -> "permanent"
      [] status[x] = "pending_dispatch" -> "retryable"
      [] status[x] = "running" /\ eLease[x] > 0 -> "retryable"
      [] OTHER -> "acquire"

\* A gate that, ahead of the dispatcher, keeps its transaction open and looks again.
GateAwaitsDispatch(w) ==
    LET x == worker[w].run IN
    /\ worker[w].pc = "delivered" /\ runLock[x] \in {None, w}
    /\ IF GateAnswer(x) \in {"acquire", "retryable"}
       THEN /\ worker' = [worker EXCEPT ![w].pc = IF GateAnswer(x) = "acquire" THEN "gate" ELSE @]
            /\ runLock' = [runLock EXCEPT ![x] = w]
       ELSE /\ worker' = Returns(w, GateAnswer(x))
            /\ runLock' = [runLock EXCEPT ![x] = None]
    /\ UNCHANGED <<row, dispatch, queue, scheduleLock, replay, faults>>

GateLocksRun(w) ==
    LET x == worker[w].run IN
    /\ worker[w].pc = "delivered" /\ runLock[x] = None
    /\ IF GateAnswer(x) = "acquire"
       THEN /\ worker' = [worker EXCEPT ![w].pc = "gate"]
            /\ runLock' = [runLock EXCEPT ![x] = w]
       ELSE /\ worker' = Returns(w, GateAnswer(x))
            /\ UNCHANGED runLock
    /\ UNCHANGED <<row, dispatch, queue, scheduleLock, replay, faults>>

\* A gate that counts without the lock on the schedule.
GateSkipsSchedule(w) ==
    /\ worker[w].pc = "gate"
    /\ worker' = [worker EXCEPT ![w].pc = "counting"]
    /\ UNCHANGED <<row, dispatch, queue, locks, replay, faults>>

GateLocksSchedule(w) ==
    /\ worker[w].pc = "gate" /\ scheduleLock = None
    /\ worker' = [worker EXCEPT ![w].pc = "counting"]
    /\ scheduleLock' = w
    /\ UNCHANGED <<row, dispatch, queue, runLock, replay, faults>>

ReleaseLocks(w) ==
    /\ runLock' = [x \in Run |-> IF runLock[x] = w THEN None ELSE runLock[x]]
    /\ scheduleLock' = IF scheduleLock = w THEN None ELSE scheduleLock

Live(x) == status[x] = "running" /\ eLease[x] > 0

OtherExecutions(x) == Cardinality({y \in Run \ {x} : Live(y)})

\* deadline_capped_lease; 0 stands for None.
CappedLease(w) == Max({0, Min({ExecutionLease, worker[w].deadline - Safety})})

\* The count sees what other transactions have committed.
GateCounts(w) ==
    /\ worker[w].pc = "counting"
    /\ OtherExecutions(worker[w].run) < Maximum
    /\ worker' = [worker EXCEPT ![w].pc = "claiming"]
    /\ UNCHANGED <<row, dispatch, queue, locks, replay, faults>>

GateRefuses(w) ==
    /\ \/ worker[w].pc = "counting" /\ OtherExecutions(worker[w].run) >= Maximum
       \/ worker[w].pc = "claiming" /\ CappedLease(w) = 0
    /\ worker' = Returns(w, "retryable")
    /\ ReleaseLocks(w)
    /\ UNCHANGED <<row, dispatch, queue, replay, faults>>

\* claim_execution and the commit.  When the answer to the commit is lost the
\* handler reports the gate unavailable and nobody holds the fence.
GateClaims(w, seen) ==
    LET x == worker[w].run
        f == CHOOSE f \in Unused : TRUE
    IN
    /\ worker[w].pc = "claiming" /\ CappedLease(w) > 0 /\ Unused # {}
    /\ status' = [status EXCEPT ![x] = "running"]
    /\ dispatchedAt' = [dispatchedAt EXCEPT ![x] = TRUE]
    /\ startedAt' = [startedAt EXCEPT ![x] = TRUE]
    /\ ClearDispatch(x)
    /\ eToken' = [eToken EXCEPT ![x] = f]
    /\ eLease' = [eLease EXCEPT ![x] = CappedLease(w)]
    /\ IF seen
       THEN /\ worker' = [worker EXCEPT ![w].pc = "acquired", ![w].token = f,
                                        ![w].lasts = CappedLease(w)]
            /\ faults' = faults
       ELSE worker' = Returns(w, "retryable") /\ SpendFault
    /\ ReleaseLocks(w)
    /\ UNCHANGED <<wait, dispatch, queue, replay>>

\* A database error, or the abort of a lock cycle.
GateAborts(w) ==
    /\ worker[w].pc \in {"gate", "counting", "claiming"}
    /\ IF LockCycle(w) THEN faults' = faults ELSE SpendFault
    /\ worker' = Returns(w, "retryable")
    /\ ReleaseLocks(w)
    /\ UNCHANGED <<row, dispatch, queue, replay>>

\* A budget bounded by the delivery's deadline alone.
BudgetToDeadline(w) == worker[w].deadline - Safety

\* bounded_execution_budget, on the worker's own clock.
Budget(w) == Min({worker[w].lasts, worker[w].deadline}) - Safety

Renewal(w) == (worker[w].lasts + 2) \div 3

StartHandler(w) ==
    /\ worker[w].pc = "acquired"
    /\ worker' = IF Budget(w) > 0
                 THEN [worker EXCEPT ![w].pc = "executing", ![w].budget = Budget(w),
                                     ![w].renewal = Renewal(w)]
                 ELSE Ends(w, "retryable")
    /\ UNCHANGED <<row, dispatch, queue, locks, replay, faults>>

\* The handler returns or panics, is cancelled, or runs into its budget.
HandlerEnds(w, o) ==
    /\ worker[w].pc = "executing"
    /\ worker' = Ends(w, o)
    /\ UNCHANGED <<row, dispatch, queue, locks, replay, faults>>

\* A fence by the state of the run alone.
HoldsExecutionByStatus(w) == status[worker[w].run] = "running"

\* The fence of renew_execution and finish_execution.
HoldsExecution(w) ==
    LET x == worker[w].run IN
    /\ status[x] = "running"
    /\ eToken[x] = worker[w].token /\ eLease[x] > 0

Renew(w) ==
    LET x == worker[w].run IN
    /\ worker[w].pc = "executing" /\ worker[w].renewal = 0 /\ runLock[x] = None
    /\ IF HoldsExecution(w) /\ worker[w].deadline > Safety
       THEN /\ eLease' = [eLease EXCEPT ![x] =
                             Min({worker[w].lasts, worker[w].deadline - Safety})]
            /\ worker' = [worker EXCEPT ![w].renewal = Renewal(w)]
       ELSE /\ worker' = Ends(w, "retryable")
            /\ UNCHANGED eLease
    /\ UNCHANGED <<status, wait, dToken, dLease, eToken, dispatchedAt, startedAt,
                   dispatch, queue, locks, replay, faults>>

FinalStatus(o) ==
    CASE o = "succeeded" -> "completed"
      [] o = "permanent" -> "failed"
      [] OTHER -> "dispatched"

\* A settlement that reports the outcome whether or not the fence still held.
FinishReportingAnyway(w) ==
    LET x == worker[w].run
        o == worker[w].outcome
    IN
    /\ worker[w].pc = "finishing" /\ runLock[x] = None
    /\ IF HoldsExecution(w)
       THEN /\ status' = [status EXCEPT ![x] = FinalStatus(o)]
            /\ eToken' = [eToken EXCEPT ![x] = None]
            /\ eLease' = [eLease EXCEPT ![x] = 0]
       ELSE UNCHANGED <<status, eToken, eLease>>
    /\ worker' = Returns(w, o)
    /\ UNCHANGED <<wait, dToken, dLease, dispatchedAt, startedAt, dispatch, queue,
                   locks, replay, faults>>

Finish(w) ==
    LET x == worker[w].run
        o == worker[w].outcome
    IN
    /\ worker[w].pc = "finishing" /\ runLock[x] = None
    /\ IF HoldsExecution(w)
       THEN /\ status' = [status EXCEPT ![x] = FinalStatus(o)]
            /\ eToken' = [eToken EXCEPT ![x] = None]
            /\ eLease' = [eLease EXCEPT ![x] = 0]
            /\ worker' = Returns(w, o)
       ELSE /\ worker' = Returns(w, "retryable")
            /\ UNCHANGED <<status, eToken, eLease>>
    /\ UNCHANGED <<wait, dToken, dLease, dispatchedAt, startedAt, dispatch, queue,
                   locks, replay, faults>>

\* The provider's reaction: forget a success, return what is to be retried, give up
\* a permanent failure.  A message redelivered meanwhile is no longer this worker's.
Settle(w) ==
    LET x == worker[w].run
        o == worker[w].outcome
        back == IF o \in {"retryable", "cancelled"} THEN 1 ELSE 0
        lost == IF o = "permanent" THEN 1 ELSE 0
    IN
    /\ worker[w].pc = "returned"
    /\ IF worker[w].mine
       THEN /\ copies' = [copies EXCEPT ![x] = @ + back]
            /\ dead' = [dead EXCEPT ![x] = @ + lost]
       ELSE UNCHANGED queue
    /\ worker' = [worker EXCEPT ![w] = Idle]
    /\ UNCHANGED <<row, dispatch, locks, replay, faults>>

\* The provider has counted the last attempt.
GiveUp(w) ==
    /\ worker[w].pc = "returned" /\ worker[w].outcome \in {"retryable", "cancelled"}
    /\ worker[w].mine /\ SpendFault
    /\ dead' = [dead EXCEPT ![worker[w].run] = @ + 1]
    /\ worker' = [worker EXCEPT ![w] = Idle]
    /\ UNCHANGED <<row, dispatch, copies, locks, replay>>

\* The message becomes visible while its worker is still busy with it.
Redeliver(w) ==
    /\ worker[w].pc # "idle" /\ worker[w].mine /\ SpendFault
    /\ copies' = [copies EXCEPT ![worker[w].run] = @ + 1]
    /\ worker' = [worker EXCEPT ![w].mine = FALSE]
    /\ UNCHANGED <<row, dispatch, dead, locks, replay>>

WorkerCrash(w) ==
    /\ worker[w].pc # "idle" /\ SpendFault
    /\ copies' = [copies EXCEPT ![worker[w].run] = IF worker[w].mine THEN @ + 1 ELSE @]
    /\ worker' = [worker EXCEPT ![w] = Idle]
    /\ ReleaseLocks(w)
    /\ UNCHANGED <<row, dispatch, dead, replay>>

-----------------------------------------------------------------------------
Sooner(n) == IF n > 0 THEN n - 1 ELSE 0

\* Time passes: for the database's columns and for the timers of the workers.
Elapse ==
    /\ wait' = [x \in Run |-> Sooner(wait[x])]
    /\ dLease' = [x \in Run |-> Sooner(dLease[x])]
    /\ eLease' = [x \in Run |-> Sooner(eLease[x])]
    /\ worker' = [w \in Worker |->
          [worker[w] EXCEPT !.deadline = Sooner(@), !.budget = Sooner(@),
                            !.renewal = Sooner(@)]]
    /\ <<wait, dLease, eLease, worker>>' # <<wait, dLease, eLease, worker>>
    /\ UNCHANGED <<status, dToken, eToken, dispatchedAt, startedAt, dispatch, queue,
                   locks, replay, faults>>

WorkerStep(w) ==
    \/ \E x \in Run : Deliver(w, x)
    \/ GateLocksRun(w) \/ GateLocksSchedule(w) \/ GateCounts(w) \/ GateRefuses(w)
    \/ \E seen \in BOOLEAN : GateClaims(w, seen)
    \/ GateAborts(w)
    \/ StartHandler(w)
    \/ \E o \in {"succeeded", "retryable", "permanent", "cancelled"} : HandlerEnds(w, o)
    \/ Renew(w) \/ Finish(w) \/ Settle(w)
    \/ GiveUp(w) \/ Redeliver(w) \/ WorkerCrash(w)

ReplicaStep(d) ==
    \/ ClaimPendingRuns(d)
    \/ \E accepted, ok \in BOOLEAN : Enqueue(d, accepted, ok)
    \/ MarkDispatched(d) \/ MarkDispatchRetry(d)
    \/ ReplicaCrash(d)

DatabaseStep ==
    \/ \E x \in Run : Materialize(x) \/ ReplayInserts(x)
    \/ ReplayLocksSchedule \/ ReplayAborts

Next ==
    \/ DatabaseStep
    \/ \E d \in Replica : ReplicaStep(d)
    \/ \E w \in Worker : WorkerStep(w)
    \/ Elapse

Spec == Init /\ [][Next]_vars

\* A worker whose timer is due, or that has an answer of the gate to act on, does so
\* before time passes.  So does a replica with a batch in hand: the configuration
\* makes the dispatch lease exceed the enqueue timeout.
Urgent ==
    \/ \E w \in Worker :
          \/ worker[w].pc = "acquired"
          \/ /\ worker[w].pc = "executing"
             /\ worker[w].budget = 0 \/ worker[w].renewal = 0
    \/ \E d \in Replica : held[d] # {} \/ handoff[d] # None

PromptNext ==
    \/ DatabaseStep
    \/ \E d \in Replica : ReplicaStep(d)
    \/ \E w \in Worker : WorkerStep(w)
    \/ ~Urgent /\ Elapse

PromptSpec == Init /\ [][PromptNext]_vars

\* Tasks are restarted and run their loops, one statement after the other; a handler need
\* not return but its budget ends it; PostgreSQL queues for a row lock in order and breaks
\* every cycle of waits.  A replay that waits for nobody commits: nothing makes it fail.
Fairness ==
    /\ SF_vars(~Urgent /\ Elapse)
    /\ WF_vars(\E w \in Worker : LockCycle(w) /\ (GateAborts(w) \/ ReplayAborts))
    /\ SF_vars(\E x \in Run : ReplayInserts(x))
    /\ \A d \in Replica :
          SF_vars(\/ ClaimPendingRuns(d) \/ Enqueue(d, TRUE, TRUE)
                  \/ MarkDispatched(d) \/ MarkDispatchRetry(d))
    /\ \A w \in Worker :
          /\ WF_vars(\E x \in Run : Deliver(w, x))
          /\ SF_vars(GateLocksRun(w) \/ GateLocksSchedule(w) \/ Renew(w) \/ Finish(w))
          /\ WF_vars(GateCounts(w) \/ GateRefuses(w) \/ GateClaims(w, TRUE))
          /\ WF_vars(StartHandler(w) \/ Settle(w))
          /\ WF_vars(worker[w].budget = 0 /\ HandlerEnds(w, "retryable"))

FairSpec == PromptSpec /\ Fairness

-----------------------------------------------------------------------------
(* Properties.                                                             *)

Status == {"absent", "pending_dispatch", "dispatching", "dispatched", "running",
           "completed", "failed"}

WorkerState ==
    [pc : {"idle", "delivered", "gate", "counting", "claiming", "acquired", "executing",
           "finishing", "returned"},
     run : Run \cup {None}, token : Fence \cup {None}, lasts : 0..ExecutionLease,
     deadline : Nat, budget : Nat, renewal : Nat,
     outcome : {"none", "succeeded", "retryable", "permanent", "cancelled"},
     mine : BOOLEAN]

RowType ==
    /\ status \in [Run -> Status] /\ wait \in [Run -> 0..RetryDelay]
    /\ dToken \in [Run -> Fence \cup {None}] /\ dLease \in [Run -> 0..DispatchLease]
    /\ eToken \in [Run -> Fence \cup {None}] /\ eLease \in [Run -> 0..ExecutionLease]
    /\ dispatchedAt \in [Run -> BOOLEAN] /\ startedAt \in [Run -> BOOLEAN]

DispatchType ==
    /\ held \in [Replica -> SUBSET [run : Run, token : Fence]]
    /\ handoff \in [Replica -> [run : Run, token : Fence, ok : BOOLEAN] \cup {None}]

QueueType == copies \in [Run -> Nat] /\ dead \in [Run -> Nat]

LockType ==
    /\ runLock \in [Run -> Worker \cup {None}]
    /\ scheduleLock \in Worker \cup {None, Administrator}

ReplayType == replay \in [pc : {"idle", "schedule"}, run : Run \cup {None}, begun : Nat]

TypeOK ==
    /\ RowType /\ DispatchType /\ QueueType /\ LockType /\ ReplayType
    /\ worker \in [Worker -> WorkerState]
    /\ faults \in 0..MaxFaults

\* The CHECK scheduler_job_runs_state_complete: leases and timestamps agree with the
\* status, whichever of the gate, a late acknowledgement of a dispatcher and a retry
\* writes last.  A violation would turn the statement into a Database error.
StateComplete ==
    \A x \in Run :
        /\ (dToken[x] # None) <=> (status[x] = "dispatching")
        /\ (eToken[x] # None) <=> (status[x] = "running")
        /\ status[x] \in {"absent", "pending_dispatch", "dispatching"}
              => ~dispatchedAt[x] /\ ~startedAt[x]
        /\ status[x] = "dispatched" => dispatchedAt[x]
        /\ status[x] \in {"running", "completed", "failed"} => dispatchedAt[x] /\ startedAt[x]

\* No more runs of the schedule hold a live execution lease than max_concurrent_runs
\* allows, though every worker counts in a transaction of its own.
BoundedConcurrency == Cardinality({x \in Run : Live(x)}) <= Maximum

\* A delivery reported to the provider as a success, whose message is then deleted,
\* belongs to a completed run: an owner that lost its lease reports a retry.
AckedIsCompleted ==
    \A w \in Worker :
        worker[w].pc = "returned" /\ worker[w].outcome = "succeeded"
            => status[worker[w].run] = "completed"

\* A run that was handed over and has no result still has a message, in the queue or
\* with a worker, unless the provider gave one up: it cannot be forgotten.
NoRunIsStranded ==
    \A x \in Run :
        status[x] \in {"dispatched", "running"} =>
            \/ copies[x] > 0 \/ dead[x] > 0
            \/ \E w \in Worker : worker[w].run = x /\ worker[w].mine

\* A run leaves `running' only through the worker that holds its token and a live
\* lease, and a result is final: late owners, duplicates and dispatchers change nothing.
OnlyOwnerFinishes ==
    [][\A x \in Run : status'[x] # status[x] =>
          /\ status[x] \notin {"completed", "failed"}
          /\ status[x] = "running" =>
                \E w \in Worker : /\ worker[w].pc = "finishing" /\ worker[w].run = x
                                  /\ worker[w].token = eToken[x] /\ eLease[x] > 0]_vars

\* When workers act on their timers in time, a handler runs only while its worker
\* holds the live lease, so no two handlers of one run overlap.
HandlerInsideLease ==
    \A w \in Worker : worker[w].pc = "executing" => HoldsExecution(w)

\* Every materialised run is eventually handed over: lost answers, crashes and leases
\* left behind delay the handover and do not prevent it.
EveryRunIsHandedOver ==
    \A x \in Run : (status[x] = "pending_dispatch")
                      ~> (status[x] \notin {"pending_dispatch", "dispatching"})

\* Every delivery comes to an end, though the gate and a replay lock the run and the
\* schedule in opposite orders.
EveryDeliveryReturns ==
    \A w \in Worker : (worker[w].pc # "idle") ~> (worker[w].pc = "idle")
=============================================================================
