------------------------- MODULE ScheduledRunsProofs -------------------------
(***************************************************************************)
(* Theorems about ScheduledRuns, for any runs, replicas, workers and       *)
(* fences, any maximum and durations, and any number of replays and        *)
(* faults.  First the inductive invariant: its clauses, and the steps of   *)
(* workers, administrators, dispatchers and time that keep it.  Then the   *)
(* theorems: among them the maximum of concurrent runs, which holds        *)
(* because the gate counts and claims under one lock on the schedule, and  *)
(* that a handler runs inside its lease.                                   *)
(***************************************************************************)
EXTENDS ScheduledRuns, TLAPS

\* The steps at which a worker's transaction in the gate holds locks.
AtGate == {"gate", "counting", "claiming"}

Outcomes == {"succeeded", "retryable", "permanent", "cancelled"}

\* A busy worker has a run, one that is about to settle has an outcome, and only a
\* busy worker has a message of its own.
Deliveries ==
    \A w \in Worker :
        /\ worker[w].pc # "idle" => worker[w].run \in Run
        /\ worker[w].pc \in {"finishing", "returned"} => worker[w].outcome \in Outcomes
        /\ worker[w].mine => worker[w].pc # "idle"

\* The gate holds the run it has looked at, which stays one it may claim, and from
\* the count on the schedule, which a replay holds while it is about to insert.
Gate ==
    /\ \A w \in Worker : worker[w].pc \in AtGate =>
          /\ runLock[worker[w].run] = w
          /\ \/ status[worker[w].run] \in {"dispatching", "dispatched"}
             \/ status[worker[w].run] = "running" /\ eLease[worker[w].run] = 0
    /\ \A w \in Worker : worker[w].pc \in {"counting", "claiming"} => scheduleLock = w
    /\ replay.pc = "schedule" => scheduleLock = Administrator /\ replay.run \in Run

\* The runs of which a message exists or was given up, or that need none any more.
Traced ==
    {x \in Run : \/ copies[x] > 0 \/ dead[x] > 0
                 \/ \E w \in Worker : worker[w].run = x /\ worker[w].mine
                 \/ status[x] \in {"completed", "failed"}}

\* Whoever knows that the provider took the run can trace it.
HandedOver ==
    /\ \A x \in Run : status[x] \in {"dispatched", "running"} => x \in Traced
    /\ \A d \in Replica : handoff[d] # None /\ handoff[d].ok => handoff[d].run \in Traced
    /\ \A w \in Worker : worker[w].pc # "idle" => worker[w].run \in Traced

\* The inductive invariant.
Inv ==
    /\ TypeOK /\ StateComplete
    /\ Deliveries /\ Gate /\ HandedOver
    /\ AckedIsCompleted

\* A step of worker w that leaves it at pc with run x, outcome o and message m.
Moves(w, pc, x, o, m) ==
    /\ worker' \in [Worker -> WorkerState]
    /\ \A v \in Worker : v # w => worker'[v] = worker[v]
    /\ worker'[w].pc = pc /\ worker'[w].run = x
    /\ worker'[w].outcome = o /\ worker'[w].mine = m

\* Min and Max of two numbers.
LEMMA TwoNumbers ==
    ASSUME NEW a \in Int, NEW b \in Int
    PROVE  /\ Min({a, b}) \in {a, b} /\ Min({a, b}) <= a /\ Min({a, b}) <= b
           /\ Max({a, b}) \in {a, b} /\ a <= Max({a, b}) /\ b <= Max({a, b})
  <1>1. \E x \in {a, b} : \A y \in {a, b} : x =< y
    OBVIOUS
  <1>2. \E x \in {a, b} : \A y \in {a, b} : x >= y
    OBVIOUS
  <1>3. Min({a, b}) \in {a, b} /\ \A y \in {a, b} : Min({a, b}) =< y
    BY <1>1, Zenon DEF Min
  <1>4. Max({a, b}) \in {a, b} /\ \A y \in {a, b} : Max({a, b}) >= y
    BY <1>2, Zenon DEF Max
  <1> QED
    BY <1>3, <1>4

\* The length of a lease never exceeds the configured one.
LEMMA LeaseLengths ==
    ASSUME TypeOK, NEW w \in Worker
    PROVE  /\ CappedLease(w) \in 0..ExecutionLease
           /\ Budget(w) \in Int /\ Renewal(w) \in Nat
           /\ worker[w].deadline > Safety =>
                Min({worker[w].lasts, worker[w].deadline - Safety}) \in 0..ExecutionLease
  <1> USE ScheduledRunsAssumption
  <1>1. /\ worker[w].lasts \in 0..ExecutionLease /\ worker[w].deadline \in Nat
        /\ worker[w].deadline - Safety \in Int
    BY DEF TypeOK, WorkerState
  <1>2. /\ Min({ExecutionLease, worker[w].deadline - Safety}) \in Int
        /\ Min({ExecutionLease, worker[w].deadline - Safety}) <= ExecutionLease
    <2> DEFINE b == worker[w].deadline - Safety
    <2> HIDE DEF b
    <2>1. b \in Int /\ ExecutionLease \in Int
      BY <1>1 DEF b
    <2>2. Min({ExecutionLease, b}) \in {ExecutionLease, b} /\ Min({ExecutionLease, b}) <= ExecutionLease
      BY <2>1, TwoNumbers, Zenon
    <2> QED
      BY <2>1, <2>2 DEF b
  <1>3. CappedLease(w) \in 0..ExecutionLease
    <2> DEFINE a == Min({ExecutionLease, worker[w].deadline - Safety})
    <2> HIDE DEF a
    <2>1. a \in Int /\ a <= ExecutionLease /\ 0 \in Int
      BY <1>2 DEF a
    <2>2. Max({0, a}) \in {0, a} /\ 0 <= Max({0, a})
      BY <2>1, TwoNumbers, Zenon
    <2>3. Max({0, a}) \in 0..ExecutionLease
      BY <2>1, <2>2
    <2> QED
      BY <2>3 DEF CappedLease, a
  <1>4. Budget(w) \in Int
    <2> DEFINE a == worker[w].lasts
               b == worker[w].deadline
    <2> HIDE DEF a, b
    <2>1. a \in Int /\ b \in Int
      BY <1>1 DEF a, b
    <2>2. Min({a, b}) \in {a, b}
      BY <2>1, TwoNumbers, Zenon
    <2>3. Min({a, b}) - Safety \in Int
      BY <2>1, <2>2
    <2> QED
      BY <2>3 DEF Budget, a, b
  <1>5. Renewal(w) \in Nat
    BY <1>1 DEF Renewal
  <1>6. ASSUME worker[w].deadline > Safety
        PROVE  Min({worker[w].lasts, worker[w].deadline - Safety}) \in 0..ExecutionLease
    <2> DEFINE a == worker[w].lasts
               b == worker[w].deadline - Safety
    <2> HIDE DEF a, b
    <2>1. a \in 0..ExecutionLease /\ b \in Int /\ b > 0 /\ a \in Int
      BY <1>1, <1>6 DEF a, b
    <2>2. Min({a, b}) \in {a, b} /\ Min({a, b}) <= a
      BY <2>1, TwoNumbers, Zenon
    <2>3. Min({a, b}) \in 0..ExecutionLease
      BY <2>1, <2>2
    <2> QED
      BY <2>3 DEF a, b
  <1> QED
    BY <1>3, <1>4, <1>5, <1>6

\* A fence is a token, and never NULL.
LEMMA FencesAreTokens == Unused \subseteq Fence /\ None \notin Unused
  BY ScheduledRunsAssumption, Zenon DEF Unused

\* An idle worker's state, and that of one whose handler has returned.
LEMMA WorkerStates ==
    /\ 0 \in 0..ExecutionLease /\ Idle \in WorkerState
    /\ \A x \in Run, o \in Outcomes, m \in BOOLEAN :
           [Idle EXCEPT !.pc = "returned", !.run = x, !.outcome = o, !.mine = m] \in WorkerState
  <1>1. 0 \in 0..ExecutionLease
    BY ScheduledRunsAssumption
  <1> QED
    BY <1>1, Zenon DEF WorkerState, Idle, Outcomes

\* Of every message something is left, be it the message that w had or was given.
LeavesTrace(w) ==
    /\ \A v \in Worker : v # w => worker'[v] = worker[v]
    /\ \A x \in Run :
          /\ copies[x] > 0 => copies'[x] > 0 \/ (worker'[w].run = x /\ worker'[w].mine)
          /\ dead[x] > 0 => dead'[x] > 0
          /\ status[x] \in {"completed", "failed"} => status'[x] \in {"completed", "failed"}
    /\ worker[w].mine =>
          \/ worker'[w].mine /\ worker'[w].run = worker[w].run
          \/ copies'[worker[w].run] > 0 \/ dead'[worker[w].run] > 0
          \/ status'[worker[w].run] \in {"completed", "failed"}

\* Then the run remains traced.
LEMMA StillTraced ==
    ASSUME NEW w \in Worker, LeavesTrace(w)
    PROVE  Traced \subseteq Traced'
  <1> SUFFICES ASSUME NEW x \in Traced PROVE x \in Traced'
    OBVIOUS
  <1>1. CASE copies[x] > 0 \/ dead[x] > 0 \/ status[x] \in {"completed", "failed"}
    BY <1>1, Zenon DEF Traced, LeavesTrace
  <1>2. CASE \E v \in Worker : worker[v].run = x /\ worker[v].mine
    <2>1. PICK v \in Worker : worker[v].run = x /\ worker[v].mine
      BY <1>2
    <2>2. CASE v = w
      BY <2>1, <2>2, Zenon DEF Traced, LeavesTrace
    <2>3. CASE v # w
      BY <2>1, <2>3 DEF Traced, LeavesTrace
    <2> QED
      BY <2>2, <2>3
  <1> QED
    BY <1>1, <1>2, Zenon DEF Traced

\* Workers other than w, and a replay, keep the rows they have locked.
KeepsLocks(w) ==
    /\ runLock' \in [Run -> Worker \cup {None}]
    /\ scheduleLock' \in Worker \cup {None, Administrator}
    /\ \A v \in Worker : v # w => \A x \in Run : runLock[x] = v => runLock'[x] = v
    /\ \A v \in Worker \cup {Administrator} : v # w /\ scheduleLock = v => scheduleLock' = v

\* What w sees at pc allows it to be there.
MayBeAt(w, pc, x, o) ==
    /\ pc # "idle" => x \in Run
    /\ pc \in {"finishing", "returned"} => o \in Outcomes
    /\ pc = "returned" /\ o = "succeeded" => status[x] = "completed"
    /\ pc \in AtGate =>
          /\ runLock'[x] = w
          /\ status[x] \in {"dispatching", "dispatched"} \/ (status[x] = "running" /\ eLease[x] = 0)
    /\ pc \in {"counting", "claiming"} => scheduleLock' = w

\* A step of one worker that changes no row keeps the invariant.
LEMMA WorkerMoves ==
    ASSUME Inv, NEW w \in Worker, NEW pc, NEW x, NEW o, NEW m,
           Moves(w, pc, x, o, m), MayBeAt(w, pc, x, o), KeepsLocks(w),
           UNCHANGED <<row, dispatch, replay>>,
           copies' \in [Run -> Nat], dead' \in [Run -> Nat], faults' \in 0..MaxFaults,
           Traced \subseteq Traced', pc # "idle" => x \in Traced', m => pc # "idle"
    PROVE  Inv'
  <1>1. TypeOK'
    BY Zenon DEF Inv, TypeOK, RowType, QueueType, DispatchType, LockType, ReplayType, Moves, KeepsLocks, row, dispatch
  <1>2. StateComplete'
    BY DEF Inv, StateComplete, row
  <1>3. Deliveries'
    BY DEF Inv, Deliveries, Moves, MayBeAt
  <1>4. Gate'
    <2>1. \A v \in Worker : worker[v].pc \in AtGate => worker[v].run \in Run
      BY DEF Inv, Deliveries, AtGate
    <2>2. ASSUME NEW v \in Worker, worker'[v].pc \in AtGate
          PROVE  /\ runLock'[worker'[v].run] = v
                 /\ \/ status'[worker'[v].run] \in {"dispatching", "dispatched"}
                    \/ status'[worker'[v].run] = "running" /\ eLease'[worker'[v].run] = 0
      <3>1. CASE v = w
        BY <2>2, <3>1 DEF Moves, MayBeAt, row
      <3>2. CASE v # w
        BY <2>1, <2>2, <3>2 DEF Inv, Gate, Moves, KeepsLocks, row
      <3> QED
        BY <3>1, <3>2
    <2>3. ASSUME NEW v \in Worker, worker'[v].pc \in {"counting", "claiming"}
          PROVE  scheduleLock' = v
      <3>1. CASE v = w
        BY <2>3, <3>1 DEF Moves, MayBeAt
      <3>2. CASE v # w
        BY <2>3, <3>2 DEF Inv, Gate, Moves, KeepsLocks
      <3> QED
        BY <3>1, <3>2
    <2>4. replay'.pc = "schedule" => scheduleLock' = Administrator /\ replay'.run \in Run
      BY ScheduledRunsAssumption DEF Inv, Gate, KeepsLocks
    <2> QED
      BY <2>2, <2>3, <2>4 DEF Gate
  <1>5. HandedOver'
    BY DEF Inv, HandedOver, Moves, row, dispatch
  <1>6. AckedIsCompleted'
    BY DEF Inv, AckedIsCompleted, Moves, MayBeAt, row
  <1> QED
    BY <1>1, <1>2, <1>3, <1>4, <1>5, <1>6 DEF Inv

\* Steps of the gate and of the handler keep the run, the message and the queue.
LEMMA WorkerGoesOn ==
    ASSUME Inv, NEW w \in Worker, NEW pc, NEW o,
           worker[w].pc # "idle", pc # "idle",
           Moves(w, pc, worker[w].run, o, worker[w].mine),
           MayBeAt(w, pc, worker[w].run, o), KeepsLocks(w),
           UNCHANGED <<row, dispatch, queue, replay>>, faults' \in 0..MaxFaults
    PROVE  Inv'
  <1>1. copies' \in [Run -> Nat] /\ dead' \in [Run -> Nat]
    BY DEF Inv, TypeOK, QueueType, queue
  <1>2. Traced \subseteq Traced'
    <2>1. \A v \in Worker : v # w => worker'[v] = worker[v]
      BY DEF Moves
    <2>2. worker'[w].run = worker[w].run /\ worker'[w].mine = worker[w].mine
      BY DEF Moves
    <2>3. status' = status /\ copies' = copies /\ dead' = dead
      BY DEF row, queue
    <2>4. LeavesTrace(w)
      BY <2>1, <2>2, <2>3 DEF LeavesTrace
    <2> QED
      BY <2>4, StillTraced
  <1>3. worker[w].run \in Traced
    BY DEF Inv, HandedOver
  <1> QED
    BY <1>1, <1>2, <1>3, WorkerMoves

\* A worker that ends a delivery, or loses its message, passes the message on.
LEMMA WorkerPassesOn ==
    ASSUME Inv, NEW w \in Worker, NEW pc, NEW x, NEW o, worker[w].pc # "idle",
           Moves(w, pc, x, o, FALSE), KeepsLocks(w),
           \/ pc = "idle"
           \/ /\ pc = worker[w].pc /\ x = worker[w].run /\ o = worker[w].outcome
              /\ UNCHANGED locks,
           UNCHANGED <<row, dispatch, replay>>, faults' \in 0..MaxFaults,
           copies' \in [Run -> Nat], dead' \in [Run -> Nat],
           \A y \in Run : copies[y] <= copies'[y] /\ dead[y] <= dead'[y],
           worker[w].mine => \/ copies'[worker[w].run] > 0 \/ dead'[worker[w].run] > 0
                             \/ status[worker[w].run] = "completed"
    PROVE  Inv'
  <1>1. Traced \subseteq Traced'
    <2>1. \A v \in Worker : v # w => worker'[v] = worker[v]
      BY DEF Moves
    <2>2. \A y \in Run : (copies[y] > 0 => copies'[y] > 0) /\ (dead[y] > 0 => dead'[y] > 0)
      BY DEF Inv, TypeOK, QueueType
    <2>3. status' = status
      BY DEF row
    <2>4. LeavesTrace(w)
      BY <2>1, <2>2, <2>3 DEF LeavesTrace
    <2> QED
      BY <2>4, StillTraced
  <1>2. worker[w].run \in Traced
    BY DEF Inv, HandedOver
  <1>3. pc # "idle" => x \in Traced'
    BY <1>1, <1>2
  <1>4. MayBeAt(w, pc, x, o)
    <2>1. CASE pc = "idle"
      BY <2>1 DEF MayBeAt, AtGate
    <2>2. CASE /\ pc = worker[w].pc /\ x = worker[w].run /\ o = worker[w].outcome
               /\ UNCHANGED locks
      <3>1. /\ pc # "idle" => x \in Run
            /\ pc \in {"finishing", "returned"} => o \in Outcomes
            /\ pc = "returned" /\ o = "succeeded" => status[x] = "completed"
        BY <2>2 DEF Inv, Deliveries, AckedIsCompleted
      <3>2. /\ pc \in AtGate =>
                  /\ runLock'[x] = w
                  /\ status[x] \in {"dispatching", "dispatched"} \/ (status[x] = "running" /\ eLease[x] = 0)
            /\ pc \in {"counting", "claiming"} => scheduleLock' = w
        BY <2>2 DEF Inv, Gate, locks
      <3> QED
        BY <3>1, <3>2 DEF MayBeAt
    <2> QED
      BY <2>1, <2>2
  <1> QED
    BY <1>1, <1>3, <1>4, WorkerMoves, Zenon

\* A worker whose handler returns, or whose handler is dropped.
LEMMA ReturnsMoves ==
    ASSUME worker \in [Worker -> WorkerState], NEW w \in Worker, worker[w].run \in Run,
           NEW o \in Outcomes, worker' = Returns(w, o)
    PROVE  Moves(w, "returned", worker[w].run, o, worker[w].mine)
  <1> DEFINE r == [Idle EXCEPT !.pc = "returned", !.run = worker[w].run,
                               !.outcome = o, !.mine = worker[w].mine]
  <1>1. worker[w].mine \in BOOLEAN
    BY DEF WorkerState
  <1>2. r \in WorkerState
    BY <1>1, WorkerStates, Zenon
  <1>3. r.pc = "returned" /\ r.run = worker[w].run /\ r.outcome = o /\ r.mine = worker[w].mine
    BY DEF Idle
  <1>4. worker' = [worker EXCEPT ![w] = r]
    BY Zenon DEF Returns
  <1> HIDE DEF r
  <1> QED
    BY <1>2, <1>3, <1>4 DEF Moves

LEMMA EndsMoves ==
    ASSUME worker \in [Worker -> WorkerState], NEW w \in Worker,
           NEW o \in Outcomes, worker' = Ends(w, o)
    PROVE  Moves(w, "finishing", worker[w].run, o, worker[w].mine)
  <1> DEFINE r == [worker[w] EXCEPT !.pc = "finishing", !.outcome = o, !.lasts = 0,
                                    !.deadline = 0, !.budget = 0, !.renewal = 0]
  <1>1. 0 \in 0..ExecutionLease
    BY WorkerStates, Zenon
  <1>2. /\ r \in WorkerState
        /\ r.pc = "finishing" /\ r.run = worker[w].run
        /\ r.outcome = o /\ r.mine = worker[w].mine
    BY <1>1, ZenonT(30) DEF WorkerState, Outcomes
  <1>3. worker' = [worker EXCEPT ![w] = r]
    BY Zenon DEF Ends
  <1> HIDE DEF r
  <1> QED
    BY <1>2, <1>3 DEF Moves

\* A worker's locks are its own to take and to release.
LEMMA Locks ==
    ASSUME Inv, NEW w \in Worker
    PROVE  /\ UNCHANGED locks => KeepsLocks(w)
           /\ ReleaseLocks(w) => KeepsLocks(w)
           /\ scheduleLock = None /\ scheduleLock' = w /\ UNCHANGED runLock => KeepsLocks(w)
           /\ \A x \in Run : runLock[x] = None /\ runLock' = [runLock EXCEPT ![x] = w]
                  /\ UNCHANGED scheduleLock => KeepsLocks(w)
  <1>1. /\ runLock \in [Run -> Worker \cup {None}]
        /\ scheduleLock \in Worker \cup {None, Administrator}
    BY DEF Inv, TypeOK, LockType
  <1>2. None \notin Worker /\ Administrator \notin Worker /\ None # Administrator
    BY ScheduledRunsAssumption
  <1>3. UNCHANGED locks => KeepsLocks(w)
    BY <1>1 DEF KeepsLocks, locks
  <1>4. ReleaseLocks(w) => KeepsLocks(w)
    BY <1>1, <1>2 DEF KeepsLocks, ReleaseLocks
  <1>5. scheduleLock = None /\ scheduleLock' = w /\ UNCHANGED runLock => KeepsLocks(w)
    BY <1>1, <1>2 DEF KeepsLocks
  <1>6. \A x \in Run : runLock[x] = None /\ runLock' = [runLock EXCEPT ![x] = w]
                  /\ UNCHANGED scheduleLock => KeepsLocks(w)
    BY <1>1, <1>2 DEF KeepsLocks
  <1> QED
    BY <1>3, <1>4, <1>5, <1>6

\* The number of faults stays within its bound.
LEMMA Faults == Inv /\ (SpendFault \/ faults' = faults) => faults' \in 0..MaxFaults
  <1>1. MaxFaults \in Nat
    BY ScheduledRunsAssumption
  <1>2. Inv => faults \in 0..MaxFaults
    BY DEF Inv, TypeOK
  <1> QED
    BY <1>1, <1>2 DEF SpendFault

\* The gate goes on to the schedule.
LEMMA GateLocksScheduleKeeps ==
    ASSUME Inv, NEW w \in Worker, GateLocksSchedule(w)
    PROVE  Inv'
  <1>0. /\ worker \in [Worker -> WorkerState] /\ worker[w] \in WorkerState
        /\ worker[w].mine \in BOOLEAN
    BY DEF Inv, TypeOK, WorkerState
  <1>2. worker[w].pc # "idle" /\ worker[w].run \in Run
    BY DEF Inv, Deliveries, GateLocksSchedule
  <1>1. Moves(w, "counting", worker[w].run, worker[w].outcome, worker[w].mine)
    <2> DEFINE r == [worker[w] EXCEPT !.pc = "counting"]
    <2>1. r \in WorkerState
      BY <1>0 DEF WorkerState
    <2>2. r.pc = "counting" /\ r.run = worker[w].run /\ r.outcome = worker[w].outcome /\ r.mine = worker[w].mine
      BY <1>0 DEF WorkerState
    <2>3. worker' = [worker EXCEPT ![w] = r]
      BY Zenon DEF GateLocksSchedule
    <2> HIDE DEF r
    <2> QED
      BY <1>0, <2>1, <2>2, <2>3 DEF Moves
  <1>3. KeepsLocks(w)
    BY <1>2, Locks DEF GateLocksSchedule, locks
  <1>4. MayBeAt(w, "counting", worker[w].run, worker[w].outcome)
    BY <1>2, <1>3 DEF Inv, Gate, AtGate, Outcomes, MayBeAt, GateLocksSchedule, locks
  <1>5. UNCHANGED <<row, dispatch, queue, replay>> /\ faults' \in 0..MaxFaults
    BY Faults DEF Inv, TypeOK, ReplayType, GateLocksSchedule
  <1> QED
    BY <1>1, <1>2, <1>3, <1>4, <1>5, WorkerGoesOn

\* The gate finds room.
LEMMA GateCountsKeeps ==
    ASSUME Inv, NEW w \in Worker, GateCounts(w)
    PROVE  Inv'
  <1>0. /\ worker \in [Worker -> WorkerState] /\ worker[w] \in WorkerState
        /\ worker[w].mine \in BOOLEAN
    BY DEF Inv, TypeOK, WorkerState
  <1>2. worker[w].pc # "idle" /\ worker[w].run \in Run
    BY DEF Inv, Deliveries, GateCounts
  <1>1. Moves(w, "claiming", worker[w].run, worker[w].outcome, worker[w].mine)
    <2> DEFINE r == [worker[w] EXCEPT !.pc = "claiming"]
    <2>1. r \in WorkerState
      BY <1>0 DEF WorkerState
    <2>2. r.pc = "claiming" /\ r.run = worker[w].run /\ r.outcome = worker[w].outcome /\ r.mine = worker[w].mine
      BY <1>0 DEF WorkerState
    <2>3. worker' = [worker EXCEPT ![w] = r]
      BY Zenon DEF GateCounts
    <2> HIDE DEF r
    <2> QED
      BY <1>0, <2>1, <2>2, <2>3 DEF Moves
  <1>3. KeepsLocks(w)
    BY <1>2, Locks DEF GateCounts, locks
  <1>4. MayBeAt(w, "claiming", worker[w].run, worker[w].outcome)
    BY <1>2, <1>3 DEF Inv, Gate, AtGate, Outcomes, MayBeAt, GateCounts, locks
  <1>5. UNCHANGED <<row, dispatch, queue, replay>> /\ faults' \in 0..MaxFaults
    BY Faults DEF Inv, TypeOK, ReplayType, GateCounts
  <1> QED
    BY <1>1, <1>2, <1>3, <1>4, <1>5, WorkerGoesOn

\* The gate finds no room, or no time to use it.
LEMMA GateRefusesKeeps ==
    ASSUME Inv, NEW w \in Worker, GateRefuses(w)
    PROVE  Inv'
  <1>0. /\ worker \in [Worker -> WorkerState] /\ worker[w] \in WorkerState
        /\ worker[w].mine \in BOOLEAN
    BY DEF Inv, TypeOK, WorkerState
  <1>2. worker[w].pc # "idle" /\ worker[w].run \in Run
    BY DEF Inv, Deliveries, GateRefuses
  <1>1. Moves(w, "returned", worker[w].run, "retryable", worker[w].mine)
    BY <1>0, <1>2, ReturnsMoves DEF GateRefuses, Outcomes
  <1>3. KeepsLocks(w)
    BY <1>2, Locks DEF GateRefuses, locks
  <1>4. MayBeAt(w, "returned", worker[w].run, "retryable")
    BY <1>2, <1>3 DEF Inv, Gate, AtGate, Outcomes, MayBeAt, GateRefuses, locks
  <1>5. UNCHANGED <<row, dispatch, queue, replay>> /\ faults' \in 0..MaxFaults
    BY Faults DEF Inv, TypeOK, ReplayType, GateRefuses
  <1> QED
    BY <1>1, <1>2, <1>3, <1>4, <1>5, WorkerGoesOn

\* The transaction of the gate fails.
LEMMA GateAbortsKeeps ==
    ASSUME Inv, NEW w \in Worker, GateAborts(w)
    PROVE  Inv'
  <1>0. /\ worker \in [Worker -> WorkerState] /\ worker[w] \in WorkerState
        /\ worker[w].mine \in BOOLEAN
    BY DEF Inv, TypeOK, WorkerState
  <1>2. worker[w].pc # "idle" /\ worker[w].run \in Run
    BY DEF Inv, Deliveries, GateAborts
  <1>1. Moves(w, "returned", worker[w].run, "retryable", worker[w].mine)
    BY <1>0, <1>2, ReturnsMoves DEF GateAborts, Outcomes
  <1>3. KeepsLocks(w)
    BY <1>2, Locks DEF GateAborts, locks
  <1>4. MayBeAt(w, "returned", worker[w].run, "retryable")
    BY <1>2, <1>3 DEF Inv, Gate, AtGate, Outcomes, MayBeAt, GateAborts, locks
  <1>5. UNCHANGED <<row, dispatch, queue, replay>> /\ faults' \in 0..MaxFaults
    BY Faults DEF Inv, TypeOK, ReplayType, GateAborts
  <1> QED
    BY <1>1, <1>2, <1>3, <1>4, <1>5, WorkerGoesOn

\* The handler ends.
LEMMA HandlerEndsKeeps ==
    ASSUME Inv, NEW w \in Worker, NEW o \in Outcomes, HandlerEnds(w, o)
    PROVE  Inv'
  <1>0. /\ worker \in [Worker -> WorkerState] /\ worker[w] \in WorkerState
        /\ worker[w].mine \in BOOLEAN
    BY DEF Inv, TypeOK, WorkerState
  <1>2. worker[w].pc # "idle" /\ worker[w].run \in Run
    BY DEF Inv, Deliveries, HandlerEnds
  <1>1. Moves(w, "finishing", worker[w].run, o, worker[w].mine)
    BY <1>0, <1>2, EndsMoves DEF HandlerEnds, Outcomes
  <1>3. KeepsLocks(w)
    BY <1>2, Locks DEF HandlerEnds, locks
  <1>4. MayBeAt(w, "finishing", worker[w].run, o)
    BY <1>2, <1>3 DEF Inv, Gate, AtGate, Outcomes, MayBeAt, HandlerEnds, locks
  <1>5. UNCHANGED <<row, dispatch, queue, replay>> /\ faults' \in 0..MaxFaults
    BY Faults DEF Inv, TypeOK, ReplayType, HandlerEnds
  <1> QED
    BY <1>1, <1>2, <1>3, <1>4, <1>5, WorkerGoesOn

\* A delivery makes the message the worker's.
LEMMA DeliverKeeps ==
    ASSUME Inv, NEW w \in Worker, NEW x \in Run, Deliver(w, x)
    PROVE  Inv'
  <1>0. /\ worker \in [Worker -> WorkerState] /\ worker[w] \in WorkerState
        /\ worker[w].mine \in BOOLEAN
    BY DEF Inv, TypeOK, WorkerState
  <1>1. Moves(w, "delivered", x, "none", TRUE)
    <2> DEFINE r == [Idle EXCEPT !.pc = "delivered", !.run = x, !.deadline = JobTimeout, !.mine = TRUE]
    <2>1. r \in WorkerState
      <3>1. 0 \in 0..ExecutionLease /\ JobTimeout \in Nat
        BY ScheduledRunsAssumption, WorkerStates, Zenon
      <3> QED
        BY <3>1, Zenon DEF Idle, WorkerState
    <2>2. r.pc = "delivered" /\ r.run = x /\ r.outcome = "none" /\ r.mine = TRUE
      BY <1>0 DEF Idle
    <2>3. worker' = [worker EXCEPT ![w] = r]
      BY Zenon DEF Deliver
    <2> HIDE DEF r
    <2> QED
      BY <1>0, <2>1, <2>2, <2>3 DEF Moves
  <1>2. KeepsLocks(w)
    BY Locks DEF Deliver
  <1>3. MayBeAt(w, "delivered", x, "none")
    BY DEF MayBeAt, AtGate
  <1>4. UNCHANGED <<row, dispatch, replay>> /\ faults' \in 0..MaxFaults
    BY Faults DEF Deliver
  <1>5. copies \in [Run -> Nat] /\ dead \in [Run -> Nat]
    BY DEF Inv, TypeOK, QueueType
  <1>6. copies' \in [Run -> Nat] /\ dead' \in [Run -> Nat]
    BY <1>5 DEF Deliver
  <1>7. LeavesTrace(w)
    <2>1. ~worker[w].mine
      BY DEF Inv, Deliveries, Deliver
    <2>2. \A y \in Run : (copies[y] > 0 => copies'[y] > 0 \/ y = x) /\ dead'[y] = dead[y]
      BY <1>5 DEF Deliver
    <2>3. status' = status
      BY <1>4 DEF row
    <2> QED
      BY <1>1, <2>1, <2>2, <2>3 DEF LeavesTrace, Moves
  <1>8. x \in Traced
    BY DEF Traced, Deliver
  <1> QED
    BY <1>1, <1>2, <1>3, <1>4, <1>6, <1>7, <1>8, StillTraced, WorkerMoves, Zenon

\* The provider settles the delivery as the handler answered.
LEMMA SettleKeeps ==
    ASSUME Inv, NEW w \in Worker, Settle(w)
    PROVE  Inv'
  <1>0. /\ worker \in [Worker -> WorkerState] /\ worker[w] \in WorkerState
        /\ worker[w].mine \in BOOLEAN
    BY DEF Inv, TypeOK, WorkerState
  <1>2. worker[w].pc # "idle" /\ worker[w].run \in Run
    BY DEF Inv, Deliveries, Settle
  <1>1. Moves(w, "idle", None, "none", FALSE)
    <2> DEFINE r == Idle
    <2>1. r \in WorkerState
      BY WorkerStates, Zenon
    <2>2. r.pc = "idle" /\ r.run = None /\ r.outcome = "none" /\ r.mine = FALSE
      BY <1>0 DEF Idle
    <2>3. worker' = [worker EXCEPT ![w] = r]
      BY Zenon DEF Settle
    <2> HIDE DEF r
    <2> QED
      BY <1>0, <2>1, <2>2, <2>3 DEF Moves
  <1>3. KeepsLocks(w)
    BY Locks DEF Settle
  <1>4. UNCHANGED <<row, dispatch, replay>> /\ faults' \in 0..MaxFaults
    BY Faults DEF Settle
  <1>5. copies \in [Run -> Nat] /\ dead \in [Run -> Nat]
    BY DEF Inv, TypeOK, QueueType
  <1>6. /\ copies' \in [Run -> Nat] /\ dead' \in [Run -> Nat]
        /\ \A y \in Run : copies[y] <= copies'[y] /\ dead[y] <= dead'[y]
    BY <1>2, <1>5 DEF Settle, queue
  <1>7. worker[w].mine => \/ copies'[worker[w].run] > 0 \/ dead'[worker[w].run] > 0
                          \/ status[worker[w].run] = "completed"
    BY <1>2, <1>5 DEF Inv, Deliveries, AckedIsCompleted, Outcomes, Settle
  <1> QED
    BY <1>1, <1>2, <1>3, <1>4, <1>6, <1>7, WorkerPassesOn, Zenon

\* The provider gives the message up.
LEMMA GiveUpKeeps ==
    ASSUME Inv, NEW w \in Worker, GiveUp(w)
    PROVE  Inv'
  <1>0. /\ worker \in [Worker -> WorkerState] /\ worker[w] \in WorkerState
        /\ worker[w].mine \in BOOLEAN
    BY DEF Inv, TypeOK, WorkerState
  <1>2. worker[w].pc # "idle" /\ worker[w].run \in Run
    BY DEF Inv, Deliveries, GiveUp
  <1>1. Moves(w, "idle", None, "none", FALSE)
    <2> DEFINE r == Idle
    <2>1. r \in WorkerState
      BY WorkerStates, Zenon
    <2>2. r.pc = "idle" /\ r.run = None /\ r.outcome = "none" /\ r.mine = FALSE
      BY <1>0 DEF Idle
    <2>3. worker' = [worker EXCEPT ![w] = r]
      BY Zenon DEF GiveUp
    <2> HIDE DEF r
    <2> QED
      BY <1>0, <2>1, <2>2, <2>3 DEF Moves
  <1>3. KeepsLocks(w)
    BY Locks DEF GiveUp
  <1>4. UNCHANGED <<row, dispatch, replay>> /\ faults' \in 0..MaxFaults
    BY Faults DEF GiveUp
  <1>5. copies \in [Run -> Nat] /\ dead \in [Run -> Nat]
    BY DEF Inv, TypeOK, QueueType
  <1>6. /\ copies' \in [Run -> Nat] /\ dead' \in [Run -> Nat]
        /\ \A y \in Run : copies[y] <= copies'[y] /\ dead[y] <= dead'[y]
    BY <1>2, <1>5 DEF GiveUp, queue
  <1>7. worker[w].mine => \/ copies'[worker[w].run] > 0 \/ dead'[worker[w].run] > 0
                          \/ status[worker[w].run] = "completed"
    BY <1>2, <1>5 DEF GiveUp
  <1> QED
    BY <1>1, <1>2, <1>3, <1>4, <1>6, <1>7, WorkerPassesOn, Zenon

\* The message becomes visible again.
LEMMA RedeliverKeeps ==
    ASSUME Inv, NEW w \in Worker, Redeliver(w)
    PROVE  Inv'
  <1>0. /\ worker \in [Worker -> WorkerState] /\ worker[w] \in WorkerState
        /\ worker[w].mine \in BOOLEAN
    BY DEF Inv, TypeOK, WorkerState
  <1>2. worker[w].pc # "idle" /\ worker[w].run \in Run
    BY DEF Inv, Deliveries, Redeliver
  <1>1. Moves(w, worker[w].pc, worker[w].run, worker[w].outcome, FALSE)
    <2> DEFINE r == [worker[w] EXCEPT !.mine = FALSE]
    <2>1. r \in WorkerState
      BY <1>0, Zenon DEF WorkerState
    <2>2. r.pc = worker[w].pc /\ r.run = worker[w].run /\ r.outcome = worker[w].outcome /\ r.mine = FALSE
      BY <1>0 DEF WorkerState
    <2>3. worker' = [worker EXCEPT ![w] = r]
      BY Zenon DEF Redeliver
    <2> HIDE DEF r
    <2> QED
      BY <1>0, <2>1, <2>2, <2>3 DEF Moves
  <1>3. KeepsLocks(w)
    BY Locks DEF Redeliver
  <1>4. UNCHANGED <<row, dispatch, replay>> /\ faults' \in 0..MaxFaults
    BY Faults DEF Redeliver
  <1>5. copies \in [Run -> Nat] /\ dead \in [Run -> Nat]
    BY DEF Inv, TypeOK, QueueType
  <1>6. /\ copies' \in [Run -> Nat] /\ dead' \in [Run -> Nat]
        /\ \A y \in Run : copies[y] <= copies'[y] /\ dead[y] <= dead'[y]
    BY <1>2, <1>5 DEF Redeliver, queue
  <1>7. worker[w].mine => \/ copies'[worker[w].run] > 0 \/ dead'[worker[w].run] > 0
                          \/ status[worker[w].run] = "completed"
    BY <1>2, <1>5 DEF Redeliver
  <1> QED
    BY <1>1, <1>2, <1>3, <1>4, <1>6, <1>7, WorkerPassesOn, Zenon DEF Redeliver

\* A worker dies; its transaction is rolled back.
LEMMA WorkerCrashKeeps ==
    ASSUME Inv, NEW w \in Worker, WorkerCrash(w)
    PROVE  Inv'
  <1>0. /\ worker \in [Worker -> WorkerState] /\ worker[w] \in WorkerState
        /\ worker[w].mine \in BOOLEAN
    BY DEF Inv, TypeOK, WorkerState
  <1>2. worker[w].pc # "idle" /\ worker[w].run \in Run
    BY DEF Inv, Deliveries, WorkerCrash
  <1>1. Moves(w, "idle", None, "none", FALSE)
    <2> DEFINE r == Idle
    <2>1. r \in WorkerState
      BY WorkerStates, Zenon
    <2>2. r.pc = "idle" /\ r.run = None /\ r.outcome = "none" /\ r.mine = FALSE
      BY <1>0 DEF Idle
    <2>3. worker' = [worker EXCEPT ![w] = r]
      BY Zenon DEF WorkerCrash
    <2> HIDE DEF r
    <2> QED
      BY <1>0, <2>1, <2>2, <2>3 DEF Moves
  <1>3. KeepsLocks(w)
    BY Locks DEF WorkerCrash
  <1>4. UNCHANGED <<row, dispatch, replay>> /\ faults' \in 0..MaxFaults
    BY Faults DEF WorkerCrash
  <1>5. copies \in [Run -> Nat] /\ dead \in [Run -> Nat]
    BY DEF Inv, TypeOK, QueueType
  <1>6. /\ copies' \in [Run -> Nat] /\ dead' \in [Run -> Nat]
        /\ \A y \in Run : copies[y] <= copies'[y] /\ dead[y] <= dead'[y]
    BY <1>2, <1>5 DEF WorkerCrash, queue
  <1>7. worker[w].mine => \/ copies'[worker[w].run] > 0 \/ dead'[worker[w].run] > 0
                          \/ status[worker[w].run] = "completed"
    BY <1>2, <1>5 DEF WorkerCrash
  <1> QED
    BY <1>1, <1>2, <1>3, <1>4, <1>6, <1>7, WorkerPassesOn, Zenon

\* What the run row says decides what the gate answers.
LEMMA GateLocksRunKeeps ==
    ASSUME Inv, NEW w \in Worker, GateLocksRun(w)
    PROVE  Inv'
  <1>0. /\ worker \in [Worker -> WorkerState] /\ worker[w] \in WorkerState
        /\ worker[w].mine \in BOOLEAN
    BY DEF Inv, TypeOK, WorkerState
  <1> DEFINE x == worker[w].run
  <1>1. worker[w].pc # "idle" /\ x \in Run /\ runLock[x] = None
    BY DEF Inv, Deliveries, GateLocksRun
  <1>2. status[x] \in Status /\ eLease[x] \in Nat
    BY <1>1 DEF Inv, TypeOK, RowType
  <1>3. UNCHANGED <<row, dispatch, queue, replay>> /\ faults' \in 0..MaxFaults
    BY Faults DEF GateLocksRun
  <1>4. CASE GateAnswer(x) = "acquire"
    <2>1. /\ worker' = [worker EXCEPT ![w].pc = "gate"]
          /\ runLock' = [runLock EXCEPT ![x] = w] /\ UNCHANGED scheduleLock
      BY <1>4 DEF GateLocksRun
    <2>2. Moves(w, "gate", x, worker[w].outcome, worker[w].mine)
      <3> DEFINE r == [worker[w] EXCEPT !.pc = "gate"]
      <3>1. /\ r \in WorkerState
            /\ r.pc = "gate" /\ r.run = x /\ r.outcome = worker[w].outcome /\ r.mine = worker[w].mine
        BY <1>0 DEF WorkerState
      <3>2. worker' = [worker EXCEPT ![w] = r]
        BY <2>1, Zenon
      <3> HIDE DEF r
      <3> QED
        BY <1>0, <3>1, <3>2 DEF Moves
    <2>3. KeepsLocks(w)
      BY <1>1, <2>1, Locks, Zenon
    <2>4. status[x] \in {"dispatching", "dispatched"} \/ (status[x] = "running" /\ eLease[x] = 0)
      BY <1>2, <1>4 DEF GateAnswer, Status
    <2>5. runLock'[x] = w
      BY <1>1, <2>1 DEF Inv, TypeOK, LockType
    <2>6. MayBeAt(w, "gate", x, worker[w].outcome)
      BY <1>1, <2>4, <2>5 DEF MayBeAt
    <2> QED
      BY <1>1, <1>3, <2>2, <2>3, <2>6, WorkerGoesOn
  <1>5. CASE GateAnswer(x) # "acquire"
    <2> DEFINE o == GateAnswer(x)
    <2>1. worker' = Returns(w, o) /\ UNCHANGED locks
      BY <1>5 DEF GateLocksRun, locks
    <2>2. o \in Outcomes /\ (o = "succeeded" => status[x] = "completed")
      BY <1>2, <1>5 DEF GateAnswer, Outcomes, Status
    <2> HIDE DEF o
    <2>3. Moves(w, "returned", x, o, worker[w].mine)
      BY <1>0, <1>1, <2>1, <2>2, ReturnsMoves
    <2>4. KeepsLocks(w)
      BY <2>1, Locks
    <2>5. MayBeAt(w, "returned", x, o)
      BY <1>1, <2>2 DEF MayBeAt, AtGate
    <2> QED
      BY <1>1, <1>3, <2>3, <2>4, <2>5, WorkerGoesOn
  <1> QED
    BY <1>4, <1>5

\* The handler starts, if there is time for it.
LEMMA StartHandlerKeeps ==
    ASSUME Inv, NEW w \in Worker, StartHandler(w)
    PROVE  Inv'
  <1>0. worker \in [Worker -> WorkerState] /\ worker[w] \in WorkerState
    BY DEF Inv, TypeOK
  <1>1. worker[w].pc # "idle" /\ worker[w].run \in Run
    BY DEF Inv, Deliveries, StartHandler
  <1>2. KeepsLocks(w) /\ UNCHANGED <<row, dispatch, queue, replay>> /\ faults' \in 0..MaxFaults
    BY Locks, Faults DEF StartHandler
  <1>3. CASE Budget(w) > 0
    <2>1. Moves(w, "executing", worker[w].run, worker[w].outcome, worker[w].mine)
      <3> DEFINE b == Budget(w)
                 n == Renewal(w)
                 r == [worker[w] EXCEPT !.pc = "executing", !.budget = b, !.renewal = n]
      <3>0. Budget(w) \in Int /\ Renewal(w) \in Nat
        BY LeaseLengths, Zenon DEF Inv
      <3>1. b \in Nat /\ n \in Nat
        BY <1>3, <3>0
      <3>2. worker' = [worker EXCEPT ![w] = r]
        BY <1>3, Zenon DEF StartHandler
      <3> HIDE DEF b, n
      <3>3. /\ r \in WorkerState
            /\ r.pc = "executing" /\ r.run = worker[w].run
            /\ r.outcome = worker[w].outcome /\ r.mine = worker[w].mine
        BY <1>0, <3>1, Zenon DEF WorkerState
      <3> HIDE DEF r
      <3> QED
        BY <1>0, <3>2, <3>3 DEF Moves
    <2>2. MayBeAt(w, "executing", worker[w].run, worker[w].outcome)
      BY <1>1 DEF MayBeAt, AtGate
    <2> QED
      BY <1>1, <1>2, <2>1, <2>2, WorkerGoesOn
  <1>4. CASE ~(Budget(w) > 0)
    <2>1. worker' = Ends(w, "retryable")
      BY <1>4 DEF StartHandler
    <2>2. Moves(w, "finishing", worker[w].run, "retryable", worker[w].mine)
      BY <1>0, <2>1, EndsMoves DEF Outcomes
    <2>3. MayBeAt(w, "finishing", worker[w].run, "retryable")
      BY <1>1 DEF MayBeAt, AtGate, Outcomes
    <2> QED
      BY <1>1, <1>2, <2>2, <2>3, WorkerGoesOn
  <1> QED
    BY <1>3, <1>4

\* The workers are where they were; their timers may have run on.
WorkersStay ==
    /\ worker' \in [Worker -> WorkerState]
    /\ \A w \in Worker :
          /\ worker'[w].pc = worker[w].pc /\ worker'[w].run = worker[w].run
          /\ worker'[w].outcome = worker[w].outcome /\ worker'[w].mine = worker[w].mine

\* Rows change as the locks and the fences allow.
RowsMayChange ==
    /\ \A x \in Run : status'[x] # status[x] =>
          /\ runLock[x] = None \/ status[x] = "absent"
          /\ status[x] \notin {"completed", "failed"}
    /\ \A x \in Run : runLock[x] # None /\ eLease[x] = 0 => eLease'[x] = 0
    /\ \A x \in Run : status'[x] \in {"dispatched", "running"} =>
          status'[x] = status[x] \/ x \in Traced

\* No message is lost, and an acceptance that is new to a replica is traced.
QueueMayGrow ==
    /\ dead' = dead /\ \A x \in Run : copies[x] <= copies'[x]
    /\ \A d \in Replica : handoff'[d] # None /\ handoff'[d].ok
          => handoff'[d] = handoff[d] \/ handoff'[d].run \in Traced'

\* Runs stay locked, and the schedule changes hands only with a replay.
LocksMayChange ==
    /\ runLock' = runLock
    /\ \A w \in Worker : scheduleLock = w => scheduleLock' = w
    /\ replay'.pc = "schedule" => scheduleLock' = Administrator /\ replay'.run \in Run

\* A step of a replica, of the database or of time keeps the invariant.
LEMMA RowsChange ==
    ASSUME Inv, TypeOK', StateComplete', WorkersStay, RowsMayChange, QueueMayGrow,
           LocksMayChange
    PROVE  Inv'
  <1>1. Traced \subseteq Traced'
    <2> SUFFICES ASSUME NEW x \in Traced PROVE x \in Traced'
      OBVIOUS
    <2>1. (copies[x] > 0 => copies'[x] > 0) /\ (dead[x] > 0 => dead'[x] > 0)
      <3>1. x \in Run /\ copies \in [Run -> Nat] /\ copies' \in [Run -> Nat]
        BY Zenon DEF Inv, TypeOK, QueueType, Traced
      <3> QED
        BY <3>1 DEF QueueMayGrow
    <2>2. status[x] \in {"completed", "failed"} => status'[x] \in {"completed", "failed"}
      BY Zenon DEF RowsMayChange, Traced
    <2>3. (\E w \in Worker : worker[w].run = x /\ worker[w].mine)
             => \E w \in Worker : worker'[w].run = x /\ worker'[w].mine
      BY DEF WorkersStay
    <2> QED
      BY <2>1, <2>2, <2>3 DEF Traced
  <1>2. Deliveries'
    BY DEF Inv, Deliveries, WorkersStay
  <1>3. Gate'
    <2>1. \A w \in Worker : worker[w].pc \in AtGate =>
             /\ worker[w].run \in Run /\ runLock[worker[w].run] = w /\ w # None
             /\ status[worker[w].run] # "absent"
      <3>1. ASSUME NEW w \in Worker, worker[w].pc \in AtGate
            PROVE  /\ worker[w].run \in Run /\ runLock[worker[w].run] = w /\ w # None
                   /\ status[worker[w].run] # "absent"
        <4>1. worker[w].pc # "idle" /\ w # None
          BY <3>1, ScheduledRunsAssumption DEF AtGate
        <4> QED
          BY <3>1, <4>1, Zenon DEF Inv, Deliveries, Gate
      <3> QED
        BY <3>1, Zenon
    <2>2. ASSUME NEW w \in Worker, worker[w].pc \in AtGate
          PROVE  /\ status'[worker[w].run] = status[worker[w].run]
                 /\ eLease[worker[w].run] = 0 => eLease'[worker[w].run] = 0
      BY <2>1, <2>2, SMTT(20) DEF RowsMayChange
    <2> QED
      BY <2>1, <2>2, SMTT(20) DEF Inv, Gate, WorkersStay, LocksMayChange
  <1>4. HandedOver'
    <2>1. \A x \in Run : status'[x] \in {"dispatched", "running"} => x \in Traced'
      BY <1>1, Zenon DEF Inv, HandedOver, RowsMayChange
    <2>2. \A d \in Replica : handoff'[d] # None /\ handoff'[d].ok => handoff'[d].run \in Traced'
      BY <1>1 DEF Inv, HandedOver, QueueMayGrow
    <2>3. \A w \in Worker : worker'[w].pc # "idle" => worker'[w].run \in Traced'
      BY <1>1 DEF Inv, HandedOver, WorkersStay
    <2> QED
      BY <2>1, <2>2, <2>3 DEF HandedOver
  <1>5. AckedIsCompleted'
    BY SMTT(20) DEF Inv, AckedIsCompleted, Deliveries, RowsMayChange, WorkersStay
  <1> QED
    BY <1>2, <1>3, <1>4, <1>5 DEF Inv

\* A queue that is unchanged has lost no message.
LEMMA SameCopies == Inv /\ copies' = copies => \A x \in Run : copies[x] <= copies'[x]
  <1>1. Inv => copies \in [Run -> Nat]
    BY Zenon DEF Inv, TypeOK, QueueType
  <1> QED
    BY <1>1

\* Workers that are unchanged stay.
LEMMA UnchangedWorkersStay == Inv /\ worker' = worker => WorkersStay
  BY DEF Inv, TypeOK, RowType, QueueType, DispatchType, LockType, ReplayType, WorkersStay

\* The gate claims the run: there was room, and the schedule is still locked.
LEMMA GateClaimsKeeps ==
    ASSUME Inv, NEW w \in Worker, NEW seen \in BOOLEAN, GateClaims(w, seen)
    PROVE  Inv'
  <1> DEFINE x == worker[w].run
             f == CHOOSE f \in Unused : TRUE
             n == CappedLease(w)
  <1>0. worker \in [Worker -> WorkerState] /\ worker[w] \in WorkerState
    BY DEF Inv, TypeOK
  <1>1. /\ worker[w].pc = "claiming" /\ x \in Run /\ runLock[x] = w /\ scheduleLock = w
        /\ status[x] \in {"dispatching", "dispatched", "running"} /\ ~Live(x)
    <2>1. worker[w].pc = "claiming" /\ x \in Run
      BY Zenon DEF Inv, Deliveries, GateClaims
    <2> QED
      BY <2>1 DEF Inv, Gate, AtGate, Live
  <1>2. f \in Fence /\ f # None /\ n \in 0..ExecutionLease
    <2>1. f \in Unused
      BY Zenon DEF GateClaims
    <2> QED
      BY <2>1, FencesAreTokens, LeaseLengths, Zenon DEF Inv
  <1>3. /\ status' = [status EXCEPT ![x] = "running"]
        /\ dispatchedAt' = [dispatchedAt EXCEPT ![x] = TRUE]
        /\ startedAt' = [startedAt EXCEPT ![x] = TRUE]
        /\ dToken' = [dToken EXCEPT ![x] = None] /\ dLease' = [dLease EXCEPT ![x] = 0]
        /\ eToken' = [eToken EXCEPT ![x] = f] /\ eLease' = [eLease EXCEPT ![x] = n]
        /\ UNCHANGED <<wait, dispatch, queue, replay>>
        /\ KeepsLocks(w) /\ faults' \in 0..MaxFaults
    BY Locks, Faults, Zenon DEF GateClaims, ClearDispatch
  <1>4. PICK pc \in {"acquired", "returned"}, o \in {worker[w].outcome, "retryable"} :
           Moves(w, pc, x, o, worker[w].mine) /\ (pc = "returned" => o = "retryable")
    <2>1. CASE seen
      <3> DEFINE r == [worker[w] EXCEPT !.pc = "acquired", !.token = f, !.lasts = n]
      <3>1. worker' = [worker EXCEPT ![w] = r]
        BY <2>1, Zenon DEF GateClaims
      <3> HIDE DEF f, n
      <3>2. /\ r \in WorkerState /\ r.pc = "acquired" /\ r.run = x
            /\ r.outcome = worker[w].outcome /\ r.mine = worker[w].mine
        BY <1>0, <1>2, Zenon DEF WorkerState
      <3> HIDE DEF r
      <3>3. Moves(w, "acquired", x, worker[w].outcome, worker[w].mine)
        BY <1>0, <3>1, <3>2 DEF Moves
      <3> QED
        BY <3>3
    <2>2. CASE ~seen
      <3>1. Moves(w, "returned", x, "retryable", worker[w].mine)
        BY <1>0, <1>1, <2>2, ReturnsMoves DEF GateClaims, Outcomes
      <3> QED
        BY <3>1
    <2> QED
      BY <2>1, <2>2
  <1> HIDE DEF f, n
  <1>5. TypeOK'
    <2>1. /\ status' \in [Run -> Status] /\ wait' \in [Run -> 0..RetryDelay]
          /\ dToken' \in [Run -> Fence \cup {None}] /\ eToken' \in [Run -> Fence \cup {None}]
          /\ dispatchedAt' \in [Run -> BOOLEAN] /\ startedAt' \in [Run -> BOOLEAN]
      BY <1>1, <1>2, <1>3, Zenon DEF Inv, TypeOK, RowType, Status
    <2>2. dLease' \in [Run -> 0..DispatchLease] /\ eLease' \in [Run -> 0..ExecutionLease]
      <3>1. 0 \in 0..DispatchLease
        BY ScheduledRunsAssumption
      <3> QED
        BY <1>1, <1>2, <1>3, <3>1, Zenon DEF Inv, TypeOK, RowType
    <2> QED
      BY <1>3, <1>4, <2>1, <2>2, Zenon
      DEF Inv, TypeOK, RowType, QueueType, DispatchType, LockType, ReplayType, Moves,
          KeepsLocks, dispatch, queue
  <1>6. StateComplete'
    <2>1. /\ status'[x] = "running" /\ dToken'[x] = None /\ eToken'[x] = f
          /\ dispatchedAt'[x] /\ startedAt'[x]
      BY <1>1, <1>3, Zenon DEF Inv, TypeOK, RowType
    <2>2. \A y \in Run \ {x} :
             /\ status'[y] = status[y] /\ dToken'[y] = dToken[y] /\ eToken'[y] = eToken[y]
             /\ dispatchedAt'[y] = dispatchedAt[y] /\ startedAt'[y] = startedAt[y]
      BY <1>3, Zenon DEF Inv, TypeOK, RowType
    <2> QED
      BY <1>2, <2>1, <2>2, SMTT(20) DEF Inv, StateComplete
  <1>7. Deliveries'
    BY <1>1, <1>4 DEF Inv, Deliveries, Moves, Outcomes
  <1>8. Gate'
    <2>1. \A v \in Worker : v # w /\ worker[v].pc \in AtGate =>
             /\ worker[v].run \in Run /\ runLock'[worker[v].run] = v /\ worker[v].run # x
             /\ status'[worker[v].run] = status[worker[v].run]
             /\ eLease'[worker[v].run] = eLease[worker[v].run]
      <3>1. \A y \in Run \ {x} : status'[y] = status[y] /\ eLease'[y] = eLease[y]
        BY <1>3, Zenon DEF Inv, TypeOK, RowType
      <3>2. ASSUME NEW v \in Worker, v # w, worker[v].pc \in AtGate
            PROVE  worker[v].run \in Run /\ runLock[worker[v].run] = v
        <4>1. worker[v].pc # "idle"
          BY <3>2 DEF AtGate
        <4> QED
          BY <3>2, <4>1, Zenon DEF Inv, Deliveries, Gate
      <3>3. \A y \in Run : \A v \in Worker : v # w /\ runLock[y] = v => runLock'[y] = v
        BY <1>3 DEF KeepsLocks
      <3> QED
        BY <1>1, <3>1, <3>2, <3>3, Zenon
    <2>2. \A v \in Worker : v # w => worker[v].pc \notin {"counting", "claiming"}
      BY <1>1, Zenon DEF Inv, Gate
    <2>3. replay.pc # "schedule"
      BY <1>1, ScheduledRunsAssumption, Zenon DEF Inv, Gate
    <2> QED
      <3>1. \A v \in Worker : worker'[v].pc \in AtGate => v # w /\ worker'[v] = worker[v]
        BY <1>4 DEF Moves, AtGate
      <3>2. ASSUME NEW v \in Worker, worker'[v].pc \in AtGate
            PROVE  /\ runLock'[worker'[v].run] = v
                   /\ \/ status'[worker'[v].run] \in {"dispatching", "dispatched"}
                      \/ status'[worker'[v].run] = "running" /\ eLease'[worker'[v].run] = 0
        <4>1. v # w /\ worker'[v] = worker[v] /\ worker[v].pc \in AtGate
          BY <3>1, <3>2, Zenon
        <4>2. \/ status[worker[v].run] \in {"dispatching", "dispatched"}
              \/ status[worker[v].run] = "running" /\ eLease[worker[v].run] = 0
          BY <4>1, Zenon DEF Inv, Gate
        <4> QED
          BY <2>1, <4>1, <4>2, Zenon
      <3>3. {"counting", "claiming"} \subseteq AtGate
        BY DEF AtGate
      <3>4. \A v \in Worker : worker'[v].pc \notin {"counting", "claiming"}
        BY <2>2, <3>1, <3>3, Zenon
      <3>5. replay'.pc # "schedule"
        BY <1>3, <2>3, Zenon
      <3> QED
        BY <3>2, <3>4, <3>5, Zenon DEF Gate
  <1>9. Traced \subseteq Traced'
    <2>1. LeavesTrace(w)
      BY <1>1, <1>3, <1>4, Zenon DEF Inv, TypeOK, RowType, QueueType, LeavesTrace, Moves, queue
    <2> QED
      BY <2>1, StillTraced, Zenon
  <1>10. HandedOver'
    <2>1. x \in Traced
      BY <1>1, Zenon DEF Inv, HandedOver
    <2>2. \A y \in Run : status'[y] = IF y = x THEN "running" ELSE status[y]
      BY <1>3, Zenon DEF Inv, TypeOK, RowType
    <2> QED
      BY <1>3, <1>4, <1>9, <2>1, <2>2, Zenon DEF Inv, HandedOver, Moves, dispatch
  <1>11. AckedIsCompleted'
    <2>1. \A y \in Run : status[y] = "completed" => status'[y] = "completed"
      BY <1>1, <1>3, Zenon DEF Inv, TypeOK, RowType
    <2> QED
      BY <1>4, <2>1, Zenon DEF Inv, AckedIsCompleted, Deliveries, Moves
  <1> QED
    BY <1>5, <1>6, <1>7, <1>8, <1>10, <1>11 DEF Inv

\* The owner of a live lease extends it; anyone else drops the handler.
LEMMA RenewKeeps ==
    ASSUME Inv, NEW w \in Worker, Renew(w)
    PROVE  Inv'
  <1> DEFINE x == worker[w].run
  <1>0. worker \in [Worker -> WorkerState] /\ worker[w] \in WorkerState
    BY Zenon DEF Inv, TypeOK
  <1>1. worker[w].pc # "idle" /\ x \in Run /\ runLock[x] = None
    BY Zenon DEF Inv, Deliveries, Renew
  <1>2. CASE HoldsExecution(w) /\ worker[w].deadline > Safety
    <2> DEFINE n == Min({worker[w].lasts, worker[w].deadline - Safety})
               k == Renewal(w)
               r == [worker[w] EXCEPT !.renewal = k]
    <2>1. n \in 0..ExecutionLease /\ k \in Nat
      BY <1>2, LeaseLengths, Zenon DEF Inv
    <2>2. /\ eLease' = [eLease EXCEPT ![x] = n]
          /\ worker' = [worker EXCEPT ![w] = r]
      BY <1>2, Zenon DEF Renew
    <2>3. Live(x)
      BY <1>2, Zenon DEF HoldsExecution, Live
    <2> HIDE DEF n, k
    <2>4. WorkersStay
      <3>1. /\ r \in WorkerState /\ r.pc = worker[w].pc /\ r.run = x
            /\ r.outcome = worker[w].outcome /\ r.mine = worker[w].mine
        BY <1>0, <2>1 DEF WorkerState
      <3> HIDE DEF r
      <3> QED
        BY <1>0, <2>2, <3>1, Zenon DEF WorkersStay
    <2> HIDE DEF r
    <2>5. /\ UNCHANGED <<status, wait, dToken, dLease, eToken, dispatchedAt, startedAt>>
          /\ UNCHANGED <<held, handoff, copies, dead, runLock, scheduleLock, replay, faults>>
      BY Zenon DEF Renew, dispatch, queue, locks
    <2>6. eLease' \in [Run -> 0..ExecutionLease]
      BY <2>1, <2>2, Zenon DEF Inv, TypeOK, RowType
    <2>7. TypeOK'
      BY <2>4, <2>5, <2>6, Zenon
      DEF Inv, TypeOK, RowType, QueueType, DispatchType, LockType, ReplayType, WorkersStay
    <2>8. StateComplete'
      BY <2>5, Zenon DEF Inv, StateComplete
    <2>9. RowsMayChange
      <3>1. \A y \in Run : y # x => eLease'[y] = eLease[y]
        BY <2>2, Zenon DEF Inv, TypeOK, RowType
      <3> QED
        BY <1>1, <2>3, <2>5, <3>1, Zenon DEF RowsMayChange
    <2>10. \A y \in Run : copies[y] <= copies'[y]
      BY <2>5 DEF Inv, TypeOK, QueueType
    <2> QED
      BY <2>4, <2>5, <2>7, <2>8, <2>9, <2>10, RowsChange, Zenon
      DEF Inv, Gate, QueueMayGrow, LocksMayChange
  <1>3. CASE ~(HoldsExecution(w) /\ worker[w].deadline > Safety)
    <2>1. worker' = Ends(w, "retryable") /\ UNCHANGED <<row, dispatch, queue, replay>>
      BY <1>3, Zenon DEF Renew, row
    <2>2. Moves(w, "finishing", x, "retryable", worker[w].mine)
      BY <1>0, <2>1, EndsMoves, Zenon DEF Outcomes
    <2>3. KeepsLocks(w) /\ faults' \in 0..MaxFaults
      BY Locks, Faults, Zenon DEF Renew
    <2>4. MayBeAt(w, "finishing", x, "retryable")
      BY <1>1, Zenon DEF MayBeAt, AtGate, Outcomes
    <2> QED
      BY <1>1, <2>1, <2>2, <2>3, <2>4, WorkerGoesOn, Zenon
  <1> QED
    BY <1>2, <1>3, Zenon

\* The owner of a live lease records the result; anyone else reports a retry.
LEMMA FinishKeeps ==
    ASSUME Inv, NEW w \in Worker, Finish(w)
    PROVE  Inv'
  <1> DEFINE x == worker[w].run
             o == worker[w].outcome
             s == FinalStatus(o)
  <1>0. worker \in [Worker -> WorkerState] /\ worker[w] \in WorkerState
    BY DEF Inv, TypeOK
  <1>1. worker[w].pc # "idle" /\ x \in Run /\ runLock[x] = None /\ o \in Outcomes
    BY Zenon DEF Inv, Deliveries, Finish
  <1>2. CASE HoldsExecution(w)
    <2>1. /\ status' = [status EXCEPT ![x] = s]
          /\ eToken' = [eToken EXCEPT ![x] = None] /\ eLease' = [eLease EXCEPT ![x] = 0]
          /\ UNCHANGED <<wait, dToken, dLease, dispatchedAt, startedAt>>
          /\ UNCHANGED <<held, handoff, copies, dead, runLock, scheduleLock, replay, faults>>
          /\ worker' = Returns(w, o)
      BY <1>2, Zenon DEF Finish, dispatch, queue, locks
    <2>2. /\ status[x] = "running"
          /\ s \in {"completed", "failed", "dispatched"} /\ (o = "succeeded" => s = "completed")
      BY <1>1, <1>2, Zenon DEF HoldsExecution, FinalStatus, Outcomes
    <2> HIDE DEF s
    <2>3. Moves(w, "returned", x, o, worker[w].mine)
      BY <1>0, <1>1, <2>1, ReturnsMoves, Zenon
    <2>4. \A y \in Run : /\ status'[y] = IF y = x THEN s ELSE status[y]
                         /\ eToken'[y] = IF y = x THEN None ELSE eToken[y]
                         /\ eLease'[y] = IF y = x THEN 0 ELSE eLease[y]
      BY <2>1, Zenon DEF Inv, TypeOK, RowType
    <2>5. TypeOK'
      <3>1. /\ status' \in [Run -> Status] /\ eToken' \in [Run -> Fence \cup {None}]
            /\ eLease' \in [Run -> 0..ExecutionLease]
        BY <2>1, <2>2, WorkerStates, Zenon DEF Inv, TypeOK, RowType, Status
      <3> QED
        BY <2>1, <2>3, <3>1, Zenon
        DEF Inv, TypeOK, RowType, QueueType, DispatchType, LockType, ReplayType, Moves
    <2>6. StateComplete'
      <3>1. status'[x] = s /\ eToken'[x] = None /\ dToken[x] = None /\ dispatchedAt[x] /\ startedAt[x]
        BY <1>1, <2>2, <2>4, Zenon DEF Inv, StateComplete
      <3>2. \A y \in Run \ {x} : status'[y] = status[y] /\ eToken'[y] = eToken[y]
        BY <2>4, Zenon
      <3>3. UNCHANGED <<dToken, dispatchedAt, startedAt>>
        BY <2>1, Zenon
      <3> DEFINE Complete(y) ==
                     /\ (dToken[y] # None) <=> (status[y] = "dispatching")
                     /\ (eToken[y] # None) <=> (status[y] = "running")
                     /\ status[y] \in {"absent", "pending_dispatch", "dispatching"}
                           => ~dispatchedAt[y] /\ ~startedAt[y]
                     /\ status[y] = "dispatched" => dispatchedAt[y]
                     /\ status[y] \in {"running", "completed", "failed"}
                           => dispatchedAt[y] /\ startedAt[y]
      <3>4. ASSUME NEW y \in Run PROVE Complete(y)'
        <4>1. Complete(y)
          BY Zenon DEF Inv, StateComplete
        <4>2. CASE y = x
          BY <2>2, <3>1, <3>3, <4>2
        <4>3. CASE y # x
          BY <3>2, <3>3, <4>1, <4>3, Zenon
        <4> QED
          BY <4>2, <4>3
      <3> QED
        BY <3>4, Zenon DEF StateComplete
    <2>7. Deliveries'
      BY <1>1, <2>3, Zenon DEF Inv, Deliveries, Moves
    <2>8. Gate'
      <3>1. \A v \in Worker : worker[v].pc \in AtGate => worker[v].run \in Run /\ worker[v].run # x
        <4>1. \A v \in Worker : worker[v].pc \in AtGate => worker[v].pc # "idle" /\ v # None
          BY ScheduledRunsAssumption DEF AtGate
        <4> QED
          <5>1. \A v \in Worker : worker[v].pc \in AtGate => worker[v].run \in Run
            BY <4>1, Zenon DEF Inv, Deliveries
          <5>2. \A v \in Worker : worker[v].pc \in AtGate => runLock[worker[v].run] = v
            BY Zenon DEF Inv, Gate
          <5> QED
            BY <1>1, <4>1, <5>1, <5>2, Zenon
      <3>2. \A v \in Worker : worker'[v].pc \in AtGate => worker'[v] = worker[v]
        BY <2>3, Zenon DEF AtGate, Moves
      <3>3. \A v \in Worker : worker[v].pc \in AtGate =>
                /\ status'[worker[v].run] = status[worker[v].run]
                /\ eLease'[worker[v].run] = eLease[worker[v].run]
        BY <2>4, <3>1, Zenon
      <3>4. {"counting", "claiming"} \subseteq AtGate
        BY DEF AtGate
      <3>5. ASSUME NEW v \in Worker, worker'[v].pc \in AtGate
            PROVE  /\ runLock'[worker'[v].run] = v
                   /\ \/ status'[worker'[v].run] \in {"dispatching", "dispatched"}
                      \/ status'[worker'[v].run] = "running" /\ eLease'[worker'[v].run] = 0
        <4>1. /\ runLock[worker[v].run] = v /\ worker'[v] = worker[v]
              /\ \/ status[worker[v].run] \in {"dispatching", "dispatched"}
                 \/ status[worker[v].run] = "running" /\ eLease[worker[v].run] = 0
          BY <3>2, <3>5, Zenon DEF Inv, Gate
        <4> QED
          BY <2>1, <3>3, <3>5, <4>1, Zenon
      <3>6. \A v \in Worker : worker'[v].pc \in {"counting", "claiming"} => scheduleLock' = v
        BY <2>1, <3>2, <3>4, Zenon DEF Inv, Gate
      <3>7. replay'.pc = "schedule" => scheduleLock' = Administrator /\ replay'.run \in Run
        BY <2>1, Zenon DEF Inv, Gate
      <3> QED
        BY <3>5, <3>6, <3>7, Zenon DEF Gate
    <2>9. Traced \subseteq Traced'
      <3>1. LeavesTrace(w)
        <4>1. /\ \A y \in Run : status[y] \in {"completed", "failed"} => status'[y] = status[y]
              /\ UNCHANGED <<copies, dead>>
          BY <2>1, <2>2, <2>4, Zenon
        <4> QED
          BY <1>1, <2>3, <4>1, Zenon DEF LeavesTrace, Moves
      <3> QED
        BY <3>1, StillTraced, Zenon
    <2>10. HandedOver'
      <3>1. x \in Traced
        BY <1>1, Zenon DEF Inv, HandedOver
      <3>2. \A y \in Run : status'[y] \in {"dispatched", "running"} => y \in Traced'
        BY <2>4, <2>9, <3>1, Zenon DEF Inv, HandedOver
      <3>3. \A d \in Replica : handoff'[d] # None /\ handoff'[d].ok => handoff'[d].run \in Traced'
        BY <2>1, <2>9, Zenon DEF Inv, HandedOver
      <3>4. \A v \in Worker : worker'[v].pc # "idle" => worker'[v].run \in Traced'
        BY <2>3, <2>9, <3>1, Zenon DEF Inv, HandedOver, Moves
      <3> QED
        BY <2>1, <3>2, <3>3, <3>4, Zenon DEF HandedOver
    <2>11. AckedIsCompleted'
      <3>1. /\ \A y \in Run : status[y] = "completed" => status'[y] = "completed"
            /\ o = "succeeded" => status'[x] = "completed"
        BY <1>1, <2>2, <2>4, Zenon
      <3>2. ASSUME NEW v \in Worker, worker'[v].pc = "returned", worker'[v].outcome = "succeeded"
            PROVE  status'[worker'[v].run] = "completed"
        <4>1. CASE v = w
          BY <2>3, <3>1, <3>2, <4>1, Zenon DEF Moves
        <4>2. CASE v # w
          <5>1. worker'[v] = worker[v]
            BY <2>3, <4>2, Zenon DEF Moves
          <5>2. worker[v].run \in Run /\ status[worker[v].run] = "completed"
            BY <3>2, <5>1, Zenon DEF Inv, AckedIsCompleted, Deliveries
          <5> QED
            BY <3>1, <5>1, <5>2, Zenon
        <4> QED
          BY <4>1, <4>2, Zenon
      <3> QED
        BY <3>2, Zenon DEF AckedIsCompleted
    <2> QED
      BY <2>5, <2>6, <2>7, <2>8, <2>10, <2>11, Zenon DEF Inv
  <1>3. CASE ~HoldsExecution(w)
    <2>1. worker' = Returns(w, "retryable") /\ UNCHANGED <<row, dispatch, queue, replay>>
      BY <1>3, Zenon DEF Finish, row
    <2>2. Moves(w, "returned", x, "retryable", worker[w].mine)
      BY <1>0, <1>1, <2>1, ReturnsMoves, Zenon DEF Outcomes
    <2>3. KeepsLocks(w) /\ faults' \in 0..MaxFaults
      BY Locks, Faults, Zenon DEF Finish
    <2>4. MayBeAt(w, "returned", x, "retryable")
      BY <1>1, Zenon DEF MayBeAt, AtGate, Outcomes
    <2> QED
      BY <1>1, <2>1, <2>2, <2>3, <2>4, WorkerGoesOn, Zenon
  <1> QED
    BY <1>2, <1>3

\* A step of a replica or of the database that leaves the execution leases, the locks on
\* runs and the workers alone, and moves only runs that nobody has locked.
LEMMA DispatchSteps ==
    ASSUME Inv, TypeOK', StateComplete',
           UNCHANGED <<eLease, worker, runLock, dead>>,
           \A x \in Run : status'[x] # status[x] =>
               /\ runLock[x] = None \/ status[x] = "absent"
               /\ status[x] \in {"absent", "pending_dispatch", "dispatching"}
               /\ status'[x] \in {"pending_dispatch", "dispatching", "dispatched"}
               /\ status'[x] = "dispatched" => x \in Traced,
           \A x \in Run : copies[x] <= copies'[x],
           \A d \in Replica : handoff'[d] # None /\ handoff'[d].ok
               => handoff'[d] = handoff[d] \/ handoff'[d].run \in Traced',
           \A w \in Worker : scheduleLock = w => scheduleLock' = w,
           replay'.pc = "schedule" => scheduleLock' = Administrator /\ replay'.run \in Run
    PROVE  Inv'
  <1>1. WorkersStay
    BY UnchangedWorkersStay, Zenon
  <1>2. RowsMayChange
    BY Zenon DEF RowsMayChange
  <1> QED
    BY <1>1, <1>2, RowsChange, Zenon DEF QueueMayGrow, LocksMayChange

\* The rows and the queue stay as they are.
LEMMA QuietSteps ==
    ASSUME Inv, UNCHANGED <<row, queue, worker, runLock>>,
           held' \in [Replica -> SUBSET [run : Run, token : Fence]],
           handoff' \in [Replica -> [run : Run, token : Fence, ok : BOOLEAN] \cup {None}],
           \A d \in Replica : handoff'[d] \in {None, handoff[d]},
           scheduleLock' \in Worker \cup {None, Administrator},
           replay' \in [pc : {"idle", "schedule"}, run : Run \cup {None}, begun : Nat],
           faults' \in 0..MaxFaults,
           \A w \in Worker : scheduleLock = w => scheduleLock' = w,
           replay'.pc = "schedule" => scheduleLock' = Administrator /\ replay'.run \in Run
    PROVE  Inv'
  <1>1. TypeOK'
    BY Zenon DEF Inv, TypeOK, RowType, QueueType, DispatchType, LockType, ReplayType, row, queue
  <1>2. StateComplete'
    BY Zenon DEF Inv, StateComplete, row
  <1>3. /\ UNCHANGED <<eLease, dead>>
        /\ \A x \in Run : status'[x] = status[x] /\ copies[x] <= copies'[x]
    <2>1. UNCHANGED <<eLease, dead, status, copies>>
      BY Zenon DEF row, queue
    <2> QED
      BY <2>1, SameCopies, Zenon
  <1> QED
    BY <1>1, <1>2, <1>3, DispatchSteps, Zenon

\* A replay that ends lets go of the schedule.
LEMMA ReplayEnds ==
    ASSUME Inv, replay.pc = "schedule", scheduleLock' = None,
           replay' = [replay EXCEPT !.pc = "idle", !.run = None]
    PROVE  /\ replay' \in [pc : {"idle", "schedule"}, run : Run \cup {None}, begun : Nat]
           /\ replay'.pc # "schedule" /\ \A w \in Worker : scheduleLock # w
  <1>1. replay \in [pc : {"idle", "schedule"}, run : Run \cup {None}, begun : Nat]
    BY DEF Inv, TypeOK, ReplayType
  <1>2. \A w \in Worker : scheduleLock # w
    BY ScheduledRunsAssumption DEF Inv, Gate
  <1> QED
    BY <1>1, <1>2, Zenon

\* A new row, from the materialiser or a replay.
LEMMA InsertSteps ==
    ASSUME Inv, NEW x \in Run, Materialize(x) \/ ReplayInserts(x)
    PROVE  Inv'
  <1>1. /\ status[x] = "absent"
        /\ status' = [status EXCEPT ![x] = "pending_dispatch"]
        /\ UNCHANGED <<wait, dToken, dLease, eToken, eLease, dispatchedAt, startedAt>>
        /\ UNCHANGED <<held, handoff, copies, dead, worker, runLock, faults>>
    BY DEF Materialize, ReplayInserts, InsertRun, dispatch, queue, locks
  <1>2. /\ scheduleLock' \in {None, scheduleLock} /\ \A w \in Worker : scheduleLock # w
        /\ replay' \in [pc : {"idle", "schedule"}, run : Run \cup {None}, begun : Nat]
        /\ replay'.pc = "schedule" => scheduleLock' = Administrator /\ replay'.run \in Run
    <2>1. CASE Materialize(x)
      <3>1. scheduleLock = None /\ UNCHANGED <<scheduleLock, replay>>
        BY <2>1, Zenon DEF Materialize, locks
      <3>2. None # Administrator /\ \A w \in Worker : w # None
        BY ScheduledRunsAssumption
      <3> QED
        BY <3>1, <3>2, Zenon DEF Inv, TypeOK, ReplayType, Gate
    <2>2. CASE ReplayInserts(x)
      BY <2>2, ReplayEnds DEF ReplayInserts
    <2> QED
      BY <2>1, <2>2, Zenon
  <1>3. TypeOK'
    <2>1. status' \in [Run -> Status]
      BY <1>1, Zenon DEF Inv, TypeOK, RowType, Status
    <2> QED
      BY <1>1, <1>2, <2>1, Zenon
      DEF Inv, TypeOK, RowType, QueueType, DispatchType, LockType, ReplayType
  <1>4. \A y \in Run : status'[y] = IF y = x THEN "pending_dispatch" ELSE status[y]
    BY <1>1, Zenon DEF Inv, TypeOK, RowType
  <1>5. StateComplete'
    <2>1. /\ dToken[x] = None /\ eToken[x] = None /\ ~dispatchedAt[x] /\ ~startedAt[x]
      BY <1>1, Zenon DEF Inv, StateComplete
    <2> DEFINE Complete(y) ==
                 /\ (dToken[y] # None) <=> (status'[y] = "dispatching")
                 /\ (eToken[y] # None) <=> (status'[y] = "running")
                 /\ status'[y] \in {"absent", "pending_dispatch", "dispatching"}
                       => ~dispatchedAt[y] /\ ~startedAt[y]
                 /\ status'[y] = "dispatched" => dispatchedAt[y]
                 /\ status'[y] \in {"running", "completed", "failed"}
                       => dispatchedAt[y] /\ startedAt[y]
    <2>2. Complete(x)
      <3>1. status'[x] = "pending_dispatch"
        BY <1>4, Zenon
      <3> QED
        BY <2>1, <3>1, Zenon
    <2>3. ASSUME NEW y \in Run, y # x PROVE Complete(y)
      <3>1. status'[y] = status[y]
        BY <1>4, <2>3, Zenon
      <3> QED
        BY <3>1, Zenon DEF Inv, StateComplete
    <2>4. \A y \in Run : Complete(y)
      BY <2>2, <2>3, Zenon
    <2> QED
      BY <1>1, <2>4, Zenon DEF StateComplete
  <1>6. \A y \in Run : copies[y] <= copies'[y]
    BY <1>1, SameCopies, Zenon
  <1>7. \A y \in Run : status'[y] # status[y] =>
               /\ status[y] = "absent" /\ status'[y] = "pending_dispatch"
    BY <1>1, <1>4, Zenon
  <1>8. \A d \in Replica : handoff'[d] = handoff[d]
    BY <1>1
  <1> QED
    BY <1>1, <1>2, <1>3, <1>5, <1>6, <1>7, <1>8, DispatchSteps, Zenon

\* The replay begins, or is rolled back.
LEMMA ReplaySteps ==
    ASSUME Inv, ReplayLocksSchedule \/ ReplayAborts
    PROVE  Inv'
  <1>1. /\ UNCHANGED <<row, queue, worker, runLock>> /\ faults' \in 0..MaxFaults
        /\ held' \in [Replica -> SUBSET [run : Run, token : Fence]]
        /\ handoff' \in [Replica -> [run : Run, token : Fence, ok : BOOLEAN] \cup {None}]
        /\ \A d \in Replica : handoff'[d] \in {None, handoff[d]}
    BY Faults
    DEF Inv, TypeOK, DispatchType, LockType, ReplayLocksSchedule, ReplayAborts, dispatch
  <1>2. /\ scheduleLock' \in {None, Administrator} /\ \A w \in Worker : scheduleLock # w
        /\ replay' \in [pc : {"idle", "schedule"}, run : Run \cup {None}, begun : Nat]
        /\ replay'.pc = "schedule" => scheduleLock' = Administrator /\ replay'.run \in Run
    <2>1. CASE ReplayLocksSchedule
      BY <2>1, ScheduledRunsAssumption DEF Inv, TypeOK, ReplayType, ReplayLocksSchedule
    <2>2. CASE ReplayAborts
      BY <2>2, ReplayEnds DEF ReplayAborts
    <2> QED
      BY <2>1, <2>2, Zenon
  <1> QED
    BY <1>1, <1>2, QuietSteps, Zenon

\* A replica dies with its batch.
LEMMA ReplicaCrashKeeps ==
    ASSUME Inv, NEW d \in Replica, ReplicaCrash(d)
    PROVE  Inv'
  <1>1. /\ UNCHANGED <<row, queue, worker, runLock, scheduleLock, replay>>
        /\ faults' \in 0..MaxFaults
    BY Faults DEF ReplicaCrash, locks
  <1>2. /\ held' \in [Replica -> SUBSET [run : Run, token : Fence]]
        /\ handoff' \in [Replica -> [run : Run, token : Fence, ok : BOOLEAN] \cup {None}]
        /\ \A e \in Replica : handoff'[e] \in {None, handoff[e]}
    BY DEF Inv, TypeOK, DispatchType, ReplicaCrash
  <1>3. /\ replay \in [pc : {"idle", "schedule"}, run : Run \cup {None}, begun : Nat]
        /\ replay.pc = "schedule" => scheduleLock = Administrator /\ replay.run \in Run
        /\ scheduleLock \in Worker \cup {None, Administrator}
    BY Zenon DEF Inv, TypeOK, LockType, ReplayType, Gate
  <1> QED
    BY <1>1, <1>2, <1>3, QuietSteps

\* A batch is claimed.
LEMMA ClaimPendingRunsKeeps ==
    ASSUME Inv, NEW d \in Replica, ClaimPendingRuns(d)
    PROVE  Inv'
  <1> DEFINE F(B) == {f \in [B -> Unused] : \A x, y \in B : f[x] = f[y] => x = y}
  <1>1. PICK B \in SUBSET {x \in Run : Claimable(x)} :
            LET f == CHOOSE f \in F(B) : TRUE IN
            /\ F(B) # {}
            /\ status' = [x \in Run |-> IF x \in B THEN "dispatching" ELSE status[x]]
            /\ dToken' = [x \in Run |-> IF x \in B THEN f[x] ELSE dToken[x]]
            /\ dLease' = [x \in Run |-> IF x \in B THEN DispatchLease ELSE dLease[x]]
            /\ held' = [held EXCEPT ![d] = {[run |-> x, token |-> f[x]] : x \in B}]
    BY Zenon DEF ClaimPendingRuns
  <1>2. PICK f \in F(B) :
            /\ status' = [x \in Run |-> IF x \in B THEN "dispatching" ELSE status[x]]
            /\ dToken' = [x \in Run |-> IF x \in B THEN f[x] ELSE dToken[x]]
            /\ dLease' = [x \in Run |-> IF x \in B THEN DispatchLease ELSE dLease[x]]
            /\ held' = [held EXCEPT ![d] = {[run |-> x, token |-> f[x]] : x \in B}]
    <2>1. (CHOOSE f \in F(B) : TRUE) \in F(B)
      BY <1>1, Zenon
    <2> QED
      BY <1>1, <2>1, Zenon
  <1>3. /\ B \subseteq Run /\ \A x \in B : f[x] \in Fence /\ f[x] # None
        /\ \A x \in B : runLock[x] = None /\ status[x] \in {"pending_dispatch", "dispatching"}
    BY FencesAreTokens DEF Claimable
  <1>4. /\ UNCHANGED <<wait, eToken, eLease, dispatchedAt, startedAt, handoff>>
        /\ UNCHANGED <<copies, dead, worker, runLock, scheduleLock, replay, faults>>
    BY Zenon DEF ClaimPendingRuns, queue, locks
  <1> HIDE DEF F
  <1>5. TypeOK'
    <2>1. /\ status' \in [Run -> Status] /\ dToken' \in [Run -> Fence \cup {None}]
          /\ dLease' \in [Run -> 0..DispatchLease]
      <3>1. /\ status \in [Run -> Status] /\ dToken \in [Run -> Fence \cup {None}]
            /\ dLease \in [Run -> 0..DispatchLease]
        BY Zenon DEF Inv, TypeOK, RowType
      <3>2. "dispatching" \in Status /\ DispatchLease \in 0..DispatchLease
        BY ScheduledRunsAssumption DEF Status
      <3> QED
        BY <1>2, <1>3, <3>1, <3>2, Zenon
    <2>2. held' \in [Replica -> SUBSET [run : Run, token : Fence]]
      <3>1. {[run |-> x, token |-> f[x]] : x \in B} \in SUBSET [run : Run, token : Fence]
        BY <1>3
      <3> QED
        BY <1>2, <3>1, Zenon DEF Inv, TypeOK, DispatchType
    <2> QED
      BY <1>4, <2>1, <2>2, Zenon
      DEF Inv, TypeOK, RowType, QueueType, DispatchType, LockType, ReplayType
  <1>6. \A x \in Run : /\ status'[x] = IF x \in B THEN "dispatching" ELSE status[x]
                       /\ dToken'[x] = IF x \in B THEN f[x] ELSE dToken[x]
    BY <1>2, Zenon
  <1>7. StateComplete'
    BY <1>3, <1>4, <1>6 DEF Inv, StateComplete
  <1>8. /\ \A x \in Run : copies[x] <= copies'[x]
        /\ replay.pc = "schedule" => scheduleLock = Administrator /\ replay.run \in Run
    BY <1>4, SameCopies, Zenon DEF Inv, Gate
  <1> QED
    BY <1>3, <1>4, <1>5, <1>6, <1>7, <1>8, DispatchSteps, Zenon

\* A run is handed to the provider, which may or may not have taken it.
LEMMA EnqueueKeeps ==
    ASSUME Inv, NEW d \in Replica, NEW accepted \in BOOLEAN, NEW ok \in BOOLEAN,
           Enqueue(d, accepted, ok)
    PROVE  Inv'
  <1>1. PICK c \in held[d] :
            /\ handoff' = [handoff EXCEPT ![d] = [run |-> c.run, token |-> c.token, ok |-> ok]]
            /\ held' = [held EXCEPT ![d] = @ \ {c}]
            /\ copies' = [copies EXCEPT ![c.run] = IF accepted THEN @ + 1 ELSE @]
    BY Zenon DEF Enqueue
  <1>2. /\ UNCHANGED <<row, dead, worker, runLock, scheduleLock, replay>>
        /\ faults' \in 0..MaxFaults /\ (ok => accepted)
    BY Faults, Zenon DEF Enqueue, locks
  <1>3. /\ c.run \in Run /\ c.token \in Fence
        /\ copies \in [Run -> Nat] /\ held \in [Replica -> SUBSET [run : Run, token : Fence]]
    BY DEF Inv, TypeOK, QueueType, DispatchType
  <1>4. TypeOK'
    <2>1. copies' \in [Run -> Nat]
      BY <1>1, <1>3
    <2>2. held' \in [Replica -> SUBSET [run : Run, token : Fence]]
      BY <1>1, <1>3, Zenon
    <2>3. handoff' \in [Replica -> [run : Run, token : Fence, ok : BOOLEAN] \cup {None}]
      BY <1>1, <1>3, Zenon DEF Inv, TypeOK, DispatchType
    <2> QED
      BY <1>2, <2>1, <2>2, <2>3, Zenon
      DEF Inv, TypeOK, RowType, QueueType, DispatchType, LockType, ReplayType, row
  <1>5. StateComplete'
    BY <1>2, Zenon DEF Inv, StateComplete, row
  <1>6. /\ \A x \in Run : copies[x] <= copies'[x]
        /\ accepted => copies'[c.run] > 0
    BY <1>1, <1>3, SMTT(30)
  <1>7. ok => c.run \in Traced'
    BY <1>2, <1>3, <1>6, Zenon DEF Traced
  <1>8. \A e \in Replica : handoff'[e] # None /\ handoff'[e].ok
            => handoff'[e] = handoff[e] \/ handoff'[e].run \in Traced'
    <2>1. \A e \in Replica : e # d => handoff'[e] = handoff[e]
      BY <1>1, Zenon DEF Inv, TypeOK, DispatchType
    <2>2. handoff'[d].run = c.run /\ handoff'[d].ok = ok
      BY <1>1, Zenon DEF Inv, TypeOK, DispatchType
    <2> QED
      BY <1>7, <2>1, <2>2, Zenon
  <1>9. /\ UNCHANGED <<status, eLease>>
        /\ replay.pc = "schedule" => scheduleLock = Administrator /\ replay.run \in Run
    BY <1>2, Zenon DEF Inv, Gate, row
  <1> QED
    BY <1>2, <1>4, <1>5, <1>6, <1>8, <1>9, DispatchSteps, Zenon

\* The answer of the provider is recorded, if the dispatch lease still holds.
LEMMA MarkSteps ==
    ASSUME Inv, NEW d \in Replica, MarkDispatched(d) \/ MarkDispatchRetry(d)
    PROVE  Inv'
  <1> DEFINE h == handoff[d]
             x == h.run
  <1>1. /\ h # None /\ x \in Run /\ runLock[x] = None
        /\ UNCHANGED <<eToken, eLease, startedAt>>
        /\ UNCHANGED <<copies, dead, worker, runLock, scheduleLock, replay, faults>>
    BY Zenon DEF Inv, TypeOK, DispatchType, MarkDispatched, MarkDispatchRetry, queue, locks
  <1>2. /\ handoff' = [handoff EXCEPT ![d] = None]
        /\ held' \in [Replica -> SUBSET [run : Run, token : Fence]]
    BY Zenon DEF Inv, TypeOK, DispatchType, MarkDispatched, MarkDispatchRetry
  <1>3. /\ handoff' \in [Replica -> [run : Run, token : Fence, ok : BOOLEAN] \cup {None}]
        /\ \A e \in Replica : handoff'[e] \in {None, handoff[e]}
    BY <1>2, Zenon DEF Inv, TypeOK, DispatchType
  <1>4. /\ \A y \in Run : copies[y] <= copies'[y]
        /\ replay.pc = "schedule" => scheduleLock = Administrator /\ replay.run \in Run
    BY <1>1, SameCopies, Zenon DEF Inv, Gate
  <1>5. CASE HoldsDispatch(h)
    <2>1. PICK s \in {"dispatched", "pending_dispatch"} :
             /\ status' = [status EXCEPT ![x] = s]
             /\ dToken' = [dToken EXCEPT ![x] = None] /\ dLease' = [dLease EXCEPT ![x] = 0]
             /\ s = "dispatched" => /\ h.ok /\ UNCHANGED wait
                                    /\ dispatchedAt' = [dispatchedAt EXCEPT ![x] = TRUE]
             /\ s = "pending_dispatch" => /\ UNCHANGED dispatchedAt
                                          /\ wait' = [wait EXCEPT ![x] = RetryDelay]
      BY <1>5, Zenon DEF MarkDispatched, MarkDispatchRetry, ClearDispatch
    <2>2. status[x] = "dispatching" /\ (s = "dispatched" => x \in Traced)
      BY <1>1, <1>5, <2>1, Zenon DEF Inv, HandedOver, HoldsDispatch
    <2>3. TypeOK'
      <3>1. /\ status' \in [Run -> Status] /\ dToken' \in [Run -> Fence \cup {None}]
            /\ dispatchedAt' \in [Run -> BOOLEAN]
        BY <2>1, Zenon DEF Inv, TypeOK, RowType, Status
      <3>2. wait' \in [Run -> 0..RetryDelay] /\ dLease' \in [Run -> 0..DispatchLease]
        <4>1. RetryDelay \in 0..RetryDelay /\ 0 \in 0..DispatchLease
          BY ScheduledRunsAssumption
        <4>2. wait \in [Run -> 0..RetryDelay] /\ dLease \in [Run -> 0..DispatchLease]
          BY Zenon DEF Inv, TypeOK, RowType
        <4> QED
          BY <2>1, <4>1, <4>2, Zenon
      <3> QED
        BY <1>1, <1>2, <1>3, <3>1, <3>2, Zenon
        DEF Inv, TypeOK, RowType, QueueType, DispatchType, LockType, ReplayType
    <2>4. \A y \in Run : /\ status'[y] = IF y = x THEN s ELSE status[y]
                         /\ dToken'[y] = IF y = x THEN None ELSE dToken[y]
                         /\ y # x => dispatchedAt'[y] = dispatchedAt[y]
      BY <2>1, Zenon DEF Inv, TypeOK, RowType
    <2>5. s = "dispatched" => dispatchedAt'[x] = TRUE
      BY <1>1, <2>1, Zenon DEF Inv, TypeOK, RowType
    <2>6. StateComplete'
      <3>1. \A y \in Run : y # x => /\ status'[y] = status[y] /\ dToken'[y] = dToken[y]
                                    /\ dispatchedAt'[y] = dispatchedAt[y]
        BY <2>4, Zenon
      <3>2. status'[x] = s /\ dToken'[x] = None
        BY <1>1, <2>4, Zenon
      <3>3. ~dispatchedAt[x] /\ ~startedAt[x] /\ eToken[x] = None
        BY <1>1, <2>2, Zenon DEF Inv, StateComplete
      <3>4. s = "pending_dispatch" => ~dispatchedAt'[x]
        BY <2>1, <3>3, Zenon
      <3> QED
        BY <1>1, <2>5, <3>1, <3>2, <3>3, <3>4, Zenon DEF Inv, StateComplete
    <2> QED
      BY <1>1, <1>3, <1>4, <2>2, <2>3, <2>4, <2>6, DispatchSteps, Zenon
  <1>6. CASE ~HoldsDispatch(h)
    <2>1. UNCHANGED row
      BY <1>6, Zenon DEF MarkDispatched, MarkDispatchRetry, row
    <2>2. scheduleLock \in Worker \cup {None, Administrator} /\ faults' \in 0..MaxFaults
          /\ replay \in [pc : {"idle", "schedule"}, run : Run \cup {None}, begun : Nat]
      BY <1>1, Zenon DEF Inv, TypeOK, LockType, ReplayType
    <2> QED
      BY <1>1, <1>2, <1>3, <1>4, <2>1, <2>2, QuietSteps, Zenon DEF queue
  <1> QED
    BY <1>5, <1>6

\* Time passes.
LEMMA ElapseKeeps ==
    ASSUME Inv, Elapse
    PROVE  Inv'
  <1>1. /\ UNCHANGED <<status, dToken, eToken, dispatchedAt, startedAt, held, handoff>>
        /\ UNCHANGED <<copies, dead, runLock, scheduleLock, replay, faults>>
        /\ wait' = [x \in Run |-> Sooner(wait[x])]
        /\ dLease' = [x \in Run |-> Sooner(dLease[x])]
        /\ eLease' = [x \in Run |-> Sooner(eLease[x])]
    BY Zenon DEF Elapse, dispatch, queue, locks
  <1>2. /\ \A n \in Nat : Sooner(n) \in Nat /\ Sooner(n) <= n
        /\ Sooner(0) = 0
    BY DEF Sooner
  <1>3. WorkersStay
    <2> DEFINE r(w) == [worker[w] EXCEPT !.deadline = Sooner(@), !.budget = Sooner(@),
                                         !.renewal = Sooner(@)]
    <2>1. worker' = [w \in Worker |-> r(w)]
      BY Zenon DEF Elapse
    <2>2. ASSUME NEW w \in Worker
          PROVE  /\ r(w) \in WorkerState /\ r(w).pc = worker[w].pc /\ r(w).run = worker[w].run
                 /\ r(w).outcome = worker[w].outcome /\ r(w).mine = worker[w].mine
      <3>1. worker[w] \in WorkerState
        BY DEF Inv, TypeOK
      <3> QED
        BY <1>2, <3>1, Zenon DEF WorkerState
    <2> HIDE DEF r
    <2> QED
      BY <2>1, <2>2, Zenon DEF WorkersStay
  <1>4. TypeOK'
    <2>1. ASSUME NEW m \in Nat, NEW n \in 0..m PROVE Sooner(n) \in 0..m
      BY <1>2
    <2>2. RetryDelay \in Nat /\ DispatchLease \in Nat /\ ExecutionLease \in Nat
      BY ScheduledRunsAssumption, Zenon
    <2>3. /\ wait' \in [Run -> 0..RetryDelay] /\ dLease' \in [Run -> 0..DispatchLease]
          /\ eLease' \in [Run -> 0..ExecutionLease]
      BY <1>1, <2>1, <2>2, Zenon DEF Inv, TypeOK, RowType
    <2> QED
      BY <1>1, <1>3, <2>3, Zenon
      DEF Inv, TypeOK, RowType, QueueType, DispatchType, LockType, ReplayType, WorkersStay
  <1>5. StateComplete'
    BY <1>1, Zenon DEF Inv, StateComplete
  <1>6. RowsMayChange
    <2>1. \A x \in Run : eLease[x] \in Nat /\ eLease'[x] = Sooner(eLease[x])
      <3>1. eLease \in [Run -> 0..ExecutionLease]
        BY Zenon DEF Inv, TypeOK, RowType
      <3> QED
        BY <1>1, <3>1
    <2>2. \A x \in Run : (eLease[x] = 0 => eLease'[x] = 0) /\ (eLease'[x] > 0 => eLease[x] > 0)
      BY <1>2, <2>1
    <2> QED
      BY <1>1, <2>2, Zenon DEF RowsMayChange
  <1>7. \A x \in Run : copies[x] <= copies'[x]
    BY <1>1, SameCopies, Zenon
  <1> QED
    BY <1>1, <1>3, <1>4, <1>5, <1>6, <1>7, RowsChange, Zenon
    DEF Inv, Gate, QueueMayGrow, LocksMayChange

\* An empty table satisfies the invariant.
LEMMA InitInv == Init => Inv
  <1> SUFFICES ASSUME Init PROVE Inv
    OBVIOUS
  <1>1. \A w \in Worker : worker[w] = Idle
    BY Zenon DEF Init
  <1>2. /\ Idle.pc = "idle" /\ Idle.run = None /\ Idle.mine = FALSE /\ Idle \in WorkerState
    BY WorkerStates, Zenon DEF Idle
  <1>3. TypeOK
    <2>1. worker \in [Worker -> WorkerState]
      BY <1>2, Zenon DEF Init
    <2>2. 0 \in 0..RetryDelay /\ 0 \in 0..DispatchLease /\ 0 \in 0..ExecutionLease /\ 0 \in 0..MaxFaults
      BY ScheduledRunsAssumption
    <2> HIDE DEF Idle
    <2> QED
      BY <2>1, <2>2, Zenon DEF Init, TypeOK, RowType, DispatchType, QueueType, LockType, ReplayType,
         Status
  <1>4. StateComplete
    BY Zenon DEF Init, StateComplete
  <1>5. Deliveries /\ AckedIsCompleted
    BY <1>1, <1>2, Zenon DEF Deliveries, AckedIsCompleted
  <1>6. Gate
    BY <1>1, <1>2, Zenon DEF Init, Gate, AtGate
  <1>7. HandedOver
    BY <1>1, <1>2, Zenon DEF Init, HandedOver
  <1> QED
    BY <1>3, <1>4, <1>5, <1>6, <1>7 DEF Inv

\* Every step keeps the invariant.
LEMMA NextInv == Inv /\ [Next]_vars => Inv'
  <1> SUFFICES ASSUME Inv, [Next]_vars PROVE Inv'
    BY Zenon
  <1>1. CASE DatabaseStep
    BY <1>1, InsertSteps, ReplaySteps, Zenon DEF DatabaseStep
  <1>2. ASSUME NEW d \in Replica, ReplicaStep(d) PROVE Inv'
    BY <1>2, ClaimPendingRunsKeeps, EnqueueKeeps, MarkSteps, ReplicaCrashKeeps, Zenon DEF ReplicaStep
  <1>3. ASSUME NEW w \in Worker, WorkerStep(w) PROVE Inv'
    <2>1. \A o \in {"succeeded", "retryable", "permanent", "cancelled"} : o \in Outcomes
      BY DEF Outcomes
    <2> QED
      BY <1>3, <2>1, DeliverKeeps, GateLocksRunKeeps, GateLocksScheduleKeeps, GateCountsKeeps,
         GateRefusesKeeps, GateClaimsKeeps, GateAbortsKeeps, StartHandlerKeeps,
         HandlerEndsKeeps, RenewKeeps, FinishKeeps, SettleKeeps, GiveUpKeeps,
         RedeliverKeeps, WorkerCrashKeeps, Zenon DEF WorkerStep
  <1>4. CASE Elapse
    BY <1>4, ElapseKeeps
  <1>5. CASE UNCHANGED vars
    <2>1. /\ UNCHANGED <<row, queue, worker, runLock, scheduleLock, held, handoff, replay, faults>>
      BY <1>5 DEF vars, dispatch, locks
    <2> QED
      BY <2>1, QuietSteps, Zenon DEF Inv, TypeOK, DispatchType, LockType, ReplayType, Gate
  <1> QED
    BY <1>1, <1>2, <1>3, <1>4, <1>5, Zenon DEF Next

LEMMA Invariance == Spec => []Inv
  BY InitInv, NextInv, PTL DEF Spec

\* Every variable keeps its type.
THEOREM TypeCorrect == Spec => []TypeOK
  <1>1. Inv => TypeOK
    BY DEF Inv
  <1> QED
    BY <1>1, Invariance, PTL

\* No statement violates scheduler_job_runs_state_complete.
THEOREM RowsAreComplete == Spec => []StateComplete
  <1>1. Inv => StateComplete
    BY DEF Inv
  <1> QED
    BY <1>1, Invariance, PTL

\* A success is reported to the provider only for a completed run.
THEOREM SuccessIsRecorded == Spec => []AckedIsCompleted
  <1>1. Inv => AckedIsCompleted
    BY DEF Inv
  <1> QED
    BY <1>1, Invariance, PTL

\* A run that was handed over and has no result has a message, or one was given up.
THEOREM NothingIsForgotten == Spec => []NoRunIsStranded
  <1>1. Inv => NoRunIsStranded
    BY Zenon DEF Inv, HandedOver, Traced, NoRunIsStranded
  <1> QED
    BY <1>1, Invariance, PTL

\* Only the owner of a live lease takes a run out of `running', and a result is final.
THEOREM OwnersFinish == Spec => OnlyOwnerFinishes
  <1> DEFINE A == \A x \in Run : status'[x] # status[x] =>
          /\ status[x] \notin {"completed", "failed"}
          /\ status[x] = "running" =>
                \E w \in Worker : /\ worker[w].pc = "finishing" /\ worker[w].run = x
                                  /\ worker[w].token = eToken[x] /\ eLease[x] > 0
  <1>1. Inv /\ [Next]_vars => [A]_vars
    <2> SUFFICES ASSUME Inv, Next, NEW x \in Run, status'[x] # status[x]
                 PROVE  /\ status[x] \notin {"completed", "failed"}
                        /\ status[x] = "running" =>
                              \E w \in Worker :
                                  /\ worker[w].pc = "finishing" /\ worker[w].run = x
                                  /\ worker[w].token = eToken[x] /\ eLease[x] > 0
      BY Zenon
    <2>0. status \in [Run -> Status]
      BY DEF Inv, TypeOK, RowType
    <2>1. ASSUME NEW y \in Run, Materialize(y) \/ ReplayInserts(y)
          PROVE  status[x] = "absent"
      BY <2>0, <2>1 DEF Materialize, ReplayInserts, InsertRun
    <2>2. ASSUME NEW d \in Replica, ReplicaStep(d)
          PROVE  status[x] \in {"pending_dispatch", "dispatching"}
      <3>1. CASE ClaimPendingRuns(d)
        BY <3>1, Zenon DEF ClaimPendingRuns, Claimable
      <3>2. CASE MarkDispatched(d) \/ MarkDispatchRetry(d)
        BY <2>0, <3>2, Zenon DEF MarkDispatched, MarkDispatchRetry, HoldsDispatch
      <3>3. CASE ReplicaCrash(d) \/ \E accepted, ok \in BOOLEAN : Enqueue(d, accepted, ok)
        BY <3>3, Zenon DEF ReplicaCrash, Enqueue, row
      <3> QED
        BY <2>2, <3>1, <3>2, <3>3, Zenon DEF ReplicaStep
    <2>3. ASSUME NEW w \in Worker, NEW seen \in BOOLEAN, GateClaims(w, seen)
          PROVE  status[x] \in {"dispatching", "dispatched"}
      <3>1. worker[w].pc \in AtGate /\ x = worker[w].run /\ status'[x] = "running"
        BY <2>0, <2>3, Zenon DEF GateClaims, AtGate
      <3> QED
        BY <3>1, Zenon DEF Inv, Gate
    <2>4. ASSUME NEW w \in Worker, Finish(w)
          PROVE  /\ status[x] = "running" /\ worker[w].pc = "finishing" /\ worker[w].run = x
                 /\ worker[w].token = eToken[x] /\ eLease[x] > 0
      BY <2>0, <2>4, Zenon DEF Finish, HoldsExecution
    <2>5. ASSUME NEW w \in Worker, WorkerStep(w)
          PROVE  Finish(w) \/ \E seen \in BOOLEAN : GateClaims(w, seen)
      BY <2>5, Zenon DEF WorkerStep, Deliver, GateLocksRun, GateLocksSchedule, GateCounts,
         GateRefuses, GateAborts, StartHandler, HandlerEnds, Renew, Settle, GiveUp,
         Redeliver, WorkerCrash, row
    <2>6. ~ReplayLocksSchedule /\ ~ReplayAborts /\ ~Elapse
      BY Zenon DEF ReplayLocksSchedule, ReplayAborts, Elapse, row
    <2> QED
      BY <2>1, <2>2, <2>3, <2>4, <2>5, <2>6, Zenon DEF Next, DatabaseStep
  <1> QED
    BY <1>1, Invariance, PTL DEF Spec, OnlyOwnerFinishes

-----------------------------------------------------------------------------
(* A handler runs inside its lease.                                        *)

\* Every claim of the gate has a token of its own.
TokensAreDistinct ==
    \A v, w \in Worker : worker[v].token = worker[w].token /\ worker[w].token # None => v = w

\* A worker at its handler holds the lease, and the lease outlasts the handler's
\* budget; so it will after a renewal, since the deadline outlasts the budget too.
OnTime(w) ==
    LET x == worker[w].run IN
    /\ worker[w].pc = "acquired" =>
          /\ HoldsExecution(w) /\ eLease[x] = worker[w].lasts
          /\ worker[w].lasts + Safety <= worker[w].deadline
    /\ worker[w].pc = "executing" =>
          /\ HoldsExecution(w) /\ eLease[x] > worker[w].budget
          /\ worker[w].budget + Safety <= worker[w].lasts
          /\ worker[w].budget + Safety + Safety <= worker[w].deadline

Timely == TokensAreDistinct /\ \A w \in Worker : OnTime(w)

\* The row of a live run, unless w owns the run, stays as it is.
LiveRowsStay(mine) ==
    \A x \in Run : Live(x) /\ eToken[x] \notin mine =>
        status'[x] = status[x] /\ eToken'[x] = eToken[x] /\ eLease'[x] = eLease[x]

\* Worker w moves, with the token it had, with none or with a fresh one.
TokenMoves(w) ==
    /\ \A v \in Worker : v # w => worker'[v] = worker[v]
    /\ worker'[w].token \in {worker[w].token, None} \cup Unused

\* A worker that does not move stays on time while the row of its run stays.
LEMMA StaysOnTime ==
    ASSUME Inv, NEW mine, LiveRowsStay(mine), NEW v \in Worker, OnTime(v),
           worker'[v] = worker[v], worker[v].token \notin mine
    PROVE  OnTime(v)'
  <1> DEFINE x == worker[v].run
  <1>1. CASE worker[v].pc \notin {"acquired", "executing"}
    <2>1. worker'[v].pc \notin {"acquired", "executing"}
      BY <1>1
    <2> QED
      BY <2>1, Zenon DEF OnTime
  <1>2. CASE worker[v].pc \in {"acquired", "executing"}
    <2>1. x \in Run /\ worker'[v].run = x
      BY <1>2 DEF Inv, Deliveries
    <2>2. HoldsExecution(v) /\ Live(x) /\ eToken[x] = worker[v].token
      BY <1>2, Zenon DEF OnTime, HoldsExecution, Live
    <2>3. status'[x] = status[x] /\ eToken'[x] = eToken[x] /\ eLease'[x] = eLease[x]
      BY <2>1, <2>2, Zenon DEF LiveRowsStay
    <2>4. HoldsExecution(v)'
      BY <2>1, <2>2, <2>3 DEF HoldsExecution
    <2> QED
      BY <2>1, <2>3, <2>4, Zenon DEF OnTime
  <1> QED
    BY <1>1, <1>2

\* The steps in which no worker moves.
LEMMA OthersKeepTime ==
    ASSUME Inv, Timely, UNCHANGED worker, LiveRowsStay({})
    PROVE  Timely'
  <1>1. ASSUME NEW v \in Worker PROVE OnTime(v)'
    <2> DEFINE nobody == {}
    <2>1. worker'[v] = worker[v] /\ worker[v].token \notin nobody /\ OnTime(v)
      BY Zenon DEF Timely
    <2>2. LiveRowsStay(nobody)
      BY Zenon
    <2> HIDE DEF nobody
    <2> QED
      BY <2>1, <2>2, StaysOnTime, Zenon
  <1>2. TokensAreDistinct'
    BY Zenon DEF Timely, TokensAreDistinct
  <1> QED
    BY <1>1, <1>2, Zenon DEF Timely

\* The step of a worker that is on time afterwards, and disturbs no other's run.
LEMMA WorkerKeepsTime ==
    ASSUME Inv, Timely, NEW w \in Worker, TokenMoves(w), LiveRowsStay({worker[w].token} \ {None}),
           OnTime(w)'
    PROVE  Timely'
  <1>1. ASSUME NEW v \in Worker PROVE OnTime(v)'
    <2>1. CASE v = w
      BY <2>1, Zenon
    <2>2. CASE v # w
      <3>1. worker[v].token \notin {worker[w].token} \ {None}
        BY <2>2, Zenon DEF Timely, TokensAreDistinct
      <3>2. worker'[v] = worker[v] /\ OnTime(v)
        BY <2>2, Zenon DEF Timely, TokenMoves
      <3> QED
        BY <3>1, <3>2, StaysOnTime, Zenon
    <2> QED
      BY <2>1, <2>2
  <1>2. ASSUME NEW v \in Worker, v # w, worker'[w].token # None
        PROVE  worker'[v].token # worker'[w].token
    <2>1. worker'[v].token = worker[v].token
      BY <1>2, Zenon DEF TokenMoves
    <2>2. worker[v].token \notin Unused
      BY Zenon DEF Unused
    <2>3. CASE worker'[w].token = worker[w].token
      BY <1>2, <2>1, <2>3, Zenon DEF Timely, TokensAreDistinct
    <2>4. CASE worker'[w].token \in Unused
      BY <2>1, <2>2, <2>4, Zenon
    <2> QED
      BY <1>2, <2>3, <2>4, Zenon DEF TokenMoves
  <1>3. TokensAreDistinct'
    <2> SUFFICES ASSUME NEW u \in Worker, NEW v \in Worker,
                        worker'[u].token = worker'[v].token, worker'[v].token # None
                 PROVE  u = v
      BY Zenon DEF TokensAreDistinct
    <2>1. CASE u = w \/ v = w
      BY <1>2, <2>1, Zenon
    <2>2. CASE u # w /\ v # w
      BY <2>2, Zenon DEF Timely, TokensAreDistinct, TokenMoves
    <2> QED
      BY <2>1, <2>2
  <1> QED
    BY <1>1, <1>3, Zenon DEF Timely

\* The steps on rows: they pass over runs that are live.
LEMMA RowStepsKeepTime ==
    ASSUME Inv, Timely, DatabaseStep \/ \E d \in Replica : ReplicaStep(d)
    PROVE  Timely'
  <1>1. status \in [Run -> Status]
    BY DEF Inv, TypeOK, RowType
  <1>2. ASSUME UNCHANGED <<eToken, eLease>>,
               \A x \in Run : status[x] = "running" => status'[x] = status[x]
        PROVE  LiveRowsStay({})
    BY <1>2, Zenon DEF LiveRowsStay, Live
  <1>3. ASSUME NEW x \in Run, Materialize(x) \/ ReplayInserts(x)
        PROVE  /\ UNCHANGED <<worker, eToken, eLease>>
               /\ \A y \in Run : status[y] = "running" => status'[y] = status[y]
    BY <1>1, <1>3 DEF Materialize, ReplayInserts, InsertRun
  <1>4. CASE ReplayLocksSchedule \/ ReplayAborts
    BY <1>4, <1>2, OthersKeepTime, Zenon DEF ReplayLocksSchedule, ReplayAborts, row
  <1>5. ASSUME NEW d \in Replica, ReplicaStep(d)
        PROVE  /\ UNCHANGED <<worker, eToken, eLease>>
               /\ \A y \in Run : status[y] = "running" => status'[y] = status[y]
    <2>1. CASE ClaimPendingRuns(d)
      <3>1. PICK B \in SUBSET {x \in Run : Claimable(x)} :
                   status' = [x \in Run |-> IF x \in B THEN "dispatching" ELSE status[x]]
        BY <2>1, Zenon DEF ClaimPendingRuns
      <3>2. UNCHANGED <<worker, eToken, eLease>>
        BY <2>1, Zenon DEF ClaimPendingRuns
      <3> QED
        BY <3>1, <3>2 DEF Claimable
    <2>2. CASE MarkDispatched(d) \/ MarkDispatchRetry(d)
      <3>1. UNCHANGED <<worker, eToken, eLease>>
        BY <2>2, Zenon DEF MarkDispatched, MarkDispatchRetry
      <3>2. \/ status' = status
            \/ /\ status[handoff[d].run] = "dispatching"
               /\ \E s \in Status : status' = [status EXCEPT ![handoff[d].run] = s]
        BY <2>2 DEF MarkDispatched, MarkDispatchRetry, HoldsDispatch, Status
      <3> QED
        BY <1>1, <3>1, <3>2
    <2>3. CASE ReplicaCrash(d) \/ \E accepted, ok \in BOOLEAN : Enqueue(d, accepted, ok)
      BY <2>3, Zenon DEF ReplicaCrash, Enqueue, row
    <2> QED
      BY <1>5, <2>1, <2>2, <2>3, Zenon DEF ReplicaStep
  <1> QED
    BY <1>2, <1>3, <1>4, <1>5, OthersKeepTime, Zenon DEF DatabaseStep

\* A worker that goes idle, returns from its handler or is to settle needs no lease,
\* and has no new token.
LEMMA WorkerRests ==
    ASSUME worker \in [Worker -> WorkerState], NEW w \in Worker
    PROVE  /\ \A r : /\ worker' = [worker EXCEPT ![w] = r]
                    /\ r.pc \notin {"acquired", "executing"}
                    /\ r.token \in {worker[w].token, None}
                       => TokenMoves(w) /\ OnTime(w)'
           /\ worker' = [worker EXCEPT ![w] = Idle] => TokenMoves(w) /\ OnTime(w)'
           /\ \A o : worker' = Returns(w, o) => TokenMoves(w) /\ OnTime(w)'
           /\ \A o : worker' = Ends(w, o) => TokenMoves(w) /\ OnTime(w)'
  <1>1. ASSUME NEW r, worker' = [worker EXCEPT ![w] = r],
               r.pc \notin {"acquired", "executing"}, r.token \in {worker[w].token, None}
        PROVE  TokenMoves(w) /\ OnTime(w)'
    <2>1. worker'[w] = r /\ \A v \in Worker : v # w => worker'[v] = worker[v]
      BY <1>1
    <2>2. worker'[w].pc # "acquired" /\ worker'[w].pc # "executing"
      BY <1>1, <2>1
    <2>3. OnTime(w)'
      BY <2>2, Zenon DEF OnTime
    <2> QED
      BY <1>1, <2>1, <2>3, Zenon DEF TokenMoves
  <1>2. Idle.pc \notin {"acquired", "executing"} /\ Idle.token = None
    BY DEF Idle
  <1>3. ASSUME NEW o, worker' = Returns(w, o) PROVE TokenMoves(w) /\ OnTime(w)'
    <2> DEFINE r == [Idle EXCEPT !.pc = "returned", !.run = worker[w].run,
                                 !.outcome = o, !.mine = worker[w].mine]
    <2>1. r.pc = "returned" /\ r.token = None
      BY Zenon DEF Idle
    <2>2. worker' = [worker EXCEPT ![w] = r]
      BY <1>3, Zenon DEF Returns
    <2> HIDE DEF r
    <2>3. r.pc \notin {"acquired", "executing"} /\ r.token \in {worker[w].token, None}
      BY <2>1
    <2> QED
      BY <1>1, <2>2, <2>3, Zenon
  <1>4. ASSUME NEW o, worker' = Ends(w, o) PROVE TokenMoves(w) /\ OnTime(w)'
    <2> DEFINE r == [worker[w] EXCEPT !.pc = "finishing", !.outcome = o, !.lasts = 0,
                                      !.deadline = 0, !.budget = 0, !.renewal = 0]
    <2>0. worker[w] \in WorkerState
      OBVIOUS
    <2>1. r.pc = "finishing" /\ r.token = worker[w].token
      BY <2>0, Zenon DEF WorkerState
    <2>2. worker' = [worker EXCEPT ![w] = r]
      BY <1>4, Zenon DEF Ends
    <2> HIDE DEF r
    <2>3. r.pc \notin {"acquired", "executing"} /\ r.token \in {worker[w].token, None}
      BY <2>1
    <2> QED
      BY <1>1, <2>2, <2>3, Zenon
  <1> HIDE DEF Idle
  <1>5. worker' = [worker EXCEPT ![w] = Idle] => TokenMoves(w) /\ OnTime(w)'
    <2>1. Idle.token \in {worker[w].token, None}
      BY <1>2, Zenon
    <2> QED
      BY <1>1, <1>2, <2>1, Zenon
  <1> QED
    BY <1>1, <1>3, <1>4, <1>5, Zenon

\* The gate's claim: the run was nobody's, and the lease ends before the deadline
\* by the margin of safety.
LEMMA ClaimKeepsTime ==
    ASSUME Inv, Timely, NEW w \in Worker, NEW seen \in BOOLEAN, GateClaims(w, seen)
    PROVE  Timely'
  <1> DEFINE x == worker[w].run
             f == CHOOSE f \in Unused : TRUE
             c == CappedLease(w)
  <1> USE ScheduledRunsAssumption
  <1>1. /\ worker \in [Worker -> WorkerState] /\ worker[w] \in WorkerState
        /\ status \in [Run -> Status] /\ eToken \in [Run -> Fence \cup {None}]
        /\ eLease \in [Run -> 0..ExecutionLease]
    BY DEF Inv, TypeOK, RowType
  <1>2. worker[w].pc = "claiming" /\ c > 0 /\ f \in Unused
    BY Zenon DEF GateClaims
  <1>3. x \in Run /\ ~Live(x)
    BY <1>2, SMTT(20) DEF Inv, Deliveries, Gate, AtGate, Live
  <1>4. /\ status' = [status EXCEPT ![x] = "running"] /\ eToken' = [eToken EXCEPT ![x] = f]
        /\ eLease' = [eLease EXCEPT ![x] = c]
    BY Zenon DEF GateClaims
  <1>5. LiveRowsStay({worker[w].token} \ {None})
    <2> HIDE DEF f, c
    <2> SUFFICES ASSUME NEW y \in Run, Live(y)
                 PROVE  status'[y] = status[y] /\ eToken'[y] = eToken[y] /\ eLease'[y] = eLease[y]
      BY Zenon DEF LiveRowsStay
    <2>1. y # x
      BY <1>3
    <2> QED
      BY <1>1, <1>4, <2>1
  <1>6. c \in Nat /\ c + Safety <= worker[w].deadline
    <2> DEFINE d == worker[w].deadline - Safety
               a == Min({ExecutionLease, d})
    <2>1. worker[w].deadline \in Nat
      BY <1>1 DEF WorkerState
    <2>2. d \in Int /\ d + Safety = worker[w].deadline
      BY <2>1, ScheduledRunsAssumption
    <2> HIDE DEF d
    <2>3. a \in {ExecutionLease, d} /\ a <= d
      <3>1. ExecutionLease \in Int /\ d \in Int
        BY <2>2
      <3> QED
        BY <3>1, TwoNumbers, Zenon
    <2>4. a \in Int
      BY <2>2, <2>3
    <2>5. c = Max({0, a})
      BY Zenon DEF CappedLease, d
    <2> HIDE DEF a, c
    <2>6. Max({0, a}) \in {0, a}
      <3>1. 0 \in Int
        OBVIOUS
      <3> QED
        BY <2>4, <3>1, TwoNumbers, Zenon
    <2>7. c = a
      BY <1>2, <2>5, <2>6
    <2>8. c \in Nat
      BY <1>2, <2>4, <2>7
    <2> QED
      BY <2>1, <2>2, <2>3, <2>7, <2>8, SMTT(20)
  <1> HIDE DEF f, c
  <1>7. CASE seen
    <2>1. worker' = [worker EXCEPT ![w].pc = "acquired", ![w].token = f, ![w].lasts = c]
      BY <1>7, Zenon DEF GateClaims, f, c
    <2>2. /\ worker'[w].pc = "acquired" /\ worker'[w].token = f /\ worker'[w].lasts = c
          /\ worker'[w].run = x /\ worker'[w].deadline = worker[w].deadline
      BY <1>1, <2>1 DEF WorkerState
    <2>3. \A v \in Worker : v # w => worker'[v] = worker[v]
      BY <1>1, <2>1
    <2>4. status'[x] = "running" /\ eToken'[x] = f /\ eLease'[x] = c
      BY <1>1, <1>3, <1>4
    <2>5. HoldsExecution(w)'
      BY <1>2, <2>2, <2>4 DEF HoldsExecution
    <2>6. OnTime(w)'
      BY <1>6, <2>2, <2>4, <2>5 DEF OnTime
    <2>7. TokenMoves(w)
      BY <1>2, <2>2, <2>3, Zenon DEF TokenMoves
    <2> QED
      BY <1>5, <2>6, <2>7, WorkerKeepsTime, Zenon
  <1>8. CASE ~seen
    <2>1. worker' = Returns(w, "retryable")
      BY <1>8, Zenon DEF GateClaims
    <2> QED
      BY <1>1, <1>5, <2>1, WorkerRests, WorkerKeepsTime, Zenon
  <1> QED
    BY <1>7, <1>8

\* The handler starts: its budget ends before the lease.
LEMMA StartKeepsTime ==
    ASSUME Inv, Timely, NEW w \in Worker, StartHandler(w)
    PROVE  Timely'
  <1> DEFINE x == worker[w].run
             b == Budget(w)
  <1> USE ScheduledRunsAssumption
  <1>1. /\ worker \in [Worker -> WorkerState] /\ worker[w] \in WorkerState
        /\ worker[w].lasts \in Nat /\ worker[w].deadline \in Nat
    BY DEF Inv, TypeOK, WorkerState
  <1>2. LiveRowsStay({worker[w].token} \ {None}) /\ UNCHANGED <<status, eToken, eLease>>
    BY Zenon DEF LiveRowsStay, StartHandler, row
  <1>3. CASE ~(b > 0)
    <2>1. worker' = Ends(w, "retryable")
      BY <1>3, Zenon DEF StartHandler
    <2> QED
      BY <1>1, <1>2, <2>1, WorkerRests, WorkerKeepsTime, Zenon
  <1>4. CASE b > 0
    <2>1. /\ worker[w].pc = "acquired" /\ HoldsExecution(w) /\ eLease[x] = worker[w].lasts
          /\ worker[w].lasts + Safety <= worker[w].deadline
      BY Zenon DEF StartHandler, Timely, OnTime
    <2>2. b = worker[w].lasts - Safety
      <3> DEFINE l == worker[w].lasts
                 d == worker[w].deadline
      <3>1. l \in Int /\ d \in Int /\ l <= d
        BY <1>1, <2>1
      <3>2. b = Min({l, d}) - Safety
        BY Zenon DEF Budget
      <3> HIDE DEF l, d, b
      <3>3. Min({l, d}) \in {l, d} /\ Min({l, d}) <= l /\ Min({l, d}) <= d
        BY <3>1, TwoNumbers
      <3>4. Min({l, d}) = l
        BY <3>1, <3>3
      <3> QED
        BY <3>2, <3>4 DEF l
    <2> HIDE DEF b
    <2>3. worker' = [worker EXCEPT ![w].pc = "executing", ![w].budget = b, ![w].renewal = Renewal(w)]
      BY <1>4, Zenon DEF StartHandler, b
    <2>4. \A v \in Worker : v # w => worker'[v] = worker[v]
      BY <1>1, <2>3
    <2>5. /\ worker'[w].pc = "executing" /\ worker'[w].budget = b /\ worker'[w].run = x
          /\ worker'[w].lasts = worker[w].lasts /\ worker'[w].token = worker[w].token
          /\ worker'[w].deadline = worker[w].deadline
      BY <1>1, <2>3, Zenon DEF WorkerState
    <2>6. HoldsExecution(w)'
      BY <1>2, <2>1, <2>5, Zenon DEF HoldsExecution
    <2>7. /\ eLease'[x] > b /\ b + Safety <= worker[w].lasts
          /\ b + Safety + Safety <= worker[w].deadline
      BY <1>1, <1>2, <2>1, <2>2, SMTT(20)
    <2>8. OnTime(w)'
      BY <2>5, <2>6, <2>7 DEF OnTime
    <2>9. TokenMoves(w)
      BY <2>4, <2>5, Zenon DEF TokenMoves
    <2> QED
      BY <1>2, <2>8, <2>9, WorkerKeepsTime, Zenon
  <1> QED
    BY <1>3, <1>4

\* A renewal leaves the lease longer than what is left of the budget.
LEMMA RenewKeepsTime ==
    ASSUME Inv, Timely, NEW w \in Worker, Renew(w)
    PROVE  Timely'
  <1> DEFINE x == worker[w].run
  <1> USE ScheduledRunsAssumption
  <1>1. /\ worker \in [Worker -> WorkerState] /\ worker[w] \in WorkerState
        /\ worker[w].lasts \in Nat /\ worker[w].deadline \in Nat /\ worker[w].budget \in Nat
        /\ eLease \in [Run -> 0..ExecutionLease] /\ eToken \in [Run -> Fence \cup {None}]
    BY DEF Inv, TypeOK, WorkerState, RowType
  <1>2. /\ worker[w].pc = "executing" /\ HoldsExecution(w) /\ UNCHANGED <<status, eToken>>
        /\ worker[w].budget + Safety <= worker[w].lasts
        /\ worker[w].budget + Safety + Safety <= worker[w].deadline
    BY Zenon DEF Renew, Timely, OnTime
  <1>3. x \in Run /\ worker[w].deadline > Safety
    BY <1>1, <1>2 DEF Inv, Deliveries
  <1> DEFINE l == worker[w].lasts
             d == worker[w].deadline - Safety
             m == Min({l, d})
  <1>4. /\ eLease' = [eLease EXCEPT ![x] = m]
        /\ worker' = [worker EXCEPT ![w].renewal = Renewal(w)]
    BY <1>2, <1>3, Zenon DEF Renew
  <1>5. m > worker[w].budget /\ m > 0
    <2>1. l \in Int /\ d \in Int /\ l > worker[w].budget /\ d > worker[w].budget
      BY <1>1, <1>2
    <2> HIDE DEF l, d
    <2>2. m \in {l, d}
      BY <2>1, TwoNumbers
    <2> QED
      BY <1>1, <2>1, <2>2
  <1> HIDE DEF m
  <1>6. \A v \in Worker : v # w => worker'[v] = worker[v]
    BY <1>1, <1>4
  <1>7. /\ worker'[w].pc = "executing" /\ worker'[w].budget = worker[w].budget
        /\ worker'[w].run = x /\ worker'[w].lasts = worker[w].lasts
        /\ worker'[w].token = worker[w].token /\ worker'[w].deadline = worker[w].deadline
    BY <1>1, <1>2, <1>4, Zenon DEF WorkerState
  <1>8. eLease'[x] = m /\ \A y \in Run : y # x => eLease'[y] = eLease[y]
    BY <1>1, <1>3, <1>4
  <1>9. HoldsExecution(w)'
    BY <1>2, <1>5, <1>7, <1>8, Zenon DEF HoldsExecution
  <1>10. OnTime(w)'
    BY <1>1, <1>2, <1>5, <1>7, <1>8, <1>9 DEF OnTime
  <1>11. TokenMoves(w)
    BY <1>6, <1>7, Zenon DEF TokenMoves
  <1>12. LiveRowsStay({worker[w].token} \ {None})
    <2>1. eToken[x] = worker[w].token /\ eToken[x] # None
      BY <1>2, <1>3, Zenon DEF HoldsExecution, Inv, StateComplete
    <2> QED
      BY <1>2, <1>8, <2>1, Zenon DEF LiveRowsStay
  <1> QED
    BY <1>10, <1>11, <1>12, WorkerKeepsTime, Zenon

\* The fenced settlement writes the row of its own run only.
LEMMA FinishKeepsTime ==
    ASSUME Inv, Timely, NEW w \in Worker, Finish(w)
    PROVE  Timely'
  <1> DEFINE x == worker[w].run
  <1>1. /\ worker \in [Worker -> WorkerState] /\ status \in [Run -> Status]
        /\ eLease \in [Run -> 0..ExecutionLease] /\ eToken \in [Run -> Fence \cup {None}]
    BY DEF Inv, TypeOK, RowType
  <1>2. x \in Run
    BY DEF Finish, Inv, Deliveries
  <1>3. TokenMoves(w) /\ OnTime(w)'
    BY <1>1, WorkerRests, Zenon DEF Finish
  <1>4. CASE HoldsExecution(w)
    <2>1. eToken[x] = worker[w].token /\ eToken[x] # None
      BY <1>2, <1>4, Zenon DEF HoldsExecution, Inv, StateComplete
    <2>2. /\ status' = [status EXCEPT ![x] = FinalStatus(worker[w].outcome)]
          /\ eToken' = [eToken EXCEPT ![x] = None] /\ eLease' = [eLease EXCEPT ![x] = 0]
      BY <1>4, Zenon DEF Finish
    <2>3. \A y \in Run : y # x =>
              status'[y] = status[y] /\ eToken'[y] = eToken[y] /\ eLease'[y] = eLease[y]
      BY <1>1, <2>2
    <2>4. LiveRowsStay({worker[w].token} \ {None})
      BY <2>1, <2>3, Zenon DEF LiveRowsStay
    <2> QED
      BY <1>3, <2>4, WorkerKeepsTime, Zenon
  <1>5. CASE ~HoldsExecution(w)
    <2>1. UNCHANGED <<status, eToken, eLease>>
      BY <1>5, Zenon DEF Finish
    <2>2. LiveRowsStay({worker[w].token} \ {None})
      BY <2>1, Zenon DEF LiveRowsStay
    <2> QED
      BY <1>3, <2>2, WorkerKeepsTime, Zenon
  <1> QED
    BY <1>4, <1>5

\* The other steps of a worker leave the rows alone and do not start a handler.
LEMMA WorkerStepsKeepTime ==
    ASSUME Inv, Timely, NEW w \in Worker, WorkerStep(w)
    PROVE  Timely'
  <1>1. worker \in [Worker -> WorkerState] /\ worker[w] \in WorkerState
    BY DEF Inv, TypeOK
  <1>2. ASSUME UNCHANGED row PROVE LiveRowsStay({worker[w].token} \ {None})
    BY <1>2, Zenon DEF LiveRowsStay, row
  <1>3. CASE Settle(w) \/ GiveUp(w) \/ WorkerCrash(w)
    <2>1. worker' = [worker EXCEPT ![w] = Idle] /\ UNCHANGED row
      BY <1>3, Zenon DEF Settle, GiveUp, WorkerCrash
    <2> QED
      BY <1>1, <1>2, <2>1, WorkerRests, WorkerKeepsTime, Zenon
  <1>4. CASE GateRefuses(w) \/ GateAborts(w)
    <2>1. worker' = Returns(w, "retryable") /\ UNCHANGED row
      BY <1>4, Zenon DEF GateRefuses, GateAborts
    <2> QED
      BY <1>1, <1>2, <2>1, WorkerRests, WorkerKeepsTime, Zenon
  <1>5. ASSUME NEW o \in Outcomes, HandlerEnds(w, o) PROVE Timely'
    <2>1. worker' = Ends(w, o) /\ UNCHANGED row
      BY <1>5, Zenon DEF HandlerEnds
    <2> QED
      BY <1>1, <1>2, <2>1, WorkerRests, WorkerKeepsTime, Zenon
  <1>6. CASE GateLocksRun(w) \/ GateLocksSchedule(w) \/ GateCounts(w)
    <2>1. ASSUME NEW pc \in AtGate, worker' = [worker EXCEPT ![w].pc = pc], UNCHANGED row
          PROVE  Timely'
      <3> DEFINE r == [worker[w] EXCEPT !.pc = pc]
      <3>1. r.pc = pc /\ r.token = worker[w].token
        BY <1>1, Zenon DEF WorkerState
      <3>2. worker' = [worker EXCEPT ![w] = r]
        BY <2>1, Zenon
      <3> HIDE DEF r
      <3>3. r.pc \notin {"acquired", "executing"} /\ r.token \in {worker[w].token, None}
        BY <3>1 DEF AtGate
      <3> QED
        BY <1>1, <1>2, <2>1, <3>2, <3>3, WorkerRests, WorkerKeepsTime, Zenon
    <2>2. UNCHANGED row
      BY <1>6, Zenon DEF GateLocksRun, GateLocksSchedule, GateCounts
    <2>3. \/ \E o : worker' = Returns(w, o)
          \/ \E pc \in AtGate : worker' = [worker EXCEPT ![w].pc = pc]
      BY <1>6, Zenon DEF GateLocksRun, GateLocksSchedule, GateCounts, AtGate
    <2> QED
      BY <1>1, <1>2, <2>1, <2>2, <2>3, WorkerRests, WorkerKeepsTime, Zenon
  <1>7. ASSUME NEW x \in Run, Deliver(w, x) PROVE Timely'
    <2> DEFINE r == [Idle EXCEPT !.pc = "delivered", !.run = x,
                                 !.deadline = JobTimeout, !.mine = TRUE]
    <2>1. r.pc = "delivered" /\ r.token = None
      BY Zenon DEF Idle
    <2>2. worker' = [worker EXCEPT ![w] = r] /\ UNCHANGED row
      BY <1>7, Zenon DEF Deliver
    <2> HIDE DEF r
    <2>3. r.pc \notin {"acquired", "executing"} /\ r.token \in {worker[w].token, None}
      BY <2>1
    <2> QED
      BY <1>1, <1>2, <2>2, <2>3, WorkerRests, WorkerKeepsTime, Zenon
  <1>8. CASE Redeliver(w)
    <2>1. worker' = [worker EXCEPT ![w].mine = FALSE] /\ UNCHANGED row
      BY <1>8, Zenon DEF Redeliver
    <2>2. \A v \in Worker : v # w => worker'[v] = worker[v]
      BY <1>1, <2>1
    <2>3. /\ worker'[w].pc = worker[w].pc /\ worker'[w].run = worker[w].run
          /\ worker'[w].token = worker[w].token /\ worker'[w].lasts = worker[w].lasts
          /\ worker'[w].deadline = worker[w].deadline /\ worker'[w].budget = worker[w].budget
      BY <1>1, <2>1, Zenon DEF WorkerState
    <2>4. TokenMoves(w)
      BY <2>2, <2>3, Zenon DEF TokenMoves
    <2>5. HoldsExecution(w)' <=> HoldsExecution(w)
      BY <2>1, <2>3 DEF HoldsExecution, row
    <2>6. OnTime(w)
      BY Zenon DEF Timely
    <2>7. OnTime(w)'
      BY <2>1, <2>3, <2>5, <2>6 DEF OnTime, row
    <2> QED
      BY <1>2, <2>1, <2>4, <2>7, WorkerKeepsTime, Zenon
  <1> QED
    BY <1>3, <1>4, <1>5, <1>6, <1>7, <1>8, ClaimKeepsTime, StartKeepsTime, RenewKeepsTime,
       FinishKeepsTime, Zenon DEF WorkerStep, Outcomes

\* Time passes for the lease and for the budget alike, and neither for a worker that
\* has yet to start its handler nor for one whose budget is spent.
LEMMA ElapseKeepsTime ==
    ASSUME Inv, Timely, ~Urgent, Elapse
    PROVE  Timely'
  <1> USE ScheduledRunsAssumption
  <1>1. /\ worker \in [Worker -> WorkerState] /\ eLease \in [Run -> 0..ExecutionLease]
        /\ UNCHANGED <<status, eToken>>
    BY DEF Inv, TypeOK, RowType, Elapse
  <1>2. ASSUME NEW w \in Worker
        PROVE  /\ worker'[w].pc = worker[w].pc /\ worker'[w].run = worker[w].run
               /\ worker'[w].token = worker[w].token /\ worker'[w].lasts = worker[w].lasts
               /\ worker'[w].deadline = Sooner(worker[w].deadline)
               /\ worker'[w].budget = Sooner(worker[w].budget)
    <2>1. worker'[w] = [worker[w] EXCEPT !.deadline = Sooner(@), !.budget = Sooner(@),
                                         !.renewal = Sooner(@)]
      BY Zenon DEF Elapse
    <2>2. worker[w] \in WorkerState
      BY <1>1
    <2> QED
      BY <2>1, <2>2, Zenon DEF WorkerState
  <1>3. \A x \in Run : eLease'[x] = Sooner(eLease[x])
    BY Zenon DEF Elapse
  <1>4. TokensAreDistinct'
    <2>1. \A w \in Worker : worker'[w].token = worker[w].token
      BY <1>2, Zenon
    <2> QED
      BY <2>1 DEF Timely, TokensAreDistinct
  <1>5. ASSUME NEW w \in Worker PROVE OnTime(w)'
    <2> DEFINE x == worker[w].run
    <2>1. worker'[w].pc # "acquired"
      BY <1>2, Zenon DEF Urgent
    <2>2. CASE worker'[w].pc # "executing"
      BY <2>1, <2>2, Zenon DEF OnTime
    <2>3. CASE worker'[w].pc = "executing"
      <3>1. /\ worker[w].pc = "executing" /\ worker[w].budget # 0 /\ x \in Run
            /\ worker[w].budget \in Nat /\ worker[w].deadline \in Nat /\ worker[w].lasts \in Nat
            /\ eLease[x] \in Nat
        <4>1. worker[w].pc = "executing" /\ worker[w].budget # 0
          BY <1>2, <2>3, Zenon DEF Urgent
        <4>2. x \in Run
          BY <4>1 DEF Inv, Deliveries
        <4>3. worker[w] \in WorkerState
          BY <1>1, Zenon
        <4>4. /\ worker[w].budget \in Nat /\ worker[w].deadline \in Nat
              /\ worker[w].lasts \in 0..ExecutionLease
          BY <4>3, Zenon DEF WorkerState
        <4>5. eLease[x] \in 0..ExecutionLease
          BY <1>1, <4>2, Zenon
        <4> QED
          BY <4>1, <4>2, <4>4, <4>5
      <3>2. /\ HoldsExecution(w) /\ eLease[x] > worker[w].budget
            /\ worker[w].budget + Safety <= worker[w].lasts
            /\ worker[w].budget + Safety + Safety <= worker[w].deadline
        BY <3>1, Zenon DEF Timely, OnTime
      <3>3. /\ eLease'[x] = eLease[x] - 1 /\ worker'[w].budget = worker[w].budget - 1
            /\ worker'[w].deadline = worker[w].deadline - 1
        <4>1. /\ eLease'[x] = Sooner(eLease[x]) /\ worker'[w].budget = Sooner(worker[w].budget)
              /\ worker'[w].deadline = Sooner(worker[w].deadline)
          BY <1>2, <1>3, <3>1, Zenon
        <4>2. eLease[x] > 0 /\ worker[w].budget > 0 /\ worker[w].deadline > 0
          BY <3>1, <3>2, SMTT(20)
        <4> QED
          BY <4>1, <4>2, Zenon DEF Sooner
      <3>4. /\ eLease'[x] > 0 /\ eLease'[x] > worker'[w].budget
            /\ worker'[w].budget + Safety <= worker[w].lasts
            /\ worker'[w].budget + Safety + Safety <= worker'[w].deadline
        <4> DEFINE l == eLease[x]
                   b == worker[w].budget
                   d == worker[w].deadline
                   m == worker[w].lasts
        <4>1. /\ b # 0 /\ b \in Nat /\ d \in Nat /\ m \in Nat /\ l \in Nat
              /\ l > b /\ b + Safety <= m /\ b + Safety + Safety <= d
          BY <3>1, <3>2, Zenon
        <4> HIDE DEF l, b, d, m
        <4>2. /\ l - 1 > 0 /\ l - 1 > b - 1 /\ (b - 1) + Safety <= m
              /\ (b - 1) + Safety + Safety <= d - 1
          BY <4>1
        <4> QED
          BY <3>3, <4>2, Zenon DEF l, b, d, m
      <3>5. HoldsExecution(w)'
        BY <1>1, <1>2, <3>2, <3>4, Zenon DEF HoldsExecution
      <3> QED
        BY <1>2, <2>1, <3>4, <3>5, Zenon DEF OnTime
    <2> QED
      BY <2>2, <2>3
  <1> QED
    BY <1>4, <1>5, Zenon DEF Timely

\* Workers that act on their timers in time keep to their leases.
LEMMA TimeIsKept == PromptSpec => [](Inv /\ Timely)
  <1>1. Init => Timely
    <2> SUFFICES ASSUME Init PROVE Timely
      OBVIOUS
    <2>1. \A w \in Worker : worker[w].pc = "idle" /\ worker[w].token = None
      BY Zenon DEF Init, Idle
    <2>2. TokensAreDistinct
      BY <2>1, Zenon DEF TokensAreDistinct
    <2>3. \A w \in Worker : worker[w].pc # "acquired" /\ worker[w].pc # "executing"
      BY <2>1
    <2> QED
      BY <2>2, <2>3, Zenon DEF Timely, OnTime
  <1>2. [PromptNext]_vars => [Next]_vars
    BY Zenon DEF PromptNext, Next
  <1>3. Inv /\ Timely /\ [PromptNext]_vars => Timely'
    <2> SUFFICES ASSUME Inv, Timely, [PromptNext]_vars PROVE Timely'
      OBVIOUS
    <2>1. CASE UNCHANGED vars
      <3>1. UNCHANGED worker /\ LiveRowsStay({})
        BY <2>1, Zenon DEF vars, row, LiveRowsStay
      <3> QED
        BY <3>1, OthersKeepTime, Zenon
    <2> QED
      BY <2>1, RowStepsKeepTime, WorkerStepsKeepTime, ElapseKeepsTime, Zenon DEF PromptNext
  <1> QED
    BY <1>1, <1>2, <1>3, InitInv, NextInv, PTL DEF PromptSpec

\* When workers act on their timers in time, a handler runs only while its worker
\* holds the live lease of the run: no two handlers of one run overlap, whatever the
\* lengths of leases and timeouts and however many workers deliver the same message.
THEOREM HandlersHoldTheirLease == PromptSpec => []HandlerInsideLease
  <1>1. Timely => HandlerInsideLease
    BY Zenon DEF Timely, OnTime, HandlerInsideLease
  <1> QED
    BY <1>1, TimeIsKept, PTL

\* No two workers are in the handler of one run.
HandlersDiffer ==
    \A v, w \in Worker :
        /\ worker[v].pc = "executing" /\ worker[w].pc = "executing"
        /\ worker[v].run = worker[w].run
        => v = w

\* Every execution of a run is over before the next one of the same run begins, also when
\* the provider delivers the message twice or an administrator replays the run: the row has
\* one token, and no two workers have the same.
LEMMA RunsHaveOneHandler ==
    ASSUME Inv, Timely
    PROVE  HandlersDiffer
  <1> SUFFICES ASSUME NEW v \in Worker, NEW w \in Worker,
                      worker[v].pc = "executing", worker[w].pc = "executing",
                      worker[v].run = worker[w].run
               PROVE  v = w
    BY Zenon DEF HandlersDiffer
  <1> DEFINE x == worker[w].run
  <1>1. HoldsExecution(v) /\ HoldsExecution(w)
    BY Zenon DEF Timely, OnTime
  <1>2. x \in Run
    BY DEF Inv, Deliveries
  <1>3. eToken[x] # None
    BY <1>1, <1>2, Zenon DEF Inv, StateComplete, HoldsExecution
  <1>4. worker[v].token = worker[w].token /\ worker[w].token # None
    BY <1>1, <1>3, Zenon DEF HoldsExecution
  <1> QED
    BY <1>4, Zenon DEF Timely, TokensAreDistinct

\* When workers act on their timers in time, the handler of a run is never entered while
\* another worker is still in it, whatever is delivered twice, replayed or taken over.
THEOREM OneHandlerPerRun == PromptSpec => []HandlersDiffer
  BY TimeIsKept, RunsHaveOneHandler, PTL

-----------------------------------------------------------------------------
(* The maximum of concurrent runs.                                         *)

INSTANCE FiniteSetTheorems

Executions == {x \in Run : Live(x)}

\* A worker that has counted may claim: there is room for its run.
Room ==
    /\ IsFiniteSet(Executions) /\ Cardinality(Executions) <= Maximum
    /\ \A w \in Worker : worker[w].pc = "claiming"
          => Cardinality(Executions \ {worker[w].run}) < Maximum

\* A step after which no more runs are live than before.
NoneStarts == \A x \in Run : status'[x] = "running" /\ eLease'[x] > 0 => Live(x)

\* A step after which only those may claim that could before or have counted.
OnlyCountedClaim ==
    \A w \in Worker : worker'[w].pc = "claiming" =>
        /\ worker[w].pc \in {"counting", "claiming"} /\ worker'[w].run = worker[w].run
        /\ worker[w].pc = "counting" => OtherExecutions(worker[w].run) < Maximum

\* As executions end there is as much room as before.
LEMMA RoomStays ==
    ASSUME Room, NoneStarts, OnlyCountedClaim
    PROVE  Room'
  <1> USE ScheduledRunsAssumption
  <1>0. Executions' \subseteq Executions
    BY DEF Executions, NoneStarts, Live
  <1>1. IsFiniteSet(Executions') /\ Cardinality(Executions') <= Cardinality(Executions)
    BY <1>0, FS_Subset DEF Room
  <1>2. Cardinality(Executions) \in Nat /\ Cardinality(Executions') \in Nat
    BY <1>1, FS_CardinalityType DEF Room
  <1>3. ASSUME NEW w \in Worker, worker'[w].pc = "claiming"
        PROVE  Cardinality(Executions' \ {worker'[w].run}) < Maximum
    <2> DEFINE x == worker[w].run
    <2>1. Cardinality(Executions \ {x}) < Maximum
      <3>1. OtherExecutions(x) = Cardinality(Executions \ {x})
        <4>1. {y \in Run \ {x} : Live(y)} = Executions \ {x}
          BY DEF Executions
        <4> QED
          BY <4>1 DEF OtherExecutions
      <3> QED
        BY <1>3, <3>1 DEF Room, OnlyCountedClaim
    <2>2. IsFiniteSet(Executions \ {x}) /\ Executions' \ {x} \subseteq Executions \ {x}
      BY <1>0, FS_Subset DEF Room
    <2>3. /\ IsFiniteSet(Executions' \ {x})
          /\ Cardinality(Executions' \ {x}) <= Cardinality(Executions \ {x})
      BY <2>2, FS_Subset
    <2>4. Cardinality(Executions' \ {x}) \in Nat /\ Cardinality(Executions \ {x}) \in Nat
      BY <2>2, <2>3, FS_CardinalityType, Zenon
    <2>5. worker'[w].run = x
      BY <1>3, Zenon DEF OnlyCountedClaim
    <2>6. Cardinality(Executions' \ {x}) < Maximum
      BY <2>1, <2>3, <2>4, SMTT(20)
    <2> QED
      BY <2>5, <2>6, Zenon
  <1>4. Cardinality(Executions') <= Maximum
    BY <1>1, <1>2 DEF Room
  <1> QED
    BY <1>1, <1>3, <1>4, Zenon DEF Room

\* Worker w moves, and not to the step before the claim.
Leaves(w) ==
    /\ \A v \in Worker : v # w => worker'[v] = worker[v]
    /\ worker'[w].pc # "claiming"

LEMMA WorkerLeaves ==
    ASSUME worker \in [Worker -> WorkerState], NEW w \in Worker
    PROVE  /\ \A r : r.pc # "claiming" /\ worker' = [worker EXCEPT ![w] = r] => Leaves(w)
           /\ worker' = [worker EXCEPT ![w] = Idle] => Leaves(w)
           /\ \A o : worker' = Returns(w, o) => Leaves(w)
           /\ \A o : worker' = Ends(w, o) => Leaves(w)
  <1>1. ASSUME NEW r, r.pc # "claiming", worker' = [worker EXCEPT ![w] = r]
        PROVE  Leaves(w)
    BY <1>1 DEF Leaves
  <1>2. Idle.pc # "claiming"
    BY Zenon DEF Idle
  <1>3. ASSUME NEW o, worker' = Returns(w, o) PROVE Leaves(w)
    <2> DEFINE r == [Idle EXCEPT !.pc = "returned", !.run = worker[w].run,
                                 !.outcome = o, !.mine = worker[w].mine]
    <2>1. r.pc # "claiming"
      BY Zenon DEF Idle
    <2>2. worker' = [worker EXCEPT ![w] = r]
      BY <1>3, Zenon DEF Returns
    <2> HIDE DEF r
    <2> QED
      BY <1>1, <2>1, <2>2, Zenon
  <1>4. ASSUME NEW o, worker' = Ends(w, o) PROVE Leaves(w)
    <2> DEFINE r == [worker[w] EXCEPT !.pc = "finishing", !.outcome = o, !.lasts = 0,
                                      !.deadline = 0, !.budget = 0, !.renewal = 0]
    <2>1. r.pc # "claiming"
      BY Zenon DEF WorkerState
    <2>2. worker' = [worker EXCEPT ![w] = r]
      BY <1>4, Zenon DEF Ends
    <2> HIDE DEF r
    <2> QED
      BY <1>1, <2>1, <2>2, Zenon
  <1> HIDE DEF Idle
  <1>5. worker' = [worker EXCEPT ![w] = Idle] => Leaves(w)
    BY <1>1, <1>2, Zenon
  <1> QED
    BY <1>1, <1>3, <1>4, <1>5, Zenon

\* The claim: the run takes the room that its gate has counted.
LEMMA ClaimTakesRoom ==
    ASSUME Inv, Room, NEW w \in Worker, NEW seen \in BOOLEAN, GateClaims(w, seen)
    PROVE  Room'
  <1> DEFINE x == worker[w].run
  <1>1. worker[w].pc = "claiming" /\ scheduleLock = w
    BY Zenon DEF Inv, Gate, GateClaims
  <1>2. /\ \A y \in Run \ {x} : status'[y] = status[y] /\ eLease'[y] = eLease[y]
        /\ worker \in [Worker -> WorkerState]
    BY Zenon DEF Inv, TypeOK, RowType, GateClaims
  <1>3. \A v \in Worker : worker'[v].pc = "claiming" => v # w /\ worker[v].pc = "claiming"
    <2>1. CASE seen
      <3> DEFINE r == [worker[w] EXCEPT !.pc = "acquired", !.token = CHOOSE f \in Unused : TRUE,
                                        !.lasts = CappedLease(w)]
      <3>1. worker' = [worker EXCEPT ![w] = r]
        BY <2>1, Zenon DEF GateClaims
      <3>2. r.pc # "claiming"
        BY <1>2, ZenonT(30) DEF WorkerState
      <3> HIDE DEF r
      <3> QED
        BY <1>2, <3>1, <3>2, WorkerLeaves, Zenon DEF Leaves
    <2>2. CASE ~seen
      BY <1>2, <2>2, WorkerLeaves, Zenon DEF GateClaims, Leaves
    <2> QED
      BY <2>1, <2>2, Zenon
  <1>4. Executions' \subseteq (Executions \ {x}) \cup {x}
    BY <1>2, Zenon DEF Executions, Live
  <1>5. IsFiniteSet(Executions \ {x}) /\ Cardinality(Executions \ {x}) < Maximum
    BY <1>1, FS_Subset, Zenon DEF Room
  <1>6. /\ IsFiniteSet((Executions \ {x}) \cup {x})
        /\ Cardinality((Executions \ {x}) \cup {x}) = Cardinality(Executions \ {x}) + 1
    BY <1>5, FS_AddElement, Zenon
  <1>7. /\ IsFiniteSet(Executions')
        /\ Cardinality(Executions') <= Cardinality(Executions \ {x}) + 1
    BY <1>4, <1>6, FS_Subset
  <1>8. Cardinality(Executions') \in Nat /\ Cardinality(Executions \ {x}) \in Nat
    BY <1>5, <1>7, FS_CardinalityType
  <1>9. Cardinality(Executions') <= Maximum
    BY <1>5, <1>7, <1>8, ScheduledRunsAssumption
  <1>10. \A v \in Worker : worker'[v].pc # "claiming"
    BY <1>1, <1>3 DEF Inv, Gate
  <1> QED
    BY <1>7, <1>9, <1>10, Zenon DEF Room

\* Steps on rows, the queue and locks, and the passing of time, start nothing.
LEMMA OthersStartNothing ==
    ASSUME Inv, DatabaseStep \/ Elapse \/ \E d \in Replica : ReplicaStep(d)
    PROVE  NoneStarts /\ OnlyCountedClaim
  <1>1. status \in [Run -> Status] /\ worker \in [Worker -> WorkerState] /\ eLease \in [Run -> Nat]
    BY ScheduledRunsAssumption DEF Inv, TypeOK, RowType
  <1>2. ASSUME UNCHANGED worker PROVE OnlyCountedClaim
    <2>1. \A w \in Worker : worker[w].pc # "claiming" \/ worker'[w].run = worker[w].run
      BY <1>2, Zenon
    <2> QED
      BY <1>2, Zenon DEF OnlyCountedClaim
  <1>3. ASSUME UNCHANGED eLease, \A x \in Run : status'[x] = "running" => status[x] = "running"
        PROVE  NoneStarts
    BY <1>3, Zenon DEF NoneStarts, Live
  <1>4. ASSUME NEW x \in Run, Materialize(x) \/ ReplayInserts(x)
        PROVE  /\ UNCHANGED <<worker, eLease>>
               /\ \A y \in Run : status'[y] = "running" => status[y] = "running"
    BY <1>1, <1>4 DEF Materialize, ReplayInserts, InsertRun
  <1>5. CASE ReplayLocksSchedule \/ ReplayAborts
    <2>1. UNCHANGED <<worker, eLease, status>>
      BY <1>5, Zenon DEF ReplayLocksSchedule, ReplayAborts, row
    <2> QED
      BY <1>2, <1>3, <2>1, Zenon
  <1>6. ASSUME NEW d \in Replica, ReplicaStep(d)
        PROVE  /\ UNCHANGED <<worker, eLease>>
               /\ \A y \in Run : status'[y] = "running" => status[y] = "running"
    <2>1. CASE ClaimPendingRuns(d)
      BY <2>1 DEF ClaimPendingRuns
    <2>2. CASE MarkDispatched(d) \/ MarkDispatchRetry(d)
      BY <1>1, <2>2, Zenon DEF MarkDispatched, MarkDispatchRetry
    <2>3. CASE ReplicaCrash(d) \/ \E accepted, ok \in BOOLEAN : Enqueue(d, accepted, ok)
      BY <2>3, Zenon DEF ReplicaCrash, Enqueue, row
    <2> QED
      BY <1>6, <2>1, <2>2, <2>3, Zenon DEF ReplicaStep
  <1>7. CASE Elapse
    <2>1. \A x \in Run : status'[x] = status[x] /\ eLease'[x] = Sooner(eLease[x])
      BY <1>7, Zenon DEF Elapse
    <2>2. \A w \in Worker : worker'[w].pc = worker[w].pc /\ worker'[w].run = worker[w].run
      BY <1>1, <1>7, Zenon DEF Elapse, WorkerState
    <2>3. \A w \in Worker : worker'[w].pc = "claiming" => worker[w].pc # "counting"
      BY <2>2, Zenon
    <2>4. NoneStarts
      BY <1>1, <2>1 DEF NoneStarts, Live, Sooner
    <2> QED
      BY <2>2, <2>3, <2>4, Zenon DEF OnlyCountedClaim
  <1> QED
    BY <1>2, <1>3, <1>4, <1>5, <1>6, <1>7, Zenon DEF DatabaseStep

\* A worker that does not claim starts nothing.
LEMMA WorkersStartNothing ==
    ASSUME Inv, NEW w \in Worker, WorkerStep(w), \A seen \in BOOLEAN : ~GateClaims(w, seen)
    PROVE  NoneStarts /\ OnlyCountedClaim
  <1>1. /\ status \in [Run -> Status] /\ eLease \in [Run -> Nat]
        /\ worker \in [Worker -> WorkerState] /\ worker[w] \in WorkerState
    BY ScheduledRunsAssumption DEF Inv, TypeOK, RowType
  <1>2. NoneStarts
    <2>1. CASE Renew(w)
      BY <1>1, <2>1, Zenon DEF Renew, HoldsExecution, NoneStarts, Live
    <2>2. CASE Finish(w)
      BY <1>1, <2>2 DEF Finish, FinalStatus, NoneStarts, Live
    <2>3. CASE ~Renew(w) /\ ~Finish(w)
      <3>1. UNCHANGED row
        BY <2>3, Zenon DEF WorkerStep, Deliver, GateLocksRun, GateLocksSchedule, GateCounts,
           GateRefuses, GateAborts, StartHandler, HandlerEnds, Settle, GiveUp, Redeliver,
           WorkerCrash
      <3> QED
        BY <3>1 DEF NoneStarts, Live, row
    <2> QED
      BY <2>1, <2>2, <2>3, Zenon
  <1>3. OnlyCountedClaim
    <2>1. CASE GateCounts(w)
      <3>1. worker' = [worker EXCEPT ![w].pc = "claiming"] /\ worker[w].pc = "counting"
        BY <2>1 DEF GateCounts
      <3>2. \A v \in Worker : v # w => worker'[v] = worker[v]
        BY <1>1, <3>1
      <3>3. worker'[w].run = worker[w].run
        BY <1>1, <3>1 DEF WorkerState
      <3>4. OtherExecutions(worker[w].run) < Maximum
        BY <2>1 DEF GateCounts
      <3>5. ASSUME NEW v \in Worker, worker'[v].pc = "claiming"
            PROVE  /\ worker[v].pc \in {"counting", "claiming"} /\ worker'[v].run = worker[v].run
                   /\ worker[v].pc = "counting" => OtherExecutions(worker[v].run) < Maximum
        <4>1. CASE v = w
          BY <3>1, <3>3, <3>4, <4>1, Zenon
        <4>2. CASE v # w
          <5>1. worker'[v] = worker[v] /\ worker[v].pc # "counting"
            BY <3>2, <3>5, <4>2
          <5> QED
            BY <3>5, <5>1, Zenon
        <4> QED
          BY <4>1, <4>2, Zenon
      <3> QED
        BY <3>5, Zenon DEF OnlyCountedClaim
    <2>2. CASE ~GateCounts(w)
      <3>1. /\ \A v \in Worker : v # w => worker'[v] = worker[v]
            /\ worker'[w].pc # "claiming" \/ (worker'[w].pc = worker[w].pc /\ worker'[w].run = worker[w].run)
        <4>1. CASE Settle(w) \/ GiveUp(w) \/ WorkerCrash(w)
          BY <1>1, <4>1, WorkerLeaves, Zenon DEF Settle, GiveUp, WorkerCrash, Leaves
        <4>2. CASE GateRefuses(w) \/ GateAborts(w) \/ Finish(w) \/ \E o \in Outcomes : HandlerEnds(w, o)
          BY <1>1, <4>2, WorkerLeaves, Zenon
          DEF GateRefuses, GateAborts, Finish, HandlerEnds, Leaves
        <4>3. CASE GateLocksRun(w) \/ GateLocksSchedule(w)
          <5>1. ASSUME NEW pc \in {"gate", "counting"}, worker' = [worker EXCEPT ![w].pc = pc]
                PROVE  Leaves(w)
            BY <1>1, <5>1 DEF Leaves, WorkerState
          <5> QED
            BY <1>1, <4>3, <5>1, WorkerLeaves, Zenon DEF GateLocksRun, GateLocksSchedule, Leaves
        <4>4. CASE StartHandler(w)
          <5> DEFINE r == [worker[w] EXCEPT !.pc = "executing", !.budget = Budget(w),
                                            !.renewal = Renewal(w)]
          <5>1. r.pc # "claiming"
            BY <1>1, Zenon DEF WorkerState
          <5>2. worker' = [worker EXCEPT ![w] = r] \/ worker' = Ends(w, "retryable")
            BY <4>4, Zenon DEF StartHandler
          <5> HIDE DEF r
          <5> QED
            BY <1>1, <5>1, <5>2, WorkerLeaves, Zenon DEF Leaves
        <4>5. ASSUME NEW x \in Run, Deliver(w, x) PROVE Leaves(w)
          <5> DEFINE r == [Idle EXCEPT !.pc = "delivered", !.run = x,
                                       !.deadline = JobTimeout, !.mine = TRUE]
          <5>1. r.pc # "claiming"
            BY Zenon DEF Idle
          <5>2. worker' = [worker EXCEPT ![w] = r]
            BY <4>5, Zenon DEF Deliver
          <5> HIDE DEF r
          <5> QED
            BY <1>1, <5>1, <5>2, WorkerLeaves, Zenon
        <4>6. CASE Renew(w)
          BY <1>1, <4>6 DEF Renew, Ends, WorkerState
        <4>7. CASE Redeliver(w)
          BY <1>1, <4>7 DEF Redeliver, WorkerState
        <4> QED
          BY <2>2, <4>1, <4>2, <4>3, <4>4, <4>5, <4>6, <4>7, Zenon
          DEF WorkerStep, Outcomes, Leaves
      <3>2. ASSUME NEW v \in Worker, worker'[v].pc = "claiming"
            PROVE  worker[v].pc = "claiming" /\ worker'[v].run = worker[v].run
        BY <3>1, <3>2
      <3>3. \A v \in Worker : worker[v].pc = "claiming" => worker[v].pc # "counting"
        OBVIOUS
      <3> QED
        BY <3>2, <3>3, Zenon DEF OnlyCountedClaim
    <2> QED
      BY <2>1, <2>2
  <1> QED
    BY <1>2, <1>3

\* The room a worker has counted on is still there when it claims.
LEMMA RoomIsKept == Spec => []Room
  <1>1. Init => Room
    <2> SUFFICES ASSUME Init PROVE Room
      OBVIOUS
    <2>1. Executions = {}
      BY DEF Init, Executions, Live
    <2>2. IsFiniteSet({}) /\ Cardinality({}) = 0
      BY FS_EmptySet
    <2>3. \A w \in Worker : worker[w].pc = "idle"
      BY Zenon DEF Init, Idle
    <2> QED
      BY <2>1, <2>2, <2>3, ScheduledRunsAssumption DEF Room
  <1>2. Inv /\ Room /\ [Next]_vars => Room'
    <2> SUFFICES ASSUME Inv, Room, [Next]_vars PROVE Room'
      OBVIOUS
    <2>1. ASSUME NEW w \in Worker, WorkerStep(w) PROVE Room'
      BY <2>1, ClaimTakesRoom, WorkersStartNothing, RoomStays
    <2>2. CASE DatabaseStep \/ Elapse \/ \E d \in Replica : ReplicaStep(d)
      BY <2>2, OthersStartNothing, RoomStays
    <2>3. CASE UNCHANGED vars
      BY <2>3 DEF vars, row, Room, Executions, Live
    <2> QED
      BY <2>1, <2>2, <2>3 DEF Next
  <1> QED
    BY <1>1, <1>2, Invariance, PTL DEF Spec

\* The runs of a schedule that hold a live execution lease never exceed
\* max_concurrent_runs: gates count and claim one after the other.
THEOREM ConcurrencyIsBounded == Spec => []BoundedConcurrency
  <1>1. Room => BoundedConcurrency
    BY DEF Room, Executions, BoundedConcurrency
  <1> QED
    BY <1>1, RoomIsKept, PTL

\* The workers that are in a handler of the schedule.
Busy == {w \in Worker : worker[w].pc = "executing"}

HandlersAreBounded == IsFiniteSet(Busy) /\ Cardinality(Busy) <= Maximum

\* Handlers run one to a live lease, and there are no more leases than the maximum.
LEMMA HandlersFit ==
    ASSUME Inv, Timely, Room
    PROVE  HandlersAreBounded
  <1> DEFINE run == [w \in Busy |-> worker[w].run]
  <1>1. ASSUME NEW w \in Busy PROVE worker[w].run \in Executions
    <2>1. w \in Worker /\ worker[w].pc = "executing"
      BY DEF Busy
    <2>2. HoldsExecution(w) /\ worker[w].run \in Run
      BY <2>1 DEF Timely, OnTime, Inv, Deliveries
    <2> QED
      BY <2>2, Zenon DEF HoldsExecution, Executions, Live
  <1>2. \A v, w \in Busy : run[v] = run[w] => v = w
    BY RunsHaveOneHandler, Zenon DEF HandlersDiffer, Busy
  <1>3. run \in Injection(Busy, Executions)
    <2>1. run \in [Busy -> Executions]
      BY <1>1
    <2> HIDE DEF run
    <2>2. IsInjective(run)
      BY <1>2, <2>1 DEF IsInjective
    <2> QED
      BY <2>1, <2>2 DEF Injection
  <1>4. IsFiniteSet(Executions) /\ Cardinality(Executions) <= Maximum
    BY DEF Room
  <1> HIDE DEF run
  <1>5. IsFiniteSet(Busy) /\ Cardinality(Busy) <= Cardinality(Executions)
    BY <1>3, <1>4, FS_Injection
  <1>6. Cardinality(Busy) \in Nat /\ Cardinality(Executions) \in Nat
    BY <1>4, <1>5, FS_CardinalityType
  <1>7. Cardinality(Busy) <= Maximum
    BY <1>4, <1>5, <1>6, ScheduledRunsAssumption
  <1> QED
    BY <1>5, <1>7, Zenon DEF HandlersAreBounded

\* What max_concurrent_runs is for: when workers act on their timers in time, no more
\* handlers of the schedule run at once than it allows, however many workers there are
\* and however often messages are delivered.
THEOREM HandlersAreFew == PromptSpec => []HandlersAreBounded
  <1>1. PromptSpec => Spec
    <2>1. [PromptNext]_vars => [Next]_vars
      BY Zenon DEF PromptNext, Next
    <2> QED
      BY <2>1, PTL DEF PromptSpec, Spec
  <1> QED
    BY <1>1, TimeIsKept, RoomIsKept, HandlersFit, PTL

=============================================================================
