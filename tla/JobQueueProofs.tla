---------------------------- MODULE JobQueueProofs ----------------------------
(***************************************************************************)
(* Proofs about JobQueue for any jobs, workers, policy and lease grace,    *)
(* and any number of deliveries, replays, pauses and faults.               *)
(***************************************************************************)
EXTENDS JobQueue, TLAPS

\* The steps at which a worker has a delivery, and those before it sends the
\* settlement.
Busy == {"leased", "handling", "settling", "sent"}
Unsent == {"leased", "handling", "settling"}

\* A pause has waited for every source read.
PausedIsStill == paused => sharers = {}

\* A delivery in hand is of a message that was sent and a read that took place.
Deliveries ==
    \A w \in Worker : worker[w].pc \in Busy =>
        /\ worker[w].job \in Job /\ worker[w].reads > 0
        /\ worker[w].message <= message[worker[w].job]
        /\ worker[w].message = message[worker[w].job] => worker[w].reads <= reads[worker[w].job]

\* No two workers have the same delivery.
Distinct ==
    \A v, w \in Worker :
        /\ worker[v].pc \in Busy /\ worker[w].pc \in Busy
        /\ worker[v].job = worker[w].job /\ worker[v].message = worker[w].message
        /\ worker[v].reads = worker[w].reads
        => v = w

\* Before its storage deadline a worker has its message, and the lease in the
\* database ends later than that deadline.
Margins ==
    \A w \in Worker : worker[w].pc \in Unsent /\ worker[w].deadline > 0 =>
        Owned(w) /\ vt[worker[w].job] > worker[w].deadline

\* Attempts are of reads that took place, and a new delivery is not among them.
Attempted ==
    /\ \A j \in Job : \A a \in attempts[j] :
          a[1] <= message[j] /\ (a[1] = message[j] => a[2] <= reads[j])
    /\ \A w \in Worker : worker[w].pc = "leased" =>
          <<worker[w].message, worker[w].reads>> \notin attempts[worker[w].job]

\* The inductive invariant.
Inv ==
    /\ TypeOK /\ PausedIsStill
    /\ OnePlaceForEachJob
    /\ Deliveries /\ Distinct
    /\ Margins /\ Attempted

\* The invariant holds of an empty queue.
LEMMA InitInv == Init => Inv
  <1> SUFFICES ASSUME Init PROVE Inv
    OBVIOUS
  <1>1. worker \in [Worker -> WorkerState] /\ \A w \in Worker : worker[w].pc = "idle"
    BY JobQueueAssumption DEF Init, Idle, WorkerState
  <1>2. TypeOK /\ PausedIsStill
    <2>1. sharers = {w \in Worker : worker[w].pc = "leasing"} /\ PausedIsStill
      BY <1>1 DEF Init, PausedIsStill
    <2>2. attempts \in [Job -> SUBSET (Nat \X Nat)]
      BY DEF Init
    <2>3. faults \in 0..MaxFaults /\ revision \in 0..MaxRevision
      BY JobQueueAssumption DEF Init
    <2>4. paused \in BOOLEAN
      BY Zenon DEF Init
    <2>5. source \subseteq Job /\ corrupt \subseteq Job
      BY Zenon DEF Init
    <2>6. /\ message \in [Job -> Nat] /\ reads \in [Job -> Nat] /\ vt \in [Job -> Nat]
          /\ dead \in [Job -> Nat] /\ archived \in [Job -> Nat] /\ removed \in [Job -> Nat]
      BY DEF Init
    <2> QED
      BY <1>1, <2>1, <2>2, <2>3, <2>4, <2>5, <2>6 DEF TypeOK
  <1>3. OnePlaceForEachJob
    <2> SUFFICES ASSUME NEW j \in Job
                 PROVE  (IF j \in source THEN 1 ELSE 0) + dead[j] + archived[j] + removed[j]
                            = IF message[j] > 0 THEN 1 ELSE 0
      BY Zenon DEF OnePlaceForEachJob
    <2>1. j \notin source /\ dead[j] = 0 /\ archived[j] = 0 /\ removed[j] = 0 /\ message[j] = 0
      BY DEF Init
    <2> QED
      BY <2>1
  <1>4. Deliveries /\ Distinct /\ Margins /\ Attempted
    BY <1>1 DEF Init, Deliveries, Distinct, Margins, Attempted, Busy, Unsent
  <1> QED
    BY <1>2, <1>3, <1>4 DEF Inv

-----------------------------------------------------------------------------
\* Every step keeps the invariant.
LEMMA NextInv == Inv /\ [Next]_vars => Inv'
  <1> SUFFICES ASSUME Inv, [Next]_vars PROVE Inv'
    OBVIOUS
  <1> USE JobQueueAssumption
  <1>1. ASSUME NEW j \in Job, NEW delay \in {0, 1}, Enqueue(j, delay)
       PROVE  Inv'
    <2> USE <1>1 DEF Enqueue, Send, records, control
    <2>1. TypeOK'
      BY DEF Inv, TypeOK, WorkerState, Idle
    <2>2. PausedIsStill'
      BY DEF Inv, TypeOK, PausedIsStill
    <2>3. OnePlaceForEachJob'
      BY DEF Inv, TypeOK, OnePlaceForEachJob, Deliveries, Busy
    <2>4. Deliveries'
      BY DEF Inv, TypeOK, WorkerState, Idle, Deliveries, Busy
    <2>5. Distinct'
      BY DEF Inv, TypeOK, WorkerState, Idle, Deliveries, Distinct, Busy
    <2>6. Margins'
      BY DEF Inv, TypeOK, WorkerState, Idle, OnePlaceForEachJob, Deliveries, Distinct,
            Margins, Owned, Busy, Unsent
    <2>7. Attempted'
      BY DEF Inv, TypeOK, WorkerState, Idle, Deliveries, Distinct, Attempted, Busy
    <2> QED
      BY <2>1, <2>2, <2>3, <2>4, <2>5, <2>6, <2>7 DEF Inv
  <1>2. ASSUME NEW j \in Job, ReplayDead(j)
       PROVE  Inv'
    <2> USE <1>2 DEF ReplayDead, Send, control
    <2>1. TypeOK'
      BY DEF Inv, TypeOK, WorkerState, Idle
    <2>2. PausedIsStill'
      BY DEF Inv, TypeOK, PausedIsStill
    <2>3. OnePlaceForEachJob'
      BY DEF Inv, TypeOK, OnePlaceForEachJob, Deliveries, Busy
    <2>4. Deliveries'
      BY DEF Inv, TypeOK, WorkerState, Idle, Deliveries, Busy
    <2>5. Distinct'
      BY DEF Inv, TypeOK, WorkerState, Idle, Deliveries, Distinct, Busy
    <2>6. Margins'
      BY DEF Inv, TypeOK, WorkerState, Idle, OnePlaceForEachJob, Deliveries, Distinct,
            Margins, Owned, Busy, Unsent
    <2>7. Attempted'
      BY DEF Inv, TypeOK, WorkerState, Idle, Deliveries, Distinct, Attempted, Busy
    <2> QED
      BY <2>1, <2>2, <2>3, <2>4, <2>5, <2>6, <2>7 DEF Inv
  <1>3. ASSUME NEW j \in Job, Cleanup(j)
       PROVE  Inv'
    <2> USE <1>3 DEF Cleanup, queue, control
    <2>1. TypeOK'
      BY DEF Inv, TypeOK, WorkerState, Idle
    <2>2. PausedIsStill'
      BY DEF Inv, TypeOK, PausedIsStill
    <2>3. OnePlaceForEachJob'
      BY DEF Inv, TypeOK, OnePlaceForEachJob, Deliveries, Busy
    <2>4. Deliveries'
      BY DEF Inv, TypeOK, WorkerState, Idle, Deliveries, Busy
    <2>5. Distinct'
      BY DEF Inv, TypeOK, WorkerState, Idle, Deliveries, Distinct, Busy
    <2>6. Margins'
      BY DEF Inv, TypeOK, WorkerState, Idle, OnePlaceForEachJob, Deliveries, Distinct,
            Margins, Owned, Busy, Unsent
    <2>7. Attempted'
      BY DEF Inv, TypeOK, WorkerState, Idle, Deliveries, Distinct, Attempted, Busy
    <2> QED
      BY <2>1, <2>2, <2>3, <2>4, <2>5, <2>6, <2>7 DEF Inv
  <1>4. ASSUME NEW p \in BOOLEAN, SetPaused(p)
       PROVE  Inv'
    <2> USE <1>4 DEF SetPaused, queue, records
    <2>1. TypeOK'
      BY DEF Inv, TypeOK, WorkerState, Idle
    <2>2. PausedIsStill'
      BY DEF Inv, TypeOK, PausedIsStill
    <2>3. OnePlaceForEachJob'
      BY DEF Inv, TypeOK, OnePlaceForEachJob, Deliveries, Busy
    <2>4. Deliveries'
      BY DEF Inv, TypeOK, WorkerState, Idle, Deliveries, Busy
    <2>5. Distinct'
      BY DEF Inv, TypeOK, WorkerState, Idle, Deliveries, Distinct, Busy
    <2>6. Margins'
      BY DEF Inv, TypeOK, WorkerState, Idle, OnePlaceForEachJob, Deliveries, Distinct,
            Margins, Owned, Busy, Unsent
    <2>7. Attempted'
      BY DEF Inv, TypeOK, WorkerState, Idle, Deliveries, Distinct, Attempted, Busy
    <2> QED
      BY <2>1, <2>2, <2>3, <2>4, <2>5, <2>6, <2>7 DEF Inv
  <1>5. ASSUME NEW w \in Worker, LeaseBegins(w)
       PROVE  Inv'
    <2> USE <1>5 DEF LeaseBegins, queue, records, control
    <2>1. worker' \in [Worker -> WorkerState]
      <3> DEFINE r == [worker[w] EXCEPT !.pc = "leasing", !.deadline = Timeout + Grace]
      <3>1. Timeout + Grace \in 0..(Timeout + Grace) /\ 0 \in 0..Timeout
        OBVIOUS
      <3>2. r \in WorkerState
        BY <3>1, ZenonT(40) DEF Inv, TypeOK, WorkerState
      <3>3. worker' = [worker EXCEPT ![w] = r]
        BY Zenon DEF Inv, TypeOK
      <3> HIDE DEF r
      <3> QED
        BY <3>2, <3>3, Zenon DEF Inv, TypeOK
    <2>2. sharers' = {v \in Worker : worker'[v].pc = "leasing"}
      BY DEF Inv, TypeOK, WorkerState
    <2>3. TypeOK'
      BY <2>1, <2>2 DEF Inv, TypeOK
    <2>4. PausedIsStill'
      BY DEF Inv, TypeOK, PausedIsStill
    <2>5. OnePlaceForEachJob'
      BY DEF Inv, TypeOK, OnePlaceForEachJob, Deliveries, Busy
    <2>6. Deliveries'
      BY DEF Inv, TypeOK, WorkerState, Idle, Deliveries, Busy
    <2>7. Distinct'
      BY DEF Inv, TypeOK, WorkerState, Idle, Deliveries, Distinct, Busy
    <2>8. Margins'
      BY DEF Inv, TypeOK, WorkerState, Idle, OnePlaceForEachJob, Deliveries, Distinct,
            Margins, Owned, Busy, Unsent
    <2>9. Attempted'
      BY DEF Inv, TypeOK, WorkerState, Idle, Deliveries, Distinct, Attempted, Busy
    <2> QED
      BY <2>1, <2>2, <2>3, <2>4, <2>5, <2>6, <2>7, <2>8, <2>9 DEF Inv
  <1>6. ASSUME NEW w \in Worker, NEW j \in Job, LeaseReads(w, j)
       PROVE  Inv'
    <2> USE <1>6 DEF LeaseReads, Visible, LeaseSeconds, records, control
    <2>1. worker' \in [Worker -> WorkerState]
      <3> DEFINE r == [worker[w] EXCEPT !.pc = "leased", !.job = j, !.message = message[j],
                                         !.reads = reads[j] + 1]
      <3>1. worker[w] \in WorkerState /\ message[j] \in Nat /\ reads[j] + 1 \in Nat
        BY DEF Inv, TypeOK
      <3>2. r \in WorkerState
        BY <3>1, Zenon DEF WorkerState
      <3>3. worker' = [worker EXCEPT ![w] = r]
        BY Zenon DEF Inv, TypeOK
      <3> HIDE DEF r
      <3> QED
        BY <3>2, <3>3, Zenon DEF Inv, TypeOK
    <2>2. sharers' = {v \in Worker : worker'[v].pc = "leasing"}
      BY DEF Inv, TypeOK, WorkerState
    <2>3. TypeOK'
      BY <2>1, <2>2 DEF Inv, TypeOK
    <2>4. PausedIsStill'
      BY DEF Inv, TypeOK, PausedIsStill
    <2>5. OnePlaceForEachJob'
      BY DEF Inv, TypeOK, OnePlaceForEachJob, Deliveries, Busy
    <2>6. Deliveries'
      BY DEF Inv, TypeOK, WorkerState, Idle, Deliveries, Busy
    <2>7. Distinct'
      BY DEF Inv, TypeOK, WorkerState, Idle, Deliveries, Distinct, Busy
    <2>8. Margins'
      BY DEF Inv, TypeOK, WorkerState, Idle, OnePlaceForEachJob, Deliveries, Distinct,
            Margins, Owned, Busy, Unsent
    <2>9. Attempted'
      BY DEF Inv, TypeOK, WorkerState, Idle, Deliveries, Distinct, Attempted, Busy
    <2> QED
      BY <2>1, <2>2, <2>3, <2>4, <2>5, <2>6, <2>7, <2>8, <2>9 DEF Inv
  <1>7. ASSUME NEW w \in Worker, LeaseEmpty(w)
       PROVE  Inv'
    <2> USE <1>7 DEF LeaseEmpty, queue, records, control
    <2>1. TypeOK'
      BY DEF Inv, TypeOK, WorkerState, Idle
    <2>2. PausedIsStill'
      BY DEF Inv, TypeOK, PausedIsStill
    <2>3. OnePlaceForEachJob'
      BY DEF Inv, TypeOK, OnePlaceForEachJob, Deliveries, Busy
    <2>4. Deliveries'
      BY DEF Inv, TypeOK, WorkerState, Idle, Deliveries, Busy
    <2>5. Distinct'
      BY DEF Inv, TypeOK, WorkerState, Idle, Deliveries, Distinct, Busy
    <2>6. Margins'
      BY DEF Inv, TypeOK, WorkerState, Idle, OnePlaceForEachJob, Deliveries, Distinct,
            Margins, Owned, Busy, Unsent
    <2>7. Attempted'
      BY DEF Inv, TypeOK, WorkerState, Idle, Deliveries, Distinct, Attempted, Busy
    <2> QED
      BY <2>1, <2>2, <2>3, <2>4, <2>5, <2>6, <2>7 DEF Inv
  <1>8. ASSUME NEW w \in Worker, StartAttempt(w)
       PROVE  Inv'
    <2> USE <1>8 DEF StartAttempt, Settling, queue, records, control
    <2>1. worker' \in [Worker -> WorkerState]
      BY DEF Inv, TypeOK, WorkerState
    <2>2. sharers' = {v \in Worker : worker'[v].pc = "leasing"}
      BY DEF Inv, TypeOK, WorkerState
    <2>3. attempts' \in [Job -> SUBSET (Nat \X Nat)]
      BY DEF Inv, TypeOK, WorkerState
    <2>4. TypeOK'
      BY <2>1, <2>2, <2>3 DEF Inv, TypeOK
    <2>5. PausedIsStill'
      BY DEF Inv, TypeOK, PausedIsStill
    <2>6. OnePlaceForEachJob'
      BY DEF Inv, TypeOK, OnePlaceForEachJob, Deliveries, Busy
    <2>7. Deliveries'
      BY DEF Inv, TypeOK, WorkerState, Idle, Deliveries, Busy
    <2>8. Distinct'
      BY DEF Inv, TypeOK, WorkerState, Idle, Deliveries, Distinct, Busy
    <2>9. Margins'
      BY DEF Inv, TypeOK, WorkerState, Idle, OnePlaceForEachJob, Deliveries, Distinct,
            Margins, Owned, Busy, Unsent
    <2>10. Attempted'
      BY DEF Inv, TypeOK, WorkerState, Idle, Deliveries, Distinct, Attempted, Busy
    <2> QED
      BY <2>1, <2>2, <2>3, <2>4, <2>5, <2>6, <2>7, <2>8, <2>9, <2>10 DEF Inv
  <1>9. ASSUME NEW w \in Worker, NEW o \in Outcome, AttemptEnds(w, o)
       PROVE  Inv'
    <2> USE <1>9 DEF AttemptEnds, Settlement, Settling, queue, records, control
    <2>1. worker' \in [Worker -> WorkerState]
      <3> DEFINE r == [worker[w] EXCEPT !.pc = "settling", !.budget = 0,
                                         !.settle = Settlement(o, worker[w].reads)]
      <3>1. Timeout + Grace \in 0..(Timeout + Grace) /\ 0 \in 0..Timeout
        OBVIOUS
      <3>2. r \in WorkerState
        BY <3>1, ZenonT(40) DEF Inv, TypeOK, WorkerState
      <3>3. worker' = [worker EXCEPT ![w] = r]
        BY Zenon DEF Inv, TypeOK
      <3> HIDE DEF r
      <3> QED
        BY <3>2, <3>3, Zenon DEF Inv, TypeOK
    <2>2. sharers' = {v \in Worker : worker'[v].pc = "leasing"}
      BY DEF Inv, TypeOK, WorkerState
    <2>3. TypeOK'
      BY <2>1, <2>2 DEF Inv, TypeOK
    <2>4. PausedIsStill'
      BY DEF Inv, TypeOK, PausedIsStill
    <2>5. OnePlaceForEachJob'
      BY DEF Inv, TypeOK, OnePlaceForEachJob, Deliveries, Busy
    <2>6. Deliveries'
      BY DEF Inv, TypeOK, WorkerState, Idle, Deliveries, Busy
    <2>7. Distinct'
      BY DEF Inv, TypeOK, WorkerState, Idle, Deliveries, Distinct, Busy
    <2>8. Margins'
      BY SMTT(20) DEF Inv, TypeOK, WorkerState, Idle, OnePlaceForEachJob, Deliveries, Distinct,
            Margins, Owned, Busy, Unsent
    <2>9. Attempted'
      BY DEF Inv, TypeOK, WorkerState, Idle, Deliveries, Distinct, Attempted, Busy
    <2> QED
      BY <2>1, <2>2, <2>3, <2>4, <2>5, <2>6, <2>7, <2>8, <2>9 DEF Inv
  <1>10. ASSUME NEW w \in Worker, SettleBegins(w)
       PROVE  Inv'
    <2> USE <1>10 DEF SettleBegins, queue, records, control
    <2>1. TypeOK'
      BY DEF Inv, TypeOK, WorkerState, Idle
    <2>2. PausedIsStill'
      BY DEF Inv, TypeOK, PausedIsStill
    <2>3. OnePlaceForEachJob'
      BY DEF Inv, TypeOK, OnePlaceForEachJob, Deliveries, Busy
    <2>4. Deliveries'
      BY DEF Inv, TypeOK, WorkerState, Idle, Deliveries, Busy
    <2>5. Distinct'
      BY DEF Inv, TypeOK, WorkerState, Idle, Deliveries, Distinct, Busy
    <2>6. Margins'
      BY DEF Inv, TypeOK, WorkerState, Idle, OnePlaceForEachJob, Deliveries, Distinct,
            Margins, Owned, Busy, Unsent
    <2>7. Attempted'
      BY DEF Inv, TypeOK, WorkerState, Idle, Deliveries, Distinct, Attempted, Busy
    <2> QED
      BY <2>1, <2>2, <2>3, <2>4, <2>5, <2>6, <2>7 DEF Inv
  <1>11. ASSUME NEW w \in Worker, SettleExpires(w) \/ SettleLost(w)
       PROVE  Inv'
    <2>0. /\ worker' = [worker EXCEPT ![w] = Idle] /\ worker[w].pc # "leasing"
          /\ UNCHANGED <<source, message, reads, vt, dead, archived, removed, paused,
                         revision, corrupt, sharers, attempts, faults>>
      BY <1>11 DEF SettleExpires, SettleLost, queue, records, control
    <2>1. TypeOK'
      <3>1. 0 \in 0..(Timeout + Grace) /\ 0 \in 0..Timeout
        OBVIOUS
      <3>2. Idle \in WorkerState /\ Idle.pc # "leasing"
        BY <3>1, Zenon DEF Idle, WorkerState
      <3>3. worker \in [Worker -> WorkerState]
        BY Zenon DEF Inv, TypeOK
      <3> HIDE DEF Idle
      <3>4. worker' \in [Worker -> WorkerState]
        BY <2>0, <3>2, <3>3
      <3>5. \A v \in Worker : (worker'[v].pc = "leasing") <=> (worker[v].pc = "leasing")
        BY <2>0, <3>2, <3>3
      <3>6. sharers' = {v \in Worker : worker'[v].pc = "leasing"}
        BY <2>0, <3>5 DEF Inv, TypeOK
      <3> QED
        BY <2>0, <3>4, <3>6, Zenon DEF Inv, TypeOK
    <2> USE <1>11 DEF SettleExpires, SettleLost, queue, records, control
    <2>2. PausedIsStill'
      BY Zenon DEF Inv, TypeOK, PausedIsStill
    <2>3. OnePlaceForEachJob'
      BY DEF Inv, TypeOK, OnePlaceForEachJob, Deliveries, Busy
    <2>4. Deliveries'
      BY DEF Inv, TypeOK, WorkerState, Idle, Deliveries, Busy
    <2>5. Distinct'
      BY DEF Inv, TypeOK, WorkerState, Idle, Deliveries, Distinct, Busy
    <2>6. Margins'
      BY DEF Inv, TypeOK, WorkerState, Idle, OnePlaceForEachJob, Deliveries, Distinct,
            Margins, Owned, Busy, Unsent
    <2>7. Attempted'
      BY DEF Inv, TypeOK, WorkerState, Idle, Deliveries, Distinct, Attempted, Busy
    <2> QED
      BY <2>1, <2>2, <2>3, <2>4, <2>5, <2>6, <2>7 DEF Inv
  <1>12. ASSUME NEW w \in Worker, Settle(w)
       PROVE  Inv'
    <2> USE <1>12 DEF Settle, Owned, control
    <2>1. TypeOK'
      BY DEF Inv, TypeOK, WorkerState, Idle
    <2>2. PausedIsStill'
      BY DEF Inv, TypeOK, PausedIsStill
    <2>3. OnePlaceForEachJob'
      BY DEF Inv, TypeOK, OnePlaceForEachJob, Deliveries, Busy
    <2>4. Deliveries'
      BY DEF Inv, TypeOK, WorkerState, Idle, Deliveries, Busy
    <2>5. Distinct'
      BY DEF Inv, TypeOK, WorkerState, Idle, Deliveries, Distinct, Busy
    <2>6. Margins'
      BY SMTT(20) DEF Inv, TypeOK, WorkerState, Idle, OnePlaceForEachJob, Deliveries, Distinct,
            Margins, Owned, Busy, Unsent
    <2>7. Attempted'
      BY DEF Inv, TypeOK, WorkerState, Idle, Deliveries, Distinct, Attempted, Busy
    <2> QED
      BY <2>1, <2>2, <2>3, <2>4, <2>5, <2>6, <2>7 DEF Inv
  <1>13. ASSUME NEW w \in Worker, Stop(w)
       PROVE  Inv'
    <2> USE <1>13 DEF Stop, SpendFault, queue, records, control
    <2>1. TypeOK'
      BY DEF Inv, TypeOK, WorkerState, Idle
    <2>2. PausedIsStill'
      BY DEF Inv, TypeOK, PausedIsStill
    <2>3. OnePlaceForEachJob'
      BY DEF Inv, TypeOK, OnePlaceForEachJob, Deliveries, Busy
    <2>4. Deliveries'
      BY DEF Inv, TypeOK, WorkerState, Idle, Deliveries, Busy
    <2>5. Distinct'
      BY DEF Inv, TypeOK, WorkerState, Idle, Deliveries, Distinct, Busy
    <2>6. Margins'
      BY DEF Inv, TypeOK, WorkerState, Idle, OnePlaceForEachJob, Deliveries, Distinct,
            Margins, Owned, Busy, Unsent
    <2>7. Attempted'
      BY DEF Inv, TypeOK, WorkerState, Idle, Deliveries, Distinct, Attempted, Busy
    <2> QED
      BY <2>1, <2>2, <2>3, <2>4, <2>5, <2>6, <2>7 DEF Inv
  <1>14. ASSUME Elapse
         PROVE  Inv'
    <2>1. ASSUME NEW w \in Worker
          PROVE  /\ worker'[w] \in WorkerState
                 /\ worker'[w].pc = worker[w].pc /\ worker'[w].job = worker[w].job
                 /\ worker'[w].message = worker[w].message /\ worker'[w].reads = worker[w].reads
                 /\ worker'[w].deadline = Sooner(worker[w].deadline)
      <3>1. worker'[w] = [worker[w] EXCEPT !.deadline = Sooner(@), !.budget = Sooner(@)]
        BY <1>14, Zenon DEF Elapse
      <3>2. worker[w] \in WorkerState
        BY DEF Inv, TypeOK
      <3>3. Sooner(worker[w].deadline) \in 0..(Timeout + Grace)
        BY <3>2 DEF WorkerState, Sooner
      <3>4. Sooner(worker[w].budget) \in 0..Timeout
        BY <3>2 DEF WorkerState, Sooner
      <3> QED
        BY <3>1, <3>2, <3>3, <3>4, Zenon DEF WorkerState
    <2>2. worker' \in [Worker -> WorkerState]
      BY <1>14, <2>1, Zenon DEF Elapse
    <2>3. vt' \in [Job -> Nat] /\ \A j \in Job : vt'[j] = Sooner(vt[j])
      <3>1. vt' = [j \in Job |-> Sooner(vt[j])] /\ vt \in [Job -> Nat]
        BY <1>14, Zenon DEF Elapse, Inv, TypeOK
      <3> QED
        BY <3>1 DEF Sooner
    <2>4. UNCHANGED <<source, message, reads, records, control, sharers, attempts, faults>>
      BY <1>14, Zenon DEF Elapse
    <2> USE <2>1, <2>2, <2>3, <2>4 DEF records, control
    <2>5. TypeOK'
      BY DEF Inv, TypeOK
    <2>6. PausedIsStill' /\ OnePlaceForEachJob'
      BY DEF Inv, PausedIsStill, OnePlaceForEachJob
    <2>7. Deliveries' /\ Distinct'
      BY DEF Inv, Deliveries, Distinct
    <2>8. Margins'
      BY DEF Inv, TypeOK, WorkerState, Deliveries, Margins, Owned, Sooner, Busy, Unsent
    <2>9. Attempted'
      BY DEF Inv, Attempted
    <2> QED
      BY <2>5, <2>6, <2>7, <2>8, <2>9 DEF Inv
  <1>15. ASSUME UNCHANGED vars
       PROVE  Inv'
    <2> USE <1>15 DEF vars, queue, records, control
    <2>1. TypeOK'
      BY DEF Inv, TypeOK, WorkerState, Idle
    <2>2. PausedIsStill'
      BY DEF Inv, TypeOK, PausedIsStill
    <2>3. OnePlaceForEachJob'
      BY DEF Inv, TypeOK, OnePlaceForEachJob, Deliveries, Busy
    <2>4. Deliveries'
      BY DEF Inv, TypeOK, WorkerState, Idle, Deliveries, Busy
    <2>5. Distinct'
      BY DEF Inv, TypeOK, WorkerState, Idle, Deliveries, Distinct, Busy
    <2>6. Margins'
      BY DEF Inv, TypeOK, WorkerState, Idle, OnePlaceForEachJob, Deliveries, Distinct,
            Margins, Owned, Busy, Unsent
    <2>7. Attempted'
      BY DEF Inv, TypeOK, WorkerState, Idle, Deliveries, Distinct, Attempted, Busy
    <2> QED
      BY <2>1, <2>2, <2>3, <2>4, <2>5, <2>6, <2>7 DEF Inv
  <1> QED
    BY <1>1, <1>2, <1>3, <1>4, <1>5, <1>6, <1>7, <1>8, <1>9, <1>10, <1>11, <1>12, <1>13, <1>14, <1>15 DEF Next, WorkerStep, OperatorStep

\* The inductive invariant holds throughout.
LEMMA Invariance == Spec => []Inv
  BY InitInv, NextInv, PTL DEF Spec

\* The tables and the workers keep their types, and exactly the workers inside a
\* source read hold the control row.
THEOREM TypeCorrect == Spec => []TypeOK
  <1>1. Inv => TypeOK
    BY DEF Inv
  <1> QED
    BY <1>1, Invariance, PTL

\* Settlements, replays and retention neither lose nor double a job.
THEOREM NothingLostOrDoubled == Spec => []OnePlaceForEachJob
  <1>1. Inv => OnePlaceForEachJob
    BY DEF Inv
  <1> QED
    BY <1>1, Invariance, PTL

\* Until its storage deadline a worker is the only holder of its delivery.
THEOREM LeaseOutlivesDeadline == Spec => []HoldsUntilDeadline
  <1>1. Inv => HoldsUntilDeadline
    <2> SUFFICES ASSUME Inv, NEW w \in Worker, worker[w].pc \in Unsent, worker[w].deadline > 0
                 PROVE  Owned(w) /\ vt[worker[w].job] > 0
      BY DEF HoldsUntilDeadline, Unsent
    <2>1. Owned(w) /\ vt[worker[w].job] > worker[w].deadline
      BY DEF Inv, Margins
    <2>2. worker[w].job \in Job /\ worker[w].deadline \in Nat
      BY JobQueueAssumption DEF Inv, TypeOK, WorkerState, Deliveries, Unsent, Busy
    <2> QED
      BY <2>1, <2>2 DEF Inv, TypeOK
  <1> QED
    BY <1>1, Invariance, PTL

\* After set_paused has returned, no lease commits.
THEOREM PauseIsABarrier == Spec => PausedLeasesNothing
  <1> DEFINE Still == paused => \A j \in Job : reads'[j] <= reads[j]
  <1>1. Inv /\ [Next]_vars => [Still]_vars
    <2> SUFFICES ASSUME Inv, Next, paused, NEW j \in Job PROVE reads'[j] <= reads[j]
      OBVIOUS
    <2>0. reads \in [Job -> Nat]
      BY DEF Inv, TypeOK
    <2>1. ASSUME NEW w \in Worker, NEW i \in Job, LeaseReads(w, i)
          PROVE  FALSE
      BY <2>1 DEF LeaseReads, Inv, TypeOK, PausedIsStill
    <2>2. ASSUME NEW i \in Job, NEW delay, Send(i, delay)
          PROVE  reads'[j] <= reads[j]
      BY <2>0, <2>2 DEF Send
    <2>3. ASSUME UNCHANGED reads
          PROVE  reads'[j] <= reads[j]
      BY <2>0, <2>3
    <2>4. CASE OperatorStep
      BY <2>2, <2>3, <2>4 DEF OperatorStep, Enqueue, ReplayDead, Cleanup, SetPaused, queue
    <2>5. ASSUME NEW w \in Worker, WorkerStep(w)
          PROVE  reads'[j] <= reads[j]
      BY <2>1, <2>3, <2>5 DEF WorkerStep, LeaseBegins, LeaseEmpty, StartAttempt, AttemptEnds,
         SettleBegins, SettleExpires, Settle, SettleLost, Stop, queue
    <2>6. CASE Elapse
      BY <2>3, <2>6, Zenon DEF Elapse
    <2> QED
      BY <2>4, <2>5, <2>6 DEF Next
  <1> QED
    BY <1>1, Invariance, PTL DEF Spec, PausedLeasesNothing

\* No attempt is handed to the handler twice, and none beyond the policy's last.
THEOREM AttemptsAreSound == Spec => AttemptsAreFreshAndBounded
  <1> DEFINE Starts(w) == worker[w].pc = "leased" /\ worker'[w].pc = "handling"
             Sound(w) == /\ <<worker[w].message, worker[w].reads>> \notin attempts[worker[w].job]
                         /\ worker[w].reads \in 1..MaxAttempts
             A == \A w \in Worker : Starts(w) => Sound(w)
  <1>1. Inv /\ [Next]_vars => [A]_vars
    <2> SUFFICES ASSUME Inv, Next, NEW w \in Worker, Starts(w) PROVE Sound(w)
      OBVIOUS
    <2>0. worker \in [Worker -> WorkerState]
      BY DEF Inv, TypeOK
    <2>1. StartAttempt(w)
      <3>1. ~OperatorStep
        BY DEF OperatorStep, Enqueue, ReplayDead, Cleanup, SetPaused
      <3>2. ASSUME Elapse PROVE FALSE
        <4>1. worker'[w] = [worker[w] EXCEPT !.deadline = Sooner(@), !.budget = Sooner(@)]
          BY <3>2, Zenon DEF Elapse
        <4>2. worker[w] \in WorkerState
          BY <2>0
        <4> QED
          BY <4>1, <4>2 DEF WorkerState
      <3>3. PICK v \in Worker : WorkerStep(v)
        BY <3>1, <3>2 DEF Next
      <3>4. worker' = [worker EXCEPT ![v] = worker'[v]]
        BY <2>0, <3>3, Zenon DEF WorkerStep, LeaseBegins, LeaseEmpty, LeaseReads, StartAttempt, AttemptEnds,
           Settling, SettleBegins, SettleExpires, Settle, SettleLost, Stop
      <3>5. v = w
        BY <2>0, <3>4
      <3>6. ~Stop(w)
        BY <2>0 DEF Stop, Idle
      <3> QED
        BY <3>3, <3>5, <3>6, Zenon DEF WorkerStep, LeaseBegins, LeaseEmpty, LeaseReads, AttemptEnds,
           SettleBegins, SettleExpires, Settle, SettleLost
    <2>2. ~Undeliverable(w)
      BY <2>0, <2>1 DEF StartAttempt, Settling, WorkerState
    <2> QED
      BY <2>0, <2>2, JobQueueAssumption DEF Undeliverable, Inv, Attempted, Deliveries, Busy, WorkerState
  <1> QED
    BY <1>1, Invariance, PTL DEF Spec, AttemptsAreFreshAndBounded
=============================================================================
