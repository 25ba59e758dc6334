---------------------------- MODULE McpTasksProofs ----------------------------
(***************************************************************************)
(* Proofs about McpTasks, for any tasks, workers and clients, any lease,   *)
(* time to live and number of generations, deliveries and faults.          *)
(*                                                                         *)
(* Every call moves at most one row, in one of nine ways.  The first part  *)
(* proves what each way keeps; the second, which way each action moves its *)
(* row; the third follows the jobs.                                        *)
(***************************************************************************)
EXTENDS McpTasks, TLAPS

Counts == [Task -> [Generation -> Nat]]
Queues == [Task \X Generation \X Reads -> Nat]

RowType ==
    /\ task \in [Task -> Row]
    /\ receipt \in [Task -> [Generation -> {"none", "open", "done"}]]
    /\ lastClaim \in Counts /\ published \in [Task -> [Generation -> SUBSET Nat]]
    /\ stopped \subseteq Task

JobType ==
    /\ queue \in Queues
    /\ intents \subseteq Task \X Generation /\ dead \subseteq Task \X Generation
    /\ strayed \subseteq Task \X Generation
    /\ worker \in [Worker -> WorkerState]
    /\ \A w \in Worker :
          /\ worker[w].pc # "idle" => worker[w].generation \in Generation
          /\ worker[w].owned => worker[w].pc # "idle"
          /\ worker[w].pc = "settling" => worker[w].out \in {"completed", "failed", "cancelled"}
    /\ faults \in 0..MaxFaults

ClientType ==
    /\ client \in [Client -> ClientState]
    /\ cancelJobs \subseteq Task \X Generation /\ signalled \subseteq Task \X Generation

Final == {"completed", "failed", "expired", "cancelled"}

\* A row and what the histories say of it.  The lease is the last claim of its generation;
\* later generations have left no trace; a stopped task has ended, or its cancellation is
\* recorded in a row that is still leased.
LeaseOK(k) ==
    LET r == task[k]
        g == r.generation
    IN
    /\ r.status = "absent" <=> g = 0
    /\ Leased(k) => /\ r.status = "working" /\ receipt[k][g] = "open"
                    /\ r.version = r.lease.version + (IF r.cancel THEN 1 ELSE 0)
                    /\ r.lease.at = lastClaim[k][g]
    /\ r.status = "working" /\ ~Leased(k) => ~r.cancel /\ receipt[k][g] = "none"
    /\ r.status = "input" => ~r.cancel

ReceiptOK(k) ==
    \A h \in Generation :
       /\ receipt[k][h] = "open" => h = task[k].generation /\ Leased(k)
       /\ h > task[k].generation => receipt[k][h] = "none"

PublishedOK(k) ==
    \A h \in Generation :
       /\ published[k][h] \subseteq {lastClaim[k][h]}
       /\ published[k][h] # {} => ~(task[k].status = "working" /\ task[k].generation = h)
       /\ h > task[k].generation => published[k][h] = {}

StoppedOK(k) ==
    k \in stopped => task[k].status \in Final \/ (task[k].status = "working" /\ task[k].cancel)

RowOK(k) == LeaseOK(k) /\ ReceiptOK(k) /\ PublishedOK(k) /\ StoppedOK(k)

Rows == RowType /\ \A k \in Task : RowOK(k)

-----------------------------------------------------------------------------
(* The ways a row moves.                                                   *)

\* Nothing but time, and receipts the inbox forgets.  A cancellation is acknowledged only
\* if the row has ended or records it.
Same(k) ==
    /\ task'[k].status = task[k].status /\ task'[k].generation = task[k].generation
    /\ task'[k].version = task[k].version /\ task'[k].cancel = task[k].cancel
    /\ task'[k].lease.at = task[k].lease.at /\ task'[k].lease.version = task[k].lease.version
    /\ lastClaim'[k] = lastClaim[k] /\ published'[k] = published[k]
    /\ \A h \in Generation : \/ receipt'[k][h] = receipt[k][h]
                             \/ receipt[k][h] = "done" /\ receipt'[k][h] = "none"
    /\ k \in stopped' => \/ k \in stopped \/ task[k].status \in Final
                         \/ Live(k) /\ task[k].cancel

Born(k) ==
    /\ task[k].status = "absent"
    /\ task'[k].status = "working" /\ task'[k].generation = 1 /\ ~task'[k].cancel
    /\ task'[k].lease.at = 0 /\ <<k, 1>> \in intents'
    /\ UNCHANGED <<receipt, lastClaim, published, stopped>>

Ends(k) ==
    /\ Live(k) /\ task'[k].status \in Final /\ task'[k].generation = task[k].generation
    /\ task'[k].lease.at = 0
    /\ lastClaim'[k] = lastClaim[k]
    /\ \A h \in Generation :
          IF h = task[k].generation
          THEN /\ receipt'[k][h] = "done" \/ (receipt'[k][h] = receipt[k][h] /\ ~Leased(k))
               /\ \/ published'[k][h] = published[k][h]
                  \/ Leased(k) /\ published'[k][h] = published[k][h] \cup {task[k].lease.at}
          ELSE receipt'[k][h] = receipt[k][h] /\ published'[k][h] = published[k][h]

CancelRequested(k) ==
    /\ Leased(k) /\ ~task[k].cancel
    /\ task'[k].status = task[k].status /\ task'[k].generation = task[k].generation
    /\ task'[k].version = task[k].version + 1 /\ task'[k].cancel
    /\ task'[k].lease = task[k].lease
    /\ UNCHANGED <<receipt, lastClaim, published>>

Claimed(k) ==
    LET g == task[k].generation IN
    /\ task[k].status = "working" /\ ~task[k].cancel
    /\ task'[k].status = "working" /\ task'[k].generation = g
    /\ task'[k].version = task[k].version /\ ~task'[k].cancel
    /\ task'[k].lease.at = lastClaim[k][g] + 1 /\ task'[k].lease.version = task[k].version
    /\ \A h \in Generation :
          IF h = g THEN receipt'[k][h] = "open" /\ lastClaim'[k][h] = lastClaim[k][g] + 1
                   ELSE receipt'[k][h] = receipt[k][h] /\ lastClaim'[k][h] = lastClaim[k][h]
    /\ UNCHANGED <<published, stopped>>

Released(k) ==
    LET g == task[k].generation IN
    /\ Leased(k) /\ task[k].version = task[k].lease.version
    /\ task'[k].status = task[k].status /\ task'[k].generation = g
    /\ task'[k].cancel = task[k].cancel /\ task'[k].lease.at = 0
    /\ \A h \in Generation : receipt'[k][h] = IF h = g THEN "none" ELSE receipt[k][h]
    /\ UNCHANGED <<lastClaim, published, stopped>>

Asks(k) ==
    LET g == task[k].generation IN
    /\ Leased(k) /\ ~task[k].cancel
    /\ task'[k].status = "input" /\ task'[k].generation = g /\ ~task'[k].cancel
    /\ task'[k].lease.at = 0
    /\ \A h \in Generation :
          IF h = g THEN /\ receipt'[k][h] = "done"
                        /\ published'[k][h] = published[k][h] \cup {task[k].lease.at}
                   ELSE receipt'[k][h] = receipt[k][h] /\ published'[k][h] = published[k][h]
    /\ UNCHANGED <<lastClaim, stopped>>

\* Some answers, and the last.
Hears(k) ==
    /\ task[k].status = "input" /\ task'[k].status = "input"
    /\ task'[k].generation = task[k].generation /\ task'[k].cancel = task[k].cancel
    /\ task'[k].lease.at = 0
    /\ UNCHANGED <<receipt, lastClaim, published, stopped>>

Resumes(k) ==
    /\ task[k].status = "input" /\ task'[k].status = "working"
    /\ task'[k].generation = task[k].generation + 1 /\ ~task'[k].cancel
    /\ task'[k].lease.at = 0 /\ <<k, task[k].generation + 1>> \in intents'
    /\ UNCHANGED <<receipt, lastClaim, published, stopped>>

Moves(k) ==
    \/ Same(k) \/ Born(k) \/ Ends(k) \/ CancelRequested(k) \/ Claimed(k)
    \/ Released(k) \/ Asks(k) \/ Hears(k) \/ Resumes(k)

RowFields(k) ==
    /\ task[k].generation \in 0..MaxGeneration /\ task[k].version \in Nat
    /\ task[k].cancel \in BOOLEAN /\ task[k].lease.at \in Nat /\ task[k].lease.version \in Nat

\* The types of a row's fields, one by one.
LEMMA FieldsOfRow ==
    ASSUME RowType, NEW k \in Task
    PROVE  /\ RowFields(k)
           /\ \A h \in Generation : lastClaim[k][h] \in Nat /\ published[k][h] \subseteq Nat
  BY DEF RowType, RowFields, Row, Counts

\* The same after a step.
LEMMA FieldsOfNextRow ==
    ASSUME RowType', NEW k \in Task
    PROVE  RowFields(k)'
  BY DEF RowType, RowFields, Row

\* Time and forgotten receipts keep a row well formed.
LEMMA SameKeeps ==
    ASSUME NEW k \in Task, RowFields(k), RowFields(k)', RowOK(k), Same(k)
    PROVE  RowOK(k)'
  <1>1. Leased(k)' <=> Leased(k)
    BY DEF Same, Leased
  <1>2. LeaseOK(k)'
    BY <1>1 DEF RowOK, LeaseOK, Same, RowFields, Generation
  <1>3. ReceiptOK(k)'
    BY <1>1 DEF RowOK, ReceiptOK, Same
  <1>4. PublishedOK(k)'
    BY DEF RowOK, PublishedOK, Same
  <1>5. StoppedOK(k)'
    BY Zenon DEF RowOK, LeaseOK, StoppedOK, Same, Live, Final
  <1> QED
    BY <1>2, <1>3, <1>4, <1>5 DEF RowOK

\* So does create_atomic.
LEMMA BornKeeps ==
    ASSUME NEW k \in Task, RowFields(k), RowFields(k)', RowOK(k), Born(k)
    PROVE  RowOK(k)'
  <1>1. task[k].generation = 0 /\ 1 \in Generation
    BY McpTasksAssumption DEF RowOK, LeaseOK, Born, Generation
  <1>2. receipt[k][1] = "none" /\ published[k][1] = {}
    BY <1>1 DEF RowOK, ReceiptOK, PublishedOK, Generation
  <1>3. ~Leased(k)' /\ ~Leased(k)
    BY DEF Born, Leased, RowOK, LeaseOK
  <1>4. LeaseOK(k)'
    BY <1>1, <1>2, <1>3 DEF LeaseOK, Born
  <1>5. ReceiptOK(k)'
    BY <1>1, <1>2, <1>3 DEF RowOK, ReceiptOK, Born, Generation
  <1>6. PublishedOK(k)'
    BY <1>1, <1>2 DEF RowOK, PublishedOK, Born, Generation
  <1>7. StoppedOK(k)'
    BY DEF RowOK, StoppedOK, Born, Final
  <1> QED
    BY <1>4, <1>5, <1>6, <1>7 DEF RowOK

\* So does the end of a task, with or without a lease and an outcome.
LEMMA EndsKeeps ==
    ASSUME NEW k \in Task, RowFields(k), RowFields(k)', RowOK(k), Ends(k)
    PROVE  RowOK(k)'
  <1>1. /\ ~Leased(k)' /\ task[k].generation \in Generation
        /\ task'[k].status \notin {"absent", "working", "input"}
    BY DEF Ends, Leased, Live, RowOK, LeaseOK, Final, RowFields, Generation
  <1>2. task'[k].generation = task[k].generation
    BY Zenon DEF Ends
  <1>3. LeaseOK(k)'
    BY <1>1, <1>2 DEF LeaseOK, Generation
  <1>4. ReceiptOK(k)'
    <2> SUFFICES ASSUME NEW h \in Generation
                 PROVE  /\ receipt'[k][h] # "open"
                        /\ h > task[k].generation => receipt'[k][h] = "none"
      BY <1>2, Zenon DEF ReceiptOK
    <2>1. CASE h = task[k].generation
      BY <2>1, <1>1 DEF Ends, RowOK, ReceiptOK, Generation
    <2>2. CASE h # task[k].generation
      BY <2>2, Zenon DEF Ends, RowOK, ReceiptOK
    <2> QED
      BY <2>1, <2>2
  <1>5. PublishedOK(k)'
    <2> SUFFICES ASSUME NEW h \in Generation
                 PROVE  /\ published'[k][h] \subseteq {lastClaim[k][h]}
                        /\ h > task[k].generation => published'[k][h] = {}
      BY <1>1, <1>2, Zenon DEF PublishedOK, Ends
    <2>1. CASE h = task[k].generation
      BY <2>1, <1>1 DEF Ends, RowOK, PublishedOK, LeaseOK, Generation
    <2>2. CASE h # task[k].generation
      BY <2>2, Zenon DEF Ends, RowOK, PublishedOK
    <2> QED
      BY <2>1, <2>2, Zenon
  <1>6. StoppedOK(k)'
    BY Zenon DEF Ends, StoppedOK
  <1> QED
    BY <1>3, <1>4, <1>5, <1>6 DEF RowOK

\* So does a cancellation request: the row is one version past its lease.
LEMMA CancelRequestedKeeps ==
    ASSUME NEW k \in Task, RowFields(k), RowFields(k)', RowOK(k), CancelRequested(k)
    PROVE  RowOK(k)'
  <1>1. Leased(k)' /\ Leased(k) /\ task[k].status = "working"
    BY Zenon DEF CancelRequested, Leased, RowOK, LeaseOK
  <1>2. LeaseOK(k)'
    BY <1>1 DEF RowOK, LeaseOK, CancelRequested, RowFields
  <1>3. ReceiptOK(k)'
    BY <1>1, Zenon DEF RowOK, ReceiptOK, CancelRequested
  <1>4. PublishedOK(k)'
    BY DEF RowOK, PublishedOK, CancelRequested
  <1>5. StoppedOK(k)'
    BY <1>1, Zenon DEF StoppedOK, CancelRequested
  <1> QED
    BY <1>2, <1>3, <1>4, <1>5 DEF RowOK

\* So does claim_execution: a working row has published nothing in its generation.
LEMMA ClaimedKeeps ==
    ASSUME NEW k \in Task, RowFields(k), RowFields(k)', RowOK(k), Claimed(k),
           \A h \in Generation : lastClaim[k][h] \in Nat
    PROVE  RowOK(k)'
  <1>1. task[k].generation \in Generation /\ task'[k].generation = task[k].generation
    BY DEF Claimed, RowOK, LeaseOK, RowFields, Generation
  <1>2. Leased(k)'
    BY <1>1 DEF Claimed, Leased
  <1>3. LeaseOK(k)'
    BY <1>1, <1>2 DEF LeaseOK, Claimed, RowFields, Generation
  <1>4. ReceiptOK(k)'
    BY <1>1, <1>2 DEF RowOK, ReceiptOK, Claimed, Generation
  <1>5. published[k][task[k].generation] = {}
    BY <1>1, Zenon DEF RowOK, PublishedOK, Claimed
  <1>6. PublishedOK(k)'
    BY <1>1, <1>5 DEF RowOK, PublishedOK, Claimed
  <1>7. StoppedOK(k)'
    BY Zenon DEF RowOK, StoppedOK, Claimed, Final
  <1> QED
    BY <1>3, <1>4, <1>6, <1>7, Zenon DEF RowOK

\* So does the release of a claim: the version shows that no cancellation is pending.
LEMMA ReleasedKeeps ==
    ASSUME NEW k \in Task, RowFields(k), RowFields(k)', RowOK(k), Released(k)
    PROVE  RowOK(k)'
  <1>1. /\ task[k].status = "working" /\ ~task[k].cancel /\ Leased(k)
        /\ task[k].generation \in Generation
    BY DEF Released, RowOK, LeaseOK, RowFields, Generation
  <1>2. /\ ~Leased(k)' /\ task'[k].generation = task[k].generation /\ ~task'[k].cancel
        /\ task'[k].status = "working"
    BY <1>1, Zenon DEF Released, Leased
  <1>3. LeaseOK(k)'
    BY <1>1, <1>2 DEF LeaseOK, Released, Generation
  <1>4. ReceiptOK(k)'
    BY <1>1, <1>2 DEF RowOK, ReceiptOK, Released, Generation
  <1>5. PublishedOK(k)'
    BY <1>1, <1>2, Zenon DEF RowOK, PublishedOK, Released
  <1>6. StoppedOK(k)'
    BY <1>1, <1>2, Zenon DEF RowOK, StoppedOK, Released, Final
  <1> QED
    BY <1>3, <1>4, <1>5, <1>6 DEF RowOK

\* So does require_input.
LEMMA AsksKeeps ==
    ASSUME NEW k \in Task, RowFields(k), RowFields(k)', RowOK(k), Asks(k)
    PROVE  RowOK(k)'
  <1>1. task[k].status = "working" /\ Leased(k) /\ task[k].generation \in Generation
    BY DEF Asks, RowOK, LeaseOK, RowFields, Generation
  <1>2. /\ ~Leased(k)' /\ task'[k].generation = task[k].generation /\ ~task'[k].cancel
        /\ task'[k].status = "input"
    BY Zenon DEF Asks, Leased
  <1>3. LeaseOK(k)'
    BY <1>1, <1>2 DEF LeaseOK, Generation
  <1>4. ReceiptOK(k)'
    BY <1>1, <1>2 DEF RowOK, ReceiptOK, Asks, Generation
  <1>5. PublishedOK(k)'
    <2> SUFFICES ASSUME NEW h \in Generation
                 PROVE  /\ published'[k][h] \subseteq {lastClaim[k][h]}
                        /\ h > task[k].generation => published'[k][h] = {}
      BY <1>2, Zenon DEF PublishedOK, Asks
    <2>1. CASE h = task[k].generation
      BY <2>1, <1>1 DEF Asks, RowOK, PublishedOK, LeaseOK, Generation
    <2>2. CASE h # task[k].generation
      BY <2>2, Zenon DEF Asks, RowOK, PublishedOK
    <2> QED
      BY <2>1, <2>2
  <1>6. StoppedOK(k)'
    BY <1>1, Zenon DEF RowOK, StoppedOK, Asks, Final
  <1> QED
    BY <1>3, <1>4, <1>5, <1>6 DEF RowOK

\* So does a partial answer.
LEMMA HearsKeeps ==
    ASSUME NEW k \in Task, RowFields(k), RowFields(k)', RowOK(k), Hears(k)
    PROVE  RowOK(k)'
  <1>1. ~Leased(k)' /\ ~Leased(k)
    BY Zenon DEF Hears, Leased, RowOK, LeaseOK
  <1>2. LeaseOK(k)'
    BY <1>1, Zenon DEF RowOK, LeaseOK, Hears
  <1>3. ReceiptOK(k)'
    BY <1>1, Zenon DEF RowOK, ReceiptOK, Hears
  <1>4. PublishedOK(k)'
    BY Zenon DEF RowOK, PublishedOK, Hears
  <1>5. StoppedOK(k)'
    BY Zenon DEF RowOK, StoppedOK, Hears, Final
  <1> QED
    BY <1>2, <1>3, <1>4, <1>5 DEF RowOK

\* So does the last answer: the next generation has no receipt yet.
LEMMA ResumesKeeps ==
    ASSUME NEW k \in Task, RowFields(k), RowFields(k)', RowOK(k), Resumes(k)
    PROVE  RowOK(k)'
  <1>1. ~Leased(k)' /\ ~Leased(k)
    BY Zenon DEF Resumes, Leased, RowOK, LeaseOK
  <1>2. /\ task'[k].generation \in Generation /\ task'[k].generation > task[k].generation
        /\ \A h \in Generation : h > task'[k].generation => h > task[k].generation
    BY DEF Resumes, RowFields, Generation
  <1>3. LeaseOK(k)'
    BY <1>1, <1>2 DEF RowOK, LeaseOK, ReceiptOK, Resumes, Generation
  <1>4. ReceiptOK(k)'
    BY <1>1, <1>2, Zenon DEF RowOK, ReceiptOK, Resumes
  <1>5. PublishedOK(k)'
    BY <1>2, Zenon DEF RowOK, PublishedOK, Resumes
  <1>6. StoppedOK(k)'
    BY Zenon DEF RowOK, StoppedOK, Resumes, Final
  <1> QED
    BY <1>3, <1>4, <1>5, <1>6 DEF RowOK

\* Every way a row moves keeps it well formed.
LEMMA MovesKeep ==
    ASSUME NEW k \in Task, Rows, RowType', Moves(k)
    PROVE  RowOK(k)'
  <1>1. /\ RowFields(k) /\ RowFields(k)' /\ RowOK(k)
        /\ \A h \in Generation : lastClaim[k][h] \in Nat
    BY FieldsOfRow, FieldsOfNextRow, Zenon DEF Rows
  <1> QED
    BY <1>1, SameKeeps, BornKeeps, EndsKeeps, CancelRequestedKeeps, ClaimedKeeps,
       ReleasedKeeps, AsksKeeps, HearsKeeps, ResumesKeeps, Zenon DEF Moves

\* A row whose cancellation was acknowledged can only end.
LEMMA StoppedRowsOnlyEnd ==
    ASSUME NEW k \in Task, Rows, RowType', Moves(k), k \in stopped
    PROVE  /\ task'[k].generation = task[k].generation /\ lastClaim'[k] = lastClaim[k]
           /\ task'[k].status = "input" => task[k].status = "input"
  <1>1. RowFields(k) /\ LeaseOK(k)
    BY FieldsOfRow, Zenon DEF Rows, RowOK
  <1>2. \/ task[k].status \in Final
        \/ task[k].status = "working" /\ task[k].cancel
    BY Zenon DEF Rows, RowOK, StoppedOK
  <1>3. CASE Same(k)
    BY <1>3, Zenon DEF Same
  <1>4. CASE Ends(k)
    BY <1>4, Zenon DEF Ends, Final
  <1>5. CASE Released(k)
    BY <1>5, <1>2, Zenon DEF Released, Final
  <1>6. ~Born(k) /\ ~CancelRequested(k) /\ ~Claimed(k) /\ ~Asks(k) /\ ~Hears(k) /\ ~Resumes(k)
    BY <1>1, <1>2, Zenon
       DEF Born, CancelRequested, Claimed, Asks, Hears, Resumes, LeaseOK, Leased, Final
  <1> QED
    BY <1>3, <1>4, <1>5, <1>6, Zenon DEF Moves

RowStep == RowType' /\ \A k \in Task : Moves(k)

\* Nothing but the row of k is touched.
Elsewhere(k) ==
    \A q \in Task \ {k} :
       /\ task'[q] = task[q] /\ receipt'[q] = receipt[q] /\ lastClaim'[q] = lastClaim[q]
       /\ published'[q] = published[q] /\ (q \in stopped' => q \in stopped)

\* A step that moves the row of k and touches no other is a step of the rows.
LEMMA OneRowMoves ==
    ASSUME NEW k \in Task, RowType', Moves(k), Elsewhere(k)
    PROVE  RowStep
  <1>1. ASSUME NEW q \in Task \ {k} PROVE Same(q)
    BY Zenon DEF Elsewhere, Same
  <1> QED
    BY <1>1 DEF RowStep, Moves

\* No row moves.
LEMMA NoRowMoves ==
    ASSUME Rows, UNCHANGED <<task, receipt, lastClaim, published, stopped>>
    PROVE  RowStep
  BY Zenon DEF Rows, RowType, RowStep, Moves, Same

-----------------------------------------------------------------------------
(* How each action moves its row.                                          *)

Status == {"absent", "working", "input", "completed", "failed", "expired", "cancelled"}
Lease == [at : Nat, version : Nat, left : 0..JobTimeout]

MovedFields(k, status, lease) ==
    /\ Moved(k, status, lease) \in Row
    /\ Moved(k, status, lease).status = status
    /\ Moved(k, status, lease).generation = task[k].generation
    /\ Moved(k, status, lease).version = task[k].version + 1
    /\ Moved(k, status, lease).cancel = (task[k].cancel \/ status = "cancelled")
    /\ Moved(k, status, lease).pending = task[k].pending
    /\ Moved(k, status, lease).lease = lease

\* What transitioned makes of a row.
LEMMA MovedRow ==
    ASSUME RowType, NEW k \in Task, NEW status \in Status, NEW lease \in Lease
    PROVE  MovedFields(k, status, lease)
  <1>1. task[k] \in Row
    BY Zenon DEF RowType
  <1> DEFINE c == task[k].cancel \/ status = "cancelled"
             t == IF status \in {"working", "input"} THEN task[k].ttl ELSE 0
  <1>2. c \in BOOLEAN
    OBVIOUS
  <1>3. t \in 0..Ttl /\ task[k].version + 1 \in Nat
    BY <1>1, McpTasksAssumption DEF Row
  <1>4. Moved(k, status, lease) =
            [task[k] EXCEPT !.status = status, !.version = task[k].version + 1,
                            !.lease = lease, !.cancel = c, !.ttl = t]
    BY <1>1 DEF Moved, Row
  <1> HIDE DEF c, t
  <1>5. Moved(k, status, lease) \in Row
    BY <1>1, <1>2, <1>3, <1>4, Zenon DEF Row, Status, Lease
  <1>6. /\ Moved(k, status, lease).status = status
        /\ Moved(k, status, lease).generation = task[k].generation
        /\ Moved(k, status, lease).version = task[k].version + 1
    BY <1>1, <1>4, Zenon DEF Row
  <1>7. /\ Moved(k, status, lease).cancel = c
        /\ Moved(k, status, lease).pending = task[k].pending
        /\ Moved(k, status, lease).lease = lease
    BY <1>1, <1>4, Zenon DEF Row
  <1> QED
    BY <1>5, <1>6, <1>7, Zenon DEF c, MovedFields

\* The columns of a row without a lease.
LEMMA NoLeaseIsLease == NoLease \in Lease /\ NoLease.at = 0
  BY McpTasksAssumption DEF NoLease, Lease

\* The row that keeps no lease.
LEMMA FreedRow ==
    ASSUME RowType, NEW k \in Task, NEW status \in Status
    PROVE  /\ Moved(k, status, NoLease) \in Row
           /\ Moved(k, status, NoLease).status = status
           /\ Moved(k, status, NoLease).generation = task[k].generation
           /\ Moved(k, status, NoLease).lease.at = 0
           /\ Moved(k, status, NoLease).cancel = (task[k].cancel \/ status = "cancelled")
  <1>1. MovedFields(k, status, NoLease)
    BY MovedRow, NoLeaseIsLease, Zenon
  <1> QED
    BY <1>1, NoLeaseIsLease, Zenon DEF MovedFields

\* The row that is not there.
LEMMA NoTaskIsRow ==
    /\ NoTask \in Row /\ NoTask.status = "absent" /\ NoTask.generation = 0
    /\ ~NoTask.cancel /\ NoTask.lease.at = 0
  <1>1. NoLease \in [at : Nat, version : Nat, left : 0..JobTimeout] /\ NoLease.at = 0
    BY NoLeaseIsLease DEF Lease
  <1>2. 0 \in 0..MaxGeneration /\ 0 \in 0..Ttl /\ 0 \in Nat
    BY McpTasksAssumption
  <1>3. NoTask \in Row
    BY <1>1, <1>2 DEF NoTask, Row
  <1>4. /\ NoTask.status = "absent" /\ NoTask.generation = 0 /\ ~NoTask.cancel
        /\ NoTask.lease = NoLease
    BY DEF NoTask
  <1> QED
    BY <1>1, <1>3, <1>4

\* A row under another lease.
LEMMA LeasedRow ==
    ASSUME NEW r \in Row, NEW l \in Lease
    PROVE  /\ [r EXCEPT !.lease = l] \in Row
           /\ [r EXCEPT !.lease = l].status = r.status
           /\ [r EXCEPT !.lease = l].generation = r.generation
           /\ [r EXCEPT !.lease = l].version = r.version
           /\ [r EXCEPT !.lease = l].cancel = r.cancel
           /\ [r EXCEPT !.lease = l].lease = l
  <1>1. [r EXCEPT !.lease = l] \in Row
    BY DEF Row, Lease
  <1>2. /\ [r EXCEPT !.lease = l].status = r.status
        /\ [r EXCEPT !.lease = l].generation = r.generation
        /\ [r EXCEPT !.lease = l].version = r.version
        /\ [r EXCEPT !.lease = l].lease = l
    BY DEF Row
  <1>3. [r EXCEPT !.lease = l].cancel = r.cancel
    BY DEF Row
  <1> QED
    BY <1>1, <1>2, <1>3

\* The update of one row.
LEMMA RowChanges ==
    ASSUME RowType, NEW k \in Task, NEW m \in Row, task' = [task EXCEPT ![k] = m]
    PROVE  /\ task' \in [Task -> Row] /\ task'[k] = m
           /\ \A q \in Task \ {k} : task'[q] = task[q]
  BY Zenon DEF RowType

\* The update of one receipt.
LEMMA ReceiptChanges ==
    ASSUME RowType, NEW k \in Task, NEW g \in Generation, NEW v \in {"none", "open", "done"},
           receipt' = [receipt EXCEPT ![k][g] = v]
    PROVE  /\ receipt' \in [Task -> [Generation -> {"none", "open", "done"}]]
           /\ \A h \in Generation : receipt'[k][h] = IF h = g THEN v ELSE receipt[k][h]
           /\ \A q \in Task \ {k} : receipt'[q] = receipt[q]
  BY Zenon DEF RowType

\* The claim of one generation.
LEMMA ClaimChanges ==
    ASSUME RowType, NEW k \in Task, NEW g \in Generation, NEW v \in Nat,
           lastClaim' = [lastClaim EXCEPT ![k][g] = v]
    PROVE  /\ lastClaim' \in Counts
           /\ \A h \in Generation : lastClaim'[k][h] = IF h = g THEN v ELSE lastClaim[k][h]
           /\ \A q \in Task \ {k} : lastClaim'[q] = lastClaim[q]
  BY Zenon DEF RowType, Counts

\* The publication of one generation.
LEMMA PublishedChanges ==
    ASSUME RowType, NEW k \in Task, NEW g \in Generation, NEW v \in Nat,
           published' = [published EXCEPT ![k][g] = @ \cup {v}]
    PROVE  /\ published' \in [Task -> [Generation -> SUBSET Nat]]
           /\ \A h \in Generation :
                 published'[k][h] = IF h = g THEN published[k][h] \cup {v} ELSE published[k][h]
           /\ \A q \in Task \ {k} : published'[q] = published[q]
  <1>1. published[k][g] \cup {v} \in SUBSET Nat
    BY DEF RowType
  <1> QED
    BY <1>1, Zenon DEF RowType

\* create_atomic gives birth to a row.
LEMMA CreateMoves ==
    ASSUME Rows, NEW k \in Task, Create(k)
    PROVE  RowStep
  <1> DEFINE m == [NoTask EXCEPT !.status = "working", !.generation = 1, !.version = 1, !.ttl = Ttl]
  <1>0. NoTask \in Row /\ ~NoTask.cancel /\ NoTask.lease.at = 0
    BY NoTaskIsRow, Zenon
  <1>1. /\ m \in Row /\ m.status = "working" /\ m.generation = 1 /\ ~m.cancel /\ m.lease.at = 0
    <2>1. 1 \in 0..MaxGeneration /\ Ttl \in 0..Ttl
      BY McpTasksAssumption
    <2> QED
      BY <1>0, <2>1, Zenon DEF Row
  <1>2. task' = [task EXCEPT ![k] = m] /\ RowType
    BY DEF Create, Rows
  <1> HIDE DEF m
  <1>3. /\ task' \in [Task -> Row] /\ task'[k] = m /\ \A q \in Task \ {k} : task'[q] = task[q]
    BY <1>1, <1>2, RowChanges, Zenon
  <1>4. /\ UNCHANGED <<receipt, lastClaim, published, stopped>> /\ task[k].status = "absent"
        /\ <<k, 1>> \in intents'
    BY Zenon DEF Create, history
  <1>5. Born(k)
    BY <1>1, <1>3, <1>4, Zenon DEF Born
  <1>6. RowType' /\ Elsewhere(k)
    BY <1>2, <1>3, <1>4, Zenon DEF RowType, Elsewhere, Counts
  <1> QED
    BY <1>5, <1>6, OneRowMoves, Zenon DEF Moves

\* What End leaves of a live task.
LEMMA EndFacts ==
    ASSUME Rows, NEW k \in Task, NEW status \in Final, Live(k), End(k, status)
    PROVE  /\ task' \in [Task -> Row]
           /\ receipt' \in [Task -> [Generation -> {"none", "open", "done"}]]
           /\ task'[k].status \in Final /\ task'[k].generation = task[k].generation
           /\ task'[k].lease.at = 0
           /\ \A h \in Generation :
                 IF h = task[k].generation
                 THEN receipt'[k][h] = "done" \/ (receipt'[k][h] = receipt[k][h] /\ ~Leased(k))
                 ELSE receipt'[k][h] = receipt[k][h]
           /\ \A q \in Task \ {k} : task'[q] = task[q] /\ receipt'[q] = receipt[q]
  <1>1. RowType /\ RowFields(k) /\ LeaseOK(k)
    BY FieldsOfRow, Zenon DEF Rows, RowOK
  <1>2. status \in Status
    BY Zenon DEF Final, Status
  <1>3. /\ task' \in [Task -> Row] /\ task'[k] = Moved(k, status, NoLease)
        /\ \A q \in Task \ {k} : task'[q] = task[q]
    BY <1>1, <1>2, FreedRow, RowChanges, Zenon DEF End
  <1>4. /\ task'[k].status = status /\ task'[k].generation = task[k].generation
        /\ task'[k].lease.at = 0
    BY <1>1, <1>2, <1>3, FreedRow
  <1>5. task[k].generation \in Generation
    BY <1>1 DEF Live, LeaseOK, RowFields, Generation
  <1>6. CASE Leased(k)
    <2>1. receipt' = [receipt EXCEPT ![k][task[k].generation] = "done"]
      BY <1>6, Zenon DEF End, FinishReceipt
    <2> QED
      BY <1>1, <1>3, <1>4, <1>5, <2>1, ReceiptChanges, Zenon
  <1>7. CASE ~Leased(k)
    <2>1. receipt' = receipt
      BY <1>7, Zenon DEF End, FinishReceipt
    <2> QED
      BY <1>1, <1>3, <1>4, <1>7, <2>1, Zenon DEF RowType
  <1> QED
    BY <1>6, <1>7, Zenon

\* A task that ends with nothing published.
LEMMA EndMoves ==
    ASSUME Rows, NEW k \in Task, NEW status \in Final, Live(k), End(k, status),
           UNCHANGED <<lastClaim, published>>, stopped' \subseteq stopped \cup {k}
    PROVE  RowStep
  <1>1. RowType
    BY Zenon DEF Rows
  <1>2. Ends(k)
    BY EndFacts, Zenon DEF Ends
  <1>3. RowType'
    BY <1>1, EndFacts, Zenon DEF RowType, Counts
  <1>4. Elsewhere(k)
    BY EndFacts DEF Elsewhere
  <1> QED
    BY <1>2, <1>3, <1>4, OneRowMoves, Zenon DEF Moves

\* get ends an expired row and shows any other.
LEMMA GetMoves ==
    ASSUME Rows, NEW k \in Task, Get(k), UNCHANGED <<lastClaim, published, stopped>>
    PROVE  RowStep
  <1>1. CASE Live(k) /\ Expired(k)
    <2>1. End(k, "expired")
      BY <1>1, Zenon DEF Get
    <2> QED
      BY <1>1, <2>1, EndMoves, Zenon DEF Final
  <1>2. CASE ~(Live(k) /\ Expired(k))
    BY <1>2, NoRowMoves, Zenon DEF Get
  <1> QED
    BY <1>1, <1>2, Zenon

\* The types of what a client has read.
LEMMA ClientFields ==
    ASSUME ClientType, NEW c \in Client
    PROVE  /\ client[c].task \in Task /\ client[c].generation \in 0..MaxGeneration
           /\ client[c].version \in Nat /\ client[c].tries \in 0..CancelAttempts
  BY Zenon DEF ClientType, ClientState

\* update_input_atomic ends, hears or resumes the task it has read, or does nothing.
LEMMA UpdateInputMoves ==
    ASSUME Rows, ClientType, NEW c \in Updater, NEW S \in SUBSET InputKey, UpdateInput(c, S)
    PROVE  RowStep
  <1> DEFINE k == client[c].task
             left == task[k].pending \ S
  <1>1. k \in Task
    BY ClientFields, Zenon DEF Client
  <1>2. RowType /\ RowFields(k) /\ LeaseOK(k) /\ left \in SUBSET InputKey
    BY <1>1, FieldsOfRow, Zenon DEF Rows, RowOK, RowType, Row
  <1>3. UNCHANGED <<lastClaim, published, stopped>>
    BY Zenon DEF UpdateInput, history
  <1>4. CASE UNCHANGED <<task, receipt>>
    BY <1>3, <1>4, NoRowMoves, Zenon
  <1>5. CASE task[k].status = "input" /\ End(k, "expired")
    BY <1>1, <1>3, <1>5, EndMoves, Zenon DEF Live, Final
  <1>6. CASE /\ task[k].status = "input" /\ UNCHANGED receipt
             /\ task' = [task EXCEPT ![k] = [Moved(k, "input", NoLease) EXCEPT !.pending = left]]
    <2> DEFINE m == [Moved(k, "input", NoLease) EXCEPT !.pending = left]
    <2>0. /\ Moved(k, "input", NoLease) \in Row
          /\ Moved(k, "input", NoLease).status = "input"
          /\ Moved(k, "input", NoLease).generation = task[k].generation
          /\ Moved(k, "input", NoLease).lease.at = 0
          /\ Moved(k, "input", NoLease).cancel = (task[k].cancel \/ "input" = "cancelled")
      BY <1>1, <1>2, FreedRow DEF Status
    <2>1. /\ m \in Row /\ m.status = "input" /\ m.generation = task[k].generation
          /\ m.lease.at = 0 /\ m.cancel = Moved(k, "input", NoLease).cancel
      BY <1>2, <2>0, Zenon DEF Row
    <2>2. m.cancel = task[k].cancel
      BY <1>2, <2>0, <2>1, Zenon DEF RowFields
    <2>3. task' = [task EXCEPT ![k] = m]
      BY <1>6, Zenon
    <2> HIDE DEF m, k
    <2>4. /\ task' \in [Task -> Row] /\ task'[k] = m
          /\ \A q \in Task \ {k} : task'[q] = task[q]
      BY <1>1, <1>2, <2>1, <2>3, RowChanges, Zenon
    <2>5. Hears(k)
      BY <1>3, <1>6, <2>1, <2>2, <2>4, Zenon DEF Hears
    <2>6. RowType' /\ Elsewhere(k)
      BY <1>2, <1>3, <1>6, <2>4, Zenon DEF RowType, Elsewhere, Counts
    <2> QED
      BY <1>1, <2>5, <2>6, OneRowMoves, Zenon DEF Moves
  <1>7. CASE /\ task[k].status = "input" /\ UNCHANGED receipt /\ task[k].generation < MaxGeneration
             /\ intents' = intents \cup {<<k, task[k].generation + 1>>}
             /\ task' = [task EXCEPT ![k] =
                    [Moved(k, "working", NoLease) EXCEPT !.generation = @ + 1, !.pending = {},
                                                         !.cancel = FALSE]]
    <2> DEFINE m == [Moved(k, "working", NoLease) EXCEPT !.generation = @ + 1, !.pending = {},
                                                         !.cancel = FALSE]
    <2>0. /\ Moved(k, "working", NoLease) \in Row
          /\ Moved(k, "working", NoLease).status = "working"
          /\ Moved(k, "working", NoLease).generation = task[k].generation
          /\ Moved(k, "working", NoLease).lease.at = 0
      BY <1>1, <1>2, FreedRow DEF Status
    <2>1. task[k].generation + 1 \in 0..MaxGeneration
      BY <1>2, <1>7, McpTasksAssumption DEF RowFields
    <2>2. /\ m \in Row /\ m.status = "working" /\ m.generation = task[k].generation + 1
          /\ m.lease.at = 0 /\ ~m.cancel
      BY <2>0, <2>1, Zenon DEF Row
    <2>3. task' = [task EXCEPT ![k] = m]
      BY <1>7, Zenon
    <2> HIDE DEF m, k
    <2>4. /\ task' \in [Task -> Row] /\ task'[k] = m
          /\ \A q \in Task \ {k} : task'[q] = task[q]
      BY <1>1, <1>2, <2>2, <2>3, RowChanges, Zenon
    <2>5. Resumes(k)
      BY <1>3, <1>7, <2>2, <2>4, Zenon DEF Resumes
    <2>6. RowType' /\ Elsewhere(k)
      BY <1>2, <1>3, <1>7, <2>4, Zenon DEF RowType, Elsewhere, Counts
    <2> QED
      BY <1>1, <2>5, <2>6, OneRowMoves, Zenon DEF Moves
  <1> QED
    BY <1>4, <1>5, <1>6, <1>7, Zenon DEF UpdateInput

\* An acknowledgement of what the row already says.
LEMMA AcknowledgedMoves ==
    ASSUME Rows, NEW k \in Task, UNCHANGED <<task, receipt, lastClaim, published>>,
           stopped' = stopped \cup {k},
           task[k].status \in Final \/ (Live(k) /\ task[k].cancel)
    PROVE  RowStep
  <1>1. Same(k) /\ Elsewhere(k)
    BY Zenon DEF Same, Elsewhere
  <1>2. RowType'
    BY Zenon DEF Rows, RowType, Counts
  <1> QED
    BY <1>1, <1>2, OneRowMoves, Zenon DEF Moves

\* cancel acknowledges only a row that has ended.
LEMMA CancelReadsMoves ==
    ASSUME Rows, NEW c \in Canceller, NEW k \in Task, CancelReads(c, k)
    PROVE  RowStep
  <1>1. Get(k) /\ UNCHANGED <<lastClaim, published>> /\ task[k].status # "absent"
    BY Zenon DEF CancelReads
  <1>2. CASE UNCHANGED stopped
    BY <1>1, <1>2, GetMoves, Zenon
  <1>3. CASE stopped' = stopped \cup {k} /\ task'[k].status \notin {"working", "input"}
    <2>1. CASE Live(k) /\ Expired(k)
      BY <1>1, <1>3, <2>1, EndMoves, Zenon DEF Get, Final
    <2>2. CASE ~(Live(k) /\ Expired(k))
      <3>1. UNCHANGED <<task, receipt>>
        BY <1>1, <2>2, Zenon DEF Get
      <3>2. task[k].status \in Final
        BY <1>1, <1>3, <3>1, Zenon DEF Rows, RowType, Row, Final
      <3> QED
        BY <1>1, <1>3, <3>1, <3>2, AcknowledgedMoves, Zenon
    <2> QED
      BY <2>1, <2>2, Zenon
  <1> QED
    BY <1>2, <1>3, Zenon DEF CancelReads

\* cancel_atomic acknowledges a row that has ended, or records the request.
LEMMA CancelAtomicMoves ==
    ASSUME Rows, ClientType, NEW c \in Canceller, CancelAtomic(c)
    PROVE  RowStep
  <1> DEFINE k == client[c].task
  <1>1. k \in Task
    BY ClientFields, Zenon DEF Client
  <1>2. RowType /\ RowFields(k) /\ LeaseOK(k)
    BY <1>1, FieldsOfRow, Zenon DEF Rows, RowOK
  <1>3. UNCHANGED <<lastClaim, published>>
    BY Zenon DEF CancelAtomic
  <1>9. stopped' = stopped \/ stopped' = stopped \cup {k}
    BY Zenon DEF CancelAtomic, CancelAnswered, Acknowledge
  <1>4. CASE UNCHANGED <<task, receipt, stopped>>
    BY <1>3, <1>4, NoRowMoves, Zenon
  <1>5. CASE /\ UNCHANGED <<task, receipt>> /\ stopped' = stopped \cup {k}
             /\ Terminal(k) \/ (Live(k) /\ task[k].cancel)
    BY <1>1, <1>3, <1>5, AcknowledgedMoves, Zenon DEF Terminal, Final
  <1>6. CASE Live(k) /\ End(k, "expired")
    BY <1>1, <1>3, <1>6, <1>9, EndMoves, Zenon DEF Final
  <1>7. CASE Live(k) /\ End(k, "cancelled")
    BY <1>1, <1>3, <1>7, <1>9, EndMoves, Zenon DEF Final
  <1>8. CASE /\ Live(k) /\ ~task[k].cancel /\ Leased(k)
             /\ task' = [task EXCEPT ![k] =
                    [Moved(k, task[k].status, task[k].lease) EXCEPT !.cancel = TRUE]]
             /\ UNCHANGED receipt
    <2> DEFINE n == Moved(k, task[k].status, task[k].lease)
               m == [n EXCEPT !.cancel = TRUE]
    <2>1. task[k].status \in Status /\ task[k].lease \in Lease
      BY <1>1, <1>2, Zenon DEF RowType, Row, Status, Lease
    <2>2. /\ n \in Row /\ n.status = task[k].status /\ n.generation = task[k].generation
          /\ n.version = task[k].version + 1 /\ n.lease = task[k].lease
      <3>1. MovedFields(k, task[k].status, task[k].lease)
        BY <1>1, <1>2, <2>1, MovedRow, Zenon
      <3> QED
        BY <3>1, Zenon DEF MovedFields
    <2> HIDE DEF n
    <2>3. /\ m \in Row /\ m.status = task[k].status /\ m.generation = task[k].generation
          /\ m.version = task[k].version + 1 /\ m.lease = task[k].lease /\ m.cancel
      BY <2>2, Zenon DEF Row
    <2>4. task' = [task EXCEPT ![k] = m]
      BY <1>8, Zenon DEF n
    <2> HIDE DEF m, k
    <2>5. /\ task' \in [Task -> Row] /\ task'[k] = m
          /\ \A q \in Task \ {k} : task'[q] = task[q]
      BY <1>1, <1>2, <2>3, <2>4, RowChanges, Zenon
    <2>6. CancelRequested(k)
      BY <1>3, <1>8, <2>3, <2>5, Zenon DEF CancelRequested
    <2>7. RowType' /\ Elsewhere(k)
      BY <1>1, <1>2, <1>3, <1>8, <1>9, <2>5 DEF RowType, Elsewhere, Counts
    <2> QED
      BY <1>1, <2>6, <2>7, OneRowMoves, Zenon DEF Moves
  <1>10. CASE /\ ~Unchanged(c) \/ Terminal(k) \/ (Live(k) /\ task[k].cancel)
              /\ UNCHANGED <<task, receipt>>
    <2>1. UNCHANGED stopped \/ Terminal(k) \/ (Live(k) /\ task[k].cancel)
      BY <1>10, Zenon DEF CancelAtomic, CancelAnswered, Acknowledge
    <2> QED
      BY <1>4, <1>5, <1>9, <1>10, <2>1, Zenon
  <1> QED
    BY <1>6, <1>7, <1>8, <1>10, Zenon DEF CancelAtomic

\* The types of what a worker has in hand.
LEMMA WorkerFields ==
    ASSUME JobType, NEW w \in Worker
    PROVE  /\ worker[w].task \in Task /\ worker[w].at \in Nat /\ worker[w].version \in Nat
           /\ worker[w].pc # "idle" => worker[w].generation \in Generation
           /\ worker[w].owned => worker[w].pc # "idle"
           /\ worker[w].pc = "settling" => worker[w].out \in {"completed", "failed", "cancelled"}
  BY Zenon DEF JobType, WorkerState

\* claim_execution claims or ends the row, or does nothing.
LEMMA ClaimExecutionMoves ==
    ASSUME Rows, JobType, NEW w \in Worker, ClaimExecution(w)
    PROVE  RowStep
  <1> DEFINE k == worker[w].task
             g == worker[w].generation
             at == lastClaim[k][g] + 1
  <1>1. k \in Task /\ g \in Generation
    BY WorkerFields, Zenon DEF ClaimExecution
  <1>2. RowType /\ RowFields(k) /\ LeaseOK(k) /\ at \in Nat
    BY <1>1, FieldsOfRow DEF Rows, RowOK
  <1>3. UNCHANGED <<published, stopped>>
    BY Zenon DEF ClaimExecution
  <1>4. CASE UNCHANGED <<task, receipt, lastClaim>>
    BY <1>3, <1>4, NoRowMoves, Zenon
  <1>5. CASE /\ Claimable(k, g)
             /\ task' = [task EXCEPT ![k] =
                    Moved(k, IF Expired(k) THEN "expired" ELSE "cancelled", NoLease)]
             /\ receipt' = [receipt EXCEPT ![k][g] = "done"]
             /\ UNCHANGED lastClaim
    <2> DEFINE status == IF Expired(k) THEN "expired" ELSE "cancelled"
               m == Moved(k, status, NoLease)
    <2>1. status \in Status /\ status \in Final
      BY Zenon DEF Status, Final
    <2>2. task' = [task EXCEPT ![k] = m] /\ task[k].status = "working" /\ task[k].generation = g
      BY <1>5, Zenon DEF Claimable
    <2> HIDE DEF status
    <2>3. m \in Row /\ m.status = status /\ m.generation = task[k].generation /\ m.lease.at = 0
      BY <1>1, <1>2, <2>1, FreedRow
    <2> HIDE DEF m
    <2>4. /\ task' \in [Task -> Row] /\ task'[k] = m
          /\ \A q \in Task \ {k} : task'[q] = task[q]
      BY <1>1, <1>2, <2>2, <2>3, RowChanges, Zenon
    <2>5. /\ receipt' \in [Task -> [Generation -> {"none", "open", "done"}]]
          /\ \A h \in Generation : receipt'[k][h] = IF h = g THEN "done" ELSE receipt[k][h]
          /\ \A q \in Task \ {k} : receipt'[q] = receipt[q]
      BY <1>1, <1>2, <1>5, ReceiptChanges, Zenon
    <2> HIDE DEF k, g
    <2>6. Ends(k)
      <3>1. /\ Live(k) /\ task'[k].status \in Final /\ task'[k].lease.at = 0
            /\ task'[k].generation = task[k].generation
        BY <2>1, <2>2, <2>3, <2>4, Zenon DEF Live
      <3>2. lastClaim'[k] = lastClaim[k] /\ published'[k] = published[k] /\ task[k].generation = g
        BY <1>3, <1>5, <2>2, Zenon
      <3> QED
        BY <2>5, <3>1, <3>2 DEF Ends
    <2>7. RowType' /\ Elsewhere(k)
      BY <1>2, <1>3, <1>5, <2>4, <2>5, Zenon DEF RowType, Elsewhere, Counts
    <2> QED
      BY <1>1, <2>6, <2>7, OneRowMoves, Zenon DEF Moves
  <1>6. CASE /\ Claimable(k, g) /\ ~task[k].cancel
             /\ receipt' = [receipt EXCEPT ![k][g] = "open"]
             /\ task' = [task EXCEPT ![k].lease =
                    [at |-> at, version |-> task[k].version,
                     left |-> Least(JobTimeout, task[k].ttl)]]
             /\ lastClaim' = [lastClaim EXCEPT ![k][g] = at]
    <2> DEFINE l == [at |-> at, version |-> task[k].version,
                     left |-> Least(JobTimeout, task[k].ttl)]
               m == [task[k] EXCEPT !.lease = l]
    <2>1. Least(JobTimeout, task[k].ttl) \in 0..JobTimeout
      BY <1>1, <1>2, McpTasksAssumption DEF Least, RowType, Row
    <2>2. l \in Lease /\ l.at = at /\ l.version = task[k].version
      BY <1>2, <2>1, Zenon DEF Lease, RowFields
    <2> HIDE DEF l, at
    <2>3. /\ m \in Row /\ m.status = task[k].status /\ m.generation = task[k].generation
          /\ m.version = task[k].version /\ m.cancel = task[k].cancel /\ m.lease = l
      BY <1>1, <1>2, <2>2, LeasedRow DEF RowType
    <2>4. task' = [task EXCEPT ![k] = m] /\ task[k].status = "working" /\ task[k].generation = g
      BY <1>6, Zenon DEF Claimable, l
    <2> HIDE DEF m, k, g
    <2>5. /\ task' \in [Task -> Row] /\ task'[k] = m
          /\ \A q \in Task \ {k} : task'[q] = task[q]
      BY <1>1, <1>2, <2>3, <2>4, RowChanges, Zenon
    <2>6. /\ receipt' \in [Task -> [Generation -> {"none", "open", "done"}]]
          /\ \A h \in Generation : receipt'[k][h] = IF h = g THEN "open" ELSE receipt[k][h]
          /\ \A q \in Task \ {k} : receipt'[q] = receipt[q]
      BY <1>1, <1>2, <1>6, ReceiptChanges, Zenon
    <2>7. /\ lastClaim' \in Counts
          /\ \A h \in Generation : lastClaim'[k][h] = IF h = g THEN at ELSE lastClaim[k][h]
          /\ \A q \in Task \ {k} : lastClaim'[q] = lastClaim[q]
      BY <1>1, <1>2, <1>6, ClaimChanges, Zenon
    <2>8. at = lastClaim[k][task[k].generation] + 1
      BY <2>4, Zenon DEF at
    <2>9. Claimed(k)
      BY <1>3, <1>6, <2>2, <2>3, <2>4, <2>5, <2>6, <2>7, <2>8 DEF Claimed
    <2>10. RowType' /\ Elsewhere(k)
      BY <1>2, <1>3, <2>5, <2>6, <2>7, Zenon DEF RowType, Elsewhere
    <2> QED
      BY <1>1, <2>9, <2>10, OneRowMoves, Zenon DEF Moves
  <1> QED
    BY <1>4, <1>5, <1>6, Zenon DEF ClaimExecution

\* A task that ends with the outcome of the worker that holds its lease.
LEMMA PublishedEndMoves ==
    ASSUME Rows, JobType, NEW w \in Worker, worker[w].pc # "idle",
           NEW status \in Final, Live(worker[w].task), End(worker[w].task, status),
           ExactLease(w), Publish(w), UNCHANGED <<lastClaim, stopped>>
    PROVE  RowStep
  <1> DEFINE k == worker[w].task
             g == worker[w].generation
             at == worker[w].at
  <1>1. k \in Task /\ g \in Generation /\ at \in Nat
    BY WorkerFields, Zenon
  <1>2. RowType
    BY Zenon DEF Rows
  <1>3. Leased(k) /\ task[k].generation = g /\ task[k].lease.at = at
    BY Zenon DEF ExactLease
  <1>4. published' = [published EXCEPT ![k][g] = @ \cup {at}]
    BY Zenon DEF Publish
  <1>5. Live(k) /\ End(k, status)
    BY Zenon
  <1> HIDE DEF k, g, at
  <1>6. /\ published' \in [Task -> [Generation -> SUBSET Nat]]
        /\ \A h \in Generation :
              published'[k][h] = IF h = g THEN published[k][h] \cup {at} ELSE published[k][h]
        /\ \A q \in Task \ {k} : published'[q] = published[q]
    BY <1>1, <1>2, <1>4, PublishedChanges, Zenon
  <1>7. Ends(k)
    BY <1>1, <1>3, <1>5, <1>6, EndFacts, ZenonT(40) DEF Ends
  <1>8. RowType' /\ Elsewhere(k)
    BY <1>1, <1>2, <1>5, <1>6, EndFacts, ZenonT(40) DEF RowType, Elsewhere, Counts
  <1> QED
    BY <1>1, <1>7, <1>8, OneRowMoves, Zenon DEF Moves

\* abandon_execution releases or ends the row under its own lease, or does nothing.
LEMMA AbandonExecutionMoves ==
    ASSUME Rows, JobType, NEW w \in Worker, AbandonExecution(w)
    PROVE  RowStep
  <1> DEFINE k == worker[w].task
             g == worker[w].generation
  <1>0. worker[w].pc # "idle"
    BY Zenon DEF AbandonExecution
  <1>1. k \in Task /\ g \in Generation
    BY <1>0, WorkerFields, Zenon
  <1>2. RowType /\ RowFields(k) /\ LeaseOK(k)
    BY <1>1, FieldsOfRow, Zenon DEF Rows, RowOK
  <1>3. UNCHANGED <<lastClaim, stopped>>
    BY Zenon DEF AbandonExecution
  <1>4. CASE UNCHANGED <<task, receipt, published>>
    BY <1>3, <1>4, NoRowMoves
  <1>5. CASE /\ ExactLease(w) /\ task[k].version = worker[w].version
             /\ receipt' = [receipt EXCEPT ![k][g] = "none"]
             /\ task' = [task EXCEPT ![k].lease = NoLease]
             /\ UNCHANGED published
    <2> DEFINE m == [task[k] EXCEPT !.lease = NoLease]
    <2>1. Leased(k) /\ task[k].generation = g /\ task[k].version = task[k].lease.version
      BY <1>5, Zenon DEF ExactLease
    <2>2. /\ m \in Row /\ m.status = task[k].status /\ m.generation = task[k].generation
          /\ m.cancel = task[k].cancel /\ m.lease.at = 0
      BY <1>1, <1>2, LeasedRow, NoLeaseIsLease DEF RowType
    <2>3. task' = [task EXCEPT ![k] = m]
      BY <1>5, Zenon
    <2> HIDE DEF m, k, g
    <2>4. /\ task' \in [Task -> Row] /\ task'[k] = m
          /\ \A q \in Task \ {k} : task'[q] = task[q]
      BY <1>1, <1>2, <2>2, <2>3, RowChanges, Zenon
    <2>5. /\ receipt' \in [Task -> [Generation -> {"none", "open", "done"}]]
          /\ \A h \in Generation : receipt'[k][h] = IF h = g THEN "none" ELSE receipt[k][h]
          /\ \A q \in Task \ {k} : receipt'[q] = receipt[q]
      BY <1>1, <1>2, <1>5, ReceiptChanges, Zenon
    <2>6. Released(k)
      BY <1>3, <1>5, <2>1, <2>2, <2>4, <2>5, ZenonT(40) DEF Released
    <2>7. RowType' /\ Elsewhere(k)
      BY <1>2, <1>3, <1>5, <2>4, <2>5, Zenon DEF RowType, Elsewhere, Counts
    <2> QED
      BY <1>1, <2>6, <2>7, OneRowMoves, Zenon DEF Moves
  <1>6. CASE ExactLease(w) /\ End(k, "cancelled") /\ Publish(w)
    <2>1. Live(k) /\ "cancelled" \in Final
      BY <1>2, <1>6, Zenon DEF ExactLease, LeaseOK, Live, Final
    <2> QED
      BY <1>0, <1>3, <1>6, <2>1, PublishedEndMoves, Zenon
  <1> QED
    BY <1>4, <1>5, <1>6, Zenon DEF AbandonExecution

\* require_input asks under its own lease, or does nothing.
LEMMA RequireInputMoves ==
    ASSUME Rows, JobType, NEW w \in Worker, RequireInput(w)
    PROVE  RowStep
  <1> DEFINE k == worker[w].task
             g == worker[w].generation
             at == worker[w].at
  <1>1. k \in Task /\ g \in Generation /\ at \in Nat
    BY WorkerFields, Zenon DEF RequireInput
  <1>2. RowType /\ RowFields(k) /\ LeaseOK(k)
    BY <1>1, FieldsOfRow, Zenon DEF Rows, RowOK
  <1>3. UNCHANGED <<lastClaim, stopped>>
    BY Zenon DEF RequireInput
  <1>4. CASE UNCHANGED <<task, receipt, published>>
    BY <1>3, <1>4, NoRowMoves
  <1>5. CASE /\ MayPause(w)
             /\ task' = [task EXCEPT ![k] =
                    [Moved(k, "input", NoLease) EXCEPT !.pending = InputKey]]
             /\ FinishReceipt(k) /\ Publish(w)
    <2> DEFINE n == Moved(k, "input", NoLease)
               m == [n EXCEPT !.pending = InputKey]
    <2>1. Leased(k) /\ task[k].generation = g /\ task[k].lease.at = at /\ ~task[k].cancel
      BY <1>5, Zenon DEF MayPause, ExactLease
    <2>2. /\ n \in Row /\ n.status = "input" /\ n.generation = task[k].generation
          /\ n.lease.at = 0 /\ n.cancel = (task[k].cancel \/ "input" = "cancelled")
      BY <1>1, <1>2, FreedRow DEF Status
    <2>3. ~n.cancel
      BY <2>1, <2>2, Zenon
    <2>4. task' = [task EXCEPT ![k] = m]
      BY <1>5, Zenon
    <2>5. receipt' = [receipt EXCEPT ![k][g] = "done"]
      BY <1>5, <2>1, Zenon DEF FinishReceipt
    <2>6. published' = [published EXCEPT ![k][g] = @ \cup {at}]
      BY <1>5, Zenon DEF Publish
    <2> HIDE DEF n, k, g, at
    <2>7. /\ m \in Row /\ m.status = "input" /\ m.generation = task[k].generation
          /\ m.lease.at = 0 /\ ~m.cancel
      BY <2>2, <2>3 DEF Row
    <2> HIDE DEF m
    <2>8. /\ task' \in [Task -> Row] /\ task'[k] = m
          /\ \A q \in Task \ {k} : task'[q] = task[q]
      BY <1>1, <1>2, <2>4, <2>7, RowChanges, Zenon
    <2>9. /\ receipt' \in [Task -> [Generation -> {"none", "open", "done"}]]
          /\ \A h \in Generation : receipt'[k][h] = IF h = g THEN "done" ELSE receipt[k][h]
          /\ \A q \in Task \ {k} : receipt'[q] = receipt[q]
      BY <1>1, <1>2, <2>5, ReceiptChanges, Zenon
    <2>10. /\ published' \in [Task -> [Generation -> SUBSET Nat]]
           /\ \A h \in Generation :
                 published'[k][h] = IF h = g THEN published[k][h] \cup {at} ELSE published[k][h]
           /\ \A q \in Task \ {k} : published'[q] = published[q]
      BY <1>1, <1>2, <2>6, PublishedChanges, Zenon
    <2>11. Asks(k)
      BY <1>3, <2>1, <2>7, <2>8, <2>9, <2>10, Zenon DEF Asks
    <2>12. RowType' /\ Elsewhere(k)
      BY <1>2, <1>3, <2>8, <2>9, <2>10, Zenon DEF RowType, Elsewhere, Counts
    <2> QED
      BY <1>1, <2>11, <2>12, OneRowMoves, Zenon DEF Moves
  <1> QED
    BY <1>4, <1>5, Zenon DEF RequireInput

\* settle_execution ends the row under its own lease, or does nothing.
LEMMA SettleExecutionMoves ==
    ASSUME Rows, JobType, NEW w \in Worker, SettleExecution(w)
    PROVE  RowStep
  <1> DEFINE k == worker[w].task
             status == IF Expired(k) THEN "expired" ELSE worker[w].out
  <1>1. worker[w].pc = "settling" /\ status \in Final
    BY WorkerFields, Zenon DEF SettleExecution, Final
  <1>2. UNCHANGED <<lastClaim, stopped>>
    BY Zenon DEF SettleExecution
  <1>3. CASE UNCHANGED <<task, receipt, published>>
    BY <1>2, <1>3, NoRowMoves
  <1>4. CASE ExactLease(w) /\ task[k].status = "working" /\ End(k, status) /\ Publish(w)
    BY <1>1, <1>2, <1>4, PublishedEndMoves, Zenon DEF Live
  <1> QED
    BY <1>3, <1>4, Zenon DEF SettleExecution

\* The inbox forgets processed receipts only.
LEMMA ForgetReceiptMoves ==
    ASSUME Rows, NEW k \in Task, NEW g \in Generation, ForgetReceipt(k, g)
    PROVE  RowStep
  <1>1. RowType /\ UNCHANGED <<task, lastClaim, published, stopped>> /\ receipt[k][g] = "done"
    BY Zenon DEF Rows, ForgetReceipt, history
  <1>2. /\ receipt' \in [Task -> [Generation -> {"none", "open", "done"}]]
        /\ \A h \in Generation : receipt'[k][h] = IF h = g THEN "none" ELSE receipt[k][h]
        /\ \A q \in Task \ {k} : receipt'[q] = receipt[q]
    BY <1>1, ReceiptChanges, Zenon DEF ForgetReceipt
  <1>3. Same(k) /\ Elsewhere(k)
    BY <1>1, <1>2, Zenon DEF Same, Elsewhere
  <1>4. RowType'
    BY <1>1, <1>2, Zenon DEF RowType, Counts
  <1> QED
    BY <1>3, <1>4, OneRowMoves, Zenon DEF Moves

\* Time left stays in its range.
LEMMA LessIsLess ==
    ASSUME NEW m \in Nat, NEW n \in 0..m
    PROVE  Less(n) \in 0..m
  BY DEF Less

\* Time moves no row.
LEMMA ElapseMoves ==
    ASSUME Rows, Elapse
    PROVE  RowStep
  <1>1. RowType /\ UNCHANGED <<receipt, lastClaim, published, stopped>>
    BY Zenon DEF Rows, Elapse, history
  <1>2. ASSUME NEW k \in Task
        PROVE  task'[k] \in Row /\ Same(k)
    <2> DEFINE r == task[k]
               l == [r.lease EXCEPT !.left = Less(r.lease.left)]
               t == Less(r.ttl)
               m == [r EXCEPT !.ttl = t, !.lease = l]
    <2>1. r \in Row /\ r.lease \in Lease
      BY <1>1, Zenon DEF RowType, Row, Lease
    <2>2. task'[k] = [r EXCEPT !.ttl = t, !.lease.left = Less(r.lease.left)]
      BY <1>1, Zenon DEF Elapse, RowType, Row
    <2>3. t \in 0..Ttl /\ Less(r.lease.left) \in 0..JobTimeout
      BY <2>1, LessIsLess, McpTasksAssumption, Zenon DEF Row, Lease
    <2>4. task'[k] = m
      BY <2>1, <2>2, Zenon DEF Row
    <2> HIDE DEF t
    <2>5. l \in Lease /\ l.at = r.lease.at /\ l.version = r.lease.version
      BY <2>1, <2>3, Zenon DEF Lease
    <2> HIDE DEF l, r
    <2>6. m \in Row
      BY <2>1, <2>3, <2>5, Zenon DEF Row, Lease
    <2>7. m.status = r.status /\ m.generation = r.generation /\ m.version = r.version /\ m.lease = l
      BY <2>1 DEF Row
    <2>8. m.cancel = r.cancel
      BY <2>1 DEF Row
    <2> HIDE DEF m
    <2>9. Same(k)
      BY <1>1, <2>4, <2>5, <2>7, <2>8, Zenon DEF Same, r
    <2> QED
      BY <2>4, <2>6, <2>9, Zenon
  <1>3. task' \in [Task -> Row]
    BY <1>2, Zenon DEF Elapse
  <1> QED
    BY <1>1, <1>2, <1>3, Zenon DEF RowStep, Moves, RowType, Counts

-----------------------------------------------------------------------------
(* The jobs.                                                               *)

Holds(w, k, g) ==
    /\ worker[w].pc # "idle" /\ worker[w].owned
    /\ worker[w].task = k /\ worker[w].generation = g

\* A message of the job is visible.
Queued(k, g) == \E n \in Reads : queue[<<k, g, n>>] > 0

\* What OnlyStaleAnswersStrand asks of a working task.
JobOf(k, g) ==
    \/ <<k, g>> \in intents \cup dead \cup strayed \/ Queued(k, g)
    \/ \E w \in Worker : Holds(w, k, g)

\* A task that stays working in its generation keeps its job.
JobsKept ==
    \A k \in Task, g \in Generation :
       /\ task[k].status = "working" /\ task[k].generation = g /\ JobOf(k, g)
       /\ task'[k].status = "working" /\ task'[k].generation = g
       => JobOf(k, g)'

JobStep == JobType' /\ JobsKept

\* What happens to the jobs that are not w's own.
OthersKept(w) ==
    \A k \in Task, g \in Generation :
       JobOf(k, g) /\ ~(k = worker[w].task /\ g = worker[w].generation) => JobOf(k, g)'

AllKept == \A k \in Task, g \in Generation : JobOf(k, g) => JobOf(k, g)'

WorkerOK(m) ==
    /\ m \in WorkerState
    /\ m.pc # "idle" => m.generation \in Generation
    /\ m.owned => m.pc # "idle"
    /\ m.pc = "settling" => m.out \in {"completed", "failed", "cancelled"}

\* The facts of JobType about one worker.
LEMMA WorkersAreOK ==
    ASSUME JobType, NEW w \in Worker
    PROVE  WorkerOK(worker[w])
  BY Zenon DEF JobType, WorkerOK

\* A worker at rest.
LEMMA RestingIsOK ==
    WorkerOK(Resting) /\ Resting.pc = "idle" /\ ~Resting.owned /\ Resting.out = "none"
  <1>1. (CHOOSE k \in Task : TRUE) \in Task
    BY McpTasksAssumption, Zenon
  <1>2. 0 \in 0..MaxGeneration /\ 0 \in 0..(JobTimeout + Grace) /\ 0 \in Reads
    BY McpTasksAssumption DEF Reads
  <1> QED
    BY <1>1, <1>2, Zenon DEF Resting, WorkerOK, WorkerState

\* The update of one worker.
LEMMA WorkerChanges ==
    ASSUME JobType, NEW w \in Worker, NEW m, WorkerOK(m), worker' = [worker EXCEPT ![w] = m]
    PROVE  /\ worker' \in [Worker -> WorkerState]
           /\ \A v \in Worker : WorkerOK(worker'[v])
           /\ worker'[w] = m /\ \A v \in Worker \ {w} : worker'[v] = worker[v]
  <1>1. worker' \in [Worker -> WorkerState]
    BY Zenon DEF JobType, WorkerOK
  <1>2. worker'[w] = m /\ \A v \in Worker \ {w} : worker'[v] = worker[v]
    BY Zenon DEF JobType
  <1>3. \A v \in Worker : WorkerOK(worker'[v])
    BY <1>2, WorkersAreOK, Zenon
  <1> QED
    BY <1>1, <1>2, <1>3, Zenon

\* The queue when a message of <<k, g>> is made visible again.
LEMMA QueueGrows ==
    ASSUME JobType, NEW k \in Task, NEW g \in Generation, NEW n \in Reads,
           queue' = [queue EXCEPT ![<<k, g, n>>] = @ + 1]
    PROVE  /\ queue' \in Queues /\ Queued(k, g)'
           /\ \A q \in Task, h \in Generation : Queued(q, h) => Queued(q, h)'
  <1> DEFINE m == <<k, g, n>>
             v == queue[m] + 1
  <1>1. queue \in Queues /\ m \in Task \X Generation \X Reads
    BY DEF JobType
  <1>2. queue[m] \in Nat
    BY <1>1, Zenon DEF Queues
  <1>3. v \in Nat /\ v > 0
    BY <1>2
  <1>4. queue' = [queue EXCEPT ![m] = v]
    BY Zenon
  <1> HIDE DEF v, m
  <1>5. /\ queue' \in Queues /\ queue'[m] = v
        /\ \A i \in Task \X Generation \X Reads : i # m => queue'[i] = queue[i]
    BY <1>1, <1>3, <1>4, Zenon DEF Queues
  <1>6. Queued(k, g)'
    BY <1>3, <1>5, Zenon DEF Queued, m
  <1>7. ASSUME NEW q \in Task, NEW h \in Generation, NEW i \in Reads, queue[<<q, h, i>>] > 0
        PROVE  queue'[<<q, h, i>>] > 0
    <2>1. <<q, h, i>> \in Task \X Generation \X Reads
      OBVIOUS
    <2> QED
      BY <1>3, <1>5, <1>7, <2>1, Zenon
  <1> QED
    BY <1>5, <1>6, <1>7, Zenon DEF Queued

\* Everything a job may rest on but one worker.
LEMMA OthersKeep ==
    ASSUME NEW w \in Worker, intents \subseteq intents', dead \subseteq dead',
           strayed \subseteq strayed',
           \A v \in Worker \ {w} : worker'[v] = worker[v],
           \A q \in Task, h \in Generation : Queued(q, h) => Queued(q, h)'
    PROVE  \A k \in Task, g \in Generation : JobOf(k, g) => JobOf(k, g)' \/ Holds(w, k, g)
  <1> SUFFICES ASSUME NEW k \in Task, NEW g \in Generation, JobOf(k, g)
               PROVE  JobOf(k, g)' \/ Holds(w, k, g)
    BY Zenon
  <1>1. CASE <<k, g>> \in intents \cup dead \cup strayed
    BY <1>1, Zenon DEF JobOf
  <1>2. CASE Queued(k, g)
    BY <1>2, Zenon DEF JobOf
  <1>3. ASSUME NEW v \in Worker \ {w}, Holds(v, k, g) PROVE JobOf(k, g)'
    BY <1>3, Zenon DEF JobOf, Holds
  <1> QED
    BY <1>1, <1>2, <1>3, Zenon DEF JobOf

JobTypeFrom ==
    /\ queue' \in Queues
    /\ intents' \subseteq Task \X Generation /\ dead' \subseteq Task \X Generation
    /\ strayed' \subseteq Task \X Generation
    /\ worker' \in [Worker -> WorkerState] /\ (\A v \in Worker : WorkerOK(worker'[v]))
    /\ faults' \in 0..MaxFaults

\* JobType after a step, from the facts about each worker.
LEMMA JobTypeFollows ==
    ASSUME JobTypeFrom
    PROVE  JobType'
  BY Zenon DEF JobTypeFrom, JobType, WorkerOK

\* A step that loses no job.
LEMMA AllKeptIsStep ==
    ASSUME JobType', AllKept
    PROVE  JobStep
  BY Zenon DEF AllKept, JobStep, JobsKept

\* The outcomes a handler returns.
Outcome == {"succeeded", "retryable", "cancelled", "permanent"}

\* A settlement loses no job but the one a success archives.
LEMMA ReturnsKeeps ==
    ASSUME JobType, NEW w \in Worker, worker[w].pc # "idle", NEW o \in Outcome, Returns(w, o),
           strayed \subseteq strayed', strayed' \subseteq Task \X Generation,
           faults' \in 0..MaxFaults
    PROVE  JobType' /\ OthersKept(w) /\ (o # "succeeded" => AllKept)
  <1> DEFINE k == worker[w].task
             g == worker[w].generation
             again == \/ o = "cancelled"
                      \/ o = "retryable" /\ worker[w].read < MaxDeliveries
             over == \/ o = "permanent"
                     \/ o = "retryable" /\ worker[w].read = MaxDeliveries
  <1>1. k \in Task /\ g \in Generation /\ worker[w].owned \in BOOLEAN
        /\ worker[w].read \in Reads
    BY WorkerFields, Zenon DEF JobType, WorkerState
  <1>2. worker' = [worker EXCEPT ![w] = Resting] /\ UNCHANGED intents
    BY Zenon DEF Returns
  <1>3. /\ worker' \in [Worker -> WorkerState] /\ \A v \in Worker : WorkerOK(worker'[v])
        /\ \A v \in Worker \ {w} : worker'[v] = worker[v]
    BY <1>2, WorkerChanges, RestingIsOK, Zenon
  <1>4. /\ queue' \in Queues
        /\ \A q \in Task, h \in Generation : Queued(q, h) => Queued(q, h)'
        /\ worker[w].owned /\ again =>
              \A q \in Task, h \in Generation : q = k /\ h = g => Queued(q, h)'
    <2>1. CASE worker[w].owned /\ again
      <3>1. queue' = [queue EXCEPT ![<<k, g, worker[w].read>>] = @ + 1]
        BY <2>1, Zenon DEF Returns, PutBack
      <3>2. PICK q \in Task, h \in Generation, i \in Reads :
                   q = k /\ h = g /\ i = worker[w].read
        BY <1>1, Zenon
      <3>3. queue' = [queue EXCEPT ![<<q, h, i>>] = @ + 1]
        BY <3>1, <3>2, Zenon
      <3>4. /\ queue' \in Queues /\ Queued(q, h)'
            /\ \A p \in Task, f \in Generation : Queued(p, f) => Queued(p, f)'
        BY <3>3, QueueGrows, Zenon
      <3> QED
        BY <3>2, <3>4, Zenon
    <2>2. CASE ~(worker[w].owned /\ again)
      <3>1. UNCHANGED queue
        BY <2>2, Zenon DEF Returns
      <3> QED
        BY <2>2, <3>1, Zenon DEF Queued, JobType
    <2> QED
      BY <2>1, <2>2, Zenon
  <1>5. /\ dead \subseteq dead' /\ dead' \subseteq Task \X Generation
        /\ worker[w].owned /\ over => <<k, g>> \in dead'
    BY <1>1 DEF Returns, JobType
  <1>0. o = "succeeded" \/ again \/ over
    BY <1>1, McpTasksAssumption DEF Outcome, Reads
  <1> HIDE DEF again, over
  <1>6. JobType'
    BY <1>2, <1>3, <1>4, <1>5, JobTypeFollows, Zenon DEF JobType, JobTypeFrom
  <1>7. \A q \in Task, h \in Generation : JobOf(q, h) => JobOf(q, h)' \/ Holds(w, q, h)
    BY <1>2, <1>3, <1>4, <1>5, OthersKeep, Zenon
  <1>8. OthersKept(w)
    BY <1>7, Zenon DEF OthersKept, Holds
  <1>9. ASSUME NEW q \in Task, NEW h \in Generation, o # "succeeded", Holds(w, q, h)
        PROVE  JobOf(q, h)'
    <2>1. q = k /\ h = g /\ worker[w].owned
      BY <1>9, Zenon DEF Holds
    <2>2. Queued(q, h)' \/ <<q, h>> \in dead'
      BY <1>0, <1>4, <1>5, <1>9, <2>1, Zenon
    <2> QED
      BY <2>2, Zenon DEF JobOf
  <1>10. ASSUME o # "succeeded" PROVE AllKept
    BY <1>7, <1>9, <1>10, Zenon DEF AllKept
  <1> QED
    BY <1>6, <1>8, <1>10, Zenon

\* A worker that dies keeps its message hidden, and no job is lost.
LEMMA DiesKeeps ==
    ASSUME JobType, NEW w \in Worker, worker[w].pc # "idle", Dies(w),
           strayed \subseteq strayed', strayed' \subseteq Task \X Generation,
           faults' \in 0..MaxFaults
    PROVE  JobType' /\ AllKept
  <1> DEFINE k == worker[w].task
             g == worker[w].generation
             m == IF worker[w].owned
                  THEN [Resting EXCEPT !.pc = "gone", !.task = worker[w].task, !.vt = worker[w].vt,
                                       !.generation = worker[w].generation, !.read = worker[w].read,
                                       !.owned = TRUE]
                  ELSE Resting
  <1>1. worker' = [worker EXCEPT ![w] = m] /\ UNCHANGED <<intents, queue, dead>>
    BY DEF Dies, provider
  <1>2. /\ WorkerOK(m)
        /\ worker[w].owned => m.pc # "idle" /\ m.owned /\ m.task = k /\ m.generation = g
    <2>1. CASE worker[w].owned
      <3>1. k \in Task /\ g \in Generation /\ g \in 0..MaxGeneration
            /\ worker[w].vt \in 0..(JobTimeout + Grace) /\ worker[w].read \in Reads
        BY WorkerFields, Zenon DEF JobType, WorkerState
      <3>2. Resting \in WorkerState
        BY RestingIsOK, Zenon DEF WorkerOK
      <3>3. m = [Resting EXCEPT !.pc = "gone", !.task = k, !.vt = worker[w].vt,
                                !.generation = g, !.read = worker[w].read, !.owned = TRUE]
        BY <2>1
      <3>4. m \in WorkerState /\ m.pc = "gone" /\ m.owned /\ m.task = k /\ m.generation = g
        BY <3>1, <3>2, <3>3, Zenon DEF WorkerState
      <3> QED
        BY <3>1, <3>4 DEF WorkerOK
    <2>2. CASE ~worker[w].owned
      BY <2>2, RestingIsOK
    <2> QED
      BY <2>1, <2>2, Zenon
  <1> HIDE DEF m
  <1>3. /\ worker' \in [Worker -> WorkerState] /\ \A v \in Worker : WorkerOK(worker'[v])
        /\ worker'[w] = m /\ \A v \in Worker \ {w} : worker'[v] = worker[v]
    BY <1>1, <1>2, WorkerChanges, Zenon
  <1>4. JobType'
    BY <1>1, <1>3, JobTypeFollows, Zenon DEF JobType, JobTypeFrom
  <1>5. \A q \in Task, h \in Generation : JobOf(q, h) => JobOf(q, h)' \/ Holds(w, q, h)
    BY <1>1, <1>3, OthersKeep, Zenon DEF Queued
  <1>6. \A q \in Task, h \in Generation : Holds(w, q, h) => Holds(w, q, h)'
    BY <1>2, <1>3, Zenon DEF Holds
  <1> QED
    BY <1>4, <1>5, <1>6, Zenon DEF AllKept, JobOf

\* A committed call loses no job but the one a success archives.
LEMMA AnsweredKeeps ==
    ASSUME JobType, NEW w \in Worker, worker[w].pc # "idle", NEW o \in Outcome, Answered(w, o),
           strayed \subseteq strayed', strayed' \subseteq Task \X Generation
    PROVE  JobType' /\ OthersKept(w) /\ (o # "succeeded" => AllKept)
  <1>1. CASE Returns(w, o) /\ UNCHANGED faults
    BY <1>1, ReturnsKeeps, Zenon DEF JobType
  <1>2. SpendFault => faults' \in 0..MaxFaults
    BY McpTasksAssumption DEF SpendFault, JobType
  <1>3. CASE Returns(w, "retryable") /\ SpendFault
    BY <1>2, <1>3, ReturnsKeeps, Zenon DEF Outcome
  <1>4. CASE Dies(w) /\ SpendFault
    BY <1>2, <1>4, DiesKeeps, Zenon DEF AllKept, OthersKept
  <1> QED
    BY <1>1, <1>3, <1>4, Zenon DEF Answered

\* A Stale answer archives the job of a working task only when it strays.
LEMMA StaleKeeps ==
    ASSUME JobType, NEW w \in Worker, worker[w].pc # "idle", Stale(w)
    PROVE  JobStep
  <1> DEFINE k == worker[w].task
             g == worker[w].generation
             lost == task[k].generation = g /\ task[k].status = "working" /\ worker[w].owned
  <1>1. k \in Task /\ g \in Generation /\ strayed \subseteq Task \X Generation
    BY WorkerFields, Zenon DEF JobType
  <1>2. SpendFault => faults' \in 0..MaxFaults
    BY McpTasksAssumption DEF SpendFault, JobType
  <1>3. CASE /\ Returns(w, "succeeded") /\ UNCHANGED faults
             /\ strayed' = IF lost THEN strayed \cup {<<k, g>>} ELSE strayed
    <2>1. /\ strayed \subseteq strayed' /\ strayed' \subseteq Task \X Generation
          /\ lost => <<k, g>> \in strayed'
      BY <1>1, <1>3
    <2>2. JobType' /\ OthersKept(w)
      BY <1>3, <2>1, ReturnsKeeps, Zenon DEF JobType, Outcome
    <2>3. /\ worker' = [worker EXCEPT ![w] = Resting] /\ queue' = queue /\ dead \subseteq dead'
          /\ intents' = intents
      BY <1>3, Zenon DEF Returns
    <2>4. \A v \in Worker \ {w} : worker'[v] = worker[v]
      BY <2>3, Zenon DEF JobType
    <2>5. ASSUME NEW q \in Task, NEW h \in Generation, q = k, h = g, JobOf(q, h),
                 task[q].status = "working", task[q].generation = h
          PROVE  JobOf(q, h)'
      <3>1. CASE worker[w].owned
        BY <2>1, <2>5, <3>1, Zenon DEF JobOf
      <3>2. CASE ~worker[w].owned
        <4>1. JobOf(q, h)' \/ Holds(w, q, h)
          BY <1>1, <2>1, <2>3, <2>4, <2>5, OthersKeep, Zenon DEF Queued
        <4> QED
          BY <3>2, <4>1, Zenon DEF Holds
      <3> QED
        BY <3>1, <3>2, Zenon
    <2> QED
      BY <2>2, <2>5, Zenon DEF JobStep, JobsKept, OthersKept
  <1>4. CASE Returns(w, "retryable") /\ SpendFault /\ UNCHANGED strayed
    BY <1>1, <1>2, <1>4, ReturnsKeeps, AllKeptIsStep, Zenon DEF Outcome
  <1>5. CASE Dies(w) /\ SpendFault /\ UNCHANGED strayed
    BY <1>1, <1>2, <1>5, DiesKeeps, AllKeptIsStep, Zenon
  <1> QED
    BY <1>3, <1>4, <1>5, Zenon DEF Stale

\* A worker that goes on with the same message.
LEMMA WorkerGoesOn ==
    ASSUME JobType, NEW w \in Worker, NEW m, WorkerOK(m),
           worker[w].pc # "idle", m.pc # "idle",
           m.task = worker[w].task, m.generation = worker[w].generation,
           m.owned = worker[w].owned, worker' = [worker EXCEPT ![w] = m],
           UNCHANGED <<intents, queue, dead>>, UNCHANGED strayed,
           faults' \in 0..MaxFaults
    PROVE  JobType' /\ AllKept
  <1>1. /\ worker' \in [Worker -> WorkerState] /\ \A v \in Worker : WorkerOK(worker'[v])
        /\ worker'[w] = m /\ \A v \in Worker \ {w} : worker'[v] = worker[v]
    BY WorkerChanges, Zenon
  <1>2. JobType'
    BY <1>1, JobTypeFollows, Zenon DEF JobType, JobTypeFrom
  <1>3. \A q \in Task, h \in Generation : JobOf(q, h) => JobOf(q, h)' \/ Holds(w, q, h)
    BY <1>1, OthersKeep, Zenon DEF Queued
  <1>4. \A q \in Task, h \in Generation : Holds(w, q, h) => Holds(w, q, h)'
    BY <1>1, Zenon DEF Holds
  <1> QED
    BY <1>2, <1>3, <1>4, Zenon DEF AllKept, JobOf

\* A handler that goes on, or loses its answer, loses no job.
LEMMA GoesOnKeeps ==
    ASSUME JobType, NEW w \in Worker, NEW m, WorkerOK(m),
           worker[w].pc # "idle", m.pc # "idle",
           m.task = worker[w].task, m.generation = worker[w].generation,
           m.owned = worker[w].owned, GoesOn(w, [worker EXCEPT ![w] = m]), UNCHANGED strayed
    PROVE  JobType' /\ AllKept
  <1>1. SpendFault => faults' \in 0..MaxFaults
    BY McpTasksAssumption DEF SpendFault, JobType
  <1>2. strayed \subseteq strayed' /\ strayed' \subseteq Task \X Generation
    BY Zenon DEF JobType
  <1>3. CASE worker' = [worker EXCEPT ![w] = m] /\ UNCHANGED <<provider, faults>>
    BY <1>3, WorkerGoesOn, Zenon DEF provider, JobType
  <1>4. CASE Returns(w, "retryable") /\ SpendFault
    BY <1>1, <1>2, <1>4, ReturnsKeeps, Zenon DEF Outcome
  <1>5. CASE Dies(w) /\ SpendFault
    BY <1>1, <1>2, <1>5, DiesKeeps, Zenon
  <1> QED
    BY <1>3, <1>4, <1>5, Zenon DEF GoesOn

\* A call that leaves the workers and their messages alone.
LEMMA MessagesAlone ==
    ASSUME JobType, intents \subseteq intents', intents' \subseteq Task \X Generation,
           UNCHANGED <<queue, dead, worker, strayed>>, faults' \in 0..MaxFaults
    PROVE  JobStep
  <1>1. JobType'
    BY Zenon DEF JobType
  <1>2. AllKept
    BY Zenon DEF AllKept, JobOf, Holds, Queued
  <1> QED
    BY <1>1, <1>2, AllKeptIsStep, Zenon

\* The calls of clients, the expiry runner and the inbox's cleanup lose no job.
LEMMA ClientsKeepJobs ==
    ASSUME Rows, JobType, ClientType,
           \/ \E k \in Task : Create(k) \/ Expire(k) \/ GetExpires(k)
           \/ \E c \in Updater, k \in Task : UpdateReads(c, k)
           \/ \E c \in Updater, S \in SUBSET InputKey : UpdateInput(c, S)
           \/ \E c \in Canceller, k \in Task : CancelReads(c, k)
           \/ \E c \in Canceller : CancelAtomic(c)
           \/ \E k \in Task, g \in Generation : DeliverCancellation(k, g) \/ ForgetReceipt(k, g)
    PROVE  JobStep
  <1>0. /\ intents \subseteq Task \X Generation /\ 1 \in Generation
        /\ faults \in 0..MaxFaults
    BY McpTasksAssumption DEF JobType, Generation
  <1>1. ASSUME NEW k \in Task, Create(k) PROVE JobStep
    BY <1>0, <1>1, MessagesAlone DEF Create, history
  <1>2. ASSUME NEW k \in Task, Expire(k) PROVE JobStep
    BY <1>0, <1>2, MessagesAlone, Zenon DEF Expire, provider, history
  <1>3. ASSUME NEW k \in Task, GetExpires(k) PROVE JobStep
    BY <1>0, <1>3, MessagesAlone, Zenon DEF GetExpires, provider, history
  <1>4. ASSUME NEW c \in Updater, NEW k \in Task, UpdateReads(c, k) PROVE JobStep
    BY <1>0, <1>4, MessagesAlone, Zenon DEF UpdateReads, provider, history
  <1>5. ASSUME NEW c \in Updater, NEW S \in SUBSET InputKey, UpdateInput(c, S) PROVE JobStep
    <2> DEFINE k == client[c].task
    <2>1. k \in Task /\ UNCHANGED <<queue, dead, worker, strayed, faults>>
      BY <1>5, ClientFields, Zenon DEF UpdateInput, history, Client
    <2>2. \/ UNCHANGED intents
          \/ /\ task[k].generation < MaxGeneration
             /\ intents' = intents \cup {<<k, task[k].generation + 1>>}
      BY <1>5, Zenon DEF UpdateInput
    <2>3. task[k].generation < MaxGeneration => task[k].generation + 1 \in Generation
      <3>1. RowFields(k)
        BY <2>1, FieldsOfRow, Zenon DEF Rows
      <3>2. \A n \in 0..MaxGeneration : n < MaxGeneration => n + 1 \in Generation
        BY McpTasksAssumption DEF Generation
      <3> QED
        BY <3>1, <3>2, Zenon DEF RowFields
    <2> HIDE DEF k
    <2>4. intents \subseteq intents' /\ intents' \subseteq Task \X Generation
      BY <1>0, <2>1, <2>2, <2>3
    <2> QED
      BY <1>0, <2>1, <2>4, MessagesAlone, Zenon
  <1>6. ASSUME NEW c \in Canceller, NEW k \in Task, CancelReads(c, k) PROVE JobStep
    BY <1>0, <1>6, MessagesAlone, Zenon DEF CancelReads, provider
  <1>7. ASSUME NEW c \in Canceller, CancelAtomic(c) PROVE JobStep
    <2>1. UNCHANGED <<intents, queue, dead, worker, strayed>>
      BY <1>7, Zenon DEF CancelAtomic, provider
    <2>2. UNCHANGED faults \/ SpendFault
      BY <1>7, Zenon DEF CancelAtomic
    <2>3. faults' \in 0..MaxFaults
      BY <1>0, <2>2, McpTasksAssumption DEF SpendFault
    <2> QED
      BY <1>0, <2>1, <2>3, MessagesAlone, Zenon
  <1>8. ASSUME NEW k \in Task, NEW g \in Generation, DeliverCancellation(k, g) PROVE JobStep
    BY <1>0, <1>8, MessagesAlone, Zenon DEF DeliverCancellation, provider, history
  <1>9. ASSUME NEW k \in Task, NEW g \in Generation, ForgetReceipt(k, g) PROVE JobStep
    BY <1>0, <1>9, MessagesAlone, Zenon DEF ForgetReceipt, provider, history
  <1> QED
    BY <1>1, <1>2, <1>3, <1>4, <1>5, <1>6, <1>7, <1>8, <1>9, Zenon

\* The relay moves a job from the outbox to the queue.
LEMMA RelayKeeps ==
    ASSUME JobType, NEW k \in Task, NEW g \in Generation, Relay(k, g)
    PROVE  JobStep
  <1>1. /\ UNCHANGED <<dead, worker, strayed>> /\ 0 \in Reads
        /\ queue' = [queue EXCEPT ![<<k, g, 0>>] = @ + 1]
    BY McpTasksAssumption DEF Relay, history, Reads
  <1>2. /\ queue' \in Queues /\ Queued(k, g)'
        /\ \A q \in Task, h \in Generation : Queued(q, h) => Queued(q, h)'
    BY <1>1, QueueGrows, Zenon
  <1>3. /\ intents' \subseteq Task \X Generation /\ intents \subseteq intents' \cup {<<k, g>>}
        /\ faults' \in 0..MaxFaults
    BY McpTasksAssumption DEF Relay, SpendFault, JobType
  <1>4. JobType'
    BY <1>1, <1>2, <1>3, Zenon DEF JobType
  <1>5. ASSUME NEW q \in Task, NEW h \in Generation, JobOf(q, h) PROVE JobOf(q, h)'
    <2>1. CASE <<q, h>> \in intents
      <3>1. CASE <<q, h>> = <<k, g>>
        BY <1>2, <3>1, Zenon DEF JobOf
      <3>2. CASE <<q, h>> # <<k, g>>
        BY <1>3, <2>1, <3>2, Zenon DEF JobOf
      <3> QED
        BY <3>1, <3>2, Zenon
    <2>2. CASE <<q, h>> \notin intents
      BY <1>1, <1>2, <1>5, <2>2, Zenon DEF JobOf, Holds
    <2> QED
      BY <2>1, <2>2
  <1> QED
    BY <1>4, <1>5, AllKeptIsStep, Zenon DEF AllKept

\* A message that is read: the jobs of the others are visible as before.
LEMMA QueueShrinks ==
    ASSUME JobType, NEW k \in Task, NEW g \in Generation, NEW n \in Reads,
           queue[<<k, g, n>>] > 0, queue' = [queue EXCEPT ![<<k, g, n>>] = @ - 1]
    PROVE  /\ queue' \in Queues
           /\ \A q \in Task, h \in Generation :
                 ~(q = k /\ h = g) /\ Queued(q, h) => Queued(q, h)'
  <1> DEFINE m == <<k, g, n>>
             v == queue[m] - 1
  <1>1. queue \in Queues /\ m \in Task \X Generation \X Reads
    BY DEF JobType
  <1>2. queue[m] \in Nat
    BY <1>1, Zenon DEF Queues
  <1>3. v \in Nat
    BY <1>2
  <1>4. queue' = [queue EXCEPT ![m] = v]
    BY Zenon
  <1> HIDE DEF v, m
  <1>5. /\ queue' \in Queues
        /\ \A i \in Task \X Generation \X Reads : i # m => queue'[i] = queue[i]
    BY <1>1, <1>3, <1>4, Zenon DEF Queues
  <1>6. ASSUME NEW q \in Task, NEW h \in Generation, NEW i \in Reads, ~(q = k /\ h = g)
        PROVE  queue'[<<q, h, i>>] = queue[<<q, h, i>>]
    <2>1. <<q, h, i>> \in Task \X Generation \X Reads /\ <<q, h, i>> # m
      BY <1>6 DEF m
    <2> QED
      BY <1>5, <2>1, Zenon
  <1> QED
    BY <1>5, <1>6, Zenon DEF Queued

\* A delivery moves a job from the queue to a worker, or to the dead letters.
LEMMA DeliverKeeps ==
    ASSUME JobType, NEW w \in Worker, NEW k \in Task, NEW g \in Generation,
           NEW n \in 1..(MaxDeliveries + 1), Deliver(w, k, g, n)
    PROVE  JobStep
  <1> DEFINE i == n - 1
  <1>1. /\ UNCHANGED <<intents, strayed, faults>> /\ worker[w].pc = "idle"
        /\ queue[<<k, g, i>>] > 0 /\ queue' = [queue EXCEPT ![<<k, g, i>>] = @ - 1]
    BY DEF Deliver, history
  <1>0. i \in Reads /\ (n > MaxDeliveries \/ n \in Reads)
    BY McpTasksAssumption DEF Reads
  <1> HIDE DEF i
  <1>2. /\ queue' \in Queues
        /\ \A q \in Task, h \in Generation :
              ~(q = k /\ h = g) /\ Queued(q, h) => Queued(q, h)'
    BY <1>0, <1>1, QueueShrinks, Zenon
  <1>3. CASE dead' = dead \cup {<<k, g>>} /\ UNCHANGED worker
    <2>1. JobType'
      BY <1>1, <1>2, <1>3 DEF JobType
    <2>2. ASSUME NEW q \in Task, NEW h \in Generation, JobOf(q, h) PROVE JobOf(q, h)'
      <3>1. CASE q = k /\ h = g
        BY <1>3, <3>1, Zenon DEF JobOf
      <3>2. CASE ~(q = k /\ h = g)
        BY <1>1, <1>2, <1>3, <2>2, <3>2, Zenon DEF JobOf, Holds
      <3> QED
        BY <3>1, <3>2, Zenon
    <2> QED
      BY <2>1, <2>2, AllKeptIsStep, Zenon DEF AllKept
  <1>4. CASE /\ n \in Reads
             /\ worker' = [worker EXCEPT ![w] =
                    [Resting EXCEPT !.pc = "delivered", !.task = k, !.generation = g,
                                    !.read = n, !.vt = JobTimeout + Grace, !.owned = TRUE]]
             /\ UNCHANGED dead
    <2> DEFINE m == [Resting EXCEPT !.pc = "delivered", !.task = k, !.generation = g,
                                    !.read = n, !.vt = JobTimeout + Grace, !.owned = TRUE]
    <2>1. Resting \in WorkerState
      BY RestingIsOK, Zenon DEF WorkerOK
    <2>2. g \in 0..MaxGeneration /\ JobTimeout + Grace \in 0..(JobTimeout + Grace)
      BY McpTasksAssumption DEF Generation
    <2>3. m \in WorkerState /\ m.pc = "delivered" /\ m.owned /\ m.task = k /\ m.generation = g
      BY <1>4, <2>1, <2>2, Zenon DEF WorkerState, Running
    <2>4. WorkerOK(m) /\ worker' = [worker EXCEPT ![w] = m]
      BY <1>4, <2>3 DEF WorkerOK
    <2> HIDE DEF m
    <2>5. /\ worker' \in [Worker -> WorkerState] /\ \A v \in Worker : WorkerOK(worker'[v])
          /\ worker'[w] = m /\ \A v \in Worker \ {w} : worker'[v] = worker[v]
      BY <2>4, WorkerChanges, Zenon
    <2>7. JobType'
      BY <1>1, <1>2, <1>4, <2>5, JobTypeFollows, Zenon DEF JobType, JobTypeFrom
    <2>8. Holds(w, k, g)'
      BY <2>3, <2>5, Zenon DEF Holds
    <2>9. \A v \in Worker, q \in Task, h \in Generation : Holds(v, q, h) => Holds(v, q, h)'
      BY <1>1, <2>5, Zenon DEF Holds
    <2>10. ASSUME NEW q \in Task, NEW h \in Generation, JobOf(q, h) PROVE JobOf(q, h)'
      <3>1. CASE q = k /\ h = g
        BY <2>8, <3>1, Zenon DEF JobOf
      <3>2. CASE ~(q = k /\ h = g)
        BY <1>1, <1>2, <1>4, <2>9, <2>10, <3>2, Zenon DEF JobOf
      <3> QED
        BY <3>1, <3>2
    <2> QED
      BY <2>7, <2>10, AllKeptIsStep, Zenon DEF AllKept
  <1> QED
    BY <1>0, <1>3, <1>4, Zenon DEF Deliver

\* The same message, further on.
Onward(w, m) ==
    /\ WorkerOK(m) /\ m.pc # "idle" /\ m.task = worker[w].task
    /\ m.generation = worker[w].generation /\ m.owned = worker[w].owned

\* A handler that has reached its next step.
LEMMA PcMoves ==
    ASSUME JobType, NEW w \in Worker, worker[w].pc \in Running,
           NEW p \in Running, p # "settling"
    PROVE  Onward(w, [worker[w] EXCEPT !.pc = p])
  <1> DEFINE r == worker[w]
             m == [r EXCEPT !.pc = p]
  <1>1. r \in WorkerState /\ r.generation \in Generation /\ p # "idle"
    BY Zenon DEF JobType, Running
  <1> HIDE DEF r
  <1>2. m \in WorkerState /\ m.pc = p /\ m.task = r.task /\ m.generation = r.generation
    BY <1>1 DEF WorkerState
  <1>3. m.owned = r.owned
    BY <1>1 DEF WorkerState
  <1> HIDE DEF m
  <1>4. Onward(w, m)
    BY <1>1, <1>2, <1>3, Zenon DEF Onward, WorkerOK, r
  <1> QED
    BY <1>4 DEF m, r

\* A handler that has a result.
LEMMA OutMoves ==
    ASSUME JobType, NEW w \in Worker, worker[w].pc \in Running,
           NEW p \in {"requiring", "settling"},
           NEW o \in {"completed", "failed", "input", "cancelled"},
           p = "settling" => o # "input"
    PROVE  Onward(w, [worker[w] EXCEPT !.pc = p, !.out = o])
  <1> DEFINE r == worker[w]
             m == [r EXCEPT !.pc = p, !.out = o]
  <1>1. r \in WorkerState /\ r.generation \in Generation /\ p \in Running /\ p # "idle"
    BY Zenon DEF JobType, Running
  <1> HIDE DEF r
  <1>2. /\ m \in WorkerState /\ m.pc = p /\ m.task = r.task /\ m.generation = r.generation
        /\ m.out = o
    BY <1>1, Zenon DEF WorkerState
  <1>3. m.owned = r.owned
    BY <1>1 DEF WorkerState
  <1> HIDE DEF m
  <1>4. Onward(w, m)
    BY <1>1, <1>2, <1>3, Zenon DEF Onward, WorkerOK, r
  <1> QED
    BY <1>4 DEF m, r

\* A handler that has a lease.
LEMMA ClaimMoves ==
    ASSUME JobType, NEW w \in Worker, worker[w].pc \in Running, NEW a \in Nat, NEW v \in Nat
    PROVE  Onward(w, [worker[w] EXCEPT !.pc = "leased", !.at = a, !.version = v])
  <1> DEFINE r == worker[w]
             m == [r EXCEPT !.pc = "leased", !.at = a, !.version = v]
  <1>1. r \in WorkerState /\ r.generation \in Generation /\ "leased" \in Running
    BY Zenon DEF JobType, Running
  <1> HIDE DEF r
  <1>2. m \in WorkerState /\ m.pc = "leased" /\ m.task = r.task /\ m.generation = r.generation
    BY <1>1, Zenon DEF WorkerState
  <1>3. m.owned = r.owned
    BY <1>1 DEF WorkerState
  <1> HIDE DEF m
  <1>4. Onward(w, m)
    BY <1>1, <1>2, <1>3, Zenon DEF Onward, WorkerOK, r
  <1> QED
    BY <1>4 DEF m, r

\* A message that lapses is in the queue again.
LEMMA LapseKeeps ==
    ASSUME JobType, NEW w \in Worker, Lapse(w)
    PROVE  JobStep
  <1> DEFINE k == worker[w].task
             g == worker[w].generation
             n == [worker[w] EXCEPT !.owned = FALSE]
             m == IF worker[w].pc = "gone" THEN Resting ELSE n
  <1>1. /\ UNCHANGED <<intents, dead, strayed, faults>> /\ worker[w].owned
        /\ queue' = [queue EXCEPT ![<<k, g, worker[w].read>>] = @ + 1]
        /\ worker' = [worker EXCEPT ![w] = m]
    BY DEF Lapse, PutBack, history, JobType
  <1>2. worker[w] \in WorkerState /\ k \in Task /\ g \in Generation /\ worker[w].read \in Reads
    BY <1>1, WorkerFields, Zenon DEF JobType, WorkerState
  <1>3. /\ n \in WorkerState /\ ~n.owned /\ n.pc = worker[w].pc
        /\ n.generation = g /\ n.out = worker[w].out
    BY <1>2, Zenon DEF WorkerState
  <1>4. WorkerOK(m)
    <2>1. WorkerOK(worker[w])
      BY WorkersAreOK, Zenon
    <2> HIDE DEF n
    <2> QED
      BY <1>3, <2>1, RestingIsOK, Zenon DEF WorkerOK
  <1>5. /\ queue' \in Queues
        /\ \A q \in Task, h \in Generation : q = k /\ h = g => Queued(q, h)'
        /\ \A q \in Task, h \in Generation : Queued(q, h) => Queued(q, h)'
    <2>1. PICK q \in Task, h \in Generation, i \in Reads :
                 q = k /\ h = g /\ i = worker[w].read
      BY <1>2, Zenon
    <2>2. queue' = [queue EXCEPT ![<<q, h, i>>] = @ + 1]
      BY <1>1, <2>1, Zenon
    <2>3. /\ queue' \in Queues /\ Queued(q, h)'
          /\ \A p \in Task, f \in Generation : Queued(p, f) => Queued(p, f)'
      BY <2>2, QueueGrows, Zenon
    <2> QED
      BY <2>1, <2>3, Zenon
  <1> HIDE DEF m
  <1>6. /\ worker' \in [Worker -> WorkerState] /\ \A v \in Worker : WorkerOK(worker'[v])
        /\ \A v \in Worker \ {w} : worker'[v] = worker[v]
    BY <1>1, <1>4, WorkerChanges, Zenon
  <1>7. JobType'
    BY <1>1, <1>5, <1>6, JobTypeFollows, Zenon DEF JobType, JobTypeFrom
  <1>8. \A q \in Task, h \in Generation : JobOf(q, h) => JobOf(q, h)' \/ Holds(w, q, h)
    BY <1>1, <1>5, <1>6, OthersKeep, Zenon
  <1>9. \A q \in Task, h \in Generation : Holds(w, q, h) => Queued(q, h)'
    BY <1>5, Zenon DEF Holds
  <1> QED
    BY <1>7, <1>8, <1>9, AllKeptIsStep, Zenon DEF AllKept, JobOf

\* The steps of a handler that make no call, and the ends of one from outside.
LEMMA HandlersKeepJobs ==
    ASSUME JobType, NEW w \in Worker,
           \/ CallFails(w) \/ WorkerDies(w) \/ Register(w)
           \/ \E r \in {"completed", "failed", "input", "cancelled"} : ExecutorEnds(w, r)
           \/ \E o \in {"retryable", "cancelled"} : HandlerDropped(w, o)
    PROVE  JobStep
  <1>1. SpendFault => faults' \in 0..MaxFaults
    BY McpTasksAssumption DEF SpendFault, JobType
  <1>2. strayed \subseteq Task \X Generation /\ faults \in 0..MaxFaults
    BY Zenon DEF JobType
  <1>3. CASE CallFails(w)
    BY <1>1, <1>2, <1>3, ReturnsKeeps, AllKeptIsStep, Zenon DEF CallFails, Calls, Outcome, history
  <1>4. CASE WorkerDies(w)
    BY <1>1, <1>2, <1>4, DiesKeeps, AllKeptIsStep, Zenon DEF WorkerDies, Running, history
  <1>5. CASE Register(w)
    <2>1. /\ worker[w].pc \in Running /\ worker[w].pc # "idle" /\ faults' \in 0..MaxFaults
          /\ UNCHANGED <<intents, queue, dead>> /\ UNCHANGED strayed
      BY <1>1, <1>2, <1>5, Zenon DEF Register, Running, provider, history
    <2>2. PICK p \in {"executing", "abandoning"} : worker' = [worker EXCEPT ![w].pc = p]
      BY <1>5, Zenon DEF Register
    <2>3. worker' = [worker EXCEPT ![w] = [worker[w] EXCEPT !.pc = p]]
      BY <2>2, Zenon
    <2>4. Onward(w, [worker[w] EXCEPT !.pc = p])
      BY <2>1, PcMoves, Zenon DEF Running
    <2> QED
      BY <2>1, <2>3, <2>4, WorkerGoesOn, AllKeptIsStep, Zenon DEF Onward
  <1>6. ASSUME NEW r \in {"completed", "failed", "input", "cancelled"}, ExecutorEnds(w, r)
        PROVE  JobStep
    <2> DEFINE p == IF r = "input" THEN "requiring" ELSE "settling"
    <2>1. /\ worker[w].pc \in Running /\ worker[w].pc # "idle" /\ faults' \in 0..MaxFaults
          /\ UNCHANGED <<intents, queue, dead>> /\ UNCHANGED strayed
      BY <1>1, <1>2, <1>6, Zenon DEF ExecutorEnds, Running, provider, history
    <2>2. worker' = [worker EXCEPT ![w].pc = p, ![w].out = r]
      BY <1>6, Zenon DEF ExecutorEnds
    <2>3. worker' = [worker EXCEPT ![w] = [worker[w] EXCEPT !.pc = p, !.out = r]]
      BY <2>2, Zenon DEF JobType
    <2>4. p \in {"requiring", "settling"} /\ (p = "settling" => r # "input")
      BY Zenon
    <2> HIDE DEF p
    <2>5. Onward(w, [worker[w] EXCEPT !.pc = p, !.out = r])
      BY <2>1, <2>4, OutMoves, Zenon
    <2> QED
      BY <2>1, <2>3, <2>5, WorkerGoesOn, AllKeptIsStep, Zenon DEF Onward
  <1>7. ASSUME NEW o \in {"retryable", "cancelled"}, HandlerDropped(w, o) PROVE JobStep
    BY <1>1, <1>2, <1>7, ReturnsKeeps, AllKeptIsStep, Zenon
       DEF HandlerDropped, Running, Outcome, history
  <1> QED
    BY <1>3, <1>4, <1>5, <1>6, <1>7, Zenon

\* A call whose task does not go on may archive its job.
LEMMA EndedNeedsNoJob ==
    ASSUME JobType', NEW w \in Worker, OthersKept(w), task'[worker[w].task].status # "working"
    PROVE  JobStep
  BY Zenon DEF JobStep, JobsKept, OthersKept

\* claim_execution loses the job of a task that has ended, or strays one.
LEMMA ClaimExecutionKeeps ==
    ASSUME Rows, JobType, NEW w \in Worker, ClaimExecution(w)
    PROVE  JobStep
  <1> DEFINE k == worker[w].task
             g == worker[w].generation
             at == lastClaim[k][g] + 1
  <1>1. worker[w].pc \in Running /\ worker[w].pc # "idle" /\ k \in Task /\ g \in Generation
    BY WorkerFields, Zenon DEF ClaimExecution, Running
  <1>2. RowType /\ RowFields(k) /\ at \in Nat
    BY <1>1, FieldsOfRow DEF Rows
  <1>3. CASE Stale(w)
    BY <1>1, <1>3, StaleKeeps, Zenon
  <1>4. CASE /\ task' = [task EXCEPT ![k] =
                    Moved(k, IF Expired(k) THEN "expired" ELSE "cancelled", NoLease)]
             /\ Answered(w, "succeeded") /\ UNCHANGED strayed
    <2> DEFINE status == IF Expired(k) THEN "expired" ELSE "cancelled"
    <2>1. status \in Status /\ status # "working"
      BY Zenon DEF Status
    <2>2. task' = [task EXCEPT ![k] = Moved(k, status, NoLease)]
      BY <1>4, Zenon
    <2> HIDE DEF status
    <2>3. task'[k].status = status
      <3>1. task'[k] = Moved(k, status, NoLease)
        BY <1>1, <1>2, <2>2, Zenon DEF RowType
      <3>2. Moved(k, status, NoLease).status = status
        BY <1>1, <1>2, <2>1, FreedRow, Zenon
      <3> QED
        BY <3>1, <3>2, Zenon
    <2>4. JobType' /\ OthersKept(w)
      BY <1>1, <1>4, AnsweredKeeps, Zenon DEF Outcome, JobType
    <2> QED
      BY <2>1, <2>3, <2>4, EndedNeedsNoJob, Zenon
  <1>5. CASE /\ GoesOn(w, [worker EXCEPT ![w].pc = "leased", ![w].at = at,
                                         ![w].version = task[k].version])
             /\ UNCHANGED strayed
    <2> DEFINE m == [worker[w] EXCEPT !.pc = "leased", !.at = at, !.version = task[k].version]
    <2>1. Onward(w, m)
      BY <1>1, <1>2, ClaimMoves, Zenon DEF RowFields
    <2>2. [worker EXCEPT ![w].pc = "leased", ![w].at = at, ![w].version = task[k].version]
            = [worker EXCEPT ![w] = m]
      BY Zenon DEF JobType
    <2>3. GoesOn(w, [worker EXCEPT ![w] = m])
      BY <1>5, <2>2, Zenon
    <2> HIDE DEF m
    <2> QED
      BY <1>1, <1>5, <2>1, <2>3, GoesOnKeeps, AllKeptIsStep, Zenon DEF Onward
  <1> QED
    BY <1>3, <1>4, <1>5, Zenon DEF ClaimExecution

\* abandon_execution loses no job, or strays one.
LEMMA AbandonExecutionKeeps ==
    ASSUME JobType, NEW w \in Worker, AbandonExecution(w)
    PROVE  JobStep
  <1>1. worker[w].pc # "idle" /\ strayed \subseteq Task \X Generation /\ faults \in 0..MaxFaults
    BY Zenon DEF AbandonExecution, JobType
  <1>2. CASE Stale(w)
    BY <1>1, <1>2, StaleKeeps, Zenon
  <1>3. CASE (Answered(w, "retryable") \/ Answered(w, "cancelled")) /\ UNCHANGED strayed
    BY <1>1, <1>3, AnsweredKeeps, AllKeptIsStep, Zenon DEF Outcome
  <1>4. CASE Returns(w, "permanent") /\ UNCHANGED <<strayed, faults>>
    BY <1>1, <1>4, ReturnsKeeps, AllKeptIsStep, Zenon DEF Outcome
  <1> QED
    BY <1>2, <1>3, <1>4, Zenon DEF AbandonExecution

\* require_input loses the job of a task that waits for its client.
LEMMA RequireInputKeeps ==
    ASSUME Rows, JobType, NEW w \in Worker, RequireInput(w)
    PROVE  JobStep
  <1> DEFINE k == worker[w].task
  <1>1. /\ worker[w].pc \in Running /\ worker[w].pc # "idle" /\ k \in Task
        /\ UNCHANGED strayed /\ strayed \subseteq Task \X Generation /\ faults \in 0..MaxFaults
    BY WorkerFields, Zenon DEF RequireInput, Running, JobType
  <1>2. CASE GoesOn(w, [worker EXCEPT ![w].pc = "settling", ![w].out = "cancelled"])
    <2> DEFINE m == [worker[w] EXCEPT !.pc = "settling", !.out = "cancelled"]
    <2>1. Onward(w, m)
      BY <1>1, OutMoves, Zenon
    <2>2. [worker EXCEPT ![w].pc = "settling", ![w].out = "cancelled"] = [worker EXCEPT ![w] = m]
      BY Zenon DEF JobType
    <2>3. GoesOn(w, [worker EXCEPT ![w] = m])
      BY <1>2, <2>2
    <2> HIDE DEF m
    <2> QED
      BY <1>1, <2>1, <2>3, GoesOnKeeps, AllKeptIsStep, Zenon DEF Onward
  <1>3. CASE Returns(w, "permanent") /\ UNCHANGED faults
    BY <1>1, <1>3, ReturnsKeeps, AllKeptIsStep, Zenon DEF Outcome
  <1>4. CASE /\ task' = [task EXCEPT ![k] =
                    [Moved(k, "input", NoLease) EXCEPT !.pending = InputKey]]
             /\ Answered(w, "succeeded")
    <2> DEFINE n == Moved(k, "input", NoLease)
    <2>1. RowType
      BY Zenon DEF Rows
    <2>2. n \in Row /\ n.status = "input"
      BY <1>1, <2>1, FreedRow DEF Status
    <2>3. task'[k] = [n EXCEPT !.pending = InputKey]
      BY <1>1, <1>4, <2>1 DEF RowType
    <2> HIDE DEF n
    <2>4. task'[k].status = "input"
      BY <2>2, <2>3 DEF Row
    <2>5. JobType' /\ OthersKept(w)
      BY <1>1, <1>4, AnsweredKeeps DEF Outcome
    <2> QED
      BY <2>4, <2>5, EndedNeedsNoJob, Zenon
  <1> QED
    BY <1>2, <1>3, <1>4 DEF RequireInput

\* settle_execution loses the job of a task that has ended, or strays one.
LEMMA SettleExecutionKeeps ==
    ASSUME Rows, JobType, NEW w \in Worker, SettleExecution(w)
    PROVE  JobStep
  <1> DEFINE k == worker[w].task
             status == IF Expired(k) THEN "expired" ELSE worker[w].out
             o == IF worker[w].out = "cancelled" THEN "cancelled" ELSE "succeeded"
  <1>1. /\ worker[w].pc # "idle" /\ strayed \subseteq Task \X Generation
        /\ k \in Task /\ status \in Final
    BY WorkerFields, Zenon DEF SettleExecution, Final, JobType
  <1>2. CASE Stale(w)
    BY <1>1, <1>2, StaleKeeps, Zenon
  <1>3. CASE /\ task[k].status = "working" /\ End(k, status) /\ Answered(w, o)
             /\ UNCHANGED strayed
    <2>1. task'[k].status # "working"
      BY <1>1, <1>3, EndFacts, Zenon DEF Live, Final
    <2>2. o \in Outcome
      BY Zenon DEF Outcome
    <2> HIDE DEF o
    <2>3. JobType' /\ OthersKept(w)
      BY <1>1, <1>3, <2>2, AnsweredKeeps, Zenon
    <2> QED
      BY <2>1, <2>3, EndedNeedsNoJob, Zenon
  <1> QED
    BY <1>2, <1>3, Zenon DEF SettleExecution

\* Time loses no job.
LEMMA ElapseKeeps ==
    ASSUME JobType, Elapse
    PROVE  JobStep
  <1>1. UNCHANGED <<intents, queue, dead, strayed, faults>>
    BY Zenon DEF Elapse, provider, history
  <1>2. ASSUME NEW w \in Worker
        PROVE  /\ WorkerOK(worker'[w]) /\ worker'[w].pc = worker[w].pc
               /\ worker'[w].owned = worker[w].owned /\ worker'[w].task = worker[w].task
               /\ worker'[w].generation = worker[w].generation
    <2> DEFINE r == worker[w]
               t == Less(r.vt)
               m == [r EXCEPT !.vt = t]
    <2>1. r \in WorkerState /\ worker'[w] = m /\ WorkerOK(r)
      BY WorkersAreOK, Zenon DEF Elapse, JobType
    <2>2. t \in 0..(JobTimeout + Grace)
      BY <2>1, LessIsLess, McpTasksAssumption DEF WorkerState
    <2> HIDE DEF r, t
    <2>3. /\ m \in WorkerState /\ m.pc = r.pc /\ m.task = r.task
          /\ m.generation = r.generation /\ m.out = r.out
      BY <2>1, <2>2 DEF WorkerState
    <2>4. m.owned = r.owned
      BY <2>1 DEF WorkerState
    <2> HIDE DEF m
    <2>5. WorkerOK(m)
      BY <2>1, <2>3, <2>4, Zenon DEF WorkerOK
    <2> QED
      BY <2>1, <2>3, <2>4, <2>5, Zenon DEF r
  <1>3. worker' \in [Worker -> WorkerState]
    BY <1>2, Zenon DEF Elapse, WorkerOK
  <1>4. JobType'
    BY <1>1, <1>2, <1>3, JobTypeFollows, Zenon DEF JobType, JobTypeFrom
  <1>5. AllKept
    BY <1>1, <1>2, Zenon DEF AllKept, JobOf, Holds, Queued
  <1> QED
    BY <1>4, <1>5, AllKeptIsStep, Zenon

-----------------------------------------------------------------------------
(* The clients.                                                            *)

\* A client that waits.
LEMMA WaitingIsState == Waiting \in ClientState
  <1>1. (CHOOSE k \in Task : TRUE) \in Task
    BY McpTasksAssumption
  <1> QED
    BY <1>1, McpTasksAssumption DEF Waiting, ClientState

\* A client that has read a row.
LEMMA ReadIsState ==
    ASSUME ClientType, NEW c \in Client, NEW k \in Task, NEW r \in Row,
           NEW op \in {"update", "cancel"}, NEW tries \in 0..CancelAttempts,
           Read(c, k, r, op, tries)
    PROVE  client' \in [Client -> ClientState]
  <1>1. [pc |-> op, task |-> k, generation |-> r.generation, version |-> r.version,
         tries |-> tries] \in ClientState
    BY Zenon DEF ClientState, Row
  <1> QED
    BY <1>1, Zenon DEF Read, ClientType

\* A client that is done.
LEMMA DoneIsState ==
    ASSUME ClientType, NEW c \in Client, Done(c)
    PROVE  client' \in [Client -> ClientState]
  BY WaitingIsState, Zenon DEF Done, ClientType

\* The clients of tasks/update keep their types.
LEMMA UpdatersKeepType ==
    ASSUME Rows, RowType', ClientType, NEW c \in Updater,
           \/ \E k \in Task : UpdateReads(c, k)
           \/ \E S \in SUBSET InputKey : UpdateInput(c, S)
    PROVE  ClientType'
  <1>0. c \in Client
    BY DEF Client
  <1>1. ASSUME NEW k \in Task, UpdateReads(c, k) PROVE ClientType'
    <2>1. task'[k] \in Row /\ 0 \in 0..CancelAttempts
      BY McpTasksAssumption DEF RowType
    <2>2. client' \in [Client -> ClientState]
      BY <1>0, <1>1, <2>1, ReadIsState, Zenon DEF UpdateReads
    <2> QED
      BY <1>1, <2>2, Zenon DEF UpdateReads, ClientType
  <1>2. ASSUME NEW S \in SUBSET InputKey, UpdateInput(c, S) PROVE ClientType'
    <2>1. client' \in [Client -> ClientState] /\ UNCHANGED <<cancelJobs, signalled>>
      BY <1>0, <1>2, DoneIsState, Zenon DEF UpdateInput
    <2> QED
      BY <2>1, Zenon DEF ClientType
  <1> QED
    BY <1>1, <1>2, Zenon

\* The clients of tasks/cancel keep their types and send cancellations of live generations.
LEMMA CancellersKeepType ==
    ASSUME Rows, RowType', ClientType, NEW c \in Canceller,
           (\E k \in Task : CancelReads(c, k)) \/ CancelAtomic(c)
    PROVE  ClientType'
  <1>0. c \in Client
    BY DEF Client
  <1>1. ASSUME NEW k \in Task, CancelReads(c, k) PROVE ClientType'
    <2>1. task'[k] \in Row /\ 1 \in 0..CancelAttempts
      BY McpTasksAssumption DEF RowType
    <2>2. client' \in [Client -> ClientState]
      <3>1. CASE Read(c, k, task'[k], "cancel", 1)
        BY <1>0, <2>1, <3>1, ReadIsState, Zenon
      <3>2. CASE UNCHANGED client
        BY <3>2, Zenon DEF ClientType
      <3> QED
        BY <1>1, <3>1, <3>2, Zenon DEF CancelReads
    <2> QED
      BY <1>1, <2>2, Zenon DEF CancelReads, ClientType
  <1>2. ASSUME CancelAtomic(c) PROVE ClientType'
    <2> DEFINE k == client[c].task
               g == task[k].generation
    <2>1. k \in Task /\ client[c].tries \in 0..CancelAttempts
      BY <1>0, ClientFields, Zenon
    <2>2. task[k] \in Row /\ RowFields(k) /\ LeaseOK(k)
      BY <2>1, FieldsOfRow, Zenon DEF Rows, RowOK, RowType
    <2>3. client' \in [Client -> ClientState]
      <3>1. CASE Done(c)
        BY <1>0, <3>1, DoneIsState, Zenon
      <3>2. CASE /\ client[c].tries < CancelAttempts
                 /\ Read(c, k, task[k], "cancel", client[c].tries + 1)
        <4>1. client[c].tries + 1 \in 0..CancelAttempts
          BY <2>1, <3>2, McpTasksAssumption
        <4> QED
          BY <1>0, <2>1, <2>2, <3>2, <4>1, ReadIsState, Zenon
      <3> QED
        BY <1>2, <3>1, <3>2, Zenon DEF CancelAtomic, CancelAnswered, Acknowledge
    <2>4. Live(k) => g \in Generation
      <3>1. Live(k) => g # 0
        BY <2>2, Zenon DEF Live, LeaseOK
      <3>2. g \in 0..MaxGeneration
        BY <2>2, Zenon DEF RowFields
      <3> QED
        BY <3>1, <3>2 DEF Generation
    <2>5. /\ cancelJobs' = cancelJobs \/ (Live(k) /\ cancelJobs' = cancelJobs \cup {<<k, g>>})
          /\ signalled' = signalled \/ (Live(k) /\ signalled' = signalled \cup {<<k, g>>})
      <3>1. Unchanged(c) /\ task'[k].status = "working" => Live(k)
        BY <1>2, Zenon DEF CancelAtomic, Terminal
      <3>2. /\ cancelJobs' = cancelJobs \/ (Live(k) /\ cancelJobs' = cancelJobs \cup {<<k, g>>})
            /\ \/ UNCHANGED signalled
               \/ CancelAnswered(c)
        BY <1>2, Zenon DEF CancelAtomic
      <3> QED
        BY <3>1, <3>2, Zenon DEF CancelAnswered, Signal
    <2> HIDE DEF k, g
    <2> QED
      BY <2>1, <2>3, <2>4, <2>5 DEF ClientType
  <1> QED
    BY <1>1, <1>2, Zenon

-----------------------------------------------------------------------------
(* The inductive invariant.                                                *)

Inv == Rows /\ JobType /\ ClientType /\ OnlyStaleAnswersStrand

\* The invariant holds of an empty table.
LEMMA InitInv == Init => Inv
  <1> SUFFICES ASSUME Init PROVE Inv
    OBVIOUS
  <1>1. NoTask \in Row /\ NoTask.status = "absent" /\ NoTask.generation = 0 /\ NoTask.lease.at = 0
    BY NoTaskIsRow, Zenon
  <1>2. RowType
    BY <1>1, Zenon DEF Init, RowType, PerGeneration, Counts
  <1>3. ASSUME NEW k \in Task PROVE RowOK(k)
    <2>1. task[k] = NoTask /\ ~Leased(k) /\ k \notin stopped
      BY <1>1, Zenon DEF Init, Leased
    <2>2. \A h \in Generation : receipt[k][h] = "none" /\ published[k][h] = {}
      BY Zenon DEF Init, PerGeneration
    <2> QED
      BY <1>1, <2>1, <2>2, Zenon DEF RowOK, LeaseOK, ReceiptOK, PublishedOK, StoppedOK
  <1>4. JobType
    <2>1. \A w \in Worker : worker[w] = Resting
      BY Zenon DEF Init
    <2>2. \A w \in Worker : WorkerOK(worker[w])
      BY <2>1, RestingIsOK, Zenon
    <2>3. worker \in [Worker -> WorkerState]
      BY RestingIsOK, Zenon DEF Init, WorkerOK
    <2>4. queue \in Queues /\ faults \in 0..MaxFaults
      BY McpTasksAssumption DEF Init, Queues
    <2>5. intents = {} /\ dead = {} /\ strayed = {}
      BY Zenon DEF Init
    <2> QED
      BY <2>2, <2>3, <2>4, <2>5, Zenon DEF JobType, WorkerOK
  <1>5. ClientType
    BY WaitingIsState, Zenon DEF Init, ClientType
  <1>6. OnlyStaleAnswersStrand
    BY <1>1, Zenon DEF Init, OnlyStaleAnswersStrand
  <1> QED
    BY <1>2, <1>3, <1>4, <1>5, <1>6 DEF Inv, Rows

\* Every step moves every row in one of the nine ways.
LEMMA NextMovesRows ==
    ASSUME Rows, JobType, ClientType, Next
    PROVE  RowStep
  <1>1. ASSUME NEW k \in Task, Create(k) \/ Expire(k) \/ GetExpires(k) PROVE RowStep
    <2>1. CASE Create(k)
      BY <2>1, CreateMoves, Zenon
    <2>2. CASE Expire(k)
      BY <2>2, EndMoves, Zenon DEF Expire, history, Final
    <2>3. CASE GetExpires(k)
      BY <2>3, GetMoves, Zenon DEF GetExpires, history
    <2> QED
      BY <1>1, <2>1, <2>2, <2>3, Zenon
  <1>2. ASSUME NEW c \in Updater, NEW k \in Task, UpdateReads(c, k) PROVE RowStep
    BY <1>2, GetMoves, Zenon DEF UpdateReads, history
  <1>3. ASSUME NEW k \in Task, NEW g \in Generation, Relay(k, g) \/ DeliverCancellation(k, g)
        PROVE  RowStep
    BY <1>3, NoRowMoves, Zenon DEF Relay, DeliverCancellation, history
  <1>4. ASSUME NEW w \in Worker, NEW k \in Task, NEW g \in Generation, NEW n,
               Deliver(w, k, g, n)
        PROVE  RowStep
    BY <1>4, NoRowMoves DEF Deliver, history
  <1>5. ASSUME NEW w \in Worker, Lapse(w) \/ CallFails(w) \/ WorkerDies(w) \/ Register(w)
        PROVE  RowStep
    BY <1>5, NoRowMoves, Zenon DEF Lapse, CallFails, WorkerDies, Register, history
  <1>6. ASSUME NEW w \in Worker, NEW r, ExecutorEnds(w, r) \/ HandlerDropped(w, r) PROVE RowStep
    BY <1>6, NoRowMoves, Zenon DEF ExecutorEnds, HandlerDropped, history
  <1> QED
    BY <1>1, <1>2, <1>3, <1>4, <1>5, <1>6, UpdateInputMoves, CancelReadsMoves, CancelAtomicMoves,
       ForgetReceiptMoves, ClaimExecutionMoves, AbandonExecutionMoves, RequireInputMoves,
       SettleExecutionMoves, ElapseMoves, Zenon DEF Next

\* No step loses the job of a task that goes on working.
LEMMA NextKeepsJobs ==
    ASSUME Rows, JobType, ClientType, Next
    PROVE  JobStep
  BY ClientsKeepJobs, RelayKeeps, DeliverKeeps, LapseKeeps, HandlersKeepJobs,
     ClaimExecutionKeeps, AbandonExecutionKeeps, RequireInputKeeps, SettleExecutionKeeps,
     ElapseKeeps, Zenon DEF Next

\* Every step keeps the types of the clients and the cancellations.
LEMMA NextKeepsClients ==
    ASSUME Rows, RowType', JobType, ClientType, Next
    PROVE  ClientType'
  <1>1. CASE UNCHANGED <<client, cancelJobs, signalled>>
    BY <1>1, Zenon DEF ClientType
  <1>2. ASSUME NEW k \in Task, NEW g \in Generation, DeliverCancellation(k, g) PROVE ClientType'
    BY <1>2, Zenon DEF DeliverCancellation, ClientType
  <1>3. ASSUME NEW k \in Task, Create(k) \/ Expire(k) \/ GetExpires(k)
        PROVE  UNCHANGED <<client, cancelJobs, signalled>>
    BY <1>3 DEF Create, Expire, GetExpires
  <1>4. ASSUME NEW k \in Task, NEW g \in Generation, Relay(k, g) \/ ForgetReceipt(k, g)
        PROVE  UNCHANGED <<client, cancelJobs, signalled>>
    BY <1>4, Zenon DEF Relay, ForgetReceipt
  <1>5. ASSUME NEW w \in Worker, NEW k \in Task, NEW g \in Generation, NEW n,
               Deliver(w, k, g, n)
        PROVE  UNCHANGED <<client, cancelJobs, signalled>>
    BY <1>5 DEF Deliver
  <1>6. ASSUME NEW w \in Worker, Lapse(w) \/ CallFails(w) \/ WorkerDies(w) \/ Register(w)
        PROVE  UNCHANGED <<client, cancelJobs, signalled>>
    BY <1>6, Zenon DEF Lapse, CallFails, WorkerDies, Register
  <1>7. ASSUME NEW w \in Worker, ClaimExecution(w) \/ AbandonExecution(w) \/ RequireInput(w)
                                 \/ SettleExecution(w)
        PROVE  UNCHANGED <<client, cancelJobs, signalled>>
    BY <1>7, Zenon DEF ClaimExecution, AbandonExecution, RequireInput, SettleExecution
  <1>8. ASSUME NEW w \in Worker, NEW r, ExecutorEnds(w, r) \/ HandlerDropped(w, r)
        PROVE  UNCHANGED <<client, cancelJobs, signalled>>
    BY <1>8, Zenon DEF ExecutorEnds, HandlerDropped
  <1>9. ASSUME Elapse PROVE UNCHANGED <<client, cancelJobs, signalled>>
    BY <1>9, Zenon DEF Elapse
  <1> QED
    BY <1>1, <1>2, <1>3, <1>4, <1>5, <1>6, <1>7, <1>8, <1>9, UpdatersKeepType,
       CancellersKeepType, Zenon DEF Next

\* A working row was working in the same generation, or its intent is in the outbox.
LEMMA WorkingRows ==
    ASSUME Rows, RowStep, NEW k \in Task, task'[k].status = "working"
    PROVE  \/ /\ task[k].status = "working" /\ task'[k].generation = task[k].generation
              /\ task[k].generation \in Generation
           \/ <<k, task'[k].generation>> \in intents'
  <1>1. RowFields(k) /\ LeaseOK(k) /\ Moves(k)
    BY FieldsOfRow, Zenon DEF Rows, RowOK, RowStep
  <1>2. task[k].status = "working" => task[k].generation \in Generation
    BY <1>1 DEF LeaseOK, RowFields, Generation
  <1>3. CASE Same(k) \/ CancelRequested(k) \/ Claimed(k) \/ Released(k)
    BY <1>2, <1>3, Zenon DEF Same, CancelRequested, Claimed, Released
  <1>4. CASE Born(k) \/ Resumes(k)
    BY <1>4, Zenon DEF Born, Resumes
  <1>5. ~Ends(k) /\ ~Asks(k) /\ ~Hears(k)
    BY Zenon DEF Ends, Asks, Hears, Final
  <1> QED
    BY <1>1, <1>3, <1>4, <1>5, Zenon DEF Moves

\* OnlyStaleAnswersStrand, by JobOf.
LEMMA HasJobIsMeant ==
    OnlyStaleAnswersStrand
        <=> \A k \in Task : task[k].status = "working" => JobOf(k, task[k].generation)
  BY Zenon DEF OnlyStaleAnswersStrand, HasJob, JobOf, Queued, Holds

\* The invariant is inductive.
LEMMA NextStepInv == Inv /\ [Next]_vars => Inv'
  <1> SUFFICES ASSUME Inv, [Next]_vars PROVE Inv'
    BY Zenon
  <1>1. CASE Next
    <2>1. RowStep /\ JobStep
      BY <1>1, NextMovesRows, NextKeepsJobs DEF Inv
    <2>2. Rows'
      BY <2>1, MovesKeep, Zenon DEF Inv, RowStep, Rows
    <2>3. JobType' /\ ClientType'
      BY <1>1, <2>1, NextKeepsClients, Zenon DEF Inv, JobStep, RowStep
    <2>4. ASSUME NEW k \in Task, NEW h, task'[k].status = "working", h = task'[k].generation
          PROVE  JobOf(k, h)'
      <3>1. CASE <<k, h>> \in intents'
        BY <3>1, Zenon DEF JobOf
      <3>2. CASE /\ task[k].status = "working" /\ task'[k].generation = task[k].generation
                 /\ task[k].generation \in Generation
        <4>1. JobOf(k, h)
          BY <2>4, <3>2, HasJobIsMeant, Zenon DEF Inv
        <4> QED
          BY <2>1, <2>4, <3>2, <4>1, Zenon DEF JobStep, JobsKept
      <3> QED
        BY <2>1, <2>4, <3>1, <3>2, WorkingRows, Zenon DEF Inv
    <2>5. OnlyStaleAnswersStrand'
      BY <2>4 DEF OnlyStaleAnswersStrand, HasJob, JobOf, Queued, Holds
    <2> QED
      BY <2>2, <2>3, <2>5, Zenon DEF Inv
  <1>2. CASE UNCHANGED vars
    <2>1. UNCHANGED <<task, receipt, lastClaim, published, stopped>>
      BY <1>2, Zenon DEF vars, history
    <2>2. UNCHANGED <<intents, queue, dead, strayed, worker, faults, client,
                      cancelJobs, signalled>>
      BY <1>2, Zenon DEF vars, history, provider
    <2>3. Rows'
      BY <2>1, NoRowMoves, MovesKeep, Zenon DEF Inv, RowStep, Rows
    <2>4. JobType' /\ ClientType'
      BY <2>2, Zenon DEF Inv, JobType, ClientType, Counts
    <2>5. OnlyStaleAnswersStrand'
      BY <2>1, <2>2, Zenon DEF Inv, OnlyStaleAnswersStrand, HasJob
    <2> QED
      BY <2>3, <2>4, <2>5 DEF Inv
  <1> QED
    BY <1>1, <1>2, Zenon

\* The invariant holds of every reachable state.
THEOREM InvHolds == Spec => []Inv
  BY InitInv, NextStepInv, PTL DEF Spec

-----------------------------------------------------------------------------
(* Theorems.                                                               *)

\* Every variable keeps its type: rows, leases, receipts, messages and clients.
THEOREM TypeCorrect == Spec => []TypeOK
  <1>1. Inv => TypeOK
    BY Zenon DEF Inv, Rows, RowType, JobType, ClientType, TypeOK, Counts, Queues
  <1> QED
    BY <1>1, InvHolds, PTL

\* No interleaving of creations, updates, cancellations, deliveries, lost answers and expiry
\* leaves a row that decode_task_record refuses, or a receipt a later call cannot claim or
\* resume.
THEOREM RecordsStay == Spec => []RecordsStayReadable
  <1>1. ASSUME Inv, NEW k \in Task PROVE LeaseOK(k) /\ ReceiptOK(k)
    BY <1>1, Zenon DEF Inv, Rows, RowOK
  <1>2. Inv => RecordsStayReadable
    BY <1>1, Zenon DEF LeaseOK, ReceiptOK, RecordsStayReadable
  <1> QED
    BY <1>2, InvHolds, PTL

\* require_input, settle_execution and abandon_execution commit the outcome of a generation
\* for its last claim alone, whatever workers hold older copies of the job.
THEOREM OutcomesAreOfTheLastClaim == Spec => []LastClaimPublishes
  <1>1. ASSUME Inv, NEW k \in Task PROVE PublishedOK(k)
    BY <1>1, Zenon DEF Inv, Rows, RowOK
  <1>2. Inv => LastClaimPublishes
    BY <1>1, Zenon DEF PublishedOK, LastClaimPublishes
  <1> QED
    BY <1>2, InvHolds, PTL

\* A working task has a job that will wake it, or lost it to a Stale answer.
THEOREM JobsAreKept == Spec => []OnlyStaleAnswersStrand
  <1>1. Inv => OnlyStaleAnswersStrand
    BY Zenon DEF Inv
  <1> QED
    BY <1>1, InvHolds, PTL

\* After cancel has answered, no step claims the task, asks its client or begins another
\* generation.
THEOREM CancellationIsFinal == Spec => CancelledStaysStopped
  <1> DEFINE Stays == \A k \in stopped :
                /\ task'[k].generation = task[k].generation /\ lastClaim'[k] = lastClaim[k]
                /\ task'[k].status = "input" => task[k].status = "input"
  <1>1. Inv /\ [Next]_vars => [Stays]_vars
    <2> SUFFICES ASSUME Inv, Next PROVE Stays
      BY Zenon
    <2>1. RowStep /\ stopped \subseteq Task
      BY NextMovesRows, Zenon DEF Inv, Rows, RowType
    <2> QED
      BY <2>1, StoppedRowsOnlyEnd, Zenon DEF Inv, RowStep
  <1>2. Spec => [][Stays]_vars
    BY <1>1, InvHolds, PTL DEF Spec
  <1> QED
    BY <1>2, Zenon DEF CancelledStaysStopped
=============================================================================
