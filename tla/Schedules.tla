------------------------------ MODULE Schedules ------------------------------
(***************************************************************************)
(* The schedule side of the durable scheduler (crates/scheduler): the     *)
(* table scheduler_schedules, the calendar that plans occurrences, the    *)
(* replicas that claim due schedules and materialise runs, and the        *)
(* administrators who create, update, pause, resume and replay.           *)
(*                                                                         *)
(* A schedule row is spread over one function per column.  Calendar       *)
(* instants are naturals; `now' is the database clock and stops at        *)
(* Horizon, after which no occurrence falls due but leases still run out. *)
(* A schedule lease is the time it has left.  A definition carries the    *)
(* instants its cron expression and time zone denote.  Each SQL           *)
(* transaction is one step: claim_due_schedules and materialize_due of a  *)
(* replica are two, with everyone else's steps in between.                *)
(***************************************************************************)
EXTENDS Integers, FiniteSets, FiniteSetsExt

CONSTANTS Schedule,      \* schedule identifiers
          Replica,       \* scheduler tasks, one per process
          Definition,    \* [instants, policy, maxRuns, lease]
          Horizon,       \* the last calendar instant
          Batch,         \* schedule_claim_batch
          MaxRevision,   \* bound: administrative changes of one schedule
          MaxReplays,    \* bound: replays of one occurrence
          Fence,         \* lease tokens; UUIDv7, never two alike in use
          None           \* NULL

ASSUME SchedulesAssumption ==
    /\ Horizon \in Nat /\ Batch \in Nat \ {0}
    /\ MaxRevision \in Nat \ {0} /\ MaxReplays \in Nat
    /\ None \notin Fence /\ Definition # {}
    /\ \A d \in Definition :
          /\ d.instants \subseteq 1..Horizon
          /\ d.policy \in {"skip", "fire_once", "catch_up"}
          /\ d.maxRuns \in Nat \ {0} /\ d.lease \in Nat \ {0}

VARIABLES now,        \* clock_timestamp()
          defn,       \* the definition columns
          revision,   \* revision; 0 stands for an absent row
          paused,
          cursor,     \* next_run_at
          token,      \* lease_token
          lease,      \* lease_expires_at - now; 0 once it is past or NULL
          runs,       \* scheduler_job_runs: <<schedule, scheduled_for, replay_sequence>>
          claims,     \* the due schedules a replica holds, not yet materialised
          since       \* history: where the last administrative change put the cursor

row == <<defn, revision, paused, cursor, token, lease>>
vars == <<now, row, runs, claims, since>>

-----------------------------------------------------------------------------
(* The calendar.                                                           *)

\* find_next_occurrence of the cron library: the first instant strictly after.
NextOccurrence(d, after) ==
    Min({o \in d.instants : o > after} \cup {Horizon + 1})

\* The loop of catch_up: the cursor after n rounds, and the number of rounds.
CursorAfter(d, c) ==
    LET round[n \in Nat] == IF n = 0 THEN c ELSE NextOccurrence(d, round[n - 1])
    IN  round

\* A careless loop that tests the batch bound after emitting.
RoundsOneTooMany(d, c, t) ==
    CHOOSE n \in 0..(d.maxRuns + 1) :
        /\ \A m \in 0..(n - 1) : CursorAfter(d, c)[m] <= t
        /\ n = d.maxRuns + 1 \/ CursorAfter(d, c)[n] > t

Rounds(d, c, t) ==
    CHOOSE n \in 0..d.maxRuns :
        /\ \A m \in 0..(n - 1) : CursorAfter(d, c)[m] <= t
        /\ n = d.maxRuns \/ CursorAfter(d, c)[n] > t

\* evaluate_occurrences answers Calendar for a cursor that is not due.
Evaluable(c, t) == c <= t

Occurrences(d, c, t) ==
    CASE d.policy = "skip"      -> {}
      [] d.policy = "fire_once" -> {c}
      [] d.policy = "catch_up"  ->
            {CursorAfter(d, c)[m] : m \in 0..(Rounds(d, c, t) - 1)}

\* A cursor that jumps beyond the claim under every policy.
PlannedNextPastNow(d, c, t) == NextOccurrence(d, t)

PlannedNext(d, c, t) ==
    IF d.policy = "catch_up" THEN CursorAfter(d, c)[Rounds(d, c, t)]
    ELSE NextOccurrence(d, t)

-----------------------------------------------------------------------------
Exists(s) == revision[s] > 0

Runs(s) == {o \in 1..Horizon : <<s, o, 0>> \in runs}

ReplaysOf(s, o) == {n \in 1..MaxReplays : <<s, o, n>> \in runs}

Init ==
    /\ now = 0
    /\ defn \in [Schedule -> {CHOOSE d \in Definition : TRUE}]
    /\ revision = [s \in Schedule |-> 0]
    /\ paused = [s \in Schedule |-> FALSE]
    /\ cursor = [s \in Schedule |-> 0]
    /\ token = [s \in Schedule |-> None]
    /\ lease = [s \in Schedule |-> 0]
    /\ runs = {}
    /\ claims = [r \in Replica |-> {}]
    /\ since = [s \in Schedule |-> 0]

\* An administrative write that leaves the lease alone.
AdministerKeepsLease(s, d, p, next) ==
    /\ defn' = [defn EXCEPT ![s] = d]
    /\ paused' = [paused EXCEPT ![s] = p]
    /\ revision' = [revision EXCEPT ![s] = @ + 1]
    /\ cursor' = [cursor EXCEPT ![s] = next]
    /\ since' = [since EXCEPT ![s] = next]
    /\ UNCHANGED <<now, token, lease, runs, claims>>

\* An administrative write: every column of the row, the lease cleared.
Administer(s, d, p, next) ==
    /\ defn' = [defn EXCEPT ![s] = d]
    /\ paused' = [paused EXCEPT ![s] = p]
    /\ revision' = [revision EXCEPT ![s] = @ + 1]
    /\ cursor' = [cursor EXCEPT ![s] = next]
    /\ token' = [token EXCEPT ![s] = None]
    /\ lease' = [lease EXCEPT ![s] = 0]
    /\ since' = [since EXCEPT ![s] = next]
    /\ UNCHANGED <<now, runs, claims>>

\* The clock is read at t, before the transaction begins: the row may start in the past.
CreateSchedule(s, d, p, t) ==
    /\ ~Exists(s) /\ t <= now
    /\ Administer(s, d, p, NextOccurrence(d, t))

\* The caller names the revision it read; any other revision is a conflict that
\* changes nothing, so only the matching call is an action.
UpdateSchedule(s, d, p) ==
    /\ Exists(s) /\ revision[s] < MaxRevision
    /\ Administer(s, d, p, NextOccurrence(d, now))

\* A resume that counts the present instant as still to come.
SetPausedInclusive(s, p) ==
    /\ Exists(s) /\ revision[s] < MaxRevision
    /\ Administer(s, defn[s], p,
                  IF p THEN cursor[s] ELSE NextOccurrence(defn[s], now - 1))

\* pause_schedule and resume_schedule; neither looks at the previous value.
SetPaused(s, p) ==
    /\ Exists(s) /\ revision[s] < MaxRevision
    /\ Administer(s, defn[s], p,
                  IF p THEN cursor[s] ELSE NextOccurrence(defn[s], now))

Replay(s, o) ==
    /\ Exists(s) /\ <<s, o, 0>> \in runs
    /\ LET sequence == Max({0} \cup ReplaysOf(s, o)) + 1
       IN  /\ sequence <= MaxReplays
           /\ runs' = runs \cup {<<s, o, sequence>>}
    /\ UNCHANGED <<now, row, claims, since>>

-----------------------------------------------------------------------------
(* A replica: claim a batch of due schedules, then materialise each.       *)

\* A claim that waits for a lease nobody clears.
DueIfNeverLeased(s) ==
    /\ Exists(s) /\ ~paused[s]
    /\ cursor[s] <= now
    /\ token[s] = None

Due(s) ==
    /\ Exists(s) /\ ~paused[s]
    /\ cursor[s] <= now
    /\ lease[s] = 0

\* The first schedules by next_run_at: any batch none of whose members is later
\* than one left out.  Rows another statement has locked are skipped, and that
\* leaves the same choices another order of the statements would.
DueBatch(B) ==
    /\ B # {} /\ \A s \in B : Due(s)
    /\ Cardinality(B) = Min({Batch, Cardinality({s \in Schedule : Due(s)})})
    /\ \A s \in B : \A q \in {q \in Schedule : Due(q)} \ B : cursor[s] <= cursor[q]

\* A fence nobody holds is as good as one never generated before, and one such
\* fence as good as another.
Unused == Fence \ ({token[s] : s \in Schedule}
                    \cup {c.token : c \in UNION {claims[r] : r \in Replica}})

Fences(B) == {f \in [B -> Unused] : \A s, q \in B : f[s] = f[q] => s = q}
FencesFor(B) == CHOOSE f \in Fences(B) : TRUE

ClaimDueSchedules(r) ==
    /\ claims[r] = {}
    /\ \E B \in SUBSET Schedule :
          /\ DueBatch(B) /\ Fences(B) # {}
          /\ token' = [s \in Schedule |-> IF s \in B THEN FencesFor(B)[s] ELSE token[s]]
          /\ claims' = [claims EXCEPT ![r] =
                {[schedule |-> s, defn |-> defn[s], revision |-> revision[s],
                  cursor |-> cursor[s], token |-> FencesFor(B)[s], at |-> now] : s \in B}]
          /\ lease' = [s \in Schedule |->
                          IF s \in B THEN defn[s].lease ELSE lease[s]]
    /\ UNCHANGED <<now, defn, revision, paused, cursor, runs, since>>

\* A fence on the cursor alone.
OwnsByCursor(c) == cursor[c.schedule] = c.cursor

\* The fence of materialize_due.  The lease's expiry is not part of it.
Owns(c) ==
    /\ revision[c.schedule] = c.revision
    /\ cursor[c.schedule] = c.cursor
    /\ token[c.schedule] = c.token

\* The unique index on (schedule_id, scheduled_for, replay_sequence).
Insertable(new) == new \cap runs = {}

\* The claims are taken in the order of their cursors.
AtHead(c, r) == c \in claims[r] /\ \A e \in claims[r] : c.cursor <= e.cursor

Planned(c) ==
    {<<c.schedule, o, 0>> : o \in Occurrences(c.defn, c.cursor, c.at)}

Materialize(r) ==
    /\ \E c \in claims[r] :
          LET s == c.schedule
          IN  /\ AtHead(c, r) /\ Evaluable(c.cursor, c.at)
              /\ Owns(c) /\ Insertable(Planned(c))
              /\ runs' = runs \cup Planned(c)
              /\ cursor' = [cursor EXCEPT ![s] = PlannedNext(c.defn, c.cursor, c.at)]
              /\ token' = [token EXCEPT ![s] = None]
              /\ lease' = [lease EXCEPT ![s] = 0]
              /\ claims' = [claims EXCEPT ![r] = @ \ {c}]
    /\ UNCHANGED <<now, defn, revision, paused, since>>

\* LostLease: the task goes on with the next claim.
LoseClaim(r) ==
    /\ \E c \in claims[r] :
          /\ AtHead(c, r) /\ Evaluable(c.cursor, c.at) /\ ~Owns(c)
          /\ claims' = [claims EXCEPT ![r] = @ \ {c}]
    /\ UNCHANGED <<now, row, runs, since>>

\* A calendar, factory or database error ends the task, and so does a crash: the rest
\* of the batch is forgotten and waits for its leases to expire.
Abandon(r) ==
    /\ claims[r] # {}
    /\ claims' = [claims EXCEPT ![r] = {}]
    /\ UNCHANGED <<now, row, runs, since>>

\* Time passes for the clock, up to the horizon, and for every lease.
Elapse ==
    /\ now < Horizon \/ \E s \in Schedule : lease[s] > 0
    /\ now' = IF now < Horizon THEN now + 1 ELSE now
    /\ lease' = [s \in Schedule |-> IF lease[s] > 0 THEN lease[s] - 1 ELSE 0]
    /\ UNCHANGED <<defn, revision, paused, cursor, token, runs, claims, since>>

Next ==
    \/ \E s \in Schedule, d \in Definition, p \in BOOLEAN :
          UpdateSchedule(s, d, p) \/ \E t \in 0..Horizon : CreateSchedule(s, d, p, t)
    \/ \E s \in Schedule, p \in BOOLEAN : SetPaused(s, p)
    \/ \E s \in Schedule, o \in 1..Horizon : Replay(s, o)
    \/ \E r \in Replica :
          ClaimDueSchedules(r) \/ Materialize(r) \/ LoseClaim(r) \/ Abandon(r)
    \/ Elapse

Spec == Init /\ [][Next]_vars

\* The supervisor restarts a failed task, a task runs its loop for as long as it
\* lives, and one replica does not fail on every claim it ever takes.
Fairness ==
    /\ WF_vars(Elapse)
    /\ WF_vars(\E r \in Replica : ClaimDueSchedules(r))
    /\ WF_vars(\E r \in Replica : LoseClaim(r))
    /\ SF_vars(\E r \in Replica : Materialize(r))

FairSpec == Spec /\ Fairness

-----------------------------------------------------------------------------
(* Properties.                                                             *)

Claim == [schedule : Schedule, defn : Definition, revision : 1..MaxRevision,
          cursor : 1..Horizon, token : Fence, at : 0..Horizon]

\* Types, with the table's CHECK that a lease has a token and a paused schedule
\* has neither: pausing clears what claim_due_schedules set.
TypeOK ==
    /\ now \in 0..Horizon
    /\ defn \in [Schedule -> Definition]
    /\ revision \in [Schedule -> 0..MaxRevision]
    /\ paused \in [Schedule -> BOOLEAN]
    /\ cursor \in [Schedule -> 0..(Horizon + 1)]
    /\ token \in [Schedule -> Fence \cup {None}]
    /\ lease \in [Schedule -> Nat]
    /\ runs \subseteq Schedule \X (1..Horizon) \X (0..MaxReplays)
    /\ claims \in [Replica -> SUBSET Claim]
    /\ since \in [Schedule -> 0..(Horizon + 1)]
    /\ \A s \in Schedule : token[s] = None => lease[s] = 0
    /\ \A s \in Schedule : paused[s] => token[s] = None

\* The unique index on occurrences never rejects the insertion of a claim that
\* still passes the fence: otherwise materialize_due would return Database, the
\* task would end, and the restarted task would claim the same schedule again.
InsertNeverCollides ==
    \A r \in Replica : \A c \in claims[r] : Owns(c) => Insertable(Planned(c))

\* Between two administrative changes a catch_up schedule loses no occurrence and
\* a fire_once schedule fires the occurrence its cursor first stood at, whatever
\* replicas crash, stall or overtake each other.
NoOccurrenceIsLost ==
    \A s \in Schedule :
        LET behind == {o \in defn[s].instants : since[s] <= o /\ o < cursor[s]}
        IN  CASE defn[s].policy = "catch_up"  -> behind \subseteq Runs(s)
              [] defn[s].policy = "fire_once" -> behind # {} => since[s] \in Runs(s)
              [] OTHER -> TRUE

\* evaluate_occurrences plans, for catch_up, exactly the earliest maxRuns of the
\* occurrences from the cursor to the time of the claim.
PlanIsEarliestMissed ==
    \A r \in Replica : \A c \in claims[r] :
        c.defn.policy = "catch_up" =>
            LET missed == {o \in c.defn.instants : c.cursor <= o /\ o <= c.at}
            IN  Occurrences(c.defn, c.cursor, c.at) =
                  {o \in missed : Cardinality({e \in missed : e < o}) < c.defn.maxRuns}

\* A new occurrence belongs to the definition in force and to the time since the
\* last administrative change, and the schedule is not paused: no claim taken
\* before a pause, a resume or an update is materialised after it.
RunsFollowTheRevision ==
    [][\A run \in runs' \ runs :
          run[3] = 0 => LET s == run[1] IN
                        /\ ~paused[s]
                        /\ run[2] \in defn[s].instants
                        /\ since[s] <= run[2] /\ run[2] <= now]_vars

\* A due schedule is eventually brought up to date or paused, through crashes of
\* replicas that hold its lease and through bounded catch-up batches.
DueIsBroughtUpToDate ==
    \A s \in Schedule :
        (Exists(s) /\ ~paused[s] /\ cursor[s] <= now) ~> (paused[s] \/ cursor[s] > now)
=============================================================================
