-------------------------- MODULE MCScheduledRuns --------------------------
(***************************************************************************)
(* Instances of ScheduledRuns for TLC.                                     *)
(***************************************************************************)
EXTENDS ScheduledRuns, TLC

\* The gate on its own: every run but one has been handed over once, the other is
\* yet to be inserted by a replay, and no replica is left to hand runs over.
GateInit ==
    /\ \E new \in Run :
          /\ status = [x \in Run |-> IF x = new THEN "absent" ELSE "dispatched"]
          /\ dispatchedAt = [x \in Run |-> x # new]
          /\ copies = [x \in Run |-> IF x = new THEN 0 ELSE 1]
    /\ wait = [x \in Run |-> 0]
    /\ dToken = [x \in Run |-> None] /\ dLease = [x \in Run |-> 0]
    /\ eToken = [x \in Run |-> None] /\ eLease = [x \in Run |-> 0]
    /\ startedAt = [x \in Run |-> FALSE]
    /\ held = [d \in Replica |-> {}] /\ handoff = [d \in Replica |-> None]
    /\ dead = [x \in Run |-> 0]
    /\ worker = [w \in Worker |-> Idle]
    /\ runLock = [x \in Run |-> None] /\ scheduleLock = None
    /\ replay = [pc |-> "idle", run |-> None, begun |-> 0]
    /\ faults = 0

GateSpec == GateInit /\ [][Next]_vars

Symmetry == Permutations(Run) \cup Permutations(Worker) \cup Permutations(Replica)
=============================================================================
