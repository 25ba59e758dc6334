---------------------------- MODULE MCSchedules ----------------------------
(***************************************************************************)
(* Instances of Schedules for TLC.                                         *)
(***************************************************************************)
EXTENDS Schedules

\* A bounded catch-up with a gap longer than one batch, and a fire_once over other
\* instants, so that an update changes both the policy and the calendar.
CatchUp == [instants |-> {1, 2, 3, 5}, policy |-> "catch_up", maxRuns |-> 2, lease |-> 2]
FireOnce == [instants |-> {2, 4, 5}, policy |-> "fire_once", maxRuns |-> 1, lease |-> 1]
Skip == [instants |-> {1, 2, 4}, policy |-> "skip", maxRuns |-> 1, lease |-> 1]

AllPolicies == {CatchUp, FireOnce, Skip}
=============================================================================
