------------------------------ MODULE MCOutbox ------------------------------
(***************************************************************************)
(* Instances of Outbox for TLC.  `late' records whether a relay was ever   *)
(* delayed outside the publisher.                                          *)
(***************************************************************************)
EXTENDS Outbox

VARIABLE late

MCInit == Init /\ late = FALSE

MCNext ==
    \/ /\ \/ \E e \in Events : Append(e)
          \/ \E r \in Relays : RelayStep(r)
          \/ CleanupRetained
       /\ UNCHANGED late
    \/ Tick /\ late' = (late \/ ~Prompt)

MCSpec == MCInit /\ [][MCNext]_<<vars, late>>

MCFairSpec == MCSpec /\ Fairness

\* With a validated configuration a relay that was never delayed outside the
\* publisher does not lose a lease: the lease that OutboxConfig::validate demands
\* covers every sequential publication of a batch.
PromptRelayKeepsLease ==
    ~late => \A r \in Relays, e \in Events : held[r][e] # 0 => LeaseIsLive(e, held[r][e])
=============================================================================
