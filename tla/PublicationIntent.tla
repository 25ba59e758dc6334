-------------------------- MODULE PublicationIntent --------------------------
(***************************************************************************)
(* What the outbox promises the business code, without rows, leases, fences *)
(* or relays: a recorded intent is tried a bounded number of times, counts  *)
(* as published only after the broker has seen the event, and is forgotten  *)
(* only when it is published or its tries are used up.                      *)
(***************************************************************************)
EXTENDS Naturals

CONSTANTS Events, MaxTries

VARIABLES
    intent,  \* absent, pending, published or gone
    tries,   \* how often the intent has been taken up
    seen     \* the events the broker has seen

vars == <<intent, tries, seen>>

Init ==
    /\ intent = [e \in Events |-> "absent"]
    /\ tries = [e \in Events |-> 0]
    /\ seen = {}

Record(e) ==
    /\ intent[e] = "absent"
    /\ intent' = [intent EXCEPT ![e] = "pending"]
    /\ UNCHANGED <<tries, seen>>

Try(B) ==
    /\ \A e \in B : intent[e] = "pending" /\ tries[e] < MaxTries
    /\ tries' = [e \in Events |-> IF e \in B THEN tries[e] + 1 ELSE tries[e]]
    /\ UNCHANGED <<intent, seen>>

\* A slow attempt may reach the broker after the intent is settled or gone.
Show(e) ==
    /\ tries[e] > 0
    /\ seen' = seen \cup {e}
    /\ UNCHANGED <<intent, tries>>

Settle(e) ==
    /\ intent[e] = "pending" /\ e \in seen
    /\ intent' = [intent EXCEPT ![e] = "published"]
    /\ UNCHANGED <<tries, seen>>

Forget(B) ==
    /\ \A e \in B : \/ intent[e] = "published"
                    \/ intent[e] = "pending" /\ tries[e] = MaxTries
    /\ intent' = [e \in Events |-> IF e \in B THEN "gone" ELSE intent[e]]
    /\ UNCHANGED <<tries, seen>>

Next ==
    \/ \E e \in Events : Record(e) \/ Show(e) \/ Settle(e)
    \/ \E B \in SUBSET Events : Try(B) \/ Forget(B)

Spec == Init /\ [][Next]_vars
=============================================================================
