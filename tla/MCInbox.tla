------------------------------ MODULE MCInbox ------------------------------
\* The inbox for TLC: the bounds are in the configuration, and liveness is checked
\* in the same run, so no symmetry is declared.
EXTENDS Inbox
=============================================================================
