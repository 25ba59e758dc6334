--------------------------- MODULE MCIdempotency ---------------------------
\* The idempotency store for TLC: the bounds are in the configuration, and liveness
\* is checked in the same run, so no symmetry is declared.
EXTENDS Idempotency
=============================================================================
