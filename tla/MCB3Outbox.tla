----------------------------- MODULE MCB3Outbox -----------------------------
\* Small instances of B3Outbox.
EXTENDS B3Outbox, TLC

=============================================================================
