------------------------ MODULE MCIdempotencyLedger ------------------------
(* Small instances of IdempotencyLedger.                                     *)
EXTENDS IdempotencyLedger, TLC
=============================================================================
