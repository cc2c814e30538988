--------------------------- MODULE MCIdempotency ---------------------------
(* Instances of Idempotency for TLC. *)
EXTENDS Idempotency

CONSTANTS r1, r2, r3, r4

FourRequests == {r1, r2, r3, r4}
OneInvalid == {r4}
=============================================================================
