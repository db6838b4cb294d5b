--------------------------- MODULE MCIdempotency ---------------------------
(* Model-checking instances of Idempotency.  There is no symmetry, as one  *)
(* of them checks a liveness property.                                     *)
EXTENDS Idempotency
=============================================================================
