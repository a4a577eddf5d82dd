--------------------------- MODULE MCIdempotency ---------------------------
(* Small instances of Idempotency for TLC.                                   *)
EXTENDS Idempotency, TLC

CONSTANTS t1, t2, t3, p1, p2

ThreeTasks == {t1, t2, t3}

TwoPayloads == {p1, p2}
=============================================================================
