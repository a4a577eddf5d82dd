--------------------------- MODULE MCSettlements ---------------------------
(* Small instances of Settlements for TLC.                                   *)
EXTENDS Settlements

CONSTANTS c, r, worker, admin

\* A payment of three and a refund of two, on the same day or on a later one, which then
\* ends below zero.
PaymentAndRefund == {c, r}
Signed == [e \in Entries |-> IF e = r THEN -2 ELSE 3]
AfterPayment == [e \in Entries |-> IF e = r THEN {c} ELSE {}]

OneWorker == {worker}
OneAdmin == {admin}
=============================================================================
