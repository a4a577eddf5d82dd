-------------------------- MODULE MCRegistryPayouts --------------------------
(* Small instances of RegistryPayouts for TLC.                               *)
EXTENDS RegistryPayouts

CONSTANTS a, b, p, q, s, t

\* Purchases that are paid at once: RegistryOrders has the other ones.
TheOrders == {a, b}

\* Two payouts of which the share of a covers either one, and both shares cover both.
TwoPayouts == {p, q}
Shares == [x \in TheOrders |-> IF x = a THEN 2 ELSE 1]
Amounts == [x \in TwoPayouts |-> IF x = p THEN 2 ELSE 1]

TwoTasks == {s, t}
=============================================================================
