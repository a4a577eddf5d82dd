-------------------------- MODULE MCRegistryOrders --------------------------
(* Small instances of RegistryOrders for TLC.                                *)
EXTENDS RegistryOrders

CONSTANTS g, a, s, t

\* A purchase through the gateway and one that is paid at once.
TwoOrders == {g, a}
OneAuto == {a}

\* The developer has no cut of the latter.
Shares == [x \in TwoOrders |-> IF x = g THEN 1 ELSE 0]

TwoTasks == {s, t}
=============================================================================
