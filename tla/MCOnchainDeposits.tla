------------------------- MODULE MCOnchainDeposits -------------------------
(* A small instance of OnchainDeposits for TLC.                              *)
EXTENDS OnchainDeposits

CONSTANTS d, e

\* Two orders that try the same tail first, and a deposit for each of them.
TheOrders == {1, 2}
SameStart == [o \in TheOrders |-> 0]
TheDeposits == {d, e}
OrderOf == [x \in TheDeposits |-> IF x = d THEN 1 ELSE 2]
=============================================================================
