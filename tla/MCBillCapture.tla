--------------------------- MODULE MCBillCapture ---------------------------
(* Small instances of BillCapture for TLC.                                   *)
EXTENDS BillCapture

CONSTANTS b1, b2

\* Two orders of one amount, so that the second one has a tail or takes the amount again.
TheOrders == {1, 2}
BaseOf == [o \in TheOrders |-> 100]

\* 100.01 does not pass for 100.00.
NoTail == {0}

\* A bill for each order; the one for the first order has a remark that is not the order's, and
\* comes from a listener.
TwoBills == {b1, b2}
OrderOf == [y \in TwoBills |-> IF y = b1 THEN 2 ELSE 1]
RemarkOf == [y \in TwoBills |-> IF y = b1 THEN "none" ELSE "other"]
TheListener == {b2}

TwoTasks == {1, 2}
=============================================================================
