------------------------------ MODULE Payments ------------------------------
(***************************************************************************)
(* What NovaPay promises of its payment orders, whoever reads them and in     *)
(* whatever order its handlers run: an order is there for good, it succeeds   *)
(* and is booked only after its payment was reported, and the ledger only     *)
(* grows, a fee never before the capture it is taken from.  It is not         *)
(* promised that a success stays: stale writers may undo it.                  *)
(***************************************************************************)
EXTENDS OrderStatus

CONSTANT Orders

VARIABLES
    status,    \* what a reader sees of each order
    reported,  \* orders whose payment the provider has reported
    booked     \* the ledger entries, as pairs <<order, entry type>>

Init ==
    /\ status = [o \in Orders |-> "ABSENT"]
    /\ reported = {}
    /\ booked = {}

There(o) == status[o] # "ABSENT"

Place(o) ==
    /\ ~There(o)
    /\ status' = [status EXCEPT ![o] = "PENDING"]
    /\ UNCHANGED <<reported, booked>>

\* The provider reports a payment of the amount that the order asks for.
Report(o) ==
    /\ There(o)
    /\ reported' = reported \cup {o}
    /\ UNCHANGED <<status, booked>>

\* The order gets another status: any, but for success, which wants a report.
Change(o, new) ==
    /\ There(o)
    /\ new = "SUCCEEDED" => o \in reported
    /\ status' = [status EXCEPT ![o] = new]
    /\ UNCHANGED <<reported, booked>>

Book(o, type) ==
    /\ o \in reported
    /\ type = "fee" => <<o, "capture">> \in booked
    /\ booked' = booked \cup {<<o, type>>}
    /\ UNCHANGED <<status, reported>>

Next ==
    \E o \in Orders :
        \/ Place(o) \/ Report(o)
        \/ \E new \in Statuses : Change(o, new)
        \/ \E type \in {"capture", "fee"} : Book(o, type)

Spec == Init /\ [][Next]_<<status, reported, booked>>
=============================================================================
