---------------------------- MODULE SingleResult ----------------------------
(***************************************************************************)
(* What lib/openapi.ts promises of an idempotency key: one answer is decided, *)
(* once, and every client that is given an answer is given that one.          *)
(***************************************************************************)
CONSTANT Answers

VARIABLES
    decided,  \* the answer of the key, as a set of at most one
    told      \* the answers given to clients

Init == decided = {} /\ told = {}

\* The answer is decided, and perhaps the client that waits for it is told.
Decide(a) ==
    /\ decided = {}
    /\ decided' = {a}
    /\ told' \in {told, told \cup {a}}

\* Another client is told.
Tell ==
    /\ decided # {}
    /\ told' = told \cup decided
    /\ UNCHANGED decided

Next == Tell \/ \E a \in Answers : Decide(a)

Spec == Init /\ [][Next]_<<decided, told>>
=============================================================================
