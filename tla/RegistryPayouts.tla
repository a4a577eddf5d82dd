-------------------------- MODULE RegistryPayouts --------------------------
(***************************************************************************)
(* The payouts of one developer of the registry, over the credits of          *)
(* RegistryOrders: apps/registry/lib/payouts/balance-ledger.ts and the routes *)
(* that submit, approve and reject them.                                      *)
(*                                                                         *)
(* A submission computes the balance from two reads and then inserts the      *)
(* request; an approval updates the request and then debits the ledger.       *)
(* No statement depends on what another request does meanwhile.              *)
(***************************************************************************)
EXTENDS RegistryOrders, FiniteSetsExt

CONSTANTS
    Payouts,  \* payout requests
    Amount    \* the amount of each payout

ASSUME PayoutsAssumption ==
    /\ IsFiniteSet(Orders) /\ IsFiniteSet(Payouts)
    /\ Amount \in [Payouts -> Nat \ {0}]
    /\ None \notin Payouts

VARIABLES
    matured,  \* the credits whose hold of payoutHoldDays is over
    payouts,  \* the state of each payout request
    debited,  \* the payouts that are in the ledger: externalRef is unique
    desks,    \* requests about payouts
    overrun,  \* history: the payouts that were submitted on a balance that had changed or
              \* had a debit missing, or decided by a request they had changed under, or
              \* whose approval was left half-way
    lapses    \* the faults that were met by requests about payouts

payoutVars == <<matured, payouts, debited, desks, overrun, lapses>>

vars == <<orderVars, payoutVars>>

-----------------------------------------------------------------------------

PayoutStates == {"none", "PENDING_REVIEW", "APPROVED", "REJECTED"}

DeskPCs == {"idle", "frozen", "create", "approve", "debit", "reject"}

\* A request about a payout: the credits and debits it has read.
Desk == [pc : DeskPCs, payout : Payouts \cup {None}, credits : SUBSET Orders,
         debits : SUBSET Payouts, stale : BOOLEAN]

Free == [pc |-> "idle", payout |-> None, credits |-> {}, debits |-> {}, stale |-> FALSE]

Sitting(t, pc) == desks[t].pc = pc

Seat(t, desk) == desks' = [desks EXCEPT ![t] = desk]

PayoutInit ==
    /\ matured = {}
    /\ payouts = [p \in Payouts |-> "none"]
    /\ debited = {}
    /\ desks = [t \in Tasks |-> Free]
    /\ overrun = {}
    /\ lapses = 0

Sum(f, set) == MapThenSumSet(LAMBDA x : f[x], set)

InState(state) == {p \in Payouts : payouts[p] = state}

\* What the ledger lacks: an approval that has not debited.
Missing == InState("APPROVED") \ debited

\* The hold of a credit ends.
Mature(o) ==
    /\ o \in credited \ matured
    /\ matured' = matured \cup {o}
    /\ UNCHANGED <<orderVars, payouts, debited, desks, overrun, lapses>>

-----------------------------------------------------------------------------
(* submitPayout                                                              *)

\* computeBalance reads the ledger ...
Submit(t, p) ==
    /\ At(t, "idle") /\ Sitting(t, "idle")
    /\ payouts[p] = "none"
    /\ \A u \in Tasks : desks[u].payout # p
    /\ Seat(t, [pc |-> "frozen", payout |-> p, credits |-> credited, debits |-> debited,
                stale |-> Missing # {}])
    /\ UNCHANGED <<orderVars, matured, payouts, debited, overrun, lapses>>

\* What is not frozen by a pending payout or held.
Available(desk) ==
    Sum(Share, desk.credits \cap matured) - Sum(Amount, desk.debits)
    - Sum(Amount, InState("PENDING_REVIEW"))

\* Mutant: pending payouts are not frozen.
CoversUnfrozen(t) ==
    Sum(Share, desks[t].credits \cap matured) - Sum(Amount, desks[t].debits)
        >= Amount[desks[t].payout]

Covers(t) == Available(desks[t]) >= Amount[desks[t].payout]

\* ... then the pending payouts, and a payout it does not cover is refused ...
Check(t) ==
    /\ Sitting(t, "frozen")
    /\ Seat(t, IF Covers(t) THEN [desks[t] EXCEPT !.pc = "create", !.credits = {}, !.debits = {}]
                            ELSE Free)
    /\ UNCHANGED <<orderVars, matured, payouts, debited, overrun, lapses>>

\* The payout p is written by t, which becomes "desk"; requests that have read payouts or the
\* payout p are stale.
WritePayout(t, p, state, desk) ==
    /\ payouts' = [payouts EXCEPT ![p] = state]
    /\ overrun' = IF desks[t].stale THEN overrun \cup {p} ELSE overrun
    /\ desks' = [u \in Tasks |->
                   IF u = t THEN desk
                   ELSE IF desks[u].pc \in {"frozen", "create"} \/ desks[u].payout = p
                        THEN [desks[u] EXCEPT !.stale = TRUE]
                   ELSE desks[u]]

\* ... otherwise it is requested.
Request(t) ==
    /\ Sitting(t, "create")
    /\ WritePayout(t, desks[t].payout, "PENDING_REVIEW", Free)
    /\ UNCHANGED <<orderVars, matured, debited, lapses>>

-----------------------------------------------------------------------------
(* approvePayout, rejectPayout                                               *)

\* The request is read, and must be pending.
Decide(t, p) ==
    /\ At(t, "idle") /\ Sitting(t, "idle")
    /\ payouts[p] = "PENDING_REVIEW"
    /\ \E pc \in {"approve", "reject"} : Seat(t, [Free EXCEPT !.pc = pc, !.payout = p])
    /\ UNCHANGED <<orderVars, matured, payouts, debited, overrun, lapses>>

\* Mutant: the debit is left to a later run.
ApproveOnly(t) ==
    /\ Sitting(t, "approve")
    /\ WritePayout(t, desks[t].payout, "APPROVED", Free)
    /\ UNCHANGED <<orderVars, matured, debited, lapses>>

Approve(t) ==
    /\ Sitting(t, "approve")
    /\ WritePayout(t, desks[t].payout, "APPROVED", [Free EXCEPT !.pc = "debit", !.payout = desks[t].payout])
    /\ UNCHANGED <<orderVars, matured, debited, lapses>>

\* The debit follows; a second one is an error.
Debit(t) ==
    /\ Sitting(t, "debit")
    /\ debited' = debited \cup {desks[t].payout}
    /\ Seat(t, Free)
    /\ UNCHANGED <<orderVars, matured, payouts, overrun, lapses>>

Reject(t) ==
    /\ Sitting(t, "reject")
    /\ WritePayout(t, desks[t].payout, "REJECTED", Free)
    /\ UNCHANGED <<orderVars, matured, debited, lapses>>

\* An error or a crash.
Abandon(t) ==
    /\ ~Sitting(t, "idle")
    /\ faults + lapses < MaxFaults
    /\ lapses' = lapses + 1
    /\ overrun' = IF Sitting(t, "debit") THEN overrun \cup {desks[t].payout} ELSE overrun
    /\ Seat(t, Free)
    /\ UNCHANGED <<orderVars, matured, payouts, debited>>

-----------------------------------------------------------------------------

PayoutStep(t) == Check(t) \/ Request(t) \/ Approve(t) \/ Debit(t) \/ Reject(t)

\* A request is about an order or about a payout; faults of either kind count together.
OneRequest ==
    /\ \A t \in Tasks : tasks'[t].pc = "idle" \/ desks[t].pc = "idle"
    /\ faults' + lapses <= MaxFaults

Next ==
    \/ OrderNext /\ OneRequest /\ UNCHANGED payoutVars
    \/ \E o \in Orders : Mature(o)
    \/ \E t \in Tasks, p \in Payouts : Submit(t, p) \/ Decide(t, p)
    \/ \E t \in Tasks : PayoutStep(t) \/ Abandon(t)

Spec == Init /\ PayoutInit /\ [][Next]_vars

-----------------------------------------------------------------------------
(* Properties                                                                *)

PayoutTypeOK ==
    /\ matured \subseteq Orders
    /\ payouts \in [Payouts -> PayoutStates]
    /\ debited \subseteq Payouts
    /\ desks \in [Tasks -> Desk]
    /\ overrun \subseteq Payouts
    /\ lapses \in 0 .. MaxFaults

\* What has been requested and not been refused.
Committed == InState("PENDING_REVIEW") \cup InState("APPROVED") \cup debited

\* What a developer has requested and not been refused is covered by the credits whose hold is
\* over, whatever is credited, approved or rejected between the two reads of the balance,
\* unless a submission raced another one or an approval (balance-ledger.ts:328-350, 381).
BalanceCovers ==
    overrun = {} =>
        Sum(Share, matured) >= Sum(Amount, Committed)

\* End to end, it is covered by the shares of purchases the gateway has had the payments for
\* (order-service.ts:285-367, balance-ledger.ts:350).
PayoutsAreFunded ==
    overrun = {} =>
        Sum(Share, {o \in Orders : PaidFor(o)}) >= Sum(Amount, Committed)

\* t is between the approval of the payout p and its debit.
Debits(t, p) == Sitting(t, "debit") /\ desks[t].payout = p

\* The ledger holds a debit of each payout that is APPROVED and of no other one, or a request
\* is about to enter it, unless two decisions raced or an approval failed half-way
\* (balance-ledger.ts:407, 417).
LedgerFollowsDecisions ==
    \A p \in Payouts \ overrun :
        /\ p \in debited => payouts[p] = "APPROVED"
        /\ payouts[p] = "APPROVED" => p \in debited \/ \E t \in Tasks : Debits(t, p)

\* A decision is final, unless two administrators decide at once (balance-ledger.ts:403, 436).
DecisionIsFinal ==
    [][\A p \in Payouts \ overrun' :
         payouts[p] \in {"APPROVED", "REJECTED"} => payouts'[p] = payouts[p]]_vars

-----------------------------------------------------------------------------
(* The inductive invariant behind the safety properties.                     *)

\* What a request has learnt of its payout is still true, or the payout is overrun by the time
\* it matters.
DeskKnows(desk) ==
    /\ desk.pc # "idle" => desk.payout \in Payouts
    /\ desk.pc \in {"frozen", "create"} => payouts[desk.payout] = "none"
    /\ desk.pc \in {"approve", "debit", "reject"} => payouts[desk.payout] # "none"
    /\ desk.pc \in {"approve", "reject"} /\ ~desk.stale => payouts[desk.payout] = "PENDING_REVIEW"
    /\ desk.pc = "debit" /\ desk.payout \notin overrun
           => payouts[desk.payout] = "APPROVED" /\ desk.payout \notin debited

\* A payout is submitted once and debited once.
OneDesk ==
    \A t, u \in Tasks :
        /\ desks[t].payout = desks[u].payout
        /\ \/ desks[t].pc \in {"frozen", "create"}
           \/ desks[t].pc = "debit" /\ desks[u].pc = "debit" /\ desks[t].payout \notin overrun
        => t = u

PayoutIInv ==
    /\ PayoutTypeOK
    /\ LedgerFollowsDecisions
    /\ \A t \in Tasks : DeskKnows(desks[t])
    /\ OneDesk

-----------------------------------------------------------------------------
(* The inductive invariant behind BalanceCovers.                             *)

\* Nothing is written about payouts between the two reads of a submission that is not stale,
\* so that its debits are all there are, nor before it requests its payout, which remains
\* covered on top of the others: holds may end meanwhile, but never begin again.
Submits(desk) ==
    /\ desk.pc \in {"frozen", "create"} => Missing = {}
    /\ desk.pc = "frozen" => desk.debits = debited
    /\ desk.pc = "create" =>
           Sum(Share, matured) >= Sum(Amount, Committed) + Amount[desk.payout]

CoverInv ==
    overrun = {} =>
        /\ Sum(Share, matured) >= Sum(Amount, Committed)
        /\ \A t \in Tasks : ~desks[t].stale => Submits(desks[t])

=============================================================================
