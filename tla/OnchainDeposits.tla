-------------------------- MODULE OnchainDeposits --------------------------
(***************************************************************************)
(* USDT deposits: the scan of an EVM chain behind a cursor and the matching   *)
(* of deposits to orders by amount and time (lib/onchain/service.ts), with    *)
(* the choice of the amounts (allocateUsdtTailAmount, lib/rates/usdt-quote.ts, *)
(* called by createPaymentOrder).                                            *)
(*                                                                         *)
(* One chain, one receiving account: an error of another account keeps the   *)
(* cursor where it is just as well.  Time is the height of the chain, for the *)
(* time of a deposit is the time of its block: an order has the height of the *)
(* block before it.  Orders on a USDT channel cannot be closed (PaymentOrders, *)
(* ExpiredIsSettled): once open, they stay so or become SUCCEEDED.            *)
(***************************************************************************)
EXTENDS Integers, FiniteSets

CONSTANTS
    Orders,         \* orders of one quoted amount, numbered as they are created
    Slots,          \* the tails that are tried
    Start,          \* the tail that is tried first for each order
    Lifetime,       \* USDT_QUOTE_TTL_SECONDS, in blocks
    Deposits,
    For,            \* the order each deposit is made for
    Confirmations,
    Overlap,        \* EVM_SCAN_OVERLAP_BLOCKS
    None,
    Horizon,        \* bound on the height
    MaxFaults       \* bound on errors and crashes

ASSUME DepositsAssumption ==
    /\ Orders \subseteq Nat /\ For \in [Deposits -> Orders]
    /\ Slots \in Nat \ {0} /\ Start \in [Orders -> 0 .. Slots - 1]
    /\ {Lifetime, Horizon, MaxFaults} \subseteq Nat /\ {Confirmations, Overlap} \subseteq Nat \ {0}
    /\ None \notin Nat \cup Deposits

VARIABLES
    head,       \* the last block
    rows,       \* the payment_order row of each order
    blocks,     \* the block of each deposit; Horizon + 1: not made yet
    deposits,   \* the onchain_deposit row of each deposit
    cursor,     \* the last block that was scanned
    tasks,      \* the scan and the rematch of one iteration of the worker
    straddled,  \* history: the orders whose amount was not chosen and stored at once
    first,      \* history: the first block that was scanned
    spoilt,     \* history: the deposits that had credited when an error or a crash came
    credited,   \* history: the pairs of a deposit and the order it credited
    faults

vars == <<head, rows, blocks, deposits, cursor, tasks, straddled, first, spoilt, credited, faults>>

chain == <<head, blocks>>
orders == <<rows, straddled>>
scanned == <<cursor, first>>
history == <<spoilt, credited>>

-----------------------------------------------------------------------------

Heights == 0 .. Horizon

Tails == 0 .. Slots - 1

\* "new": the row is there, the provider is asked; "chosen": it has an amount for it; "OPEN":
\* the amount is stored.
Row == [status : {"none", "new", "chosen", "OPEN", "SUCCEEDED"}, tail : Tails \cup {None},
        created : Heights]

DepositStatuses == {"none", "CONFIRMED", "MATCHED"}

Deposit == [status : DepositStatuses, order : Orders \cup {None}]

TaskNames == {"scan", "rematch"}

\* todo: the deposits left; deposit, order: those being matched; from, safe: the blocks scanned.
Task == [pc : {"idle", "start", "next", "look", "apply", "mark"}, todo : SUBSET Deposits,
         deposit : Deposits \cup {None}, order : Orders \cup {None}, from : Heights, safe : Heights]

Idle == [pc |-> "idle", todo |-> {}, deposit |-> None, order |-> None, from |-> 0, safe |-> 0]

At(t, pc) == tasks[t].pc = pc

Become(t, task) == tasks' = [tasks EXCEPT ![t] = task]

\* The task goes on with the deposits that are left.
Proceed(t) == Become(t, [tasks[t] EXCEPT !.pc = "next", !.deposit = None, !.order = None])

Init ==
    /\ head = 0
    /\ rows = [o \in Orders |-> [status |-> "none", tail |-> None, created |-> 0]]
    /\ blocks = [d \in Deposits |-> Horizon + 1]
    /\ deposits = [d \in Deposits |-> [status |-> "none", order |-> None]]
    /\ cursor = None
    /\ tasks = [t \in TaskNames |-> Idle]
    /\ straddled = {}
    /\ first = None
    /\ spoilt = {}
    /\ credited = {}
    /\ faults = 0

NewBlock ==
    /\ head < Horizon
    /\ head' = head + 1
    /\ UNCHANGED <<orders, blocks, deposits, scanned, tasks, history, faults>>

Made(d) == blocks[d] <= Horizon

\* A payer sends what the page of the order shows, perhaps late: the next block has it.
Transfer(d) ==
    /\ head < Horizon /\ ~Made(d)
    /\ rows[For[d]].status \in {"OPEN", "SUCCEEDED"}
    /\ blocks' = [blocks EXCEPT ![d] = head + 1]
    /\ UNCHANGED <<head, orders, deposits, scanned, tasks, history, faults>>

-----------------------------------------------------------------------------
(* Orders                                                                    *)

\* expireAt, which is quoteExpiresAt too.
ExpireAt(o) == rows[o].created + Lifetime

\* createPaymentOrder stores the order and asks the provider.
Place(o) ==
    /\ rows[o].status = "none" /\ \A x \in Orders : x < o => rows[x].status # "none"
    /\ rows' = [rows EXCEPT ![o].status = "new", ![o].created = head]
    /\ UNCHANGED <<chain, straddled, deposits, scanned, tasks, history, faults>>

\* The amounts of the other orders that are open and whose quote holds.
Occupied(o) ==
    {rows[x].tail : x \in {y \in Orders \ {o} : rows[y].status = "OPEN" /\ ExpireAt(y) >= head}}

\* allocateUsdtTailAmount takes the first tail that is free, beginning with one that depends on
\* the order.
Choose(o) ==
    /\ rows[o].status = "new"
    /\ \E offset \in Tails :
        LET Tail(i) == (Start[o] + i) % Slots
        IN
        /\ Tail(offset) \notin Occupied(o)
        /\ \A less \in 0 .. offset - 1 : Tail(less) \in Occupied(o)
        /\ rows' = [rows EXCEPT ![o].status = "chosen", ![o].tail = Tail(offset)]
    /\ straddled' = IF head > rows[o].created THEN straddled \cup {o} ELSE straddled
    /\ UNCHANGED <<chain, deposits, scanned, tasks, history, faults>>

\* createPaymentOrder stores the amount.  An order that chose before has not seen it.
Store(o) ==
    /\ rows[o].status = "chosen"
    /\ rows' = [rows EXCEPT ![o].status = "OPEN"]
    /\ straddled' = straddled \cup {x \in Orders \ {o} : rows[x].status = "chosen"}
    /\ UNCHANGED <<chain, deposits, scanned, tasks, history, faults>>

-----------------------------------------------------------------------------
(* The worker                                                                *)

\* runOnchainMaintenance starts the scan and the rematch side by side.
Begin ==
    /\ \A t \in TaskNames : At(t, "idle")
    /\ tasks' = [t \in TaskNames |-> [Idle EXCEPT !.pc = "start"]]
    /\ UNCHANGED <<chain, orders, deposits, scanned, history, faults>>

\* The first scan begins at the block it ends with, the others a little before the cursor.
FromBlock(safe) ==
    IF cursor = None THEN safe ELSE IF cursor > Overlap THEN cursor - Overlap + 1 ELSE 0

InBlocks(from, to) == {d \in Deposits : blocks[d] \in from .. to}

\* scanEvmChain asks for the transfers in the blocks that have their confirmations.
Range ==
    LET safe == head - Confirmations + 1
        from == FromBlock(safe)
    IN
    /\ At("scan", "start")
    /\ Become("scan", IF head < Confirmations THEN Idle
                      ELSE [Idle EXCEPT !.pc = "next", !.todo = InBlocks(from, safe), !.from = from,
                              !.safe = safe])
    /\ UNCHANGED <<chain, orders, deposits, scanned, history, faults>>

\* rematchConfirmedDeposits lists the deposits that are not matched.
List ==
    /\ At("rematch", "start")
    /\ Become("rematch", [Idle EXCEPT !.pc = "next",
                            !.todo = {d \in Deposits : deposits[d].status = "CONFIRMED"}])
    /\ UNCHANGED <<chain, orders, deposits, scanned, history, faults>>

\* The next deposit: the scan stores it and leaves it if it has an order; the rematch goes by
\* its list.
Take(t, d) ==
    /\ At(t, "next")
    /\ d \in tasks[t].todo /\ \A x \in tasks[t].todo : blocks[d] <= blocks[x]
    /\ deposits' = IF t = "scan" /\ deposits[d].status = "none"
                   THEN [deposits EXCEPT ![d].status = "CONFIRMED"]
                   ELSE deposits
    /\ Become(t, [tasks[t] EXCEPT !.todo = @ \ {d},
                    !.pc = IF t = "scan" /\ deposits[d].order # None THEN "next" ELSE "look",
                    !.deposit = IF t = "scan" /\ deposits[d].order # None THEN None ELSE d])
    /\ UNCHANGED <<chain, orders, scanned, history, faults>>

\* Mutant: an order may have been created after the deposit.
CandidatesAnyTime(d) ==
    {o \in Orders :
        /\ rows[o].status = "OPEN"
        /\ rows[o].tail = rows[For[d]].tail
        /\ blocks[d] <= ExpireAt(o)}

\* Mutant: an order is open until it is paid.
CandidatesUnexpired(d) ==
    {o \in Orders :
        /\ rows[o].status = "OPEN"
        /\ rows[o].tail = rows[For[d]].tail
        /\ rows[o].created < blocks[d]}

\* The open orders of that amount that the deposit may be for.
Candidates(d) ==
    {o \in Orders :
        /\ rows[o].status = "OPEN"
        /\ rows[o].tail = rows[For[d]].tail
        /\ rows[o].created < blocks[d] /\ blocks[d] <= ExpireAt(o)}

\* matchDepositToOrder: there must be exactly one.
Look(t) ==
    LET candidates == Candidates(tasks[t].deposit)
    IN
    /\ At(t, "look")
    /\ \/ Cardinality(candidates) = 1
          /\ \E o \in candidates : Become(t, [tasks[t] EXCEPT !.pc = "apply", !.order = o])
       \/ Cardinality(candidates) # 1 /\ Proceed(t)
    /\ UNCHANGED <<chain, orders, deposits, scanned, history, faults>>

\* Mutant: the deposit is marked before the order is paid.
ApplyMarked(t) ==
    /\ At(t, "apply")
    /\ deposits' = [deposits EXCEPT ![tasks[t].deposit] =
                      [status |-> "MATCHED", order |-> tasks[t].order]]
    /\ Become(t, [tasks[t] EXCEPT !.pc = "mark"])
    /\ UNCHANGED <<chain, orders, scanned, history, faults>>

\* applyPaymentNotification: the order is paid ...
Apply(t) ==
    LET o == tasks[t].order
    IN
    /\ At(t, "apply")
    /\ rows' = [rows EXCEPT ![o].status = "SUCCEEDED"]
    /\ credited' = credited \cup {<<tasks[t].deposit, o>>}
    /\ Become(t, [tasks[t] EXCEPT !.pc = "mark"])
    /\ UNCHANGED <<chain, straddled, deposits, scanned, spoilt, faults>>

\* ... and the deposit is MATCHED.
Mark(t) ==
    /\ At(t, "mark")
    /\ deposits' = [deposits EXCEPT ![tasks[t].deposit] =
                      [status |-> "MATCHED", order |-> tasks[t].order]]
    /\ Proceed(t)
    /\ UNCHANGED <<chain, orders, scanned, history, faults>>

\* Nothing is left: a scan without an error moves the cursor.
Finish(t) ==
    /\ At(t, "next") /\ tasks[t].todo = {}
    /\ cursor' = IF t = "scan" THEN tasks[t].safe ELSE cursor
    /\ first' = IF t = "scan" /\ first = None THEN tasks[t].from ELSE first
    /\ Become(t, Idle)
    /\ UNCHANGED <<chain, orders, deposits, history, faults>>

Spoil(names) ==
    spoilt' = spoilt \cup {tasks[t].deposit : t \in {x \in names : At(x, "mark")}}

\* Mutant: the cursor moves whatever became of the scan.
FailMoving(t) ==
    /\ faults < MaxFaults
    /\ faults' = faults + 1
    /\ ~At(t, "idle")
    /\ cursor' = IF t = "scan" /\ ~At(t, "start") THEN tasks[t].safe ELSE cursor
    /\ first' = IF t = "scan" /\ ~At(t, "start") /\ first = None THEN tasks[t].from ELSE first
    /\ Spoil({t})
    /\ Become(t, Idle)
    /\ UNCHANGED <<chain, orders, deposits, credited>>

\* An error ends the scan or the rematch.
Fail(t) ==
    /\ faults < MaxFaults
    /\ faults' = faults + 1
    /\ ~At(t, "idle")
    /\ Spoil({t})
    /\ Become(t, Idle)
    /\ UNCHANGED <<chain, orders, deposits, scanned, credited>>

\* The worker dies and is started again.
Crash ==
    /\ faults < MaxFaults
    /\ faults' = faults + 1
    /\ \E t \in TaskNames : ~At(t, "idle")
    /\ Spoil(TaskNames)
    /\ tasks' = [t \in TaskNames |-> Idle]
    /\ UNCHANGED <<chain, orders, deposits, scanned, credited>>

-----------------------------------------------------------------------------

Work(t) ==
    \/ t = "scan" /\ Range
    \/ t = "rematch" /\ List
    \/ \E d \in Deposits : Take(t, d)
    \/ Look(t) \/ Apply(t) \/ Mark(t) \/ Finish(t)

Next ==
    \/ NewBlock
    \/ Begin
    \/ Crash
    \/ \E d \in Deposits : Transfer(d)
    \/ \E o \in Orders : Place(o) \/ Choose(o) \/ Store(o)
    \/ \E t \in TaskNames : Work(t) \/ Fail(t)

Spec == Init /\ [][Next]_vars

\* Blocks are found, the worker comes round again and its tasks go on.
Fairness ==
    /\ WF_vars(NewBlock) /\ WF_vars(Begin)
    /\ \A t \in TaskNames : WF_vars(Work(t))

FairSpec == Spec /\ Fairness

-----------------------------------------------------------------------------
(* Properties                                                                *)

TypeOK ==
    /\ head \in Heights
    /\ rows \in [Orders -> Row]
    /\ blocks \in [Deposits -> 0 .. Horizon + 1]
    /\ deposits \in [Deposits -> Deposit]
    /\ cursor \in Heights \cup {None}
    /\ tasks \in [TaskNames -> Task]
    /\ straddled \subseteq Orders
    /\ first \in Heights \cup {None}
    /\ spoilt \subseteq Deposits
    /\ credited \subseteq Deposits \X Orders
    /\ faults \in 0 .. MaxFaults

\* Every deposit of a block between the first one scanned and the cursor has a row, whatever
\* scan failed or died (onchain/service.ts:597, 695).
NoDepositIsMissed ==
    cursor # None => \A d \in Deposits : blocks[d] \in first .. cursor => deposits[d].status # "none"

\* A task that matches a deposit knows it, and the order once there is one.
TaskKnows(task) ==
    /\ task.pc \in {"look", "apply", "mark"} => task.deposit \in Deposits
    /\ task.pc \in {"apply", "mark"} => task.order \in Orders

Scanning == {"next", "look", "apply", "mark"}

\* The scan leaves no gap behind the cursor, and what it has not stored yet it still holds.
ScanCovers ==
    LET scan == tasks["scan"]
    IN
    scan.pc \in Scanning =>
        /\ scan.safe <= head
        /\ cursor # None => scan.from <= cursor + 1
        /\ \A d \in Deposits :
               blocks[d] \in scan.from .. scan.safe => d \in scan.todo \/ deposits[d].status # "none"

\* The inductive invariant behind NoDepositIsMissed: the cursor is behind the head, and the scan
\* that will move it holds the deposits it passes (onchain/service.ts:597-606, 695).
IInv ==
    /\ TypeOK
    /\ NoDepositIsMissed
    /\ ScanCovers
    /\ cursor = None <=> first = None
    /\ cursor # None => cursor <= head
    /\ \A t \in TaskNames : TaskKnows(tasks[t])

\* The deposit was made while its order could be paid.
InTime(d) == Made(d) /\ blocks[d] <= ExpireAt(For[d])

\* Another deposit has credited the order of d.
Again(d) == \E x \in Deposits \ {d} : <<x, For[d]>> \in credited

\* A deposit credits the order it was made for although it is matched by two tasks at a time, or
\* again after a crash, and amounts are used again: unless it came late or was the second one,
\* or an amount was not chosen and stored at once (onchain/service.ts:383-496, 998).
RightOrderIsCredited ==
    straddled = {} =>
        \A pair \in credited : pair[2] = For[pair[1]] \/ ~InTime(pair[1]) \/ Again(pair[1])

\* A deposit that is MATCHED has credited that order, and one that has credited an order is
\* MATCHED to it or about to be, unless an error came between (onchain/service.ts:467, 482).
MatchedIsCredited ==
    /\ \A d \in Deposits : deposits[d].order # None => <<d, deposits[d].order>> \in credited
    /\ straddled = {} =>
        \A pair \in credited :
            \/ pair[1] \in spoilt
            \/ deposits[pair[1]].order = pair[2]
            \/ \E t \in TaskNames : At(t, "mark") /\ tasks[t].deposit = pair[1]

\* A deposit made in time in a block that was scanned credits its order in the end
\* (onchain/service.ts:466, 498), if no order was ever stored after another one had chosen its
\* amount (straddled): two open orders of one amount leave a deposit ambiguous, which no later
\* round resolves (rates/usdt-quote.ts:270).
PaidIsCredited ==
    \A d \in Deposits :
        <>[](/\ first # None /\ blocks[d] >= first /\ blocks[d] <= Horizon - Confirmations + 1
             /\ InTime(d) /\ straddled = {}
             => rows[For[d]].status = "SUCCEEDED")

-----------------------------------------------------------------------------
(* The inductive invariant behind RightOrderIsCredited and MatchedIsCredited. *)

Stored(o) == rows[o].status \in {"OPEN", "SUCCEEDED"}

\* d has credited o, or a task is about to credit it.
Finds(t, d, o) == tasks[t].pc \in {"apply", "mark"} /\ tasks[t].deposit = d /\ tasks[t].order = o

Found(d, o) == <<d, o>> \in credited \/ \E t \in TaskNames : Finds(t, d, o)

\* What the worker knows of is in a block.
Mined(d) == blocks[d] <= head

SeenAreMined ==
    /\ \A d \in Deposits : deposits[d].status # "none" => Mined(d)
    /\ \A t \in TaskNames :
           /\ \A d \in tasks[t].todo : Mined(d)
           /\ tasks[t].pc \in {"look", "apply", "mark"} => Mined(tasks[t].deposit)

\* A deposit is made after its order, and matched to orders of its amount and time.
DepositsFit ==
    /\ \A o \in Orders : rows[o].created <= head
    /\ \A d \in Deposits : Made(d) => Stored(For[d]) /\ rows[For[d]].created < blocks[d]
    /\ \A d \in Deposits, o \in Orders :
           Found(d, o) =>
               /\ Mined(d) /\ Stored(o) /\ rows[o].tail = rows[For[d]].tail
               /\ rows[o].created < blocks[d] /\ blocks[d] <= ExpireAt(o)

\* x was created when no deposit could be for o any more: its time was over, or it was paid.
Apart(o, x) ==
    \/ ExpireAt(o) < rows[x].created
    \/ /\ rows[o].status = "SUCCEEDED"
       /\ \A d \in Deposits : Found(d, o) => blocks[d] <= rows[x].created

\* Orders of one amount follow each other.
AmountsApart ==
    straddled = {} =>
        \A o, x \in Orders :
            /\ o # x /\ rows[o].tail = rows[x].tail
            /\ Stored(o) /\ (Stored(x) \/ rows[x].status = "chosen")
            => Apart(o, x) \/ Apart(x, o)

\* Orders are paid by deposits, and deposits are marked after they have paid.
CreditsComeFirst ==
    /\ \A o \in Orders : rows[o].status = "SUCCEEDED" => \E d \in Deposits : <<d, o>> \in credited
    /\ \A t \in TaskNames : At(t, "mark") => <<tasks[t].deposit, tasks[t].order>> \in credited

CreditInv == SeenAreMined /\ DepositsFit /\ AmountsApart /\ CreditsComeFirst /\ MatchedIsCredited

=============================================================================
