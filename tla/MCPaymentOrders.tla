-------------------------- MODULE MCPaymentOrders --------------------------
(* Small instances of PaymentOrders for TLC: one order on any kind of channel, *)
(* and pools of three tasks whose roles make the interesting races possible.  *)
EXTENDS PaymentOrders

CONSTANTS o1, t1, t2, t3

OneOrder == {o1}
ThreeTasks == {t1, t2, t3}
TwoTasks == {t1, t2}

AllChannels == ChannelKinds

\* One server task creates and closes, another takes webhooks, the third is the finance
\* worker: the shortest pool with a stale writer of each kind.
WorkerRoles ==
    [t \in Tasks |->
        CASE t = t1 -> {"create", "close"}
          [] t = t2 -> {"notify"}
          [] t = t3 -> {"expire", "backfill"}]

\* One server task, and one worker that also polls.
LiveRoles ==
    [t \in Tasks |->
        IF t = t1 THEN {"create", "notify", "close"}
        ELSE {"lookup", "expire", "backfill"}]

NoUpstreamCloses == {}
=============================================================================
