----------------------------- MODULE MCRefunds -----------------------------
(* Small instances of Refunds for TLC.                                       *)
EXTENDS Refunds, TLC

CONSTANTS r1, r2, t1, t2

OneRefund == {r1}
TwoRefunds == {r1, r2}
TwoTasks == {t1, t2}

\* Of an order of three cents: all of it, or two of them, which twice exceed it by one.
TwoOrThree == {2, 3}
Three == {3}

\* How WeChat Pay and Alipay answer for a refund they do not know.
AnError == {}
Processing == {"processing"}

\* Refunds and tasks are alike: sound for a run without liveness properties.
RefundSymmetry == Permutations(Tasks) \cup Permutations(Refunds)
=============================================================================
