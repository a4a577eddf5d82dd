------------------------ MODULE MCMerchantCallbacks ------------------------
(* Small instances of MerchantCallbacks for TLC.                             *)
EXTENDS MerchantCallbacks, TLC

CONSTANTS t1, t2

TwoTasks == {t1, t2}

SuccessAndFailure == {"success", "failure"}

\* PENDING and PROCESSING differ for nothing here.
OpenOrFailed == {"PENDING", "FAILED"}

\* Only EasyPay orders look for a credential.
AllForms == {f \in OrderForms : f.easypay \/ f.credential}
Reachable == {f \in AllForms : f.url}

\* The forms whose callback targets differ most: a plain order with a URL, and an EasyPay
\* order that has but its notify_url.
Contrasting == {f \in AllForms : f.credential /\ f.url = ~f.easypay}

\* The tasks are alike: sound for the run without liveness properties.
TaskSymmetry == Permutations(Tasks)
=============================================================================
