---------------------------- MODULE OrderStatus ----------------------------
(***************************************************************************)
(* The pure status functions of lib/orders/status.ts.  A provider status is *)
(* a free-form string in the code, read only through three regular          *)
(* expressions; it is abstracted here to the class those expressions put it *)
(* in, in the order the code tries them:                                    *)
(*   "success"  the notification carries succeeds = true                    *)
(*   "closed"   /CLOSE|CANCEL|EXPIRE/      "failure"  /FAIL|ERROR/          *)
(*   "pending"  everything else (WAIT..., NOTPAY, an unknown status)        *)
(***************************************************************************)

\* enum PaymentStatus of prisma/schema.prisma
Statuses == {"PENDING", "PROCESSING", "SUCCEEDED", "FAILED", "CANCELLED"}

Active == {"PENDING", "PROCESSING"}

NoteKinds == {"success", "closed", "failure", "pending"}

IsTerminal(status) == status \in {"SUCCEEDED", "FAILED", "CANCELLED"}

\* What provider.createPayment() answers, as a status of the order.
CreateResults == {"requires_action", "processing"}

\* statusFromCreatePayment
StatusFromCreatePayment(result) ==
    IF result = "processing" THEN "PROCESSING" ELSE "PENDING"

\* Mutant: a closing notification also cancels a paid order.
ResolveUnguarded(current, kind) ==
    CASE kind = "success" -> "SUCCEEDED"
      [] kind = "closed"  -> "CANCELLED"
      [] kind = "failure" -> IF IsTerminal(current) THEN current ELSE "FAILED"
      [] kind = "pending" -> IF IsTerminal(current) THEN current ELSE "PROCESSING"

\* resolvePaymentStatusFromNotification
ResolveStatus(current, kind) ==
    CASE kind = "success" -> "SUCCEEDED"
      [] kind = "closed"  -> IF current = "SUCCEEDED" THEN current ELSE "CANCELLED"
      [] kind = "failure" -> IF IsTerminal(current) THEN current ELSE "FAILED"
      [] kind = "pending" -> IF IsTerminal(current) THEN current ELSE "PROCESSING"

=============================================================================
