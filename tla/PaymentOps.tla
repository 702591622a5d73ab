----------------------------- MODULE PaymentOps -----------------------------
(***************************************************************************)
(* One booking's payment, seen from both sides of the provider's API:      *)
(*                                                                         *)
(*   status   the payments row ("none" when there is no row yet),          *)
(*   ref      whether the row knows the provider's payment id,             *)
(*   gateway  what really happened to the passenger's money at Razorpay,   *)
(*   jobs     the retry jobs queued for the payment in this process,       *)
(*   hooks    the webhooks the provider has emitted and not yet delivered. *)
(*                                                                         *)
(* Every method of PaymentService is a constant operator from an entry to  *)
(* the SET of entries it may leave: the provider may refuse a call, may    *)
(* carry it out, or may carry it out and time out on the answer.  Modules  *)
(* with state choose one element of the set.                               *)
(*                                                                         *)
(* failure_reason, amounts and audit rows are left out: no decision of the *)
(* service reads them.                                                     *)
(***************************************************************************)

\* PaymentStatus.cancelled exists in the enum but no code assigns it.
PaymentStatus == {"none", "pending", "authorized", "captured", "refunded", "failed"}

\* "idle": an order nobody paid; "attempted": an attempt in progress;
\* "refunding": a refund the provider accepted and has not settled.
GatewayStatus == {"idle", "attempted", "authorized", "captured",
                  "refunding", "refunded", "failed"}

JobKind == {"capture", "refund", "reconcile"}

\* Razorpay's payment.refunded has the effect of refund.processed here, and
\* refund.failed only writes failure_reason.
HookEvent == {"payment.authorized", "payment.captured", "payment.failed",
              "refund.processed"}

Entry == [status : PaymentStatus, ref : BOOLEAN, gateway : GatewayStatus,
          jobs : SUBSET JobKind, hooks : SUBSET HookEvent]

NoPayment == [status |-> "none", ref |-> FALSE, gateway |-> "idle",
              jobs |-> {}, hooks |-> {}]

\* create_payment: the order exists at Razorpay, its payment id is unknown.
Opened(p) == [p EXCEPT !.status = "pending"]

Queue(p, kinds) == [p EXCEPT !.jobs = @ \cup kinds]

-----------------------------------------------------------------------------
(* The provider *)

\* The gateway moves to g and, for some moves, sends a webhook about it.
Move(p, g, events) == [p EXCEPT !.gateway = g, !.hooks = @ \cup events]

\* Moves the provider and the passenger's checkout make on their own: attempts,
\* automatic capture, automatic release of an authorization, settling a refund.
GatewayMoves(p) ==
  CASE p.gateway = "idle"       -> {Move(p, "attempted", {})}
    [] p.gateway = "attempted"  -> {Move(p, "authorized", {"payment.authorized"}),
                                    Move(p, "failed", {"payment.failed"})}
    [] p.gateway = "failed"     -> {Move(p, "attempted", {})}
    [] p.gateway = "authorized" -> {Move(p, "captured", {"payment.captured"}),
                                    Move(p, "refunded", {"refund.processed"})}
    [] p.gateway = "refunding"  -> {Move(p, "refunded", {"refund.processed"}),
                                    Move(p, "captured", {})}
    [] OTHER                    -> {}

\* Mutant: the provider's word is stored as it is.
SnapshotStatus_Raw(g) == g

\* What GET /orders/{id}/payments is translated to.
SnapshotStatus(g) ==
  CASE g \in {"idle", "attempted"}     -> "pending"
    [] g \in {"captured", "refunding"} -> "captured"
    [] OTHER                           -> g

\* A snapshot carries the payment id as soon as the order has an attempt.
Learn(p) == [p EXCEPT !.ref = @ \/ p.gateway # "idle"]

\* POST /payments/{id}/capture: refused, done, or done with the answer lost.
CaptureCall(p) ==
  LET done == Move(p, "captured", {"payment.captured"})
  IN  {[ok |-> FALSE, entry |-> p]} \cup
      IF p.ref /\ p.gateway = "authorized"
      THEN {[ok |-> TRUE, entry |-> done], [ok |-> FALSE, entry |-> done]}
      ELSE {}

\* POST /payments/{id}/refund: Razorpay refunds captured payments only.
RefundCall(p) ==
  LET done == Move(p, "refunding", {})
  IN  {[ok |-> FALSE, entry |-> p]} \cup
      IF p.ref /\ p.gateway = "captured"
      THEN {[ok |-> TRUE, entry |-> done], [ok |-> FALSE, entry |-> done]}
      ELSE {}

-----------------------------------------------------------------------------
(* PaymentService *)

\* _reconcile_provider_reference: only asks when the payment id is missing.
ReconcileReference(p) ==
  LET s == SnapshotStatus(p.gateway)
      known == IF s \in {"captured", "refunded", "failed"}
               THEN [Learn(p) EXCEPT !.status = s] ELSE Learn(p)
  IN  IF p.ref THEN {[ok |-> TRUE, entry |-> p]}
      ELSE {[ok |-> FALSE, entry |-> p], [ok |-> TRUE, entry |-> known]}

\* The reference lookup and the capture call; "ok" when the money was captured.
TryCapture(p) ==
  UNION {IF look.ok THEN {[ok |-> call.ok, found |-> TRUE,
                           entry |-> IF call.ok THEN [call.entry EXCEPT !.status = "captured"]
                                                ELSE call.entry]
                            : call \in CaptureCall(look.entry)}
                    ELSE {[ok |-> FALSE, found |-> FALSE, entry |-> p]}
           : look \in ReconcileReference(p)}

TryRefund(p) ==
  UNION {IF look.ok THEN {[ok |-> call.ok,
                           entry |-> IF call.ok THEN [call.entry EXCEPT !.status = "refunded"]
                                                ELSE call.entry]
                            : call \in RefundCall(look.entry)}
                    ELSE {[ok |-> FALSE, entry |-> p]}
           : look \in ReconcileReference(p)}

\* capture_payment_for_booking
Capture(p) ==
  IF p.status # "authorized" THEN {p}
  ELSE {IF t.ok THEN t.entry
        ELSE Queue(t.entry, IF t.found THEN {"capture"} ELSE {"capture", "reconcile"})
          : t \in TryCapture(p)}

\* refund_payment_for_booking
Refund(p) ==
  IF p.status \notin {"authorized", "captured"} THEN {p}
  ELSE {IF t.ok THEN t.entry ELSE Queue(t.entry, {"refund", "reconcile"})
          : t \in TryRefund(p)}

\* After a snapshot was stored: capture at once if the booking is accepted.
CaptureIfAccepted(p, accepted) ==
  IF p.status = "authorized" /\ accepted THEN Capture(p) ELSE {p}

\* confirm_payment of a pending payment; p itself is the provider error.
Confirm(p, accepted) ==
  LET s == SnapshotStatus(p.gateway)
  IN  {p} \cup
      CASE s = "pending"                  -> {Learn(p)}
        [] s \in {"authorized", "captured"} ->
             CaptureIfAccepted([Learn(p) EXCEPT !.status = s], accepted)
        [] OTHER                          -> {[p EXCEPT !.status = "failed"]}

\* reconcile_payment: the row takes the provider's status whatever it was.
Reconcile(p, accepted) ==
  IF p.status \in {"none", "refunded", "failed"} THEN {p}
  ELSE {p} \cup CaptureIfAccepted([Learn(p) EXCEPT !.status = SnapshotStatus(p.gateway)],
                                  accepted)

\* retry_capture_payment and retry_refund_payment, which look at no booking.
RetryCapture(p) == IF p.status # "authorized" THEN {p} ELSE {t.entry : t \in TryCapture(p)}

\* Mutant: a refund that was asked for counts as a refund.
RetryRefund_Optimistic(p) ==
  IF p.status \notin {"authorized", "captured"} THEN {p}
  ELSE {[t.entry EXCEPT !.status = "refunded"] : t \in TryRefund(p)}

RetryRefund(p) ==
  IF p.status \notin {"authorized", "captured"} THEN {p} ELSE {t.entry : t \in TryRefund(p)}

\* Mutant: a capture is only expected on a pending payment.
HookStatus_PendingOnly(s, e) ==
  CASE e = "payment.authorized" /\ s = "pending"                -> "authorized"
    [] e = "payment.captured" /\ s = "pending"                  -> "captured"
    [] e = "payment.failed" /\ s \in {"pending", "authorized"}   -> "failed"
    [] e = "refund.processed" /\ s \in {"authorized", "captured"} -> "refunded"
    [] OTHER                                                    -> s

\* _apply_webhook_transition
HookStatus(s, e) ==
  CASE e = "payment.authorized" /\ s = "pending"                -> "authorized"
    [] e = "payment.captured" /\ s \in {"pending", "authorized"} -> "captured"
    [] e = "payment.failed" /\ s \in {"pending", "authorized"}   -> "failed"
    [] e = "refund.processed" /\ s \in {"authorized", "captured"} -> "refunded"
    [] OTHER                                                    -> s

\* process_webhook_event: an event id is processed once, then remembered.
Deliver(p, e) ==
  [p EXCEPT !.status = HookStatus(@, e), !.ref = TRUE, !.hooks = @ \ {e}]

=============================================================================
