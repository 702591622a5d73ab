-------------------------- MODULE PaymentOpsProofs --------------------------
(***************************************************************************)
(* What each method of PaymentService may do to one payment: it leaves an  *)
(* entry, keeps the money rules (Sound) and never moves a settled row      *)
(* back (Advances).  The methods are not recursive and touch one entry, so *)
(* each fact follows from those of the calls the method makes.             *)
(***************************************************************************)
EXTENDS PaymentOps, TLAPS

Charged == {"captured", "refunding", "refunded"}

\* The row and the undelivered webhooks agree with the money: NoPhantomMoney and
\* CaptureIsAnnounced of one payment, and what the webhooks to come may claim.
Sound(p) ==
  /\ p.status = "none" => p.gateway = "idle"
  /\ p.status \in {"captured", "refunded"} => p.gateway \in Charged
  /\ p.status \in {"pending", "authorized"} /\ p.gateway \in {"captured", "refunding"}
       => "payment.captured" \in p.hooks
  /\ "payment.captured" \in p.hooks => p.gateway \in Charged
  /\ "refund.processed" \in p.hooks => p.gateway = "refunded"

\* PaymentNeverMovesBack of one payment.
Advances(p, q) ==
  /\ p.status = "captured" => q.status \in {"captured", "refunded"}
  /\ p.status \in {"refunded", "failed"} => q.status = p.status

Good(p, q) == q \in Entry /\ Sound(q) /\ Advances(p, q)

-----------------------------------------------------------------------------
(* Updates of one field *)

LEMMA MoveEntry ==
  ASSUME NEW p \in Entry, NEW g \in GatewayStatus, NEW E \in SUBSET HookEvent
  PROVE  LET q == Move(p, g, E) IN
         /\ q \in Entry
         /\ q.status = p.status /\ q.ref = p.ref /\ q.jobs = p.jobs
         /\ q.gateway = g /\ q.hooks = p.hooks \cup E
  BY DEF Move, Entry

LEMMA StatusEntry ==
  ASSUME NEW p \in Entry, NEW s \in PaymentStatus
  PROVE  LET q == [p EXCEPT !.status = s] IN
         /\ q \in Entry
         /\ q.status = s /\ q.ref = p.ref /\ q.jobs = p.jobs
         /\ q.gateway = p.gateway /\ q.hooks = p.hooks
  BY DEF Entry

LEMMA LearnEntry ==
  ASSUME NEW p \in Entry
  PROVE  LET q == Learn(p) IN
         /\ q \in Entry
         /\ q.status = p.status /\ q.jobs = p.jobs
         /\ q.gateway = p.gateway /\ q.hooks = p.hooks
  <1>1. (p.ref \/ p.gateway # "idle") \in BOOLEAN
    OBVIOUS
  <1> QED BY <1>1 DEF Learn, Entry

LEMMA QueueEntry ==
  ASSUME NEW p \in Entry, NEW K \in SUBSET JobKind
  PROVE  LET q == Queue(p, K) IN
         /\ q \in Entry
         /\ q.status = p.status /\ q.ref = p.ref
         /\ q.gateway = p.gateway /\ q.hooks = p.hooks
  BY DEF Queue, Entry

LEMMA SnapshotType ==
  ASSUME NEW g \in GatewayStatus
  PROVE  /\ SnapshotStatus(g) \in {"pending", "authorized", "captured", "refunded", "failed"}
         /\ SnapshotStatus(g) = "captured" <=> g \in {"captured", "refunding"}
         /\ SnapshotStatus(g) \in {"authorized", "refunded", "failed"} => SnapshotStatus(g) = g
         /\ g = "refunded" => SnapshotStatus(g) = "refunded"
  BY DEF SnapshotStatus, GatewayStatus

-----------------------------------------------------------------------------
(* The provider's calls *)

\* Every caller looks at the status first.  Looking the payment id up keeps the gateway and the webhooks as they are.
LEMMA LookupGood ==
  ASSUME NEW p \in Entry, Sound(p), p.status \notin {"refunded", "failed"},
         NEW look \in ReconcileReference(p)
  PROVE  /\ Good(p, look.entry)
         /\ look.entry.gateway = p.gateway
         /\ look.entry.hooks = p.hooks
  <1> DEFINE s == SnapshotStatus(p.gateway)
             known == IF s \in {"captured", "refunded", "failed"}
                      THEN [Learn(p) EXCEPT !.status = s] ELSE Learn(p)
  <1>1. p.gateway \in GatewayStatus /\ p.status \in PaymentStatus
    BY DEF Entry
  <1>2. /\ s \in PaymentStatus
        /\ s = "captured" <=> p.gateway \in {"captured", "refunding"}
        /\ s \in {"refunded", "failed"} => s = p.gateway
    BY <1>1, SnapshotType DEF PaymentStatus
  <1>3. known \in Entry /\ known.gateway = p.gateway /\ known.hooks = p.hooks
    BY <1>2, LearnEntry, StatusEntry
  <1>4. known.status = IF s \in {"captured", "refunded", "failed"} THEN s ELSE p.status
    BY <1>2, LearnEntry, StatusEntry
  <1>5. look.entry \in {p, known}
    BY DEF ReconcileReference
  <1>6. Good(p, p)
    BY DEF Good, Advances
  <1>7. Good(p, known)
    <2> HIDE DEF known
    <2>1. Sound(known)
      BY <1>1, <1>2, <1>3, <1>4 DEF Sound, Charged, GatewayStatus
    <2>2. Advances(p, known)
      BY <1>1, <1>2, <1>4 DEF Advances, Sound, Charged, GatewayStatus, PaymentStatus
    <2> QED BY <1>3, <2>1, <2>2 DEF Good
  <1> QED BY <1>3, <1>5, <1>6, <1>7

\* A capture call that was carried out announces itself.
LEMMA CaptureCallGood ==
  ASSUME NEW p \in Entry, Sound(p), NEW call \in CaptureCall(p)
  PROVE  /\ Good(p, call.entry)
         /\ call.entry.status = p.status
         /\ p.hooks \subseteq call.entry.hooks
         /\ call.ok => call.entry.gateway = "captured"
         /\ call.entry.gateway # p.gateway => "payment.captured" \in call.entry.hooks
  <1> DEFINE done == Move(p, "captured", {"payment.captured"})
  <1>1. /\ done \in Entry
        /\ done.status = p.status /\ done.gateway = "captured"
        /\ done.hooks = p.hooks \cup {"payment.captured"}
    BY MoveEntry DEF GatewayStatus, HookEvent
  <1> HIDE DEF done
  <1>2. \/ ~ call.ok /\ call.entry = p
        \/ p.gateway = "authorized" /\ call.entry = done
    BY DEF CaptureCall, done
  <1>3. Good(p, p)
    BY DEF Good, Advances
  <1>4. p.gateway = "authorized" => Good(p, done)
    BY <1>1 DEF Good, Advances, Sound, Charged
  <1> QED BY <1>1, <1>2, <1>3, <1>4

LEMMA RefundCallGood ==
  ASSUME NEW p \in Entry, Sound(p), NEW call \in RefundCall(p)
  PROVE  /\ Good(p, call.entry)
         /\ call.entry.status = p.status
         /\ call.ok => call.entry.gateway = "refunding"
  <1> DEFINE done == Move(p, "refunding", {})
  <1>1. /\ done \in Entry
        /\ done.status = p.status /\ done.gateway = "refunding"
        /\ done.hooks = p.hooks
    BY DEF Move, Entry, GatewayStatus
  <1> HIDE DEF done
  <1>2. \/ ~ call.ok /\ call.entry = p
        \/ p.gateway = "captured" /\ call.entry = done
    BY DEF RefundCall, done
  <1>3. Good(p, p)
    BY DEF Good, Advances
  <1>4. p.gateway = "captured" => Good(p, done)
    BY <1>1 DEF Good, Advances, Sound, Charged
  <1> QED BY <1>1, <1>2, <1>3, <1>4

-----------------------------------------------------------------------------
(* Captures and refunds *)

LEMMA GoodTrans ==
  ASSUME NEW p, NEW q, NEW r, Good(p, q), Good(q, r)
  PROVE  Good(p, r)
  BY DEF Good, Advances

\* A row is stored as captured or refunded only over money the provider moved.
LEMMA StoreGood ==
  ASSUME NEW p, NEW q, Good(p, q), NEW n \in Entry,
         n.status \in {"captured", "refunded"},
         n.gateway = q.gateway, n.gateway \in Charged, n.hooks = q.hooks,
         p.status \in {"pending", "authorized", "captured"}
  PROVE  Good(p, n)
  BY DEF Good, Sound, Advances

LEMMA TryCaptureGood ==
  ASSUME NEW p \in Entry, Sound(p), p.status = "authorized", NEW t \in TryCapture(p)
  PROVE  /\ Good(p, t.entry)
         /\ p.hooks \subseteq t.entry.hooks
         /\ t.entry.gateway # p.gateway => "payment.captured" \in t.entry.hooks
  <1>1. PICK look \in ReconcileReference(p) :
          \/ \E call \in CaptureCall(look.entry) :
               t.entry = IF call.ok THEN [call.entry EXCEPT !.status = "captured"] ELSE call.entry
          \/ t.entry = p
    <2> DEFINE Answers(look) ==
                 IF look.ok THEN {[ok |-> call.ok, found |-> TRUE,
                                   entry |-> IF call.ok THEN [call.entry EXCEPT !.status = "captured"]
                                                        ELSE call.entry]
                                    : call \in CaptureCall(look.entry)}
                            ELSE {[ok |-> FALSE, found |-> FALSE, entry |-> p]}
    <2>1. PICK look \in ReconcileReference(p) : t \in Answers(look)
      BY DEF TryCapture
    <2>2. CASE ~ look.ok
      BY <2>1, <2>2
    <2>3. CASE look.ok
      <3>1. PICK call \in CaptureCall(look.entry) :
              t = [ok |-> call.ok, found |-> TRUE,
                   entry |-> IF call.ok THEN [call.entry EXCEPT !.status = "captured"]
                                        ELSE call.entry]
        BY <2>1, <2>3
      <3>2. t.entry = IF call.ok THEN [call.entry EXCEPT !.status = "captured"] ELSE call.entry
        BY <3>1
      <3> QED BY <3>2
    <2> QED BY <2>2, <2>3
  <1>2. CASE t.entry = p
    BY <1>2 DEF Good, Advances
  <1>3. ASSUME NEW call \in CaptureCall(look.entry),
               t.entry = IF call.ok THEN [call.entry EXCEPT !.status = "captured"] ELSE call.entry
        PROVE  /\ Good(p, t.entry)
               /\ p.hooks \subseteq t.entry.hooks
               /\ t.entry.gateway # p.gateway => "payment.captured" \in t.entry.hooks
    <2>1. /\ Good(p, look.entry)
          /\ look.entry.gateway = p.gateway
          /\ look.entry.hooks = p.hooks
      BY LookupGood
    <2>2. /\ Good(look.entry, call.entry)
          /\ p.hooks \subseteq call.entry.hooks
          /\ call.ok => call.entry.gateway = "captured"
          /\ call.entry.gateway # p.gateway => "payment.captured" \in call.entry.hooks
      BY <2>1, CaptureCallGood DEF Good
    <2>3. Good(p, call.entry)
      BY <2>1, <2>2, GoodTrans
    <2>4. CASE ~ call.ok
      BY <1>3, <2>2, <2>3, <2>4
    <2>5. CASE call.ok
      <3>1. t.entry = [call.entry EXCEPT !.status = "captured"]
        BY <1>3, <2>5
      <3>2. /\ t.entry \in Entry /\ t.entry.status = "captured"
            /\ t.entry.gateway = call.entry.gateway /\ t.entry.hooks = call.entry.hooks
        BY <2>3, <3>1 DEF Good, Entry, PaymentStatus
      <3>3. Good(p, t.entry)
        BY <2>2, <2>3, <2>5, <3>2, StoreGood DEF Charged
      <3> QED BY <2>2, <3>2, <3>3
    <2> QED BY <2>4, <2>5
  <1> QED BY <1>1, <1>2, <1>3

LEMMA TryRefundGood ==
  ASSUME NEW p \in Entry, Sound(p), p.status \in {"authorized", "captured"},
         NEW t \in TryRefund(p)
  PROVE  Good(p, t.entry)
  <1>1. PICK look \in ReconcileReference(p) :
          \/ \E call \in RefundCall(look.entry) :
               t.entry = IF call.ok THEN [call.entry EXCEPT !.status = "refunded"] ELSE call.entry
          \/ t.entry = p
    <2> DEFINE Answers(look) ==
                 IF look.ok THEN {[ok |-> call.ok,
                                   entry |-> IF call.ok THEN [call.entry EXCEPT !.status = "refunded"]
                                                        ELSE call.entry]
                                    : call \in RefundCall(look.entry)}
                            ELSE {[ok |-> FALSE, entry |-> p]}
    <2>1. PICK look \in ReconcileReference(p) : t \in Answers(look)
      BY DEF TryRefund
    <2>2. CASE ~ look.ok
      BY <2>1, <2>2
    <2>3. CASE look.ok
      <3>1. PICK call \in RefundCall(look.entry) :
              t = [ok |-> call.ok,
                   entry |-> IF call.ok THEN [call.entry EXCEPT !.status = "refunded"]
                                        ELSE call.entry]
        BY <2>1, <2>3
      <3>2. t.entry = IF call.ok THEN [call.entry EXCEPT !.status = "refunded"] ELSE call.entry
        BY <3>1
      <3> QED BY <3>2
    <2> QED BY <2>2, <2>3
  <1>2. CASE t.entry = p
    BY <1>2 DEF Good, Advances
  <1>3. ASSUME NEW call \in RefundCall(look.entry),
               t.entry = IF call.ok THEN [call.entry EXCEPT !.status = "refunded"] ELSE call.entry
        PROVE  Good(p, t.entry)
    <2>1. Good(p, look.entry)
      BY LookupGood
    <2>2. Good(look.entry, call.entry) /\ (call.ok => call.entry.gateway = "refunding")
      BY <2>1, RefundCallGood DEF Good
    <2>3. Good(p, call.entry)
      BY <2>1, <2>2, GoodTrans
    <2>4. CASE ~ call.ok
      BY <1>3, <2>3, <2>4
    <2>5. CASE call.ok
      <3>1. t.entry = [call.entry EXCEPT !.status = "refunded"]
        BY <1>3, <2>5
      <3>2. /\ t.entry \in Entry /\ t.entry.status = "refunded"
            /\ t.entry.gateway = call.entry.gateway /\ t.entry.hooks = call.entry.hooks
        BY <2>3, <3>1 DEF Good, Entry, PaymentStatus
      <3> QED BY <2>2, <2>3, <2>5, <3>2, StoreGood DEF Charged
    <2> QED BY <2>4, <2>5
  <1> QED BY <1>1, <1>2, <1>3

-----------------------------------------------------------------------------
(* PaymentService *)

\* capture_payment_for_booking; the last part is what a rollback relies on.
LEMMA CaptureGood ==
  ASSUME NEW p \in Entry, Sound(p), NEW q \in Capture(p)
  PROVE  /\ Good(p, q)
         /\ p.status # "authorized" => q = p
         /\ p.hooks \subseteq q.hooks
         /\ q.gateway # p.gateway => "payment.captured" \in q.hooks
  <1>1. CASE p.status # "authorized"
    BY <1>1 DEF Capture, Good, Advances
  <1>2. CASE p.status = "authorized"
    <2>1. PICK t \in TryCapture(p), K \in SUBSET JobKind :
            q = t.entry \/ q = Queue(t.entry, K)
      BY <1>2 DEF Capture, JobKind
    <2>2. /\ Good(p, t.entry)
          /\ p.hooks \subseteq t.entry.hooks
          /\ t.entry.gateway # p.gateway => "payment.captured" \in t.entry.hooks
      BY <1>2, TryCaptureGood
    <2>3. /\ q \in Entry /\ q.status = t.entry.status
          /\ q.gateway = t.entry.gateway /\ q.hooks = t.entry.hooks
      BY <2>1, <2>2, QueueEntry DEF Good
    <2> QED BY <1>2, <2>2, <2>3 DEF Good, Sound, Advances
  <1> QED BY <1>1, <1>2

\* refund_payment_for_booking
LEMMA RefundGood ==
  ASSUME NEW p \in Entry, Sound(p), NEW q \in Refund(p)
  PROVE  Good(p, q)
  <1>1. CASE p.status \notin {"authorized", "captured"}
    BY <1>1 DEF Refund, Good, Advances
  <1>2. CASE p.status \in {"authorized", "captured"}
    <2>1. PICK t \in TryRefund(p), K \in SUBSET JobKind :
            q = t.entry \/ q = Queue(t.entry, K)
      BY <1>2 DEF Refund, JobKind
    <2>2. Good(p, t.entry)
      BY <1>2, TryRefundGood
    <2>3. /\ q \in Entry /\ q.status = t.entry.status
          /\ q.gateway = t.entry.gateway /\ q.hooks = t.entry.hooks
      BY <2>1, <2>2, QueueEntry DEF Good
    <2> QED BY <2>2, <2>3 DEF Good, Sound, Advances
  <1> QED BY <1>1, <1>2

\* retry_capture_payment and retry_refund_payment
LEMMA RetryGood ==
  ASSUME NEW p \in Entry, Sound(p), NEW q \in RetryCapture(p) \cup RetryRefund(p)
  PROVE  Good(p, q)
  <1>1. CASE q = p
    BY <1>1 DEF Good, Advances
  <1>2. CASE p.status = "authorized" /\ \E t \in TryCapture(p) : q = t.entry
    BY <1>2, TryCaptureGood
  <1>3. CASE p.status \in {"authorized", "captured"} /\ \E t \in TryRefund(p) : q = t.entry
    BY <1>3, TryRefundGood
  <1> QED BY <1>1, <1>2, <1>3 DEF RetryCapture, RetryRefund

\* A snapshot stored in the row: what confirm_payment and reconcile_payment share.
LEMMA SnapshotGood ==
  ASSUME NEW p \in Entry, Sound(p), p.status \notin {"none", "refunded", "failed"}
  PROVE  Good(p, [Learn(p) EXCEPT !.status = SnapshotStatus(p.gateway)])
  <1> DEFINE s == SnapshotStatus(p.gateway)
             q == [Learn(p) EXCEPT !.status = s]
  <1>1. p.gateway \in GatewayStatus /\ p.status \in PaymentStatus
    BY DEF Entry
  <1>2. /\ s \in PaymentStatus /\ s # "none"
        /\ s = "captured" <=> p.gateway \in {"captured", "refunding"}
        /\ s \in {"authorized", "refunded", "failed"} => s = p.gateway
        /\ p.gateway = "refunded" => s = "refunded"
    BY <1>1, SnapshotType DEF PaymentStatus
  <1>3. q \in Entry /\ q.status = s /\ q.gateway = p.gateway /\ q.hooks = p.hooks
    BY <1>2, LearnEntry, StatusEntry
  <1> HIDE DEF q, s
  <1>4. Sound(q)
    BY <1>1, <1>2, <1>3 DEF Sound, Charged, GatewayStatus, PaymentStatus
  <1>5. Advances(p, q)
    BY <1>1, <1>2, <1>3 DEF Sound, Advances, Charged
  <1> QED BY <1>3, <1>4, <1>5 DEF Good, q, s

LEMMA CaptureIfAcceptedGood ==
  ASSUME NEW p \in Entry, Sound(p), NEW accepted \in BOOLEAN,
         NEW q \in CaptureIfAccepted(p, accepted)
  PROVE  Good(p, q)
  <1>1. q = p \/ q \in Capture(p)
    BY DEF CaptureIfAccepted
  <1>2. Good(p, p)
    BY DEF Good, Advances
  <1> QED BY <1>1, <1>2, CaptureGood

\* reconcile_payment
LEMMA ReconcileGood ==
  ASSUME NEW p \in Entry, Sound(p), NEW accepted \in BOOLEAN,
         NEW q \in Reconcile(p, accepted)
  PROVE  Good(p, q)
  <1> DEFINE n == [Learn(p) EXCEPT !.status = SnapshotStatus(p.gateway)]
  <1>1. CASE q = p
    BY <1>1 DEF Good, Advances
  <1>2. CASE q # p
    <2>1. p.status \notin {"none", "refunded", "failed"} /\ q \in CaptureIfAccepted(n, accepted)
      BY <1>2 DEF Reconcile
    <2>2. Good(p, n)
      BY <2>1, SnapshotGood
    <2> HIDE DEF n
    <2>3. Good(n, q)
      BY <2>1, <2>2, CaptureIfAcceptedGood DEF Good
    <2> QED BY <2>2, <2>3, GoodTrans
  <1> QED BY <1>1, <1>2

\* confirm_payment, called for a pending payment
LEMMA ConfirmGood ==
  ASSUME NEW p \in Entry, Sound(p), p.status = "pending", NEW accepted \in BOOLEAN,
         NEW q \in Confirm(p, accepted)
  PROVE  Good(p, q)
  <1> DEFINE n == [Learn(p) EXCEPT !.status = SnapshotStatus(p.gateway)]
  <1>1. \/ q = p
        \/ q = Learn(p)
        \/ q \in CaptureIfAccepted(n, accepted)
        \/ q = [p EXCEPT !.status = "failed"]
    BY DEF Confirm
  <1>2. CASE q = p
    BY <1>2 DEF Good, Advances
  <1>3. CASE q = Learn(p)
    BY <1>3, LearnEntry DEF Good, Sound, Advances
  <1>4. CASE q \in CaptureIfAccepted(n, accepted)
    <2>1. Good(p, n)
      BY SnapshotGood
    <2> HIDE DEF n
    <2>2. Good(n, q)
      BY <1>4, <2>1, CaptureIfAcceptedGood DEF Good
    <2> QED BY <2>1, <2>2, GoodTrans
  <1>5. CASE q = [p EXCEPT !.status = "failed"]
    <2>1. q \in Entry /\ q.status = "failed" /\ q.gateway = p.gateway /\ q.hooks = p.hooks
      BY <1>5 DEF Entry, PaymentStatus
    <2> QED BY <2>1 DEF Good, Sound, Advances
  <1> QED BY <1>1, <1>2, <1>3, <1>4, <1>5

\* process_webhook_event, for an event the provider has emitted
LEMMA DeliverGood ==
  ASSUME NEW p \in Entry, Sound(p), NEW e \in p.hooks
  PROVE  Good(p, Deliver(p, e))
  <1> DEFINE q == Deliver(p, e)
             s == HookStatus(p.status, e)
  <1>1. p.status \in PaymentStatus /\ p.gateway \in GatewayStatus /\ e \in HookEvent
    BY DEF Entry
  <1>2. s \in PaymentStatus
    BY <1>1 DEF HookStatus, PaymentStatus, HookEvent
  <1>3. /\ q \in Entry /\ q.status = s
        /\ q.gateway = p.gateway /\ q.hooks = p.hooks \ {e}
    BY <1>1, <1>2 DEF Deliver, Entry
  <1>4. Sound(q)
    <2> HIDE DEF q
    <2> QED BY <1>1, <1>3 DEF Sound, HookStatus, HookEvent, Charged, PaymentStatus
  <1>5. Advances(p, q)
    <2> HIDE DEF q
    <2> QED BY <1>1, <1>3 DEF Advances, HookStatus, HookEvent, PaymentStatus
  <1> QED BY <1>3, <1>4, <1>5 DEF Good

\* A move the provider makes on its own.
LEMMA GatewayGood ==
  ASSUME NEW p \in Entry, Sound(p), p.status # "none", NEW q \in GatewayMoves(p)
  PROVE  Good(p, q)
  <1>1. PICK g \in GatewayStatus, E \in SUBSET HookEvent :
          /\ q = Move(p, g, E)
          /\ \/ g \in {"attempted", "authorized", "failed"}
                /\ p.gateway \notin Charged /\ E \cap {"payment.captured", "refund.processed"} = {}
             \/ g = "captured" /\ p.gateway = "authorized" /\ E = {"payment.captured"}
             \/ g = "captured" /\ p.gateway = "refunding" /\ E = {}
             \/ g = "refunded" /\ p.gateway \in {"authorized", "refunding"}
                /\ E = {"refund.processed"}
    BY DEF GatewayMoves, GatewayStatus, HookEvent, Charged
  <1>2. /\ q \in Entry /\ q.status = p.status
        /\ q.gateway = g /\ q.hooks = p.hooks \cup E
    BY <1>1, MoveEntry
  <1>3. p.gateway \in GatewayStatus /\ p.status \in PaymentStatus
    BY DEF Entry
  <1>4. Sound(q)
    BY <1>1, <1>2, <1>3 DEF Sound, Charged
  <1> QED BY <1>2, <1>4 DEF Good, Advances
=============================================================================
