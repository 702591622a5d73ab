----------------------- MODULE PaymentSessionsProofs -----------------------
(***************************************************************************)
(* The payment rules that survive overlapping handlers, for any number of   *)
(* threads: no phantom money, each webhook effective once, refunds only for *)
(* cancelled bookings, completions paid, and settled rows moved back by     *)
(* lost updates only.                                                       *)
(*                                                                         *)
(* A handler decides on a copy that may be old, so the facts about one      *)
(* payment that PaymentOpsProofs follows through a call do not hold here;   *)
(* what does hold is said about the copy, the new values and the gateway.   *)
(*                                                                         *)
(* The last part explains a row that is behind the gateway: as long as      *)
(* nothing was written over and nothing failed, no handler knows more than  *)
(* the row does (BehindInv).                                                *)
(***************************************************************************)
EXTENDS PaymentSessions, PaymentOpsProofs

\* A claim of money taken is one the gateway bears out; it never takes it back.
Backed(s, g) == s \in {"captured", "refunded"} => g \in MoneyTaken

\* How a handler moves the status it loaded.
Forward(s, r) ==
  /\ s = "captured" => r \in {"captured", "refunded"}
  /\ s \in {"refunded", "failed"} => r = s

\* What a call of the provider did to the money.
SameMoney(p, q)   == q.gateway = p.gateway /\ q.hooks = p.hooks
CapturedNow(p, q) == /\ p.gateway = "authorized" /\ q.gateway = "captured"
                     /\ q.hooks = p.hooks \cup {"payment.captured"}
RefundedNow(p, q) == p.gateway = "captured" /\ q.gateway = "refunding" /\ q.hooks = p.hooks

\* What a handler may make of the status of entry p, whatever it calls.
Outcome(p, q) ==
  /\ q \in Entry
  /\ Backed(q.status, q.gateway)
  /\ Forward(p.status, q.status)
  /\ p.status # "none" => q.status # "none"
  /\ q.status = "failed" => p.status = "failed" \/ p.gateway = "failed"

-----------------------------------------------------------------------------
(* The calls of PaymentService on a copy *)

LEMMA SelfOutcome ==
  ASSUME NEW p \in Entry, Backed(p.status, p.gateway)
  PROVE  Outcome(p, p) /\ SameMoney(p, p)
  BY DEF Outcome, Forward, SameMoney

\* Looking the payment id up may settle the row, by what the provider says.
LEMMA LookupOutcome ==
  ASSUME NEW p \in Entry, Backed(p.status, p.gateway), p.status \in {"authorized", "captured"},
         NEW look \in ReconcileReference(p)
  PROVE  Outcome(p, look.entry) /\ SameMoney(p, look.entry) /\ look.entry.jobs = p.jobs
  <1> DEFINE s == SnapshotStatus(p.gateway)
             known == IF s \in {"captured", "refunded", "failed"}
                      THEN [Learn(p) EXCEPT !.status = s] ELSE Learn(p)
  <1>1. p.gateway \in GatewayStatus /\ p.status \in PaymentStatus
    BY DEF Entry
  <1>2. /\ s \in PaymentStatus
        /\ s = "captured" <=> p.gateway \in {"captured", "refunding"}
        /\ s \in {"refunded", "failed"} => s = p.gateway
        /\ p.gateway = "refunded" => s = "refunded"
    BY <1>1, SnapshotType DEF PaymentStatus
  <1>3. known \in Entry /\ known.gateway = p.gateway /\ known.hooks = p.hooks /\ known.jobs = p.jobs
    BY <1>2, LearnEntry, StatusEntry
  <1>4. known.status = IF s \in {"captured", "refunded", "failed"} THEN s ELSE p.status
    BY <1>2, LearnEntry, StatusEntry
  <1>5. look.entry \in {p, known}
    BY DEF ReconcileReference
  <1>6. Outcome(p, known) /\ SameMoney(p, known)
    <2> HIDE DEF known
    <2> QED BY <1>1, <1>2, <1>3, <1>4 DEF Outcome, SameMoney, Backed, Forward, MoneyTaken
  <1> QED BY <1>3, <1>5, <1>6, SelfOutcome

\* The reference lookup and the capture call.
LEMMA TryCaptureOutcome ==
  ASSUME NEW p \in Entry, Backed(p.status, p.gateway), p.status = "authorized", NEW t \in TryCapture(p)
  PROVE  /\ Outcome(p, t.entry)
         /\ SameMoney(p, t.entry) \/ CapturedNow(p, t.entry)
         /\ t.entry.jobs = p.jobs
  <1> DEFINE Result(call) == [ok |-> call.ok, found |-> TRUE,
                              entry |-> IF call.ok THEN [call.entry EXCEPT !.status = "captured"]
                                                   ELSE call.entry]
             Results(look) == IF look.ok THEN {Result(call) : call \in CaptureCall(look.entry)}
                              ELSE {[ok |-> FALSE, found |-> FALSE, entry |-> p]}
  <1>1. PICK look \in ReconcileReference(p) : t \in Results(look)
    BY DEF TryCapture
  <1>2. CASE ~ look.ok
    BY <1>1, <1>2, SelfOutcome
  <1>3. CASE look.ok
    <2> DEFINE l == look.entry
               done == Move(l, "captured", {"payment.captured"})
               stored == [done EXCEPT !.status = "captured"]
    <2>1. Outcome(p, l) /\ SameMoney(p, l) /\ l.jobs = p.jobs
      BY LookupOutcome
    <2>2. l \in Entry
      BY <2>1 DEF Outcome
    <2>3. /\ done \in Entry
          /\ done.status = l.status /\ done.gateway = "captured" /\ done.jobs = l.jobs
          /\ done.hooks = l.hooks \cup {"payment.captured"}
      BY <2>2, MoveEntry DEF GatewayStatus, HookEvent
    <2>4. /\ stored \in Entry
          /\ stored.status = "captured" /\ stored.gateway = "captured" /\ stored.jobs = l.jobs
          /\ stored.hooks = l.hooks \cup {"payment.captured"}
      BY <2>3, StatusEntry DEF PaymentStatus
    <2>5. PICK call \in CaptureCall(l) : t = Result(call)
      BY <1>1, <1>3
    <2>6. \/ ~ call.ok /\ call.entry = l
          \/ l.gateway = "authorized" /\ call.entry = done
      BY DEF CaptureCall
    <2>7. \/ t.entry = l
          \/ l.gateway = "authorized" /\ t.entry \in {done, stored}
      BY <2>5, <2>6
    <2> HIDE DEF l, done, stored
    <2>8. CASE t.entry = l
      BY <2>1, <2>8
    <2>9. CASE l.gateway = "authorized" /\ t.entry \in {done, stored}
      BY <2>1, <2>3, <2>4, <2>9 DEF Outcome, SameMoney, CapturedNow, Backed, Forward, MoneyTaken
    <2> QED BY <2>7, <2>8, <2>9
  <1> QED BY <1>2, <1>3

\* The reference lookup and the refund call.
LEMMA TryRefundOutcome ==
  ASSUME NEW p \in Entry, Backed(p.status, p.gateway), p.status \in {"authorized", "captured"},
         NEW t \in TryRefund(p)
  PROVE  /\ Outcome(p, t.entry)
         /\ SameMoney(p, t.entry) \/ RefundedNow(p, t.entry)
         /\ t.entry.jobs = p.jobs
  <1> DEFINE Result(call) == [ok |-> call.ok,
                              entry |-> IF call.ok THEN [call.entry EXCEPT !.status = "refunded"]
                                                   ELSE call.entry]
             Results(look) == IF look.ok THEN {Result(call) : call \in RefundCall(look.entry)}
                              ELSE {[ok |-> FALSE, entry |-> p]}
  <1>1. PICK look \in ReconcileReference(p) : t \in Results(look)
    BY DEF TryRefund
  <1>2. CASE ~ look.ok
    BY <1>1, <1>2, SelfOutcome
  <1>3. CASE look.ok
    <2> DEFINE l == look.entry
               done == Move(l, "refunding", {})
               stored == [done EXCEPT !.status = "refunded"]
    <2>1. Outcome(p, l) /\ SameMoney(p, l) /\ l.jobs = p.jobs
      BY LookupOutcome
    <2>2. l \in Entry
      BY <2>1 DEF Outcome
    <2>3. /\ done \in Entry
          /\ done.status = l.status /\ done.gateway = "refunding" /\ done.jobs = l.jobs
          /\ done.hooks = l.hooks
      BY <2>2 DEF Move, Entry, GatewayStatus
    <2>4. /\ stored \in Entry
          /\ stored.status = "refunded" /\ stored.gateway = "refunding" /\ stored.jobs = l.jobs
          /\ stored.hooks = l.hooks
      BY <2>3, StatusEntry DEF PaymentStatus
    <2>5. PICK call \in RefundCall(l) : t = Result(call)
      BY <1>1, <1>3
    <2>6. \/ ~ call.ok /\ call.entry = l
          \/ l.gateway = "captured" /\ call.entry = done
      BY DEF RefundCall
    <2>7. \/ t.entry = l
          \/ l.gateway = "captured" /\ t.entry \in {done, stored}
      BY <2>5, <2>6
    <2> HIDE DEF l, done, stored
    <2>8. CASE t.entry = l
      BY <2>1, <2>8
    <2>9. CASE l.gateway = "captured" /\ t.entry \in {done, stored}
      BY <2>1, <2>3, <2>4, <2>9 DEF Outcome, SameMoney, RefundedNow, Backed, Forward, MoneyTaken
    <2> QED BY <2>7, <2>8, <2>9
  <1> QED BY <1>2, <1>3

\* capture_payment_for_booking, retry_capture_payment
LEMMA CaptureOutcome ==
  ASSUME NEW p \in Entry, Backed(p.status, p.gateway), p.jobs = {},
         NEW q \in Capture(p) \cup RetryCapture(p)
  PROVE  /\ Outcome(p, q)
         /\ SameMoney(p, q) \/ CapturedNow(p, q)
         /\ "refund" \notin q.jobs
         /\ p.status # "authorized" => q.status = p.status
  <1>1. CASE p.status # "authorized"
    BY <1>1, SelfOutcome DEF Capture, RetryCapture
  <1>2. CASE p.status = "authorized"
    <2>1. PICK t \in TryCapture(p), K \in SUBSET {"capture", "reconcile"} :
            q = t.entry \/ q = Queue(t.entry, K)
      BY <1>2 DEF Capture, RetryCapture
    <2>2. /\ Outcome(p, t.entry)
          /\ SameMoney(p, t.entry) \/ CapturedNow(p, t.entry)
          /\ t.entry.jobs = {} /\ t.entry \in Entry
      BY <1>2, TryCaptureOutcome DEF Outcome
    <2>3. CASE q = t.entry
      BY <1>2, <2>2, <2>3
    <2>4. CASE q = Queue(t.entry, K)
      <3>1. /\ q \in Entry /\ q.status = t.entry.status
            /\ q.gateway = t.entry.gateway /\ q.hooks = t.entry.hooks
        BY <2>2, <2>4, QueueEntry DEF JobKind
      <3>2. q.jobs = t.entry.jobs \cup K
        BY <2>2, <2>4 DEF Queue, Entry
      <3> QED BY <1>2, <2>2, <3>1, <3>2 DEF Outcome, SameMoney, CapturedNow
    <2> QED BY <2>1, <2>3, <2>4
  <1> QED BY <1>1, <1>2

\* refund_payment_for_booking, retry_refund_payment
LEMMA RefundOutcome ==
  ASSUME NEW p \in Entry, Backed(p.status, p.gateway), p.jobs = {},
         NEW q \in Refund(p) \cup RetryRefund(p)
  PROVE  /\ Outcome(p, q)
         /\ SameMoney(p, q) \/ RefundedNow(p, q)
         /\ p.status \notin {"authorized", "captured"} => q.status = p.status
  <1>1. CASE p.status \notin {"authorized", "captured"}
    BY <1>1, SelfOutcome DEF Refund, RetryRefund
  <1>2. CASE p.status \in {"authorized", "captured"}
    <2>1. PICK t \in TryRefund(p), K \in SUBSET JobKind :
            q = t.entry \/ q = Queue(t.entry, K)
      BY <1>2 DEF Refund, RetryRefund, JobKind
    <2>2. /\ Outcome(p, t.entry)
          /\ SameMoney(p, t.entry) \/ RefundedNow(p, t.entry)
          /\ t.entry \in Entry
      BY <1>2, TryRefundOutcome DEF Outcome
    <2>3. CASE q = t.entry
      BY <1>2, <2>2, <2>3
    <2>4. CASE q = Queue(t.entry, K)
      <3>1. /\ q \in Entry /\ q.status = t.entry.status
            /\ q.gateway = t.entry.gateway /\ q.hooks = t.entry.hooks
        BY <2>2, <2>4, QueueEntry
      <3> QED BY <1>2, <2>2, <3>1 DEF Outcome, SameMoney, RefundedNow
    <2> QED BY <2>1, <2>3, <2>4
  <1> QED BY <1>1, <1>2

-----------------------------------------------------------------------------
(* Types *)

PastType == [lost : BOOLEAN, refunded : BOOLEAN, failed : BOOLEAN, cut : BOOLEAN, twice : BOOLEAN,
             emitted : SUBSET HookEvent, applied : SUBSET HookEvent]

LEMMA RowType ==
  ASSUME NEW p \in Entry
  PROVE  RowOf(p) \in Row /\ RowOf(p).status = p.status /\ RowOf(p).ref = p.ref
  BY DEF RowOf, Row, Entry

LEMMA IdleType ==
  /\ IdleHand \in Hand /\ IdleHand.op = "none" /\ IdleHand.pc = "idle"
  /\ IdleHand.copy = NoRow /\ IdleHand.new = NoRow /\ IdleHand.queue = {} /\ IdleHand.event = "none"
  /\ NoRow.status = "none"
  BY DEF IdleHand, Hand, NoRow, Row, PaymentStatus

\* The state of a handler that has loaded its row.
LEMMA LoadedType ==
  ASSUME pay \in Entry, NEW op \in LoopOps \cup JobOps \cup PoolOps
  PROVE  LET h == Loaded(op) IN
         /\ h \in Hand
         /\ h.op = op /\ h.pc = "loaded" /\ h.copy = RowOf(pay) /\ h.new = RowOf(pay)
         /\ h.queue = {} /\ h.event = "none" /\ ~ h.writes
  <1> DEFINE a == op \in Snapshots /\ booking = "accepted"
             r == RowOf(pay)
             Rec == [op |-> op, pc |-> "loaded", copy |-> r, new |-> r, writes |-> FALSE,
                     queue |-> {}, accepted |-> a, event |-> "none"]
  <1>1. a \in BOOLEAN /\ r \in Row
    BY RowType
  <1>2. Loaded(op) = [IdleHand EXCEPT !.op = op, !.pc = "loaded", !.copy = r, !.new = r, !.accepted = a]
    BY DEF Loaded
  <1> HIDE DEF a, r
  <1>5. Loaded(op) = Rec
    BY <1>2 DEF IdleHand
  <1>3. Rec \in Hand
    BY <1>1 DEF Hand
  <1>4. /\ Rec.op = op /\ Rec.pc = "loaded" /\ Rec.copy = r /\ Rec.new = r
        /\ Rec.queue = {} /\ Rec.event = "none" /\ ~ Rec.writes
    OBVIOUS
  <1> QED BY <1>3, <1>4, <1>5 DEF r

\* An UPDATE writes the new value of a column or leaves the row's.
LEMMA UpdatedType ==
  ASSUME pay \in Entry, NEW h, h.copy \in Row, h.new \in Row
  PROVE  /\ Updated(h) \in Row
         /\ Updated(h).status = IF h.new.status # h.copy.status THEN h.new.status ELSE pay.status
  <1>1. DOMAIN h.copy = {"status", "ref"}
    BY DEF Row
  <1>2. pay.status \in PaymentStatus /\ pay.ref \in BOOLEAN
    BY DEF Entry
  <1>3. Updated(h) = [c \in {"status", "ref"} |-> IF h.new[c] # h.copy[c] THEN h.new[c] ELSE pay[c]]
    BY <1>1 DEF Updated
  <1>4. Updated(h) = [status |-> Updated(h).status, ref |-> Updated(h).ref]
    BY <1>3
  <1>5. /\ Updated(h).status = IF h.new.status # h.copy.status THEN h.new.status ELSE pay.status
        /\ Updated(h).ref = IF h.new.ref # h.copy.ref THEN h.new.ref ELSE pay.ref
    BY <1>3
  <1>6. h.new.status \in PaymentStatus /\ h.new.ref \in BOOLEAN
    BY DEF Row
  <1>7. Updated(h).status \in PaymentStatus /\ Updated(h).ref \in BOOLEAN
    BY <1>2, <1>5, <1>6
  <1> QED BY <1>4, <1>5, <1>7 DEF Row

LEMMA WrittenType ==
  ASSUME pay \in Entry, NEW row \in Row
  PROVE  /\ Written(row) \in Entry
         /\ Written(row).status = row.status
         /\ Written(row).gateway = pay.gateway /\ Written(row).hooks = pay.hooks
         /\ Written(row).jobs = pay.jobs
  BY DEF Written, Row, Entry

\* What a handler sees is its copy and the real provider.
LEMMA SeenType ==
  ASSUME pay \in Entry, NEW h \in Hand
  PROVE  /\ Seen(h) \in Entry /\ Seen(h).status = h.copy.status
         /\ Seen(h).gateway = pay.gateway /\ Seen(h).hooks = pay.hooks /\ Seen(h).jobs = {}
  BY DEF Seen, Hand, Row, Entry

\* One hand changes, to a typed one.
LEMMA DoesType ==
  ASSUME hand \in [Hands -> Hand], NEW t \in Hands, NEW h \in Hand, Does(t, h)
  PROVE  /\ hand' \in [Hands -> Hand] /\ hand'[t] = h
         /\ \A u \in Hands \ {t} : hand'[u] = hand[u]
  BY DEF Does

LEMMA EndsType ==
  ASSUME hand \in [Hands -> Hand], NEW t \in Hands, Ends(t)
  PROVE  /\ hand' \in [Hands -> Hand] /\ hand'[t] = IdleHand
         /\ \A u \in Hands \ {t} : hand'[u] = hand[u]
  BY DoesType, IdleType DEF Ends

LEMMA BeginsType ==
  ASSUME pay \in Entry, hand \in [Hands -> Hand], NEW t \in Hands,
         NEW op \in LoopOps \cup JobOps \cup PoolOps, Begins(t, op)
  PROVE  /\ hand' \in [Hands -> Hand] /\ hand'[t] = Loaded(op)
         /\ \A u \in Hands \ {t} : hand'[u] = hand[u]
         /\ hand[t].pc = "idle" /\ UNCHANGED <<booking, payPast>>
  BY DoesType, LoadedType DEF Begins

\* What a handler is to write after it asked for a snapshot.
LEMMA SnapshotRow ==
  ASSUME pay \in Entry, NEW h \in Hand
  PROVE  /\ Confirmed(h) \in Row /\ Reconciled(h) \in Row
         /\ Reconciled(h).status = SnapshotStatus(pay.gateway)
         /\ Confirmed(h).status \in {h.copy.status, SnapshotStatus(pay.gateway), "failed"}
         /\ Confirmed(h).status = "failed"
              => h.copy.status = "failed" \/ SnapshotStatus(pay.gateway) \in {"refunded", "failed"}
         /\ Confirmed(h).status \in {"captured", "refunded"}
              => Confirmed(h).status = h.copy.status \/ pay.gateway \in {"captured", "refunding"}
  <1> DEFINE s == SnapshotStatus(pay.gateway)
             l == LearnedRef(h)
  <1>1. /\ s \in {"pending", "authorized", "captured", "refunded", "failed"}
        /\ s = "captured" <=> pay.gateway \in {"captured", "refunding"}
    BY SnapshotType DEF Entry
  <1>2. h.copy \in Row /\ h.copy.ref \in BOOLEAN
    BY DEF Hand, Row
  <1>3. l \in BOOLEAN
    BY <1>2 DEF LearnedRef
  <1> HIDE DEF s, l
  <1>4. Reconciled(h) = [status |-> s, ref |-> l]
    BY DEF Reconciled, s, l
  <1>5. Confirmed(h) = CASE s = "pending"                    -> [h.copy EXCEPT !.ref = l]
                         [] s \in {"authorized", "captured"} -> [status |-> s, ref |-> l]
                         [] OTHER                            -> [h.copy EXCEPT !.status = "failed"]
    BY DEF Confirmed, s, l
  <1>6. Reconciled(h) \in Row /\ Reconciled(h).status = s
    BY <1>1, <1>3, <1>4 DEF Row, PaymentStatus
  <1>7. CASE s = "pending"
    BY <1>2, <1>3, <1>5, <1>6, <1>7 DEF Row, PaymentStatus, s
  <1>8. CASE s \in {"authorized", "captured"}
    BY <1>1, <1>3, <1>5, <1>6, <1>8 DEF Row, PaymentStatus, s
  <1>9. CASE s \in {"refunded", "failed"}
    BY <1>2, <1>5, <1>6, <1>9 DEF Row, PaymentStatus, s
  <1> QED BY <1>1, <1>7, <1>8, <1>9

LEMMA AnnouncedType ==
  ASSUME payPast \in PastType, NEW p \in Entry
  PROVE  /\ Announced(p) \in PastType
         /\ Announced(p).emitted = payPast.emitted \cup (p.hooks \ pay.hooks)
         /\ Announced(p).refunded <=> payPast.refunded \/ (p.gateway = "refunding" /\ pay.gateway # "refunding")
         /\ Announced(p).failed <=> payPast.failed \/ p.gateway = "failed"
         /\ Announced(p).cut = payPast.cut /\ Announced(p).twice = payPast.twice
         /\ Announced(p).applied = payPast.applied /\ Announced(p).lost = payPast.lost
  <1> DEFINE r == payPast.refunded \/ (p.gateway = "refunding" /\ pay.gateway # "refunding")
             f == payPast.failed \/ p.gateway = "failed"
             E == payPast.emitted \cup (p.hooks \ pay.hooks)
  <1>1. r \in BOOLEAN /\ f \in BOOLEAN /\ E \in SUBSET HookEvent
    BY DEF PastType, Entry
  <1>2. Announced(p) = [payPast EXCEPT !.emitted = E, !.refunded = r, !.failed = f]
    BY DEF Announced
  <1>a. r <=> payPast.refunded \/ (p.gateway = "refunding" /\ pay.gateway # "refunding")
    OBVIOUS
  <1>b. f <=> payPast.failed \/ p.gateway = "failed"
    OBVIOUS
  <1>c. E = payPast.emitted \cup (p.hooks \ pay.hooks)
    OBVIOUS
  <1> HIDE DEF r, f, E
  <1>3. /\ Announced(p) \in PastType
        /\ Announced(p).emitted = E /\ Announced(p).refunded = r /\ Announced(p).failed = f
        /\ Announced(p).cut = payPast.cut /\ Announced(p).twice = payPast.twice
        /\ Announced(p).applied = payPast.applied /\ Announced(p).lost = payPast.lost
    BY <1>1, <1>2 DEF PastType
  <1> QED BY <1>3, <1>a, <1>b, <1>c

-----------------------------------------------------------------------------
(* The inductive invariant *)

\* A handler's copy and its new values claim no money the gateway did not move;
\* what it is to write is no step back from its copy, or the row has it already.
HandOK(h, p) ==
  /\ h.pc = "idle" => h.op = "none"
  /\ Backed(h.copy.status, p.gateway) /\ Backed(h.new.status, p.gateway)
  /\ h.copy.status = "none" <=> h.new.status = "none"
  /\ h.copy.status # "none" => p.status # "none"
  /\ h.op = "confirm" => h.copy.status = "pending"
  /\ h.op = "reconcile" => h.copy.status \notin {"none", "refunded", "failed"}
  /\ h.pc # "flushed" => Forward(h.copy.status, h.new.status)
  /\ h.pc = "flushed" =>
       /\ h.op \in LoopOps
       /\ h.writes => h.new.status = p.status \/ Forward(h.copy.status, h.new.status)
  /\ h.writes => h.copy.status # "none"
  /\ "refund" \in h.queue => h.op \in {"cancel", "refundJob"}

HandsOK == \A t \in Hands : HandOK(hand[t], pay)

\* An event is emitted once, by a move of the gateway that cannot come again.
EventsOK ==
  /\ payPast.applied \subseteq payPast.emitted
  /\ pay.hooks = payPast.emitted \ payPast.applied
  /\ ~ payPast.twice
  /\ "payment.authorized" \in payPast.emitted => pay.gateway \notin {"idle", "attempted", "failed"}
  /\ "payment.captured" \in payPast.emitted => pay.gateway \in MoneyTaken
  /\ "refund.processed" \in payPast.emitted => pay.gateway = "refunded"
  /\ "payment.failed" \in payPast.emitted => payPast.failed

\* The event loop gives the booking to one handler, which finds it as it was.
FitsBooking(op, b) ==
  /\ op = "accept" => b = "pending"
  /\ op = "cancel" => b \in {"pending", "accepted"}
  /\ op = "complete" => b = "accepted"

LoopOK ==
  /\ \A t \in Hands : hand[t].op \in LoopOps => FitsBooking(hand[t].op, booking)
  /\ \A t, u \in Hands : hand[t].op \in LoopOps /\ hand[u].op \in LoopOps => t = u

\* A refund was asked for by a cancellation that is done, cut off or in progress.
Cancelling == \E t \in Hands : hand[t].op = "cancel"
Refunding  == "refund" \in pay.jobs \/ payPast.refunded \/ \E t \in Hands : hand[t].op = "refundJob"
RefundOK   == Refunding => booking = "closed" \/ payPast.cut \/ Cancelling

IInv ==
  /\ PaymentsTypeOK /\ Backed(pay.status, pay.gateway)
  /\ EventsOK /\ HandsOK /\ LoopOK /\ RefundOK

\* MovesBackOnlyByLostUpdate of one step.
BackByLoss ==
  \/ pay.status = "captured" /\ pay'.status \notin {"captured", "refunded"}
  \/ pay.status \in {"refunded", "failed"} /\ pay'.status # pay.status
  => payPast'.lost

-----------------------------------------------------------------------------
(* What keeps each part, when one thread takes a step *)

OneHand(t) == hand' \in [Hands -> Hand] /\ \A u \in Hands \ {t} : hand'[u] = hand[u]

\* Money that was taken stays taken, and a row stays.
MoneyGrows ==
  /\ pay.gateway \in MoneyTaken => pay'.gateway \in MoneyTaken
  /\ pay.status # "none" => pay'.status # "none"

LEMMA HandsKept ==
  ASSUME HandsOK, MoneyGrows, NEW t \in Hands, OneHand(t), HandOK(hand'[t], pay'),
         pay'.status = pay.status \/ RowIsFree(t)
  PROVE  HandsOK'
  <1> SUFFICES ASSUME NEW u \in Hands, u # t PROVE HandOK(hand'[u], pay')
    BY DEF HandsOK
  <1>1. hand'[u] = hand[u] /\ HandOK(hand[u], pay)
    BY DEF OneHand, HandsOK
  <1>2. hand[u].pc = "flushed" /\ hand[u].writes => pay'.status = pay.status
    BY DEF RowIsFree
  <1> QED BY <1>1, <1>2 DEF HandOK, MoneyGrows, Backed

LEMMA EventsKept ==
  ASSUME EventsOK, pay'.gateway = pay.gateway, pay'.hooks = pay.hooks,
         payPast'.emitted = payPast.emitted, payPast'.applied = payPast.applied,
         payPast'.twice = payPast.twice, payPast'.failed = payPast.failed
  PROVE  EventsOK'
  BY DEF EventsOK

LEMMA LoopKept ==
  ASSUME LoopOK, UNCHANGED booking, NEW t \in Hands, OneHand(t),
         hand'[t].op \in LoopOps => \/ hand'[t].op = hand[t].op
                                    \/ LoopIsFree /\ FitsBooking(hand'[t].op, booking)
  PROVE  LoopOK'
  <1>1. ASSUME NEW u \in Hands, hand'[u].op \in LoopOps PROVE FitsBooking(hand'[u].op, booking')
    BY <1>1 DEF LoopOK, OneHand
  <1>2. ASSUME NEW u \in Hands, NEW v \in Hands, hand'[u].op \in LoopOps, hand'[v].op \in LoopOps
        PROVE  u = v
    BY <1>2 DEF LoopOK, OneHand, LoopIsFree
  <1> QED BY <1>1, <1>2 DEF LoopOK

LEMMA RefundKept ==
  ASSUME RefundOK, NEW t \in Hands, OneHand(t),
         "refund" \in pay'.jobs \/ payPast'.refunded \/ hand'[t].op = "refundJob"
           => Refunding \/ hand[t].op = "cancel",
         booking = "closed" => booking' = "closed",
         payPast.cut => payPast'.cut,
         hand[t].op = "cancel" => hand'[t].op = "cancel" \/ booking' = "closed" \/ payPast'.cut
  PROVE  RefundOK'
  <1> SUFFICES ASSUME Refunding' PROVE booking' = "closed" \/ payPast'.cut \/ Cancelling'
    BY DEF RefundOK
  <1>1. Refunding \/ hand[t].op = "cancel"
    BY DEF Refunding, OneHand
  <1>2. booking = "closed" \/ payPast.cut \/ Cancelling
    BY <1>1 DEF RefundOK, Cancelling
  <1>3. ASSUME NEW u \in Hands, hand[u].op = "cancel"
        PROVE  booking' = "closed" \/ payPast'.cut \/ Cancelling'
    BY <1>3 DEF Cancelling, OneHand
  <1> QED BY <1>2, <1>3 DEF Cancelling

LEMMA TypeParts ==
  PaymentsTypeOK <=> /\ booking \in {"pending", "accepted", "closed", "completed"}
                     /\ pay \in Entry /\ hand \in [Hands -> Hand] /\ payPast \in PastType
  BY DEF PaymentsTypeOK, PastType

\* The history is told of a lost update.
LEMMA PastLost ==
  ASSUME payPast \in PastType, NEW b \in BOOLEAN
  PROVE  LET q == [payPast EXCEPT !.lost = @ \/ b] IN
         /\ q \in PastType /\ q.lost = (payPast.lost \/ b)
         /\ q.emitted = payPast.emitted /\ q.applied = payPast.applied /\ q.twice = payPast.twice
         /\ q.failed = payPast.failed /\ q.cut = payPast.cut /\ q.refunded = payPast.refunded
  <1> DEFINE c == payPast.lost \/ b
  <1>1. c \in BOOLEAN
    OBVIOUS
  <1>2. [payPast EXCEPT !.lost = @ \/ b] = [payPast EXCEPT !.lost = c]
    OBVIOUS
  <1> HIDE DEF c
  <1>3. LET q == [payPast EXCEPT !.lost = c] IN
        /\ q \in PastType /\ q.lost = c
        /\ q.emitted = payPast.emitted /\ q.applied = payPast.applied /\ q.twice = payPast.twice
        /\ q.failed = payPast.failed /\ q.cut = payPast.cut /\ q.refunded = payPast.refunded
    BY <1>1 DEF PastType
  <1> QED BY <1>2, <1>3 DEF c

LEMMA IdleOK ==
  ASSUME NEW p
  PROVE  HandOK(IdleHand, p)
  BY IdleType DEF HandOK, IdleHand, NoRow, Backed, Forward

-----------------------------------------------------------------------------
(* Handlers that begin *)

\* A thread that was idle has loaded the row, for a handler that may begin here.
LEMMA BeginKept ==
  ASSUME IInv, NEW t \in Hands, hand[t].pc = "idle", UNCHANGED <<booking, payPast>>,
         OneHand(t), hand'[t] \in Hand,
         hand'[t].pc = "loaded", hand'[t].copy = RowOf(pay), hand'[t].new = RowOf(pay),
         hand'[t].queue = {}, ~ hand'[t].writes,
         pay' = pay \/ \E k \in JobKind : pay' = [pay EXCEPT !.jobs = @ \ {k}],
         hand'[t].op = "confirm" => pay.status = "pending",
         hand'[t].op = "reconcile" => MayReconcile,
         hand'[t].op \in LoopOps => LoopIsFree /\ FitsBooking(hand'[t].op, booking),
         hand'[t].op = "refundJob" => "refund" \in pay.jobs
  PROVE  IInv' /\ BackByLoss
  <1>1. /\ pay \in Entry /\ hand \in [Hands -> Hand] /\ payPast \in PastType
        /\ booking \in {"pending", "accepted", "closed", "completed"}
    BY TypeParts DEF IInv
  <1>2. /\ pay' \in Entry /\ pay'.status = pay.status /\ pay'.gateway = pay.gateway
        /\ pay'.hooks = pay.hooks /\ pay'.jobs \subseteq pay.jobs
    BY <1>1 DEF Entry
  <1>3. PaymentsTypeOK'
    BY <1>1, <1>2 DEF OneHand, PaymentsTypeOK, PastType
  <1>4. EventsOK'
    BY <1>2, EventsKept DEF IInv
  <1>5. RowOf(pay).status = pay.status /\ Backed(pay.status, pay.gateway)
    BY <1>1, RowType DEF IInv
  <1>6. HandsOK'
    <2>1. HandOK(hand'[t], pay')
      BY <1>2, <1>5 DEF HandOK, Backed, Forward, MayReconcile
    <2> QED BY <1>2, <2>1, HandsKept DEF IInv, MoneyGrows
  <1>7. LoopOK'
    BY LoopKept DEF IInv
  <1>8. RefundOK'
    <2>1. hand[t].op # "cancel"
      BY DEF IInv, HandsOK, HandOK
    <2>2. "refund" \in pay'.jobs \/ payPast'.refunded \/ hand'[t].op = "refundJob" => Refunding
      BY <1>2 DEF Refunding
    <2> QED BY <2>1, <2>2, RefundKept DEF IInv
  <1> QED BY <1>2, <1>3, <1>4, <1>5, <1>6, <1>7, <1>8 DEF IInv, BackByLoss

LEMMA BeginsKept ==
  ASSUME IInv, NEW t \in Hands, NEW op \in LoopOps \cup JobOps \cup PoolOps, Begins(t, op),
         pay' = pay \/ \E k \in JobKind : pay' = [pay EXCEPT !.jobs = @ \ {k}],
         op = "confirm" => pay.status = "pending",
         op = "reconcile" => MayReconcile,
         op \in LoopOps => LoopIsFree /\ FitsBooking(op, booking),
         op = "refundJob" => "refund" \in pay.jobs
  PROVE  IInv' /\ BackByLoss
  <1>1. pay \in Entry /\ hand \in [Hands -> Hand]
    BY TypeParts DEF IInv
  <1>2. OneHand(t) /\ hand'[t] = Loaded(op) /\ hand[t].pc = "idle" /\ UNCHANGED <<booking, payPast>>
    BY <1>1, BeginsType DEF OneHand
  <1>3. /\ Loaded(op) \in Hand
        /\ Loaded(op).op = op /\ Loaded(op).pc = "loaded"
        /\ Loaded(op).copy = RowOf(pay) /\ Loaded(op).new = RowOf(pay)
        /\ Loaded(op).queue = {} /\ ~ Loaded(op).writes
    BY <1>1, LoadedType
  <1> QED BY <1>2, <1>3, BeginKept

LEMMA BeginSteps ==
  ASSUME IInv, NEW t \in Hands,
         \/ BeginCreate(t) \/ BeginConfirm(t) \/ BeginReconcile(t)
         \/ BeginAccept(t) \/ BeginCancel(t) \/ BeginComplete(t)
         \/ \E k \in {"capture", "refund"} : BeginJob(t, k)
         \/ \E e \in HookEvent : BeginWebhook(t, e)
  PROVE  IInv' /\ BackByLoss
  <1>1. CASE BeginCreate(t)
    BY <1>1, BeginsKept DEF BeginCreate, PoolOps, LoopOps
  <1>2. CASE BeginConfirm(t)
    BY <1>2, BeginsKept DEF BeginConfirm, PoolOps, LoopOps
  <1>3. CASE BeginReconcile(t)
    BY <1>3, BeginsKept DEF BeginReconcile, PoolOps, LoopOps
  <1>4. CASE BeginAccept(t)
    BY <1>4, BeginsKept DEF BeginAccept, LoopOps, FitsBooking
  <1>5. CASE BeginCancel(t)
    BY <1>5, BeginsKept DEF BeginCancel, LoopOps, FitsBooking
  <1>6. CASE BeginComplete(t)
    BY <1>6, BeginsKept DEF BeginComplete, LoopOps, FitsBooking
  <1>7. CASE \E k \in {"capture", "refund"} : BeginJob(t, k)
    <2>1. PICK k \in {"capture", "refund"} : BeginJob(t, k)
      BY <1>7
    <2>2. (pay' = pay \/ pay' = [pay EXCEPT !.jobs = @ \ {k}]) /\ k \in JobKind
      BY <2>1 DEF BeginJob, JobKind
    <2>3. CASE k = "capture"
      BY <2>1, <2>2, <2>3, BeginsKept DEF BeginJob, JobOps, LoopOps
    <2>4. CASE k = "refund"
      BY <2>1, <2>2, <2>4, BeginsKept DEF BeginJob, JobOps, LoopOps
    <2> QED BY <2>3, <2>4
  <1>8. CASE \E e \in HookEvent : BeginWebhook(t, e)
    <2>1. PICK e \in HookEvent : BeginWebhook(t, e)
      BY <1>8
    <2>2. pay \in Entry /\ hand \in [Hands -> Hand]
      BY TypeParts DEF IInv
    <2> DEFINE l == Loaded("webhook")
               h == [l EXCEPT !.event = e]
    <2>3. /\ l \in Hand /\ l.op = "webhook" /\ l.pc = "loaded"
          /\ l.copy = RowOf(pay) /\ l.new = RowOf(pay) /\ l.queue = {} /\ ~ l.writes
      BY <2>2, LoadedType DEF PoolOps
    <2> HIDE DEF l
    <2>4. /\ h \in Hand /\ h.op = "webhook" /\ h.pc = "loaded"
          /\ h.copy = RowOf(pay) /\ h.new = RowOf(pay) /\ h.queue = {} /\ ~ h.writes
      BY <2>3 DEF Hand
    <2>5. Does(t, h) /\ hand[t].pc = "idle" /\ UNCHANGED <<booking, pay, payPast>>
      BY <2>1 DEF BeginWebhook, l
    <2>6. OneHand(t) /\ hand'[t] = h
      <3> HIDE DEF h
      <3> QED BY <2>2, <2>4, <2>5, DoesType DEF OneHand
    <2> HIDE DEF h
    <2> QED BY <2>4, <2>5, <2>6, BeginKept DEF LoopOps
  <1> QED BY <1>1, <1>2, <1>3, <1>4, <1>5, <1>6, <1>7, <1>8

-----------------------------------------------------------------------------
(* Handlers that go on and end *)

\* A step of a handler that leaves the row and the money alone.
LEMMA HandKept ==
  ASSUME IInv, NEW t \in Hands, OneHand(t), UNCHANGED <<booking, pay>>,
         HandOK(hand'[t], pay),
         hand'[t].op \in LoopOps => hand'[t].op = hand[t].op,
         hand'[t].op = "refundJob" => hand[t].op = "refundJob",
         \/ payPast' = payPast /\ (hand[t].op = "cancel" => hand'[t].op = "cancel")
         \/ payPast' = [payPast EXCEPT !.cut = @ \/ hand[t].op = "cancel"]
  PROVE  IInv' /\ BackByLoss
  <1>1. /\ pay \in Entry /\ hand \in [Hands -> Hand] /\ payPast \in PastType
        /\ booking \in {"pending", "accepted", "closed", "completed"}
    BY TypeParts DEF IInv
  <1>2. /\ payPast' \in PastType
        /\ payPast'.emitted = payPast.emitted /\ payPast'.applied = payPast.applied
        /\ payPast'.twice = payPast.twice /\ payPast'.failed = payPast.failed
        /\ payPast'.refunded = payPast.refunded
        /\ payPast.cut => payPast'.cut
        /\ hand[t].op = "cancel" => hand'[t].op = "cancel" \/ payPast'.cut
    <2>1. CASE payPast' = payPast /\ (hand[t].op = "cancel" => hand'[t].op = "cancel")
      BY <1>1, <2>1
    <2>2. CASE payPast' = [payPast EXCEPT !.cut = @ \/ hand[t].op = "cancel"]
      <3> DEFINE c == payPast.cut \/ hand[t].op = "cancel"
      <3>1. c \in BOOLEAN /\ payPast' = [payPast EXCEPT !.cut = c]
        BY <2>2
      <3>2. (payPast.cut => c) /\ (hand[t].op = "cancel" => c)
        OBVIOUS
      <3> HIDE DEF c
      <3>3. payPast'.cut = c
        BY <1>1, <3>1 DEF PastType
      <3>4. /\ payPast' \in PastType
            /\ payPast'.emitted = payPast.emitted /\ payPast'.applied = payPast.applied
            /\ payPast'.twice = payPast.twice /\ payPast'.failed = payPast.failed
            /\ payPast'.refunded = payPast.refunded
        BY <1>1, <3>1 DEF PastType
      <3> QED BY <3>2, <3>3, <3>4
    <2> QED BY <2>1, <2>2
  <1>3. PaymentsTypeOK'
    BY <1>1, <1>2 DEF OneHand, PaymentsTypeOK, PastType
  <1>4. EventsOK'
    BY <1>2, EventsKept DEF IInv
  <1>5. HandsOK'
    BY HandsKept DEF IInv, MoneyGrows
  <1>6. LoopOK'
    BY LoopKept DEF IInv
  <1>7. RefundOK'
    <2>1. "refund" \in pay'.jobs \/ payPast'.refunded \/ hand'[t].op = "refundJob" => Refunding
      BY <1>2 DEF Refunding
    <2> QED BY <1>2, <2>1, RefundKept DEF IInv
  <1> QED BY <1>3, <1>4, <1>5, <1>6, <1>7 DEF IInv, BackByLoss

\* What an UPDATE leaves in the row, when it changes the columns that differ from
\* the copy: a settled status is written over only when it is newer than the copy.
LEMMA UpdateRow ==
  ASSUME PaymentsTypeOK, Backed(pay.status, pay.gateway), NEW h \in Hand,
         Backed(h.new.status, pay.gateway),
         h.copy.status = "none" <=> h.new.status = "none",
         Forward(h.copy.status, h.new.status)
  PROVE  LET row == Updated(h) IN
         /\ row \in Row /\ Backed(row.status, pay.gateway)
         /\ pay.status # "none" => row.status # "none"
         /\ ~ Forward(pay.status, row.status) => Lost(h, row)
         /\ row.status = pay.status \/ row.status = h.new.status
  <1> DEFINE row == Updated(h)
  <1>1. h.copy \in Row /\ h.new \in Row /\ pay \in Entry
    BY TypeParts DEF Hand
  <1>2. /\ row \in Row
        /\ row.status = IF h.new.status # h.copy.status THEN h.new.status ELSE pay.status
    BY <1>1, UpdatedType
  <1> HIDE DEF row
  <1>3. /\ row \in Row /\ Backed(row.status, pay.gateway)
        /\ pay.status # "none" => row.status # "none"
        /\ ~ Forward(pay.status, row.status) => Lost(h, row)
        /\ row.status = pay.status \/ row.status = h.new.status
    BY <1>2 DEF Backed, Forward, Lost
  <1> QED BY <1>3 DEF row

\* A step that writes row: a status, backed, that steps back by a lost update only.
LEMMA WriteKept ==
  ASSUME IInv, NEW t \in Hands, OneHand(t), NEW row \in Row, NEW J \in SUBSET JobKind,
         Backed(row.status, pay.gateway), pay.status # "none" => row.status # "none",
         RowIsFree(t) \/ row.status = pay.status,
         pay' = [Written(row) EXCEPT !.jobs = J],
         NEW b \in BOOLEAN, payPast' = [payPast EXCEPT !.lost = @ \/ b],
         ~ Forward(pay.status, row.status) => b,
         HandOK(hand'[t], pay'),
         UNCHANGED booking,
         hand'[t].op \in LoopOps => hand'[t].op = hand[t].op,
         hand[t].op = "cancel" => hand'[t].op = "cancel",
         "refund" \in J \/ hand'[t].op = "refundJob" => Refunding \/ hand[t].op = "cancel"
  PROVE  IInv' /\ BackByLoss
  <1>1. /\ pay \in Entry /\ hand \in [Hands -> Hand] /\ payPast \in PastType
        /\ booking \in {"pending", "accepted", "closed", "completed"}
    BY TypeParts DEF IInv
  <1> DEFINE w == Written(row)
  <1>2. w \in Entry /\ w.status = row.status /\ w.gateway = pay.gateway /\ w.hooks = pay.hooks
    BY <1>1, WrittenType
  <1> HIDE DEF w
  <1>3. /\ pay' \in Entry /\ pay'.status = row.status /\ pay'.gateway = pay.gateway
        /\ pay'.hooks = pay.hooks /\ pay'.jobs = J
    <2>1. pay' = [w EXCEPT !.jobs = J]
      BY DEF w
    <2> QED BY <1>2, <2>1 DEF Entry
  <1>4. /\ payPast' \in PastType /\ payPast'.lost = (payPast.lost \/ b)
        /\ payPast'.emitted = payPast.emitted /\ payPast'.applied = payPast.applied
        /\ payPast'.twice = payPast.twice /\ payPast'.failed = payPast.failed
        /\ payPast'.cut = payPast.cut /\ payPast'.refunded = payPast.refunded
    BY <1>1, PastLost
  <1>5. PaymentsTypeOK'
    BY <1>1, <1>3, <1>4 DEF OneHand, PaymentsTypeOK, PastType
  <1>6. EventsOK'
    BY <1>3, <1>4, EventsKept DEF IInv
  <1>7. HandsOK'
    BY <1>3, HandsKept DEF IInv, MoneyGrows
  <1>8. LoopOK'
    BY LoopKept DEF IInv
  <1>9. RefundOK'
    <2>1. payPast.refunded => Refunding
      BY DEF Refunding
    <2> QED BY <1>3, <1>4, <2>1, RefundKept DEF IInv
  <1>10. BackByLoss
    BY <1>3, <1>4 DEF BackByLoss, Forward
  <1> QED BY <1>3, <1>5, <1>6, <1>7, <1>8, <1>9, <1>10 DEF IInv

\* The entry that is written keeps its queued jobs.
LEMMA WrittenJobs ==
  ASSUME pay \in Entry, NEW row \in Row
  PROVE  Written(row) = [Written(row) EXCEPT !.jobs = pay.jobs]
  BY DEF Written, Entry

LEMMA CommitCreateStep ==
  ASSUME IInv, NEW t \in Hands, CommitCreate(t)
  PROVE  IInv' /\ BackByLoss
  <1>1. pay \in Entry /\ hand \in [Hands -> Hand] /\ payPast \in PastType
    BY TypeParts DEF IInv
  <1>2. OneHand(t) /\ hand'[t] = IdleHand /\ hand[t].op = "create" /\ UNCHANGED <<booking, payPast>>
    BY <1>1, EndsType DEF CommitCreate, OneHand
  <1>3. CASE pay' = pay
    BY <1>2, <1>3, IdleOK, IdleType, HandKept DEF LoopOps
  <1>4. CASE pay' # pay
    <2> DEFINE row == [status |-> "pending", ref |-> pay.ref]
    <2>1. pay' = [pay EXCEPT !.status = "pending"] /\ pay.status = "none"
      BY <1>4 DEF CommitCreate, Opened
    <2>2. row \in Row
      BY <1>1 DEF Row, Entry, PaymentStatus
    <2>3. pay' = [Written(row) EXCEPT !.jobs = pay.jobs] /\ pay.jobs \in SUBSET JobKind
      BY <1>1, <2>1 DEF Written, Entry
    <2>4. RowIsFree(t)
      BY <2>1 DEF RowIsFree, IInv, HandsOK, HandOK
    <2>5. payPast' = [payPast EXCEPT !.lost = @ \/ FALSE]
      BY <1>1, <1>2 DEF PastType
    <2>6. row.status = "pending"
      OBVIOUS
    <2>7. "refund" \in pay.jobs => Refunding
      BY DEF Refunding
    <2> HIDE DEF row
    <2> QED BY <1>2, <2>1, <2>2, <2>3, <2>4, <2>5, <2>6, <2>7, IdleOK, IdleType, WriteKept
            DEF LoopOps, Backed, Forward
  <1> QED BY <1>3, <1>4

LEMMA AskSnapshotStep ==
  ASSUME IInv, NEW t \in Hands, AskSnapshot(t)
  PROVE  IInv' /\ BackByLoss
  <1> DEFINE h == hand[t]
             s == IF h.op = "confirm" THEN Confirmed(h) ELSE Reconciled(h)
             asked == [h EXCEPT !.pc = "asked", !.new = s]
  <1>1. pay \in Entry /\ hand \in [Hands -> Hand] /\ h \in Hand /\ pay.gateway \in GatewayStatus
    BY TypeParts DEF IInv, Entry
  <1>2. h.op \in Snapshots /\ HandOK(h, pay) /\ UNCHANGED <<booking, pay, payPast>>
    BY DEF AskSnapshot, IInv, HandsOK
  <1>3. CASE Ends(t)
    <2>1. OneHand(t) /\ hand'[t] = IdleHand
      BY <1>1, <1>3, EndsType DEF OneHand
    <2> QED BY <1>2, <2>1, IdleOK, IdleType, HandKept DEF LoopOps, Snapshots
  <1>4. CASE Does(t, asked)
    <2>1. /\ s \in Row
          /\ Backed(s.status, pay.gateway) /\ Forward(h.copy.status, s.status)
          /\ s.status # "none" /\ h.copy.status # "none"
      <3> DEFINE snap == SnapshotStatus(pay.gateway)
      <3>1. /\ snap \in {"pending", "authorized", "captured", "refunded", "failed"}
            /\ snap = "captured" <=> pay.gateway \in {"captured", "refunding"}
            /\ snap = "refunded" <=> pay.gateway = "refunded"
        BY <1>1, SnapshotType
      <3>2. CASE h.op = "confirm"
        <4>1. s \in Row /\ s.status \in {"pending", snap, "failed"} /\ h.copy.status = "pending"
          BY <1>1, <1>2, <3>2, SnapshotRow DEF HandOK
        <4> HIDE DEF s, snap, h
        <4> QED BY <3>1, <4>1 DEF Backed, Forward, MoneyTaken
      <3>3. CASE h.op = "reconcile"
        <4>1. /\ s \in Row /\ s.status = snap
              /\ h.copy.status \notin {"none", "refunded", "failed"}
              /\ Backed(h.copy.status, pay.gateway)
          BY <1>1, <1>2, <3>3, SnapshotRow DEF HandOK
        <4> HIDE DEF s, snap, h
        <4> QED BY <3>1, <4>1 DEF Backed, Forward, MoneyTaken
      <3> QED BY <1>2, <3>2, <3>3 DEF Snapshots
    <2> HIDE DEF s
    <2>2. /\ asked \in Hand /\ asked.pc = "asked" /\ asked.op = h.op /\ asked.copy = h.copy
          /\ asked.new = s /\ asked.writes = h.writes /\ asked.queue = h.queue
      BY <1>1, <2>1 DEF Hand
    <2> HIDE DEF asked
    <2>3. OneHand(t) /\ hand'[t] = asked
      BY <1>1, <1>4, <2>2, DoesType DEF OneHand
    <2>4. HandOK(asked, pay)
      BY <1>2, <2>1, <2>2 DEF HandOK
    <2> HIDE DEF h
    <2>5. hand[t].op = asked.op
      BY <2>2 DEF h
    <2> QED BY <1>2, <2>3, <2>4, <2>5, HandKept
  <1> QED BY <1>3, <1>4 DEF AskSnapshot

LEMMA CommitSnapshotStep ==
  ASSUME IInv, NEW t \in Hands, CommitSnapshot(t)
  PROVE  IInv' /\ BackByLoss
  <1> DEFINE h == hand[t]
             row == Updated(h)
             b == Lost(h, row)
             next == [IdleHand EXCEPT !.op = "capture", !.pc = "loaded", !.copy = row, !.new = row]
  <1>1. /\ pay \in Entry /\ hand \in [Hands -> Hand] /\ payPast \in PastType /\ h \in Hand
        /\ pay.jobs \in SUBSET JobKind
    BY TypeParts DEF IInv, Entry
  <1>2. h.op \in Snapshots /\ h.pc = "asked" /\ HandOK(h, pay) /\ RowIsFree(t) /\ UNCHANGED booking
    BY DEF CommitSnapshot, IInv, HandsOK
  <1>3. /\ row \in Row /\ Backed(row.status, pay.gateway)
        /\ pay.status # "none" => row.status # "none"
        /\ ~ Forward(pay.status, row.status) => b
    <2> HIDE DEF h
    <2> QED BY <1>1, <1>2, UpdateRow DEF IInv, HandOK
  <1>4. pay' = Written(row) /\ payPast' = [payPast EXCEPT !.lost = @ \/ b]
    BY DEF CommitSnapshot
  <1>5. pay' = [Written(row) EXCEPT !.jobs = pay.jobs]
    BY <1>1, <1>3, <1>4, WrittenJobs
  <1>6. pay'.status = row.status /\ pay'.gateway = pay.gateway
    BY <1>1, <1>3, <1>4, WrittenType
  <1>7. b \in BOOLEAN
    BY DEF Lost
  <1>8. Ends(t) \/ (Does(t, next) /\ row.status = "authorized")
    BY DEF CommitSnapshot
  <1>9. /\ hand[t].op # "cancel"
        /\ "refund" \in pay.jobs => Refunding
    BY <1>2 DEF Snapshots, Refunding
  <1> HIDE DEF row, b
  <1>10. CASE Ends(t)
    <2>1. OneHand(t) /\ hand'[t] = IdleHand
      BY <1>1, <1>10, EndsType DEF OneHand
    <2> HIDE DEF h
    <2> QED BY <1>1, <1>2, <1>3, <1>4, <1>5, <1>7, <1>9, <2>1, IdleOK, IdleType, WriteKept DEF LoopOps
  <1>11. CASE Does(t, next) /\ row.status = "authorized"
    <2>1. /\ next \in Hand /\ next.op = "capture" /\ next.pc = "loaded"
          /\ next.copy = row /\ next.new = row /\ next.queue = {} /\ ~ next.writes
      BY <1>3 DEF IdleHand, Hand, PoolOps
    <2> HIDE DEF next
    <2>2. OneHand(t) /\ hand'[t] = next
      BY <1>1, <1>11, <2>1, DoesType DEF OneHand
    <2>3. HandOK(next, pay')
      BY <1>6, <1>11, <2>1 DEF HandOK, Backed, Forward
    <2> HIDE DEF h
    <2> QED BY <1>1, <1>2, <1>3, <1>4, <1>5, <1>7, <1>9, <2>1, <2>2, <2>3, WriteKept DEF LoopOps
  <1> QED BY <1>8, <1>10, <1>11

-----------------------------------------------------------------------------
(* Calls of the provider, and its own moves *)

\* The provider moves to p and emits the events E.
LEMMA EventsEmitted ==
  ASSUME EventsOK, payPast \in PastType, NEW p \in Entry, NEW E \in SUBSET HookEvent,
         pay'.gateway = p.gateway, pay'.hooks = p.hooks, payPast' = Announced(p),
         p.hooks = pay.hooks \cup E, E \cap payPast.emitted = {},
         "payment.authorized" \in payPast.emitted \cup E => p.gateway \notin {"idle", "attempted", "failed"},
         "payment.captured" \in payPast.emitted \cup E => p.gateway \in MoneyTaken,
         "refund.processed" \in payPast.emitted \cup E => p.gateway = "refunded",
         "payment.failed" \in payPast.emitted \cup E => payPast.failed \/ p.gateway = "failed"
  PROVE  EventsOK'
  <1>1. /\ payPast'.emitted = payPast.emitted \cup (p.hooks \ pay.hooks)
        /\ payPast'.failed <=> payPast.failed \/ p.gateway = "failed"
        /\ payPast'.twice = payPast.twice /\ payPast'.applied = payPast.applied
    BY AnnouncedType
  <1>2. /\ payPast.applied \subseteq payPast.emitted
        /\ pay.hooks = payPast.emitted \ payPast.applied
        /\ ~ payPast.twice
    BY DEF EventsOK
  <1>3. payPast'.emitted = payPast.emitted \cup E
    BY <1>1, <1>2
  <1>4. /\ pay'.hooks = payPast'.emitted \ payPast'.applied
        /\ payPast'.applied \subseteq payPast'.emitted
    BY <1>1, <1>2, <1>3
  <1> QED BY <1>1, <1>2, <1>3, <1>4 DEF EventsOK

\* A call leaves the money, or captures or refunds it.
LEMMA EventsOfCall ==
  ASSUME EventsOK, payPast \in PastType, pay \in Entry, NEW p \in Entry,
         SameMoney(pay, p) \/ CapturedNow(pay, p) \/ RefundedNow(pay, p),
         pay'.gateway = p.gateway, pay'.hooks = p.hooks, payPast' = Announced(p)
  PROVE  EventsOK'
  <1>1. CASE CapturedNow(pay, p)
    <2>1. {"payment.captured"} \in SUBSET HookEvent /\ {"payment.captured"} \cap payPast.emitted = {}
      BY <1>1 DEF HookEvent, EventsOK, CapturedNow, MoneyTaken
    <2> QED BY <1>1, <2>1, EventsEmitted DEF EventsOK, CapturedNow, MoneyTaken
  <1>2. CASE SameMoney(pay, p) \/ RefundedNow(pay, p)
    <2>1. {} \in SUBSET HookEvent /\ {} \cap payPast.emitted = {} /\ payPast.emitted \cup {} = payPast.emitted
      OBVIOUS
    <2>2. p.hooks = pay.hooks \cup {}
      BY <1>2 DEF SameMoney, RefundedNow
    <2>3. /\ "payment.authorized" \in payPast.emitted => p.gateway \notin {"idle", "attempted", "failed"}
          /\ "payment.captured" \in payPast.emitted => p.gateway \in MoneyTaken
          /\ "refund.processed" \in payPast.emitted => p.gateway = "refunded"
          /\ "payment.failed" \in payPast.emitted => payPast.failed
      BY <1>2 DEF EventsOK, SameMoney, RefundedNow, MoneyTaken
    <2> QED BY <2>1, <2>2, <2>3, EventsEmitted
  <1> QED BY <1>1, <1>2

\* What the call of a handler does to its copy and to the money.
LEMMA AnswerFacts ==
  ASSUME pay \in Entry, NEW h \in Hand, h.op \in Captures \cup Refunds,
         Backed(h.copy.status, pay.gateway), NEW q \in Answers(h)
  PROVE  /\ q \in Entry /\ Backed(q.status, q.gateway) /\ Forward(h.copy.status, q.status)
         /\ h.copy.status = "none" <=> q.status = "none"
         /\ q.status = "failed" => h.copy.status = "failed" \/ pay.gateway = "failed"
         /\ SameMoney(pay, q) \/ CapturedNow(pay, q) \/ RefundedNow(pay, q)
         /\ RefundedNow(pay, q) => h.op \in Refunds
         /\ "refund" \in q.jobs => h.op \in Refunds
  <1> DEFINE p == Seen(h)
  <1>1. /\ p \in Entry /\ p.status = h.copy.status
        /\ p.gateway = pay.gateway /\ p.hooks = pay.hooks /\ p.jobs = {}
    BY SeenType
  <1>2. \/ h.op \in Captures /\ q \in Capture(p) \cup RetryCapture(p)
        \/ h.op \in Refunds /\ q \in Refund(p) \cup RetryRefund(p)
    BY DEF Answers, Captures, Refunds
  <1> HIDE DEF p
  <1>3. CASE h.op \in Captures /\ q \in Capture(p) \cup RetryCapture(p)
    <2>1. /\ Outcome(p, q)
          /\ SameMoney(p, q) \/ CapturedNow(p, q)
          /\ "refund" \notin q.jobs
          /\ p.status # "authorized" => q.status = p.status
      BY <1>1, <1>3, CaptureOutcome
    <2>2. ~ RefundedNow(pay, q)
      BY <1>1, <2>1 DEF SameMoney, CapturedNow, RefundedNow
    <2> QED BY <1>1, <2>1, <2>2 DEF Outcome, SameMoney, CapturedNow, RefundedNow
  <1>4. CASE h.op \in Refunds /\ q \in Refund(p) \cup RetryRefund(p)
    <2>1. /\ Outcome(p, q)
          /\ SameMoney(p, q) \/ RefundedNow(p, q)
          /\ p.status \notin {"authorized", "captured"} => q.status = p.status
      BY <1>1, <1>4, RefundOutcome
    <2> QED BY <1>1, <1>4, <2>1 DEF Outcome, SameMoney, RefundedNow
  <1> QED BY <1>2, <1>3, <1>4

LEMMA AskStep ==
  ASSUME IInv, NEW t \in Hands, Ask(t)
  PROVE  IInv' /\ BackByLoss
  <1> DEFINE h == hand[t]
             W == h.copy.status = "authorized" \/ (h.op \in Refunds /\ h.copy.status = "captured")
             Next(q) == [h EXCEPT !.pc = "asked", !.new = RowOf(q), !.queue = q.jobs \ {"reconcile"},
                                  !.writes = W]
             P(q) == [pay EXCEPT !.gateway = q.gateway, !.hooks = q.hooks]
  <1>1. /\ pay \in Entry /\ hand \in [Hands -> Hand] /\ payPast \in PastType /\ h \in Hand
        /\ booking \in {"pending", "accepted", "closed", "completed"}
    BY TypeParts DEF IInv
  <1>2. h.pc = "loaded" /\ h.op \in Captures \cup Refunds /\ HandOK(h, pay) /\ UNCHANGED booking
    BY DEF Ask, IInv, HandsOK
  <1>3. PICK q \in Answers(h) : pay' = P(q) /\ payPast' = Announced(P(q)) /\ Does(t, Next(q))
    BY DEF Ask
  <1>4. /\ q \in Entry /\ Backed(q.status, q.gateway) /\ Forward(h.copy.status, q.status)
        /\ h.copy.status = "none" <=> q.status = "none"
        /\ SameMoney(pay, q) \/ CapturedNow(pay, q) \/ RefundedNow(pay, q)
        /\ RefundedNow(pay, q) => h.op \in Refunds
        /\ "refund" \in q.jobs => h.op \in Refunds
    <2> HIDE DEF h
    <2> QED BY <1>1, <1>2, AnswerFacts DEF HandOK
  <1>5. /\ W \in BOOLEAN
        /\ W => h.copy.status # "none"
    OBVIOUS
  <1>6. RowOf(q) \in Row /\ RowOf(q).status = q.status
    BY <1>4, RowType
  <1> DEFINE p == P(q)
             n == Next(q)
  <1>7. /\ p \in Entry /\ p.gateway = q.gateway /\ p.hooks = q.hooks
        /\ p.status = pay.status /\ p.jobs = pay.jobs
    BY <1>1, <1>4 DEF Entry
  <1>8. /\ n \in Hand /\ n.pc = "asked" /\ n.op = h.op /\ n.copy = h.copy /\ n.new = RowOf(q)
        /\ n.queue = q.jobs \ {"reconcile"} /\ n.writes = W
    <2>1. q.jobs \ {"reconcile"} \in SUBSET JobKind
      BY <1>4 DEF Entry
    <2> HIDE DEF W
    <2> QED BY <1>1, <1>5, <1>6, <2>1 DEF Hand
  <1>9. pay' = p /\ payPast' = Announced(p) /\ Does(t, n)
    BY <1>3
  <1>x. W => h.copy.status # "none"
    BY <1>5
  <1> HIDE DEF p, n, W
  <1>10. /\ Announced(p) \in PastType
         /\ Announced(p).refunded <=> payPast.refunded \/ (p.gateway = "refunding" /\ pay.gateway # "refunding")
         /\ Announced(p).cut = payPast.cut
    BY <1>1, <1>7, AnnouncedType
  <1>11. OneHand(t) /\ hand'[t] = n
    BY <1>1, <1>8, <1>9, DoesType DEF OneHand
  <1> HIDE DEF h
  <1>12. PaymentsTypeOK'
    BY <1>1, <1>2, <1>7, <1>9, <1>10, <1>11 DEF OneHand, PaymentsTypeOK, PastType
  <1>13. EventsOK'
    <2>1. SameMoney(pay, p) \/ CapturedNow(pay, p) \/ RefundedNow(pay, p)
      BY <1>4, <1>7 DEF SameMoney, CapturedNow, RefundedNow
    <2> QED BY <1>1, <1>7, <1>9, <2>1, EventsOfCall DEF IInv
  <1>14. MoneyGrows
    BY <1>4, <1>7, <1>9 DEF MoneyGrows, SameMoney, CapturedNow, RefundedNow, MoneyTaken
  <1>15. HandOK(n, pay')
    <2>1. h.op \notin {"confirm", "reconcile"}
      BY <1>2 DEF Captures, Refunds
    <2>2. "refund" \in n.queue => h.op \in {"cancel", "refundJob"}
      BY <1>4, <1>8 DEF Refunds
    <2>3. Backed(n.copy.status, pay'.gateway) /\ Backed(n.new.status, pay'.gateway)
      BY <1>2, <1>4, <1>6, <1>7, <1>8, <1>9, <1>14 DEF HandOK, Backed, MoneyGrows
    <2> QED BY <1>2, <1>4, <1>6, <1>7, <1>8, <1>9, <1>x, <2>1, <2>2, <2>3 DEF HandOK
  <1>16. HandsOK'
    BY <1>7, <1>9, <1>11, <1>14, <1>15, HandsKept DEF IInv
  <1>y. hand[t].op = h.op
    BY DEF h
  <1>17. LoopOK'
    BY <1>2, <1>8, <1>11, <1>y, LoopKept DEF IInv
  <1>18. RefundOK'
    <2>1. payPast'.refunded => Refunding \/ hand[t].op = "cancel"
      <3>1. p.gateway = "refunding" /\ pay.gateway # "refunding" => h.op \in Refunds
        BY <1>4, <1>7 DEF SameMoney, CapturedNow, RefundedNow
      <3> QED BY <1>9, <1>10, <1>y, <3>1 DEF Refunds, Refunding
    <2>2. "refund" \in pay'.jobs => Refunding
      BY <1>7, <1>9 DEF Refunding
    <2>3. hand'[t].op = "refundJob" => Refunding
      BY <1>8, <1>11, <1>y DEF Refunding
    <2> QED BY <1>2, <1>8, <1>9, <1>10, <1>11, <1>y, <2>1, <2>2, <2>3, RefundKept DEF IInv
  <1>19. Backed(pay.status, pay.gateway)' /\ BackByLoss
    <2>1. pay'.status = pay.status
      BY <1>7, <1>9
    <2> QED BY <1>14, <2>1 DEF IInv, Backed, BackByLoss, MoneyGrows
  <1> QED BY <1>12, <1>13, <1>16, <1>17, <1>18, <1>19 DEF IInv

-----------------------------------------------------------------------------
(* Commits, with a call or with the booking *)

LEMMA CommitCallStep ==
  ASSUME IInv, NEW t \in Hands, CommitCall(t)
  PROVE  IInv' /\ BackByLoss
  <1> DEFINE h == hand[t]
             row == Updated(h)
             b == Lost(h, row)
             J == pay.jobs \cup h.queue
  <1>1. /\ pay \in Entry /\ hand \in [Hands -> Hand] /\ payPast \in PastType /\ h \in Hand
        /\ J \in SUBSET JobKind
    BY TypeParts DEF IInv, Entry, Hand
  <1>2. /\ h.pc = "asked" /\ h.op \in {"capture", "captureJob", "refundJob"} /\ HandOK(h, pay)
        /\ RowIsFree(t) /\ UNCHANGED booking
    BY DEF CommitCall, IInv, HandsOK
  <1>3. /\ row \in Row /\ Backed(row.status, pay.gateway)
        /\ pay.status # "none" => row.status # "none"
        /\ ~ Forward(pay.status, row.status) => b
    <2> HIDE DEF h
    <2> QED BY <1>1, <1>2, UpdateRow DEF IInv, HandOK
  <1>4. pay' = [Written(row) EXCEPT !.jobs = @ \cup h.queue] /\ payPast' = [payPast EXCEPT !.lost = @ \/ b]
    BY DEF CommitCall
  <1>5. pay' = [Written(row) EXCEPT !.jobs = J]
    <2> HIDE DEF row, h
    <2> QED BY <1>1, <1>3, <1>4, WrittenType
  <1>6. b \in BOOLEAN
    BY DEF Lost
  <1>7. OneHand(t) /\ hand'[t] = IdleHand
    BY <1>1, EndsType DEF OneHand, CommitCall
  <1>8. hand[t].op # "cancel" /\ ("refund" \in J => Refunding)
    BY <1>2 DEF HandOK, Refunding
  <1> HIDE DEF row, b, J, h
  <1> QED BY <1>1, <1>2, <1>3, <1>4, <1>5, <1>6, <1>7, <1>8, IdleOK, IdleType, WriteKept DEF LoopOps

LEMMA FlushStep ==
  ASSUME IInv, NEW t \in Hands, Flush(t)
  PROVE  IInv' /\ BackByLoss
  <1> DEFINE h == hand[t]
             s == IF h.writes THEN Updated(h) ELSE h.copy
             n == [h EXCEPT !.pc = "flushed", !.new = s]
             row == RowOf(pay)
             J == pay.jobs \cup h.queue
  <1>1. /\ pay \in Entry /\ hand \in [Hands -> Hand] /\ payPast \in PastType /\ h \in Hand
        /\ J \in SUBSET JobKind /\ Backed(pay.status, pay.gateway)
    BY TypeParts DEF IInv, Entry, Hand
  <1>2. h.pc = "asked" /\ h.op \in LoopOps /\ HandOK(h, pay) /\ UNCHANGED <<booking, payPast>>
    BY DEF Flush, IInv, HandsOK
  <1>3. /\ s \in Row /\ Backed(s.status, pay.gateway)
        /\ h.copy.status = "none" <=> s.status = "none"
        /\ h.writes => s.status = pay.status \/ Forward(h.copy.status, s.status)
    <2>1. h.copy \in Row /\ Backed(h.copy.status, pay.gateway)
      BY <1>1, <1>2 DEF Hand, HandOK
    <2> DEFINE u == Updated(h)
    <2>2. /\ u \in Row /\ Backed(u.status, pay.gateway)
          /\ pay.status # "none" => u.status # "none"
          /\ u.status = pay.status \/ u.status = h.new.status
      <3> HIDE DEF h
      <3> QED BY <1>1, <1>2, UpdateRow DEF IInv, HandOK
    <2>3. s = IF h.writes THEN u ELSE h.copy
      OBVIOUS
    <2> HIDE DEF u, s, h
    <2> QED BY <1>2, <2>1, <2>2, <2>3 DEF HandOK
  <1>4. /\ n \in Hand /\ n.pc = "flushed" /\ n.op = h.op /\ n.copy = h.copy /\ n.new = s
        /\ n.writes = h.writes /\ n.queue = h.queue
    <2> HIDE DEF s
    <2> QED BY <1>1, <1>3 DEF Hand
  <1>5. Does(t, n) /\ pay' = [pay EXCEPT !.jobs = @ \cup h.queue]
    BY DEF Flush
  <1> HIDE DEF n, s
  <1>6. OneHand(t) /\ hand'[t] = n
    BY <1>1, <1>4, <1>5, DoesType DEF OneHand
  <1>7. row \in Row /\ row.status = pay.status /\ pay' = [Written(row) EXCEPT !.jobs = J]
    BY <1>1, <1>5, RowType DEF Written, RowOf, Entry
  <1>8. pay'.status = pay.status /\ pay'.gateway = pay.gateway
    BY <1>1, <1>5 DEF Entry
  <1>9. HandOK(n, pay')
    BY <1>2, <1>3, <1>4, <1>8 DEF HandOK
  <1>10. payPast' = [payPast EXCEPT !.lost = @ \/ FALSE]
    BY <1>1, <1>2 DEF PastType
  <1>11. n.op = hand[t].op /\ ("refund" \in J \/ n.op = "refundJob" => Refunding \/ hand[t].op = "cancel")
    BY <1>2, <1>4 DEF HandOK, Refunding
  <1>12. Forward(pay.status, row.status)
    BY <1>7 DEF Forward
  <1> HIDE DEF row, J, h
  <1> QED BY <1>1, <1>2, <1>6, <1>7, <1>9, <1>10, <1>11, <1>12, WriteKept

LEMMA RollBackStep ==
  ASSUME IInv, NEW t \in Hands, RollBack(t)
  PROVE  IInv' /\ BackByLoss
  <1>1. hand \in [Hands -> Hand]
    BY TypeParts DEF IInv
  <1>2. OneHand(t) /\ hand'[t] = IdleHand /\ UNCHANGED <<booking, pay>>
    BY <1>1, EndsType DEF OneHand, RollBack
  <1>3. payPast' = [payPast EXCEPT !.cut = @ \/ hand[t].op = "cancel"]
    BY DEF RollBack
  <1> QED BY <1>2, <1>3, IdleOK, IdleType, HandKept DEF LoopOps

\* A handler that has flushed is the one handler of the booking.
LEMMA FlushedAlone ==
  ASSUME IInv, NEW t \in Hands, hand[t].pc = "flushed"
  PROVE  /\ hand[t].op \in LoopOps /\ FitsBooking(hand[t].op, booking) /\ RowIsFree(t)
         /\ \A u \in Hands \ {t} : hand[u].op \notin LoopOps
  BY DEF IInv, HandsOK, HandOK, LoopOK, RowIsFree

LEMMA CommitBookingStep ==
  ASSUME IInv, NEW t \in Hands, CommitBooking(t)
  PROVE  IInv' /\ BackByLoss
  <1> DEFINE h == hand[t]
  <1>1. /\ pay \in Entry /\ hand \in [Hands -> Hand] /\ payPast \in PastType /\ h \in Hand
        /\ h.new \in Row
    BY TypeParts DEF IInv, Hand
  <1>2. h.pc = "flushed" /\ HandOK(h, pay) /\ booking' = BookingAfter(h)
    BY DEF CommitBooking, IInv, HandsOK
  <1>3. OneHand(t) /\ hand'[t] = IdleHand
    BY <1>1, EndsType DEF OneHand, CommitBooking
  <1>4. /\ h.op \in LoopOps /\ FitsBooking(h.op, booking) /\ RowIsFree(t)
        /\ \A u \in Hands \ {t} : hand[u].op \notin LoopOps
    BY <1>2, FlushedAlone
  <1>5. /\ pay' \in Entry /\ pay'.gateway = pay.gateway /\ pay'.hooks = pay.hooks
        /\ pay'.jobs = pay.jobs
        /\ pay.status # "none" => pay'.status # "none"
        /\ Backed(pay'.status, pay.gateway)
        /\ payPast' \in PastType
        /\ payPast'.emitted = payPast.emitted /\ payPast'.applied = payPast.applied
        /\ payPast'.twice = payPast.twice /\ payPast'.failed = payPast.failed
        /\ payPast'.cut = payPast.cut /\ payPast'.refunded = payPast.refunded
        /\ BackByLoss
    <2>1. CASE ~ h.writes
      <3>1. UNCHANGED <<pay, payPast>>
        BY <2>1 DEF CommitBooking
      <3> QED BY <1>1, <3>1 DEF IInv, BackByLoss
    <2>2. CASE h.writes
      <3> DEFINE b == Lost(h, h.new)
      <3>1. pay' = Written(h.new) /\ payPast' = [payPast EXCEPT !.lost = @ \/ b]
        BY <2>2 DEF CommitBooking
      <3>2. b \in BOOLEAN /\ (~ Forward(pay.status, h.new.status) => b)
        BY <1>2, <2>2 DEF HandOK, Forward, Lost
      <3> HIDE DEF b
      <3>3. /\ payPast' \in PastType /\ payPast'.lost = (payPast.lost \/ b)
            /\ payPast'.emitted = payPast.emitted /\ payPast'.applied = payPast.applied
            /\ payPast'.twice = payPast.twice /\ payPast'.failed = payPast.failed
            /\ payPast'.cut = payPast.cut /\ payPast'.refunded = payPast.refunded
        BY <1>1, <3>1, <3>2, PastLost
      <3>4. /\ pay' \in Entry /\ pay'.status = h.new.status /\ pay'.gateway = pay.gateway
            /\ pay'.hooks = pay.hooks /\ pay'.jobs = pay.jobs
        BY <1>1, <3>1, WrittenType
      <3> QED BY <1>2, <2>2, <3>2, <3>3, <3>4 DEF HandOK, BackByLoss, Forward
    <2> QED BY <2>1, <2>2
  <1>6. PaymentsTypeOK'
    <2>1. booking' \in {"pending", "accepted", "closed", "completed"}
      BY <1>2 DEF BookingAfter
    <2> QED BY <1>3, <1>5, <2>1 DEF OneHand, PaymentsTypeOK, PastType
  <1>7. EventsOK'
    BY <1>5, EventsKept DEF IInv
  <1>8. HandsOK'
    BY <1>3, <1>4, <1>5, IdleOK, HandsKept DEF IInv, MoneyGrows
  <1>9. LoopOK'
    <2>1. \A u \in Hands : hand'[u].op \notin LoopOps
      BY <1>3, <1>4, IdleType DEF OneHand, LoopOps
    <2> QED BY <2>1 DEF LoopOK
  <1>10. RefundOK'
    <2>1. booking # "closed" /\ (hand[t].op = "cancel" => booking' = "closed")
      BY <1>2, <1>4 DEF FitsBooking, LoopOps, BookingAfter
    <2>2. "refund" \in pay'.jobs \/ payPast'.refunded \/ hand'[t].op = "refundJob" => Refunding
      BY <1>3, <1>5, IdleType DEF Refunding
    <2> QED BY <1>3, <1>5, <2>1, <2>2, RefundKept DEF IInv
  <1> QED BY <1>5, <1>6, <1>7, <1>8, <1>9, <1>10 DEF IInv

\* A completion that commits collected a fare, or found no payment.
LEMMA PaidCompletion ==
  ASSUME IInv, NEW t \in Hands, CommitBooking(t), hand[t].op = "complete",
         hand[t].copy.status # "none"
  PROVE  pay.gateway \in MoneyTaken
  BY DEF IInv, HandsOK, HandOK, Backed, CommitBooking, FareCollected

-----------------------------------------------------------------------------
(* Webhooks, the provider's moves, the booking alone, a restart *)

LEMMA HookStatusForward ==
  ASSUME NEW s \in PaymentStatus, NEW e
  PROVE  /\ HookStatus(s, e) \in PaymentStatus /\ Forward(s, HookStatus(s, e))
         /\ s = "none" <=> HookStatus(s, e) = "none"
         /\ HookStatus(s, e) = "captured" => s = "captured" \/ e = "payment.captured"
         /\ HookStatus(s, e) = "refunded" => s = "refunded" \/ e = "refund.processed"
  BY DEF HookStatus, Forward, PaymentStatus

LEMMA CommitWebhookStep ==
  ASSUME IInv, NEW t \in Hands, CommitWebhook(t)
  PROVE  IInv' /\ BackByLoss
  <1> DEFINE g == hand[t]
             new == [status |-> HookStatus(g.copy.status, g.event), ref |-> TRUE]
             h == [g EXCEPT !.new = new]
             row == Updated(h)
             b == Lost(h, row)
             w == Written(row)
             e == g.event
             past == [payPast EXCEPT !.lost = @ \/ b, !.applied = @ \cup {e},
                                     !.twice = @ \/ e \in payPast.applied]
  <1>1. /\ pay \in Entry /\ hand \in [Hands -> Hand] /\ payPast \in PastType /\ g \in Hand
        /\ booking \in {"pending", "accepted", "closed", "completed"}
    BY TypeParts DEF IInv
  <1>2. g.op = "webhook" /\ HandOK(g, pay) /\ RowIsFree(t) /\ UNCHANGED booking
    <2>1. h.op = g.op
      BY <1>1 DEF Hand
    <2> HIDE DEF h
    <2>2. h.op = "webhook" /\ RowIsFree(t) /\ UNCHANGED booking
      BY DEF CommitWebhook, h
    <2> QED BY <2>1, <2>2 DEF IInv, HandsOK
  <1>3. OneHand(t) /\ hand'[t] = IdleHand
    BY <1>1, EndsType DEF OneHand, CommitWebhook
  <1>4. g.copy \in Row /\ g.copy.status \in PaymentStatus
    BY <1>1 DEF Hand, Row
  <1>5. CASE UNCHANGED <<pay, payPast>>
    BY <1>2, <1>3, <1>5, IdleOK, IdleType, HandKept DEF LoopOps
  <1>6. CASE e \in pay.hooks /\ pay' = [w EXCEPT !.hooks = @ \ {e}] /\ payPast' = past
    <2>1. /\ h \in Hand /\ h.copy = g.copy /\ h.new = new /\ h.op = g.op
          /\ new \in Row /\ new.status = HookStatus(g.copy.status, e)
      <3>1. HookStatus(g.copy.status, e) \in PaymentStatus
        BY <1>4, HookStatusForward
      <3>2. new \in Row /\ new.status = HookStatus(g.copy.status, e)
        BY <3>1 DEF Row
      <3> HIDE DEF new
      <3> QED BY <1>1, <3>2 DEF Hand
    <2>2. /\ e \in payPast.emitted /\ e \notin payPast.applied /\ e \in HookEvent
          /\ pay.hooks = payPast.emitted \ payPast.applied /\ ~ payPast.twice
          /\ payPast.applied \subseteq payPast.emitted
      BY <1>1, <1>6 DEF IInv, EventsOK, Entry
    <2>3. /\ Backed(h.new.status, pay.gateway)
          /\ h.copy.status = "none" <=> h.new.status = "none"
          /\ Forward(h.copy.status, h.new.status)
      <3>1. /\ Forward(g.copy.status, new.status)
            /\ g.copy.status = "none" <=> new.status = "none"
            /\ new.status = "captured" => g.copy.status = "captured" \/ e = "payment.captured"
            /\ new.status = "refunded" => g.copy.status = "refunded" \/ e = "refund.processed"
        BY <1>4, <2>1, HookStatusForward
      <3>2. Backed(g.copy.status, pay.gateway) /\ EventsOK
        BY <1>2 DEF HandOK, IInv
      <3>3. Backed(new.status, pay.gateway)
        <4> HIDE DEF new, e, g
        <4> QED BY <2>2, <3>1, <3>2 DEF Backed, EventsOK, MoneyTaken
      <3> HIDE DEF h, new, g
      <3> QED BY <2>1, <3>1, <3>3
    <2> HIDE DEF h
    <2>4. /\ row \in Row /\ Backed(row.status, pay.gateway)
          /\ pay.status # "none" => row.status # "none"
          /\ ~ Forward(pay.status, row.status) => b
      BY <2>1, <2>3, UpdateRow DEF IInv
    <2>5. b \in BOOLEAN
      BY DEF Lost
    <2> HIDE DEF row, b
    <2>6. /\ w \in Entry /\ w.status = row.status /\ w.gateway = pay.gateway
          /\ w.hooks = pay.hooks /\ w.jobs = pay.jobs
      BY <1>1, <2>4, WrittenType
    <2> HIDE DEF w, e, past
    <2>7. /\ pay' \in Entry /\ pay'.status = row.status /\ pay'.gateway = pay.gateway
          /\ pay'.hooks = pay.hooks \ {e} /\ pay'.jobs = pay.jobs
      BY <1>6, <2>6 DEF Entry
    <2>8. /\ payPast' \in PastType
          /\ payPast'.lost = (payPast.lost \/ b) /\ payPast'.applied = payPast.applied \cup {e}
          /\ ~ payPast'.twice
          /\ payPast'.emitted = payPast.emitted /\ payPast'.failed = payPast.failed
          /\ payPast'.cut = payPast.cut /\ payPast'.refunded = payPast.refunded
      <3> DEFINE l == payPast.lost \/ b
                 A == payPast.applied \cup {e}
                 x == payPast.twice \/ e \in payPast.applied
      <3>1. l \in BOOLEAN /\ A \in SUBSET HookEvent /\ x \in BOOLEAN /\ ~ x
        BY <1>1, <2>2 DEF PastType
      <3>2. payPast' = [payPast EXCEPT !.lost = l, !.applied = A, !.twice = x]
        BY <1>6 DEF past
      <3>3. l = (payPast.lost \/ b) /\ A = payPast.applied \cup {e}
        OBVIOUS
      <3> HIDE DEF l, A, x
      <3>4. /\ payPast' \in PastType
            /\ payPast'.lost = l /\ payPast'.applied = A /\ payPast'.twice = x
            /\ payPast'.emitted = payPast.emitted /\ payPast'.failed = payPast.failed
            /\ payPast'.cut = payPast.cut /\ payPast'.refunded = payPast.refunded
        BY <1>1, <3>1, <3>2 DEF PastType
      <3> QED BY <3>1, <3>3, <3>4
    <2>9. PaymentsTypeOK'
      BY <1>1, <1>2, <1>3, <2>7, <2>8 DEF OneHand, PaymentsTypeOK, PastType
    <2>10. EventsOK'
      <3>1. /\ pay'.hooks = payPast'.emitted \ payPast'.applied
            /\ payPast'.applied \subseteq payPast'.emitted
        BY <2>2, <2>7, <2>8
      <3> QED BY <2>7, <2>8, <3>1 DEF IInv, EventsOK
    <2>11. HandsOK'
      BY <1>2, <1>3, <2>4, <2>7, IdleOK, HandsKept DEF IInv, MoneyGrows
    <2>12. LoopOK'
      BY <1>2, <1>3, IdleType, LoopKept DEF IInv, LoopOps
    <2>13. RefundOK'
      <3>1. "refund" \in pay'.jobs \/ payPast'.refunded \/ hand'[t].op = "refundJob" => Refunding
        BY <1>3, <2>7, <2>8, IdleType DEF Refunding
      <3> QED BY <1>2, <1>3, <2>8, <3>1, RefundKept DEF IInv
    <2>14. BackByLoss /\ Backed(pay'.status, pay'.gateway)
      BY <2>4, <2>7, <2>8 DEF BackByLoss, Forward
    <2> QED BY <2>9, <2>10, <2>11, <2>12, <2>13, <2>14 DEF IInv
  <1>7. UNCHANGED <<pay, payPast>> \/ (e \in pay.hooks /\ pay' = [w EXCEPT !.hooks = @ \ {e}] /\ payPast' = past)
    <2>1. h.event = e
      BY <1>1 DEF Hand
    <2> DEFINE f == h.event
    <2>2. \/ UNCHANGED <<pay, payPast>>
          \/ /\ f \in pay.hooks /\ pay' = [w EXCEPT !.hooks = @ \ {f}]
             /\ payPast' = [payPast EXCEPT !.lost = @ \/ b, !.applied = @ \cup {f},
                                           !.twice = @ \/ f \in payPast.applied]
      BY DEF CommitWebhook, NotRecorded
    <2>3. f = e
      BY <2>1
    <2> HIDE DEF f, w, b, e
    <2> QED BY <2>2, <2>3
  <1> QED BY <1>5, <1>6, <1>7

\* Every move of the provider's own, with the events it emits.
LEMMA GatewayMove ==
  ASSUME NEW p \in Entry, NEW q \in GatewayMoves(p)
  PROVE  /\ q \in Entry /\ q.status = p.status /\ q.jobs = p.jobs
         /\ \/ p.gateway \in {"idle", "failed"} /\ q.gateway = "attempted" /\ q.hooks = p.hooks
            \/ /\ p.gateway = "attempted" /\ q.gateway = "authorized"
               /\ q.hooks = p.hooks \cup {"payment.authorized"}
            \/ /\ p.gateway = "attempted" /\ q.gateway = "failed"
               /\ q.hooks = p.hooks \cup {"payment.failed"}
            \/ /\ p.gateway = "authorized" /\ q.gateway = "captured"
               /\ q.hooks = p.hooks \cup {"payment.captured"}
            \/ /\ p.gateway \in {"authorized", "refunding"} /\ q.gateway = "refunded"
               /\ q.hooks = p.hooks \cup {"refund.processed"}
            \/ p.gateway = "refunding" /\ q.gateway = "captured" /\ q.hooks = p.hooks
  <1>1. p.gateway \in GatewayStatus
    BY DEF Entry
  <1>7. ASSUME NEW g \in GatewayStatus, q = Move(p, g, {})
        PROVE  /\ q \in Entry /\ q.status = p.status /\ q.jobs = p.jobs
               /\ q.gateway = g /\ q.hooks = p.hooks
    BY <1>7 DEF Move, Entry
  <1>2. CASE p.gateway = "idle"
    <2>1. q = Move(p, "attempted", {})
      BY <1>2 DEF GatewayMoves
    <2> QED BY <1>2, <1>7, <2>1 DEF GatewayStatus
  <1>3. CASE p.gateway = "attempted"
    BY <1>3, MoveEntry DEF GatewayMoves, GatewayStatus, HookEvent
  <1>4. CASE p.gateway = "failed"
    <2>1. q = Move(p, "attempted", {})
      BY <1>4 DEF GatewayMoves
    <2> QED BY <1>4, <1>7, <2>1 DEF GatewayStatus
  <1>5. CASE p.gateway = "authorized"
    BY <1>5, MoveEntry DEF GatewayMoves, GatewayStatus, HookEvent
  <1>6. CASE p.gateway = "refunding"
    <2>1. q = Move(p, "captured", {}) \/ q = Move(p, "refunded", {"refund.processed"})
      BY <1>6 DEF GatewayMoves
    <2>2. CASE q = Move(p, "captured", {})
      BY <1>6, <1>7, <2>2 DEF GatewayStatus
    <2>3. CASE q = Move(p, "refunded", {"refund.processed"})
      BY <1>6, <2>3, MoveEntry DEF GatewayStatus, HookEvent
    <2> QED BY <2>1, <2>2, <2>3
  <1> QED BY <1>1, <1>2, <1>3, <1>4, <1>5, <1>6 DEF GatewayMoves, GatewayStatus

LEMMA GatewayStep ==
  ASSUME IInv, GatewayActs
  PROVE  IInv' /\ BackByLoss
  <1>1. /\ pay \in Entry /\ payPast \in PastType /\ UNCHANGED <<booking, hand>>
    BY TypeParts DEF IInv, GatewayActs
  <1>2. PICK p \in GatewayMoves(pay) : /\ p.gateway = "failed" => ~ payPast.failed
                                       /\ pay' = p /\ payPast' = Announced(p)
    BY DEF GatewayActs
  <1>3. p \in Entry /\ p.status = pay.status /\ p.jobs = pay.jobs
    BY <1>1, GatewayMove
  <1>4. PICK E \in SUBSET HookEvent :
        /\ p.hooks = pay.hooks \cup E
        /\ \/ pay.gateway \in {"idle", "failed"} /\ p.gateway = "attempted" /\ E = {}
           \/ pay.gateway = "attempted" /\ p.gateway = "authorized" /\ E = {"payment.authorized"}
           \/ pay.gateway = "attempted" /\ p.gateway = "failed" /\ E = {"payment.failed"}
           \/ pay.gateway = "authorized" /\ p.gateway = "captured" /\ E = {"payment.captured"}
           \/ pay.gateway \in {"authorized", "refunding"} /\ p.gateway = "refunded" /\ E = {"refund.processed"}
           \/ pay.gateway = "refunding" /\ p.gateway = "captured" /\ E = {}
    <2> DEFINE Added(E) == p.hooks = pay.hooks \cup E
    <2>1. Added({}) \/ p.hooks # pay.hooks
      OBVIOUS
    <2>2. /\ {} \in SUBSET HookEvent
          /\ {"payment.authorized"} \in SUBSET HookEvent /\ {"payment.failed"} \in SUBSET HookEvent
          /\ {"payment.captured"} \in SUBSET HookEvent /\ {"refund.processed"} \in SUBSET HookEvent
      BY DEF HookEvent
    <2>3. \/ pay.gateway \in {"idle", "failed"} /\ p.gateway = "attempted" /\ Added({})
          \/ pay.gateway = "attempted" /\ p.gateway = "authorized" /\ Added({"payment.authorized"})
          \/ pay.gateway = "attempted" /\ p.gateway = "failed" /\ Added({"payment.failed"})
          \/ pay.gateway = "authorized" /\ p.gateway = "captured" /\ Added({"payment.captured"})
          \/ pay.gateway \in {"authorized", "refunding"} /\ p.gateway = "refunded" /\ Added({"refund.processed"})
          \/ pay.gateway = "refunding" /\ p.gateway = "captured" /\ Added({})
      BY <1>1, <2>1, GatewayMove
    <2> HIDE DEF Added
    <2>4. \E E \in SUBSET HookEvent :
        /\ Added(E)
        /\ \/ pay.gateway \in {"idle", "failed"} /\ p.gateway = "attempted" /\ E = {}
           \/ pay.gateway = "attempted" /\ p.gateway = "authorized" /\ E = {"payment.authorized"}
           \/ pay.gateway = "attempted" /\ p.gateway = "failed" /\ E = {"payment.failed"}
           \/ pay.gateway = "authorized" /\ p.gateway = "captured" /\ E = {"payment.captured"}
           \/ pay.gateway \in {"authorized", "refunding"} /\ p.gateway = "refunded" /\ E = {"refund.processed"}
           \/ pay.gateway = "refunding" /\ p.gateway = "captured" /\ E = {}
      <3>1. CASE pay.gateway \in {"idle", "failed"} /\ p.gateway = "attempted" /\ Added({})
        BY <3>1, <2>2, Zenon
      <3>2. CASE pay.gateway = "attempted" /\ p.gateway = "authorized" /\ Added({"payment.authorized"})
        BY <3>2, <2>2, Zenon
      <3>3. CASE pay.gateway = "attempted" /\ p.gateway = "failed" /\ Added({"payment.failed"})
        BY <3>3, <2>2, Zenon
      <3>4. CASE pay.gateway = "authorized" /\ p.gateway = "captured" /\ Added({"payment.captured"})
        BY <3>4, <2>2, Zenon
      <3>5. CASE pay.gateway \in {"authorized", "refunding"} /\ p.gateway = "refunded"
                 /\ Added({"refund.processed"})
        BY <3>5, <2>2, Zenon
      <3>6. CASE pay.gateway = "refunding" /\ p.gateway = "captured" /\ Added({})
        BY <3>6, <2>2, Zenon
      <3> QED BY <2>3, <3>1, <3>2, <3>3, <3>4, <3>5, <3>6
    <2> QED BY <2>4 DEF Added
  <1>5. EventsOK'
    <2>1. E \cap payPast.emitted = {}
      BY <1>2, <1>4 DEF IInv, EventsOK, MoneyTaken
    <2>2. /\ "payment.authorized" \in payPast.emitted \cup E => p.gateway \notin {"idle", "attempted", "failed"}
          /\ "payment.captured" \in payPast.emitted \cup E => p.gateway \in MoneyTaken
          /\ "refund.processed" \in payPast.emitted \cup E => p.gateway = "refunded"
          /\ "payment.failed" \in payPast.emitted \cup E => payPast.failed \/ p.gateway = "failed"
      BY <1>4 DEF IInv, EventsOK, MoneyTaken
    <2> QED BY <1>1, <1>2, <1>3, <1>4, <2>1, <2>2, EventsEmitted DEF IInv
  <1>6. /\ payPast' \in PastType /\ payPast'.cut = payPast.cut
        /\ payPast'.refunded <=> payPast.refunded
    BY <1>1, <1>2, <1>3, <1>4, AnnouncedType
  <1>7. PaymentsTypeOK'
    BY <1>1, <1>2, <1>3, <1>6 DEF PaymentsTypeOK, PastType, IInv
  <1>8. MoneyGrows
    BY <1>2, <1>3, <1>4 DEF MoneyGrows, MoneyTaken
  <1>9. HandsOK'
    BY <1>1, <1>2, <1>3, <1>8 DEF IInv, HandsOK, HandOK, MoneyGrows, Backed
  <1>10. LoopOK'
    BY <1>1 DEF IInv, LoopOK
  <1>11. RefundOK'
    BY <1>1, <1>2, <1>3, <1>6 DEF IInv, RefundOK, Refunding, Cancelling
  <1> QED BY <1>2, <1>3, <1>5, <1>7, <1>8, <1>9, <1>10, <1>11 DEF IInv, BackByLoss, MoneyGrows, Backed

LEMMA BookingAloneStep ==
  ASSUME IInv, BookingMovesAlone
  PROVE  IInv' /\ BackByLoss
  <1>1. UNCHANGED <<pay, hand, payPast>> /\ LoopIsFree
    BY DEF BookingMovesAlone
  <1>2. PaymentsTypeOK'
    BY <1>1 DEF IInv, PaymentsTypeOK, BookingMovesAlone
  <1>3. EventsOK'
    BY <1>1 DEF IInv, EventsOK
  <1>4. HandsOK'
    BY <1>1 DEF IInv, HandsOK
  <1>5. LoopOK'
    BY <1>1 DEF LoopIsFree, LoopOK
  <1>6. RefundOK'
    BY <1>1 DEF IInv, RefundOK, Refunding, Cancelling, BookingMovesAlone
  <1> QED BY <1>1, <1>2, <1>3, <1>4, <1>5, <1>6 DEF IInv, BackByLoss

LEMMA RestartStep ==
  ASSUME IInv, Restart
  PROVE  IInv' /\ BackByLoss
  <1> DEFINE c == payPast.cut \/ Cancelling
  <1>1. /\ pay \in Entry /\ payPast \in PastType
        /\ booking \in {"pending", "accepted", "closed", "completed"}
    BY TypeParts DEF IInv
  <1>2. /\ booking' = booking /\ hand' = [t \in Hands |-> IdleHand]
        /\ pay' = [pay EXCEPT !.jobs = {}] /\ payPast' = [payPast EXCEPT !.cut = c] /\ c \in BOOLEAN
    BY DEF Restart, Cancelling
  <1>3. c <=> payPast.cut \/ Cancelling
    OBVIOUS
  <1> HIDE DEF c
  <1>4. /\ payPast' \in PastType /\ payPast'.cut = c
        /\ payPast'.emitted = payPast.emitted /\ payPast'.applied = payPast.applied
        /\ payPast'.twice = payPast.twice /\ payPast'.failed = payPast.failed
        /\ payPast'.refunded = payPast.refunded
    BY <1>1, <1>2 DEF PastType
  <1>5. /\ pay' \in Entry /\ pay'.status = pay.status /\ pay'.gateway = pay.gateway
        /\ pay'.hooks = pay.hooks /\ pay'.jobs = {}
    BY <1>1, <1>2 DEF Entry
  <1>6. PaymentsTypeOK'
    <2>1. hand' \in [Hands -> Hand]
      BY <1>2, IdleType
    <2> QED BY <1>1, <1>2, <1>4, <1>5, <2>1 DEF PaymentsTypeOK, PastType
  <1>7. EventsOK'
    BY <1>4, <1>5, EventsKept DEF IInv
  <1>8. HandsOK'
    BY <1>2, IdleOK DEF HandsOK
  <1>9. LoopOK'
    BY <1>2, IdleType DEF LoopOK, LoopOps
  <1>10. RefundOK'
    <2>1. Refunding' => Refunding
      BY <1>2, <1>4, <1>5, IdleType DEF Refunding
    <2> QED BY <1>2, <1>3, <1>4, <2>1 DEF IInv, RefundOK
  <1> QED BY <1>5, <1>6, <1>7, <1>8, <1>9, <1>10 DEF IInv, BackByLoss

-----------------------------------------------------------------------------
(* Theorems *)

\* The step of a handler, a job, a webhook or the provider keeps the invariant, and
\* a settled row goes back by a lost update only.
LEMMA Inductive ==
  ASSUME IInv, [PaymentsNext]_payVars
  PROVE  IInv' /\ [BackByLoss]_payVars
  <1>1. CASE UNCHANGED payVars
    <2>1. UNCHANGED <<booking, pay, hand, payPast>>
      BY <1>1 DEF payVars
    <2>2. PaymentsTypeOK' /\ EventsOK' /\ HandsOK' /\ LoopOK' /\ RefundOK'
      BY <2>1 DEF IInv, PaymentsTypeOK, EventsOK, HandsOK, LoopOK, RefundOK, Refunding, Cancelling
    <2> QED BY <1>1, <2>1, <2>2 DEF IInv
  <1>2. CASE PaymentsNext
    BY <1>2, BeginSteps, CommitCreateStep, AskSnapshotStep, CommitSnapshotStep, AskStep, CommitCallStep,
       FlushStep, CommitBookingStep, RollBackStep, CommitWebhookStep, BookingAloneStep, GatewayStep,
       RestartStep DEF PaymentsNext
  <1> QED BY <1>1, <1>2

LEMMA InitOK == PaymentsInit => IInv
  <1> SUFFICES ASSUME PaymentsInit PROVE IInv
    OBVIOUS
  <1>1. /\ pay = NoPayment /\ NoPayment \in Entry /\ NoPayment.status = "none"
        /\ NoPayment.jobs = {} /\ NoPayment.hooks = {} /\ NoPayment.gateway = "idle"
    BY DEF PaymentsInit, NoPayment, Entry, PaymentStatus, GatewayStatus
  <1>2. hand \in [Hands -> Hand] /\ \A t \in Hands : hand[t] = IdleHand
    BY IdleType DEF PaymentsInit
  <1>3. /\ payPast \in PastType /\ payPast.emitted = {} /\ payPast.applied = {}
        /\ ~ payPast.twice /\ ~ payPast.refunded
    BY DEF PaymentsInit, PastType
  <1>4. PaymentsTypeOK
    BY <1>1, <1>2, <1>3 DEF PaymentsInit, PaymentsTypeOK, PastType
  <1>5. EventsOK
    BY <1>1, <1>3 DEF EventsOK
  <1>6. HandsOK
    BY <1>2, IdleOK DEF HandsOK
  <1>7. LoopOK
    BY <1>2, IdleType DEF LoopOK, LoopOps
  <1>8. RefundOK
    BY <1>1, <1>2, <1>3, IdleType DEF RefundOK, Refunding
  <1> QED BY <1>1, <1>4, <1>5, <1>6, <1>7, <1>8 DEF IInv, Backed

\* The types and what the rules below rest on hold while handlers overlap.
THEOREM SessionsInvariant == PaymentsSpec => []IInv
  <1>1. IInv /\ [PaymentsNext]_payVars => IInv'
    BY Inductive
  <1> QED BY <1>1, InitOK, PTL DEF PaymentsSpec

\* No row claims money that the provider did not take or give back, whatever
\* handlers, jobs and webhooks of the payment overlap (PaymentService).
THEOREM OverlapsClaimNothing == PaymentsSpec => []NoPhantomMoney
  <1>1. IInv => NoPhantomMoney
    BY DEF IInv, Backed, NoPhantomMoney
  <1> QED BY <1>1, SessionsInvariant, PTL

\* Each webhook has its effect exactly once, however often it is delivered and
\* whatever commits fail (process_webhook_event).
THEOREM WebhooksOnce == PaymentsSpec => []EventsTakeEffectOnce
  <1>1. IInv => EventsTakeEffectOnce
    BY DEF IInv, EventsOK, EventsTakeEffectOnce
  <1> QED BY <1>1, SessionsInvariant, PTL

\* Handlers and jobs refund the fare of a cancelled booking only
\* (refund_payment_for_booking, retry_refund_payment).
THEOREM RefundsAreDue == PaymentsSpec => []RefundIsForCancelled
  <1>1. IInv => RefundIsForCancelled
    BY DEF IInv, RefundOK, Refunding, Cancelling, RefundIsForCancelled
  <1> QED BY <1>1, SessionsInvariant, PTL

\* A settled row is moved back only by a handler whose copy was older than the
\* row: never by a webhook out of order or by the provider's word.
THEOREM BackOnlyByLoss == PaymentsSpec => MovesBackOnlyByLostUpdate
  <1>1. IInv /\ [PaymentsNext]_payVars => [BackByLoss]_payVars
    BY Inductive
  <1> QED BY <1>1, SessionsInvariant, PTL DEF PaymentsSpec, MovesBackOnlyByLostUpdate, BackByLoss

\* complete_ride commits on a fare that was taken, or on a booking without payment.
THEOREM CompletionsArePaid == PaymentsSpec => CompletionIsPaid
  <1> DEFINE Paid == \A t \in Hands : hand[t].op = "complete" /\ hand[t].copy.status # "none" /\ booking' # booking
                       => pay.gateway \in MoneyTaken
  <1>1. IInv /\ [PaymentsNext]_payVars => [Paid]_payVars
    <2> SUFFICES ASSUME IInv, PaymentsNext, NEW t \in Hands, hand[t].op = "complete",
                        hand[t].copy.status # "none", booking' # booking
                 PROVE  pay.gateway \in MoneyTaken
      OBVIOUS
    <2>1. ~ BookingMovesAlone
      BY DEF BookingMovesAlone, LoopIsFree, LoopOps
    <2>2. PICK u \in Hands : CommitBooking(u)
      BY <2>1 DEF PaymentsNext, Begins, BeginCreate, CommitCreate, BeginConfirm, BeginReconcile, AskSnapshot,
                  CommitSnapshot, BeginAccept, BeginCancel, BeginComplete, Ask, CommitCall, Flush, RollBack,
                  BeginJob, BeginWebhook, CommitWebhook, GatewayActs, Restart
    <2>3. u = t
      BY <2>2, FlushedAlone DEF CommitBooking, LoopOps
    <2> QED BY <2>2, <2>3, PaidCompletion
  <1> QED BY <1>1, SessionsInvariant, PTL DEF PaymentsSpec, CompletionIsPaid


-----------------------------------------------------------------------------
(* What a row behind the gateway is explained by *)

Reached == {"captured", "refunded"}

\* A newer status was written over, an attempt failed, or the money went back.
Excused == payPast.lost \/ payPast.failed \/ pay.gateway = "refunded"

\* A handler's row, in its copy and as it is to be, has followed no failure and is
\* not ahead of the stored one.
HandKnows(t, s) ==
  /\ hand[t].copy.status # "failed" /\ hand[t].new.status # "failed"
  /\ hand[t].copy.status \in Reached => s \in Reached
  /\ hand[t].op = "webhook" => hand[t].copy.status # "none"

RowKnows ==
  /\ pay.status # "failed"
  /\ "payment.captured" \in payPast.applied => pay.status \in Reached

\* The gateway moves for an order only, and tells of what it did.
GatewayTells ==
  /\ pay.status = "none" => pay.gateway = "idle"
  /\ pay.gateway \in {"captured", "refunding"} => "payment.captured" \in payPast.emitted
  /\ pay.gateway = "failed" => payPast.failed

BehindInv ==
  /\ GatewayTells
  /\ ~ Excused => RowKnows /\ \A t \in Hands : HandKnows(t, pay.status)

-----------------------------------------------------------------------------

\* What excuses a row does so for good.
StaysExcused ==
  /\ payPast.lost => payPast'.lost
  /\ payPast.failed => payPast'.failed
  /\ pay.gateway = "refunded" => pay'.gateway = "refunded"

\* Without an excuse a row that was settled stays so.
LEMMA ReachedStays ==
  ASSUME BackByLoss, ~ Excused', pay.status \in Reached
  PROVE  pay'.status \in Reached
  BY DEF BackByLoss, Excused, Reached

\* A step of one thread, which leaves its own hand in order.
LEMMA BehindKept ==
  ASSUME BehindInv, BackByLoss, NEW t \in Hands, OneHand(t), StaysExcused, GatewayTells',
         ~ Excused' => /\ pay'.status # "failed" /\ HandKnows(t, pay.status)'
                       /\ "payment.captured" \in payPast'.applied
                            => "payment.captured" \in payPast.applied \/ pay'.status \in Reached
  PROVE  BehindInv'
  <1> SUFFICES ASSUME ~ Excused' PROVE RowKnows' /\ \A u \in Hands : HandKnows(u, pay.status)'
    BY DEF BehindInv
  <1>1. ~ Excused
    BY DEF Excused, StaysExcused
  <1>2. RowKnows'
    BY <1>1, ReachedStays DEF BehindInv, RowKnows
  <1>3. ASSUME NEW u \in Hands, u # t PROVE HandKnows(u, pay.status)'
    <2>1. hand'[u] = hand[u] /\ HandKnows(u, pay.status)
      BY <1>1, <1>3 DEF OneHand, BehindInv
    <2> QED BY <2>1, ReachedStays DEF HandKnows
  <1> QED BY <1>2, <1>3

\* A step of one thread that leaves the gateway alone and writes what it has.
LEMMA QuietKept ==
  ASSUME BehindInv, BackByLoss, NEW t \in Hands, OneHand(t),
         pay'.gateway = pay.gateway, payPast'.emitted = payPast.emitted,
         payPast'.failed = payPast.failed, payPast.lost => payPast'.lost,
         payPast'.applied = payPast.applied,
         pay'.status = "none" => pay.status = "none",
         pay'.status = "failed" => pay.status = "failed" \/ hand[t].new.status = "failed",
         ~ Excused /\ ~ Excused' => HandKnows(t, pay.status)'
  PROVE  BehindInv'
  <1>1. StaysExcused
    BY DEF StaysExcused
  <1>2. GatewayTells'
    BY DEF BehindInv, GatewayTells
  <1>3. ASSUME ~ Excused' PROVE pay'.status # "failed" /\ HandKnows(t, pay.status)'
    <2>1. ~ Excused
      BY <1>1, <1>3 DEF Excused, StaysExcused
    <2>2. pay.status # "failed" /\ hand[t].new.status # "failed"
      BY <2>1 DEF BehindInv, RowKnows, HandKnows
    <2> QED BY <1>3, <2>1, <2>2
  <1> QED BY <1>1, <1>2, <1>3, BehindKept

LEMMA IdleKnows ==
  ASSUME NEW t \in Hands, hand'[t] = IdleHand
  PROVE  HandKnows(t, pay.status)'
  BY IdleType DEF HandKnows, Reached

-----------------------------------------------------------------------------
(* Handlers that begin *)

\* A thread that loaded the row knows what it knows.
LEMMA LoadedKnows ==
  ASSUME IInv, BehindInv, BackByLoss, NEW t \in Hands, OneHand(t),
         pay' = pay \/ \E k \in JobKind : pay' = [pay EXCEPT !.jobs = @ \ {k}],
         payPast' = payPast,
         hand'[t].copy = RowOf(pay), hand'[t].new = RowOf(pay),
         hand'[t].op = "webhook" => pay.hooks # {}
  PROVE  BehindInv'
  <1>1. pay \in Entry
    BY TypeParts DEF IInv
  <1>2. pay'.status = pay.status /\ pay'.gateway = pay.gateway
    BY <1>1 DEF Entry
  <1>3. RowOf(pay).status = pay.status
    BY <1>1, RowType
  <1>4. ASSUME ~ Excused PROVE HandKnows(t, pay.status)'
    <2>1. pay.status # "failed"
      BY <1>4 DEF BehindInv, RowKnows
    <2>2. pay.hooks # {} => pay.gateway # "idle"
      BY <1>4, TypeParts DEF IInv, EventsOK, Excused, MoneyTaken, PastType, HookEvent
    <2>3. hand'[t].op = "webhook" => pay.status # "none"
      BY <2>2 DEF BehindInv, GatewayTells
    <2> QED BY <1>2, <1>3, <2>1, <2>3 DEF HandKnows
  <1> QED BY <1>2, <1>4, QuietKept

LEMMA BeginKnows ==
  ASSUME IInv, BehindInv, BackByLoss, NEW t \in Hands,
         NEW op \in (LoopOps \cup JobOps \cup PoolOps) \ {"webhook"}, Begins(t, op),
         pay' = pay \/ \E k \in JobKind : pay' = [pay EXCEPT !.jobs = @ \ {k}]
  PROVE  BehindInv'
  <1>1. pay \in Entry /\ hand \in [Hands -> Hand]
    BY TypeParts DEF IInv
  <1>2. OneHand(t) /\ hand'[t] = Loaded(op) /\ payPast' = payPast
    BY <1>1, BeginsType DEF OneHand
  <1>3. Loaded(op).op # "webhook" /\ Loaded(op).copy = RowOf(pay) /\ Loaded(op).new = RowOf(pay)
    BY <1>1, LoadedType
  <1> QED BY <1>2, <1>3, LoadedKnows

LEMMA BeginStepsKnow ==
  ASSUME IInv, BehindInv, BackByLoss, NEW t \in Hands,
         \/ BeginCreate(t) \/ BeginConfirm(t) \/ BeginReconcile(t)
         \/ BeginAccept(t) \/ BeginCancel(t) \/ BeginComplete(t)
         \/ \E k \in {"capture", "refund"} : BeginJob(t, k)
         \/ \E e \in HookEvent : BeginWebhook(t, e)
  PROVE  BehindInv'
  <1>1. CASE \/ BeginCreate(t) \/ BeginConfirm(t) \/ BeginReconcile(t)
             \/ BeginAccept(t) \/ BeginCancel(t) \/ BeginComplete(t)
    <2>1. PICK op \in (LoopOps \cup JobOps \cup PoolOps) \ {"webhook"} : Begins(t, op) /\ UNCHANGED pay
      BY <1>1 DEF BeginCreate, BeginConfirm, BeginReconcile, BeginAccept, BeginCancel, BeginComplete,
                  LoopOps, JobOps, PoolOps
    <2> QED BY <2>1, BeginKnows
  <1>2. CASE \E k \in {"capture", "refund"} : BeginJob(t, k)
    <2>1. PICK k \in {"capture", "refund"} : BeginJob(t, k)
      BY <1>2
    <2>2. PICK op \in JobOps : Begins(t, op)
      BY <2>1 DEF BeginJob, JobOps
    <2>3. pay' = pay \/ \E j \in JobKind : pay' = [pay EXCEPT !.jobs = @ \ {j}]
      BY <2>1 DEF BeginJob, JobKind
    <2>4. op \in (LoopOps \cup JobOps \cup PoolOps) \ {"webhook"}
      BY DEF JobOps
    <2> QED BY <2>2, <2>3, <2>4, BeginKnows
  <1>3. CASE \E e \in HookEvent : BeginWebhook(t, e)
    <2>1. PICK e \in HookEvent : BeginWebhook(t, e)
      BY <1>3
    <2>2. pay \in Entry /\ hand \in [Hands -> Hand]
      BY TypeParts DEF IInv
    <2> DEFINE l == Loaded("webhook")
               h == [l EXCEPT !.event = e]
    <2>3. l \in Hand /\ l.copy = RowOf(pay) /\ l.new = RowOf(pay)
      BY <2>2, LoadedType DEF PoolOps
    <2> HIDE DEF l
    <2>4. h \in Hand /\ h.copy = RowOf(pay) /\ h.new = RowOf(pay)
      BY <2>3 DEF Hand
    <2>5. Does(t, h) /\ e \in pay.hooks /\ UNCHANGED <<pay, payPast>>
      BY <2>1 DEF BeginWebhook, l
    <2> HIDE DEF h
    <2>6. OneHand(t) /\ hand'[t] = h
      BY <2>2, <2>4, <2>5, DoesType DEF OneHand
    <2> QED BY <2>4, <2>5, <2>6, LoadedKnows
  <1> QED BY <1>1, <1>2, <1>3

-----------------------------------------------------------------------------
(* Handlers that go on and end *)

LEMMA CommitCreateKnows ==
  ASSUME IInv, BehindInv, BackByLoss, NEW t \in Hands, CommitCreate(t)
  PROVE  BehindInv'
  <1>1. pay \in Entry /\ hand \in [Hands -> Hand]
    BY TypeParts DEF IInv
  <1>2. OneHand(t) /\ hand'[t] = IdleHand /\ payPast' = payPast
    BY <1>1, EndsType DEF CommitCreate, OneHand
  <1>3. /\ pay'.gateway = pay.gateway
        /\ pay'.status = "none" => pay.status = "none"
        /\ pay'.status = "failed" => pay.status = "failed"
    BY <1>1 DEF CommitCreate, Opened, Entry
  <1> QED BY <1>2, <1>3, IdleKnows, QuietKept

LEMMA AskSnapshotKnows ==
  ASSUME IInv, BehindInv, BackByLoss, NEW t \in Hands, AskSnapshot(t)
  PROVE  BehindInv'
  <1> DEFINE h == hand[t]
             s == IF h.op = "confirm" THEN Confirmed(h) ELSE Reconciled(h)
             asked == [h EXCEPT !.pc = "asked", !.new = s]
  <1>1. /\ pay \in Entry /\ hand \in [Hands -> Hand] /\ h \in Hand
        /\ pay.gateway \in GatewayStatus /\ h.copy.status \in PaymentStatus
    BY TypeParts DEF IInv, Entry, Hand, Row
  <1>2. UNCHANGED <<pay, payPast>> /\ h.op \in Snapshots
    BY DEF AskSnapshot
  <1>3. CASE Ends(t)
    <2>1. OneHand(t) /\ hand'[t] = IdleHand
      BY <1>1, <1>3, EndsType DEF OneHand
    <2> QED BY <1>2, <2>1, IdleKnows, QuietKept
  <1>4. CASE Does(t, asked)
    <2>1. /\ s \in Row
          /\ s.status = "failed" => h.copy.status = "failed" \/ pay.gateway \in {"refunded", "failed"}
      <3>1. SnapshotStatus(pay.gateway) \in {"refunded", "failed"} => pay.gateway \in {"refunded", "failed"}
        BY DEF SnapshotStatus
      <3>2. h.op = "confirm" => Confirmed(h) \in Row
        BY <1>1, SnapshotRow
      <3>3. Reconciled(h) \in Row /\ Reconciled(h).status = SnapshotStatus(pay.gateway)
        BY <1>1, SnapshotRow
      <3>4. Confirmed(h).status = "failed"
              => h.copy.status = "failed" \/ SnapshotStatus(pay.gateway) \in {"refunded", "failed"}
        BY <1>1, SnapshotRow
      <3> QED BY <3>1, <3>2, <3>3, <3>4
    <2> HIDE DEF s
    <2>2. asked \in Hand /\ asked.op = h.op /\ asked.copy = h.copy /\ asked.new = s
      BY <1>1, <2>1 DEF Hand
    <2> HIDE DEF asked
    <2>3. OneHand(t) /\ hand'[t] = asked
      BY <1>1, <1>4, <2>2, DoesType DEF OneHand
    <2>4. ASSUME ~ Excused PROVE HandKnows(t, pay.status)'
      <3>1. HandKnows(t, pay.status) /\ pay.gateway \notin {"refunded", "failed"}
        BY <2>4 DEF BehindInv, GatewayTells, Excused
      <3> QED BY <1>2, <2>1, <2>2, <2>3, <3>1 DEF HandKnows, Snapshots
    <2> QED BY <1>2, <2>3, <2>4, QuietKept
  <1> QED BY <1>3, <1>4 DEF AskSnapshot

\* What a commit of the row by an UPDATE knows.
LEMMA CommitKnows ==
  ASSUME IInv, BehindInv, BackByLoss, NEW t \in Hands, OneHand(t), NEW row \in Row,
         pay.status # "none" => row.status # "none",
         row.status = pay.status \/ row.status = hand[t].new.status,
         pay'.status = row.status, pay'.gateway = pay.gateway,
         NEW b \in BOOLEAN, payPast' = [payPast EXCEPT !.lost = @ \/ b],
         ~ Excused /\ ~ Excused' => HandKnows(t, pay.status)'
  PROVE  BehindInv'
  <1>1. payPast \in PastType
    BY TypeParts DEF IInv
  <1>2. /\ payPast'.lost = (payPast.lost \/ b)
        /\ payPast'.emitted = payPast.emitted /\ payPast'.applied = payPast.applied
        /\ payPast'.failed = payPast.failed
    BY <1>1, PastLost
  <1> QED BY <1>2, QuietKept

LEMMA CommitSnapshotKnows ==
  ASSUME IInv, BehindInv, BackByLoss, NEW t \in Hands, CommitSnapshot(t)
  PROVE  BehindInv'
  <1> DEFINE h == hand[t]
             row == Updated(h)
             b == Lost(h, row)
             next == [IdleHand EXCEPT !.op = "capture", !.pc = "loaded", !.copy = row, !.new = row]
  <1>1. pay \in Entry /\ hand \in [Hands -> Hand] /\ h \in Hand
    BY TypeParts DEF IInv
  <1>2. h.pc = "asked" /\ HandOK(h, pay)
    BY DEF CommitSnapshot, IInv, HandsOK
  <1>3. /\ row \in Row
        /\ pay.status # "none" => row.status # "none"
        /\ row.status = pay.status \/ row.status = h.new.status
    <2> HIDE DEF h
    <2> QED BY <1>1, <1>2, UpdateRow DEF IInv, HandOK
  <1>4. pay' = Written(row) /\ payPast' = [payPast EXCEPT !.lost = @ \/ b]
    BY DEF CommitSnapshot
  <1>5. pay'.status = row.status /\ pay'.gateway = pay.gateway
    BY <1>1, <1>3, <1>4, WrittenType
  <1>6. b \in BOOLEAN
    BY DEF Lost
  <1>7. Ends(t) \/ (Does(t, next) /\ row.status = "authorized")
    BY DEF CommitSnapshot
  <1> HIDE DEF row, b
  <1>8. OneHand(t) /\ HandKnows(t, pay.status)'
    <2>1. CASE Ends(t)
      BY <1>1, <2>1, EndsType, IdleKnows DEF OneHand
    <2>2. CASE Does(t, next) /\ row.status = "authorized"
      <3>1. next \in Hand /\ next.op = "capture" /\ next.copy = row /\ next.new = row
        BY <1>3 DEF IdleHand, Hand, PoolOps
      <3> HIDE DEF next
      <3>2. OneHand(t) /\ hand'[t] = next
        BY <1>1, <2>2, <3>1, DoesType DEF OneHand
      <3> QED BY <2>2, <3>1, <3>2 DEF HandKnows, Reached
    <2> QED BY <1>7, <2>1, <2>2
  <1> QED BY <1>3, <1>4, <1>5, <1>6, <1>8, CommitKnows

LEMMA CommitCallKnows ==
  ASSUME IInv, BehindInv, BackByLoss, NEW t \in Hands, CommitCall(t)
  PROVE  BehindInv'
  <1> DEFINE h == hand[t]
             row == Updated(h)
             b == Lost(h, row)
             w == Written(row)
  <1>1. pay \in Entry /\ hand \in [Hands -> Hand] /\ h \in Hand
    BY TypeParts DEF IInv
  <1>2. h.pc = "asked" /\ HandOK(h, pay)
    BY DEF CommitCall, IInv, HandsOK
  <1>3. /\ row \in Row
        /\ pay.status # "none" => row.status # "none"
        /\ row.status = pay.status \/ row.status = h.new.status
    <2> HIDE DEF h
    <2> QED BY <1>1, <1>2, UpdateRow DEF IInv, HandOK
  <1>4. pay' = [w EXCEPT !.jobs = @ \cup h.queue] /\ payPast' = [payPast EXCEPT !.lost = @ \/ b]
    BY DEF CommitCall
  <1>5. w \in Entry /\ w.status = row.status /\ w.gateway = pay.gateway
    BY <1>1, <1>3, WrittenType
  <1>6. b \in BOOLEAN
    BY DEF Lost
  <1> HIDE DEF w, row, b, h
  <1>7. pay'.status = row.status /\ pay'.gateway = pay.gateway
    BY <1>4, <1>5 DEF Entry
  <1>8. OneHand(t) /\ hand'[t] = IdleHand
    BY <1>1, EndsType DEF OneHand, CommitCall
  <1> QED BY <1>3, <1>4, <1>6, <1>7, <1>8, IdleKnows, CommitKnows DEF h

LEMMA FlushKnows ==
  ASSUME IInv, BehindInv, BackByLoss, NEW t \in Hands, Flush(t)
  PROVE  BehindInv'
  <1> DEFINE h == hand[t]
             u == Updated(h)
             s == IF h.writes THEN u ELSE h.copy
             n == [h EXCEPT !.pc = "flushed", !.new = s]
  <1>1. pay \in Entry /\ hand \in [Hands -> Hand] /\ h \in Hand /\ h.copy \in Row
    BY TypeParts DEF IInv, Hand
  <1>2. h.pc = "asked" /\ h.op \in LoopOps /\ HandOK(h, pay) /\ payPast' = payPast
    BY DEF Flush, IInv, HandsOK
  <1>3. u \in Row /\ (u.status = pay.status \/ u.status = h.new.status)
    <2> HIDE DEF h
    <2> QED BY <1>1, <1>2, UpdateRow DEF IInv, HandOK
  <1>4. s \in {u, h.copy}
    OBVIOUS
  <1>5. Does(t, n) /\ pay' = [pay EXCEPT !.jobs = @ \cup h.queue]
    BY DEF Flush
  <1> HIDE DEF u, s
  <1>6. n \in Hand /\ n.op = h.op /\ n.copy = h.copy /\ n.new = s
    BY <1>1, <1>3, <1>4 DEF Hand
  <1> HIDE DEF n
  <1>7. OneHand(t) /\ hand'[t] = n
    BY <1>1, <1>5, <1>6, DoesType DEF OneHand
  <1>8. pay'.status = pay.status /\ pay'.gateway = pay.gateway
    BY <1>1, <1>5 DEF Entry
  <1>9. ASSUME ~ Excused PROVE HandKnows(t, pay.status)'
    <2>1. HandKnows(t, pay.status) /\ pay.status # "failed"
      BY <1>9 DEF BehindInv, RowKnows
    <2> QED BY <1>3, <1>4, <1>6, <1>7, <1>8, <2>1 DEF HandKnows
  <1> HIDE DEF h
  <1> QED BY <1>2, <1>7, <1>8, <1>9, QuietKept

LEMMA CommitBookingKnows ==
  ASSUME IInv, BehindInv, BackByLoss, NEW t \in Hands, CommitBooking(t)
  PROVE  BehindInv'
  <1> DEFINE h == hand[t]
             b == Lost(h, h.new)
  <1>1. pay \in Entry /\ hand \in [Hands -> Hand] /\ h.new \in Row
    BY TypeParts DEF IInv, Hand
  <1>2. h.pc = "flushed" /\ HandOK(h, pay)
    BY DEF CommitBooking, IInv, HandsOK
  <1>3. OneHand(t) /\ hand'[t] = IdleHand
    BY <1>1, EndsType DEF OneHand, CommitBooking
  <1>4. CASE ~ h.writes
    <2>1. UNCHANGED <<pay, payPast>>
      BY <1>4 DEF CommitBooking
    <2> QED BY <1>3, <2>1, IdleKnows, QuietKept
  <1>5. CASE h.writes
    <2>1. pay' = Written(h.new) /\ payPast' = [payPast EXCEPT !.lost = @ \/ b]
      BY <1>5 DEF CommitBooking
    <2>2. b \in BOOLEAN
      BY DEF Lost
    <2>3. pay'.status = h.new.status /\ pay'.gateway = pay.gateway
      BY <1>1, <2>1, WrittenType
    <2>4. h.new.status # "none"
      BY <1>2, <1>5 DEF HandOK
    <2> HIDE DEF b
    <2> QED BY <1>1, <1>3, <2>1, <2>2, <2>3, <2>4, IdleKnows, CommitKnows
  <1> QED BY <1>4, <1>5

LEMMA RollBackKnows ==
  ASSUME IInv, BehindInv, BackByLoss, NEW t \in Hands, RollBack(t)
  PROVE  BehindInv'
  <1> DEFINE c == payPast.cut \/ hand[t].op = "cancel"
  <1>1. hand \in [Hands -> Hand] /\ payPast \in PastType
    BY TypeParts DEF IInv
  <1>2. OneHand(t) /\ hand'[t] = IdleHand /\ pay' = pay
    BY <1>1, EndsType DEF OneHand, RollBack
  <1>3. payPast' = [payPast EXCEPT !.cut = c]
    BY DEF RollBack
  <1> HIDE DEF c
  <1>4. /\ payPast'.emitted = payPast.emitted /\ payPast'.applied = payPast.applied
        /\ payPast'.failed = payPast.failed /\ payPast'.lost = payPast.lost
    BY <1>1, <1>3 DEF PastType
  <1> QED BY <1>2, <1>4, IdleKnows, QuietKept

-----------------------------------------------------------------------------
(* Calls of the provider and its own moves *)

LEMMA AskKnows ==
  ASSUME IInv, BehindInv, BackByLoss, NEW t \in Hands, Ask(t)
  PROVE  BehindInv'
  <1> DEFINE h == hand[t]
             W == h.copy.status = "authorized" \/ (h.op \in Refunds /\ h.copy.status = "captured")
             Next(q) == [h EXCEPT !.pc = "asked", !.new = RowOf(q), !.queue = q.jobs \ {"reconcile"},
                                  !.writes = W]
             P(q) == [pay EXCEPT !.gateway = q.gateway, !.hooks = q.hooks]
  <1>1. pay \in Entry /\ hand \in [Hands -> Hand] /\ payPast \in PastType /\ h \in Hand
    BY TypeParts DEF IInv
  <1>2. h.op \in Captures \cup Refunds /\ HandOK(h, pay)
    BY DEF Ask, IInv, HandsOK
  <1>3. PICK q \in Answers(h) : pay' = P(q) /\ payPast' = Announced(P(q)) /\ Does(t, Next(q))
    BY DEF Ask
  <1>4. /\ q \in Entry
        /\ q.status = "failed" => h.copy.status = "failed" \/ pay.gateway = "failed"
        /\ SameMoney(pay, q) \/ CapturedNow(pay, q) \/ RefundedNow(pay, q)
    <2> HIDE DEF h
    <2> QED BY <1>1, <1>2, AnswerFacts DEF HandOK
  <1>5. RowOf(q) \in Row /\ RowOf(q).status = q.status /\ W \in BOOLEAN
    BY <1>4, RowType
  <1> DEFINE p == P(q)
             n == Next(q)
  <1>6. p \in Entry /\ p.gateway = q.gateway /\ p.hooks = q.hooks /\ p.status = pay.status
    BY <1>1, <1>4 DEF Entry
  <1>7. n \in Hand /\ n.op = h.op /\ n.copy = h.copy /\ n.new = RowOf(q)
    <2>1. q.jobs \ {"reconcile"} \in SUBSET JobKind
      BY <1>4 DEF Entry
    <2> HIDE DEF W
    <2> QED BY <1>1, <1>5, <2>1 DEF Hand
  <1>8. pay' = p /\ payPast' = Announced(p) /\ Does(t, n)
    BY <1>3
  <1> HIDE DEF p, n, W
  <1>9. /\ payPast'.emitted = payPast.emitted \cup (p.hooks \ pay.hooks)
        /\ payPast'.failed <=> payPast.failed \/ p.gateway = "failed"
        /\ payPast'.applied = payPast.applied /\ payPast'.lost = payPast.lost
    BY <1>1, <1>6, <1>8, AnnouncedType
  <1>10. OneHand(t) /\ hand'[t] = n
    BY <1>1, <1>7, <1>8, DoesType DEF OneHand
  <1>11. pay'.status = pay.status /\ pay'.gateway = q.gateway
    BY <1>6, <1>8
  <1>12. StaysExcused
    BY <1>4, <1>9, <1>11 DEF StaysExcused, SameMoney, CapturedNow, RefundedNow
  <1>13. GatewayTells'
    <2>1. pay.hooks \subseteq payPast.emitted
      BY DEF IInv, EventsOK
    <2> QED BY <1>4, <1>6, <1>9, <1>11, <2>1
            DEF BehindInv, GatewayTells, SameMoney, CapturedNow, RefundedNow
  <1>14. ASSUME ~ Excused' PROVE pay'.status # "failed" /\ HandKnows(t, pay.status)'
    <2>1. ~ Excused
      BY <1>12, <1>14 DEF Excused, StaysExcused
    <2>2. pay.status # "failed" /\ HandKnows(t, pay.status) /\ pay.gateway # "failed"
      BY <2>1 DEF BehindInv, RowKnows, GatewayTells, Excused
    <2> QED BY <1>4, <1>5, <1>7, <1>10, <1>11, <2>2 DEF HandKnows
  <1> HIDE DEF h
  <1> QED BY <1>9, <1>10, <1>12, <1>13, <1>14, BehindKept

LEMMA GatewayKnows ==
  ASSUME IInv, BehindInv, BackByLoss, GatewayActs
  PROVE  BehindInv'
  <1>1. pay \in Entry /\ payPast \in PastType /\ hand' = hand /\ pay.status # "none"
    BY TypeParts DEF IInv, GatewayActs
  <1>2. PICK p \in GatewayMoves(pay) : pay' = p /\ payPast' = Announced(p)
    BY DEF GatewayActs
  <1>3. p \in Entry /\ p.status = pay.status
    BY <1>1, GatewayMove
  <1>4. /\ payPast'.emitted = payPast.emitted \cup (p.hooks \ pay.hooks)
        /\ payPast'.failed <=> payPast.failed \/ p.gateway = "failed"
        /\ payPast'.applied = payPast.applied /\ payPast'.lost = payPast.lost
    BY <1>2, <1>1, <1>3, AnnouncedType
  <1>5. pay.hooks \subseteq payPast.emitted
    BY DEF IInv, EventsOK
  <1>6. StaysExcused
    BY <1>1, <1>2, <1>4, GatewayMove DEF StaysExcused
  <1>7. GatewayTells'
    <2>1. p.gateway = "captured" => "payment.captured" \in payPast'.emitted
      <3>1. CASE pay.gateway = "authorized" /\ p.hooks = pay.hooks \cup {"payment.captured"}
        BY <1>4, <1>5, <3>1
      <3>2. CASE pay.gateway = "refunding"
        BY <1>4, <3>2 DEF BehindInv, GatewayTells
      <3> QED BY <1>1, <3>1, <3>2, GatewayMove
    <2>2. p.gateway # "refunding"
      BY <1>1, GatewayMove
    <2> QED BY <1>1, <1>2, <1>3, <1>4, <2>1, <2>2 DEF GatewayTells
  <1>8. ASSUME ~ Excused' PROVE RowKnows' /\ \A t \in Hands : HandKnows(t, pay.status)'
    <2>1. ~ Excused
      BY <1>6, <1>8 DEF Excused, StaysExcused
    <2> QED BY <1>1, <1>2, <1>3, <1>4, <2>1 DEF BehindInv, RowKnows, HandKnows
  <1> QED BY <1>7, <1>8 DEF BehindInv

\* A webhook settles the row by what it tells.
LEMMA HookStatusTells ==
  ASSUME NEW s \in PaymentStatus, NEW e
  PROVE  /\ HookStatus(s, e) = "failed" => s = "failed" \/ e = "payment.failed"
         /\ s \in {"pending", "authorized"} /\ e = "payment.captured" => HookStatus(s, e) = "captured"
  BY DEF HookStatus, PaymentStatus

LEMMA CommitWebhookKnows ==
  ASSUME IInv, BehindInv, BackByLoss, NEW t \in Hands, CommitWebhook(t)
  PROVE  BehindInv'
  <1> DEFINE g == hand[t]
             e == g.event
             s == HookStatus(g.copy.status, e)
             new == [status |-> s, ref |-> TRUE]
             h == [g EXCEPT !.new = new]
             row == Updated(h)
             w == Written(row)
             l == payPast.lost \/ Lost(h, row)
             x == payPast.twice \/ e \in payPast.applied
             A == payPast.applied \cup {e}
             past == [payPast EXCEPT !.lost = l, !.applied = A, !.twice = x]
  <1>1. pay \in Entry /\ hand \in [Hands -> Hand] /\ payPast \in PastType /\ g \in Hand
    BY TypeParts DEF IInv
  <1>2. OneHand(t) /\ hand'[t] = IdleHand
    BY <1>1, EndsType DEF OneHand, CommitWebhook
  <1>3. g.copy \in Row /\ g.copy.status \in PaymentStatus
    BY <1>1 DEF Hand, Row
  <1>4. h \in Hand /\ h.copy = g.copy /\ h.new = new /\ h.op = g.op /\ h.event = e /\ new \in Row
    <2>1. s \in PaymentStatus
      BY <1>3, HookStatusForward
    <2>2. new \in Row
      BY <2>1 DEF Row
    <2> HIDE DEF new, s
    <2> QED BY <1>1, <2>2 DEF Hand
  <1>5. \/ UNCHANGED <<pay, payPast>>
        \/ /\ e \in pay.hooks /\ pay' = [w EXCEPT !.hooks = @ \ {e}]
           /\ payPast' = past
    <2> DEFINE f == h.event
    <2>1. \/ UNCHANGED <<pay, payPast>>
          \/ /\ f \in pay.hooks /\ pay' = [w EXCEPT !.hooks = @ \ {f}]
             /\ payPast' = [payPast EXCEPT !.lost = l, !.applied = @ \cup {f},
                                           !.twice = @ \/ f \in payPast.applied]
      BY DEF CommitWebhook, NotRecorded
    <2>2. f = e
      BY <1>4
    <2> HIDE DEF f, w, l, e
    <2> QED BY <2>1, <2>2
  <1>6. g.op = "webhook"
    <2>1. h.op = "webhook"
      BY DEF CommitWebhook
    <2> HIDE DEF h
    <2> QED BY <1>4, <2>1
  <1>7. CASE UNCHANGED <<pay, payPast>>
    BY <1>2, <1>7, IdleKnows, QuietKept
  <1>8. CASE e \in pay.hooks /\ pay' = [w EXCEPT !.hooks = @ \ {e}] /\ payPast' = past
    <2>1. /\ l \in BOOLEAN /\ x \in BOOLEAN /\ A \in SUBSET HookEvent /\ (payPast.lost => l)
      BY <1>1, <1>8 DEF Lost, PastType, Entry
    <2>2. row \in Row /\ row.status = IF s # g.copy.status THEN s ELSE pay.status
      <3>1. h.copy \in Row /\ h.new \in Row /\ h.copy = g.copy /\ h.new.status = s
        BY <1>3, <1>4
      <3> HIDE DEF h, s
      <3> QED BY <1>1, <3>1, UpdatedType
    <2> HIDE DEF row, x, l
    <2>3. w \in Entry /\ w.status = row.status /\ w.gateway = pay.gateway
      BY <1>1, <2>2, WrittenType
    <2> HIDE DEF w
    <2>4. pay'.status = row.status /\ pay'.gateway = pay.gateway
      BY <1>8, <2>3 DEF Entry
    <2>5. payPast' = past
      BY <1>8
    <2>a. A = payPast.applied \cup {e}
      OBVIOUS
    <2> HIDE DEF A
    <2>6. /\ payPast'.lost = l /\ payPast'.applied = A
          /\ payPast'.emitted = payPast.emitted /\ payPast'.failed = payPast.failed
      BY <1>1, <2>1, <2>5 DEF PastType
    <2> HIDE DEF past
    <2>7. StaysExcused
      BY <2>1, <2>4, <2>6 DEF StaysExcused
    <2>8. pay.status # "none" => row.status # "none"
      BY <1>3, <2>2, HookStatusForward
    <2>9. GatewayTells'
      BY <2>4, <2>6, <2>8 DEF BehindInv, GatewayTells
    <2>10. ASSUME ~ Excused'
           PROVE  /\ pay'.status # "failed"
                  /\ "payment.captured" \in payPast'.applied
                       => "payment.captured" \in payPast.applied \/ pay'.status \in Reached
      <3>1. ~ Excused
        BY <2>7, <2>10 DEF Excused, StaysExcused
      <3>2. pay.status # "failed" /\ HandKnows(t, pay.status) /\ ~ payPast.failed
        BY <3>1 DEF BehindInv, RowKnows, Excused
      <3>3. e # "payment.failed"
        BY <1>8, <3>2 DEF IInv, EventsOK
      <3>4. s # "failed"
        BY <1>3, <3>2, <3>3, HookStatusTells DEF HandKnows
      <3>5. pay'.status # "failed"
        BY <2>2, <2>4, <3>2, <3>4
      <3>6. CASE e = "payment.captured"
        <4>1. g.copy.status \in {"pending", "authorized"} \cup Reached
          BY <1>3, <1>6, <3>2 DEF HandKnows, PaymentStatus, Reached
        <4>2. CASE g.copy.status \in {"pending", "authorized"}
          <5>1. s = "captured"
            BY <1>3, <3>6, <4>2, HookStatusTells
          <5> HIDE DEF s
          <5> QED BY <2>2, <2>4, <3>5, <4>2, <5>1 DEF Reached
        <4>3. CASE g.copy.status \in Reached
          <5>1. pay.status \in Reached
            BY <3>2, <4>3 DEF HandKnows
          <5>2. pay'.status \in Reached
            BY <2>10, <5>1, ReachedStays
          <5> QED BY <3>5, <5>2
        <4> QED BY <4>1, <4>2, <4>3
      <3> QED BY <2>6, <2>a, <3>5, <3>6
    <2>11. HandKnows(t, pay.status)'
      BY <1>2, IdleKnows
    <2> QED BY <1>2, <2>7, <2>9, <2>10, <2>11, BehindKept
  <1> QED BY <1>5, <1>7, <1>8

LEMMA RestartKnows ==
  ASSUME IInv, BehindInv, Restart
  PROVE  BehindInv'
  <1> DEFINE c == payPast.cut \/ \E t \in Hands : hand[t].op = "cancel"
  <1>1. pay \in Entry /\ payPast \in PastType
    BY TypeParts DEF IInv
  <1>2. /\ hand' = [t \in Hands |-> IdleHand] /\ pay' = [pay EXCEPT !.jobs = {}]
        /\ payPast' = [payPast EXCEPT !.cut = c]
    BY DEF Restart
  <1> HIDE DEF c
  <1>3. /\ payPast'.emitted = payPast.emitted /\ payPast'.applied = payPast.applied
        /\ payPast'.failed = payPast.failed /\ payPast'.lost = payPast.lost
    BY <1>1, <1>2 DEF PastType
  <1>4. pay'.status = pay.status /\ pay'.gateway = pay.gateway
    BY <1>1, <1>2 DEF Entry
  <1>5. \A t \in Hands : HandKnows(t, pay.status)'
    BY <1>2, IdleKnows
  <1> QED BY <1>3, <1>4, <1>5 DEF BehindInv, GatewayTells, Excused, RowKnows

-----------------------------------------------------------------------------

LEMMA BehindInductive ==
  ASSUME IInv, BehindInv, [PaymentsNext]_payVars
  PROVE  BehindInv'
  <1>1. CASE UNCHANGED payVars
    BY <1>1 DEF payVars, BehindInv, GatewayTells, Excused, RowKnows, HandKnows
  <1>2. CASE PaymentsNext
    <2>1. BackByLoss \/ UNCHANGED payVars
      BY Inductive
    <2>2. CASE BookingMovesAlone
      BY <2>2 DEF BookingMovesAlone, BehindInv, GatewayTells, Excused, RowKnows, HandKnows
    <2>3. CASE BackByLoss /\ ~ BookingMovesAlone
      BY <1>2, <2>3, BeginStepsKnow, CommitCreateKnows, AskSnapshotKnows, CommitSnapshotKnows, AskKnows,
         CommitCallKnows, FlushKnows, CommitBookingKnows, RollBackKnows, CommitWebhookKnows,
         GatewayKnows, RestartKnows DEF PaymentsNext
    <2> QED BY <1>1, <2>1, <2>2, <2>3
  <1> QED BY <1>1, <1>2

LEMMA BehindBegins == PaymentsInit => BehindInv
  <1> SUFFICES ASSUME PaymentsInit PROVE BehindInv
    OBVIOUS
  <1>1. /\ pay.status = "none" /\ pay.gateway = "idle"
        /\ \A t \in Hands : hand[t] = IdleHand
        /\ payPast.applied = {}
    BY DEF PaymentsInit, NoPayment
  <1> QED BY <1>1, IdleType DEF BehindInv, GatewayTells, RowKnows, HandKnows, Reached

\* The types of the row, the gateway and the handlers' copies (PaymentService).
THEOREM PaymentTypesHold == PaymentsSpec => []PaymentsTypeOK
  <1>1. IInv => PaymentsTypeOK
    BY DEF IInv
  <1> QED BY <1>1, SessionsInvariant, PTL

\* A row that claims less than the gateway took, and has no webhook left to catch up
\* with it, has had a newer status written over by an old copy, or a failed attempt
\* (PaymentService.capture_payment, _mark_captured).
THEOREM BehindIsExplained == PaymentsSpec => []BehindOnlyByLostUpdate
  <1>1. IInv /\ BehindInv => BehindOnlyByLostUpdate
    BY DEF IInv, EventsOK, BehindInv, GatewayTells, Excused, RowKnows, Reached, BehindOnlyByLostUpdate
  <1>2. IInv /\ BehindInv /\ [PaymentsNext]_payVars => BehindInv'
    BY BehindInductive
  <1> QED BY <1>1, <1>2, BehindBegins, SessionsInvariant, PTL DEF PaymentsSpec
=============================================================================
