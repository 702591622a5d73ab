-------------------------- MODULE PaymentSessions --------------------------
(***************************************************************************)
(* One booking's payment when its handlers overlap: PaymentService on the   *)
(* thread pool, in the job worker and inside the booking and ride handlers  *)
(* of the event loop.  PaymentOps says what a call of the provider does to  *)
(* an entry; here the entry is loaded, the provider is called, and the row  *)
(* is written later, while webhooks and other handlers go on.               *)
(*                                                                         *)
(* A handler works on a copy of the row, and its UPDATE carries only the    *)
(* columns that differ from what it loaded.  So a handler that overlaps     *)
(* with another may write a status over a newer one.                        *)
(*                                                                         *)
(* At most one booking or ride handler is in progress: the event loop gives *)
(* them to one request at a time (BookingSessions has several processes).   *)
(* A reconciliation job does what the endpoint does and is not queued here. *)
(* An order has one failed attempt at most, so that each webhook type is    *)
(* emitted once and stands for its event id.                                *)
(***************************************************************************)
EXTENDS PaymentOps, FiniteSets

CONSTANT Hands   \* threads: of the pool, of the loop, and the job worker

VARIABLES booking,  \* status of the booking
          pay,      \* the entry of its payment (PaymentOps)
          hand,     \* what each thread is doing
          payPast   \* history: see PaymentsTypeOK

payVars == <<booking, pay, hand, payPast>>

Row == [status : PaymentStatus, ref : BOOLEAN]
NoRow == [status |-> "none", ref |-> FALSE]

\* Handlers that commit with a booking, and those that commit by themselves.
LoopOps == {"accept", "cancel", "complete"}
JobOps  == {"captureJob", "refundJob"}
PoolOps == {"create", "confirm", "reconcile", "capture", "webhook"}
Snapshots == {"confirm", "reconcile"}

\* copy: the row as loaded; new: as it is to be; writes: an UPDATE is coming;
\* queue: jobs to enqueue; accepted: the booking as loaded with the payment.
Hand == [op : LoopOps \cup JobOps \cup PoolOps \cup {"none"},
         pc : {"idle", "loaded", "asked", "flushed"},
         copy : Row, new : Row, writes : BOOLEAN, queue : SUBSET JobKind,
         accepted : BOOLEAN, event : HookEvent \cup {"none"}]

PaymentsTypeOK ==
  /\ booking \in {"pending", "accepted", "closed", "completed"}
  /\ pay \in Entry
  /\ hand \in [Hands -> Hand]
  /\ payPast \in [lost : BOOLEAN,      \* a status was written over a newer one
                  refunded : BOOLEAN,  \* the provider refunded on our request
                  failed : BOOLEAN,    \* an attempt to pay has failed
                  cut : BOOLEAN,       \* a cancellation ended before its commit
                  twice : BOOLEAN,     \* an event was applied again
                  emitted : SUBSET HookEvent, applied : SUBSET HookEvent]

IdleHand == [op |-> "none", pc |-> "idle", copy |-> NoRow, new |-> NoRow, writes |-> FALSE,
             queue |-> {}, accepted |-> FALSE, event |-> "none"]

PaymentsInit ==
  /\ booking = "pending" /\ pay = NoPayment
  /\ hand = [t \in Hands |-> IdleHand]
  /\ payPast = [lost |-> FALSE, refunded |-> FALSE, failed |-> FALSE, cut |-> FALSE,
                twice |-> FALSE, emitted |-> {}, applied |-> {}]

-----------------------------------------------------------------------------
RowOf(p) == [status |-> p.status, ref |-> p.ref]

\* The entry as a handler sees it: its copy of the row, and the real provider.
Seen(h) == [pay EXCEPT !.status = h.copy.status, !.ref = h.copy.ref, !.jobs = {}]

Does(t, h) == hand' = [hand EXCEPT ![t] = h]
Ends(t) == Does(t, IdleHand)

Loaded(op) == [IdleHand EXCEPT !.op = op, !.pc = "loaded", !.copy = RowOf(pay), !.new = RowOf(pay),
                               !.accepted = op \in Snapshots /\ booking = "accepted"]

Begins(t, op) ==
  /\ hand[t].pc = "idle"
  /\ Does(t, Loaded(op))
  /\ UNCHANGED <<booking, payPast>>

\* UPDATE payments SET the columns that differ from the copy.
Updated(h) == [c \in DOMAIN h.copy |-> IF h.new[c] # h.copy[c] THEN h.new[c] ELSE pay[c]]

\* A flushed UPDATE holds the row until its handler commits or rolls back.
RowIsFree(t) == \A u \in Hands \ {t} : ~ (hand[u].pc = "flushed" /\ hand[u].writes)

\* Mutant: the booking handlers run on the thread pool.
LoopIsFree_Always == TRUE

LoopIsFree == \A t \in Hands : hand[t].op \notin LoopOps

Written(row) == [pay EXCEPT !.status = row.status, !.ref = row.ref]

\* row is written over a status that is newer than the copy.
Lost(h, row) == row.status # pay.status /\ pay.status # h.copy.status

\* The provider did what turned the entry into p.
Announced(p) == [payPast EXCEPT
                   !.emitted = @ \cup (p.hooks \ pay.hooks),
                   !.refunded = @ \/ (p.gateway = "refunding" /\ pay.gateway # "refunding"),
                   !.failed = @ \/ p.gateway = "failed"]

-----------------------------------------------------------------------------
(* create_payment *)

BeginCreate(t) ==
  /\ booking \in {"pending", "accepted"} /\ pay.status = "none"
  /\ Begins(t, "create") /\ UNCHANGED pay

\* The provider may refuse the order, and uq_payments_booking_id a second row.
CommitCreate(t) ==
  /\ hand[t].op = "create"
  /\ pay' \in {pay} \cup (IF pay.status = "none" THEN {Opened(pay)} ELSE {})
  /\ Ends(t)
  /\ UNCHANGED <<booking, payPast>>

-----------------------------------------------------------------------------
(* confirm_payment, reconcile_payment, and the capture they may go on with *)

BeginConfirm(t) == pay.status = "pending" /\ Begins(t, "confirm") /\ UNCHANGED pay

\* Mutant: settled payments are reconciled too.
MayReconcile_Settled == pay.status # "none"

MayReconcile == pay.status \notin {"none", "refunded", "failed"}

\* By the endpoints at any time, or as a job.
BeginReconcile(t) == MayReconcile /\ Begins(t, "reconcile") /\ UNCHANGED pay

LearnedRef(h) == h.copy.ref \/ pay.gateway # "idle"

Confirmed(h) ==
  LET s == SnapshotStatus(pay.gateway) IN
  CASE s = "pending"                    -> [h.copy EXCEPT !.ref = LearnedRef(h)]
    [] s \in {"authorized", "captured"} -> [status |-> s, ref |-> LearnedRef(h)]
    [] OTHER                            -> [h.copy EXCEPT !.status = "failed"]

Reconciled(h) == [status |-> SnapshotStatus(pay.gateway), ref |-> LearnedRef(h)]

\* The provider's snapshot, or its error: then nothing is written.
AskSnapshot(t) ==
  LET h == hand[t] IN
  /\ h.pc = "loaded" /\ h.op \in Snapshots
  /\ \/ Does(t, [h EXCEPT !.pc = "asked", !.new = IF h.op = "confirm" THEN Confirmed(h) ELSE Reconciled(h)])
     \/ Ends(t)
  /\ UNCHANGED <<booking, pay, payPast>>

\* After the commit the row is refreshed; the booking may be read again or be the
\* one that was loaded with the payment.
CommitSnapshot(t) ==
  LET h == hand[t]
      row == Updated(h)
  IN
  /\ h.pc = "asked" /\ h.op \in Snapshots /\ RowIsFree(t)
  /\ pay' = Written(row)
  /\ payPast' = [payPast EXCEPT !.lost = @ \/ Lost(h, row)]
  /\ \E accepted \in {h.accepted, booking = "accepted"} :
       IF row.status = "authorized" /\ accepted
       THEN Does(t, [IdleHand EXCEPT !.op = "capture", !.pc = "loaded", !.copy = row, !.new = row])
       ELSE Ends(t)
  /\ UNCHANGED booking

-----------------------------------------------------------------------------
(* Captures and refunds *)

\* A job is gone once it runs, or still queued: another copy, or a retry to come.
BeginJob(t, k) ==
  /\ k \in pay.jobs
  /\ \A u \in Hands : hand[u].op \notin JobOps
  /\ Begins(t, IF k = "capture" THEN "captureJob" ELSE "refundJob")
  /\ pay' \in {pay, [pay EXCEPT !.jobs = @ \ {k}]}

BeginAccept(t) ==
  /\ LoopIsFree /\ booking = "pending" /\ Begins(t, "accept") /\ UNCHANGED pay

\* The driver's or the passenger's cancellation.
BeginCancel(t) ==
  /\ LoopIsFree /\ booking \in {"pending", "accepted"} /\ Begins(t, "cancel") /\ UNCHANGED pay

\* complete_ride, when this is its passenger.
BeginComplete(t) ==
  /\ LoopIsFree /\ booking = "accepted" /\ Begins(t, "complete") /\ UNCHANGED pay

Captures == {"capture", "accept", "complete", "captureJob"}
Refunds  == {"cancel", "refundJob"}

Answers(h) == CASE h.op \in {"capture", "accept", "complete"} -> Capture(Seen(h))
                [] h.op = "captureJob"                        -> RetryCapture(Seen(h))
                [] h.op = "cancel"                            -> Refund(Seen(h))
                [] OTHER                                      -> RetryRefund(Seen(h))

\* capture_payment_for_booking, retry_capture_payment, refund_payment_for_booking
\* and retry_refund_payment up to their save: the calls of the provider.
Ask(t) ==
  LET h == hand[t] IN
  /\ h.pc = "loaded" /\ h.op \in Captures \cup Refunds
  /\ \E q \in Answers(h) :
       LET p == [pay EXCEPT !.gateway = q.gateway, !.hooks = q.hooks] IN
       /\ pay' = p
       /\ payPast' = Announced(p)
       /\ Does(t, [h EXCEPT !.pc = "asked", !.new = RowOf(q), !.queue = q.jobs \ {"reconcile"},
                            !.writes = h.copy.status = "authorized"
                                         \/ (h.op \in Refunds /\ h.copy.status = "captured")])
  /\ UNCHANGED booking

\* commit = True: the row is committed, then the jobs are queued.
CommitCall(t) ==
  LET h == hand[t]
      row == Updated(h)
  IN
  /\ h.pc = "asked" /\ h.op \in {"capture", "captureJob", "refundJob"} /\ RowIsFree(t)
  /\ pay' = [Written(row) EXCEPT !.jobs = @ \cup h.queue]
  /\ payPast' = [payPast EXCEPT !.lost = @ \/ Lost(h, row)]
  /\ Ends(t)
  /\ UNCHANGED booking

\* commit = False: the UPDATE is sent, the row refreshed and the jobs are queued;
\* the commit comes with the booking.  What is not written is not refreshed.
Flush(t) ==
  LET h == hand[t] IN
  /\ h.pc = "asked" /\ h.op \in LoopOps
  /\ h.writes => RowIsFree(t)
  /\ Does(t, [h EXCEPT !.pc = "flushed", !.new = IF h.writes THEN Updated(h) ELSE h.copy])
  /\ pay' = [pay EXCEPT !.jobs = @ \cup h.queue]
  /\ UNCHANGED <<booking, payPast>>

\* Mutant: the ride completes on an authorized fare.
FareCollected_Authorized(h) == h.new.status \in {"none", "authorized", "captured"}

FareCollected(h) == h.new.status \in {"none", "captured"}

BookingAfter(h) == CASE h.op = "accept" -> "accepted" [] h.op = "cancel" -> "closed" [] OTHER -> "completed"

CommitBooking(t) ==
  LET h == hand[t] IN
  /\ h.pc = "flushed"
  /\ h.op = "complete" => FareCollected(h)
  /\ booking' = BookingAfter(h)
  /\ IF h.writes
     THEN pay' = Written(h.new) /\ payPast' = [payPast EXCEPT !.lost = @ \/ Lost(h, h.new)]
     ELSE UNCHANGED <<pay, payPast>>
  /\ Ends(t)

\* complete_ride answers 409, or the commit fails: jobs and provider calls remain.
RollBack(t) ==
  /\ hand[t].pc = "flushed"
  /\ payPast' = [payPast EXCEPT !.cut = @ \/ hand[t].op = "cancel"]
  /\ Ends(t)
  /\ UNCHANGED <<booking, pay>>

\* A rejection, cancel_ride, and the driver's completion of the booking alone.
BookingMovesAlone ==
  /\ LoopIsFree
  /\ \/ booking \in {"pending", "accepted"} /\ booking' = "closed"
     \/ booking = "accepted" /\ booking' = "completed"
  /\ UNCHANGED <<pay, hand, payPast>>

-----------------------------------------------------------------------------
(* process_webhook_event *)

BeginWebhook(t, e) ==
  /\ e \in pay.hooks /\ hand[t].pc = "idle"
  /\ Does(t, [Loaded("webhook") EXCEPT !.event = e])
  /\ UNCHANGED <<booking, pay, payPast>>

\* Mutant: payment_events has no unique index on the event id.
NotRecorded_Always(e) == TRUE

NotRecorded(e) == e \in pay.hooks

\* The event and the row are committed together, or neither is: another delivery
\* of the event has recorded it, or the commit fails and the provider tries again.
CommitWebhook(t) ==
  LET h == [hand[t] EXCEPT !.new = [status |-> HookStatus(hand[t].copy.status, hand[t].event), ref |-> TRUE]]
      row == Updated(h)
  IN
  /\ h.op = "webhook" /\ RowIsFree(t)
  /\ \/ /\ NotRecorded(h.event)
        /\ pay' = [Written(row) EXCEPT !.hooks = @ \ {h.event}]
        /\ payPast' = [payPast EXCEPT !.lost = @ \/ Lost(h, row), !.applied = @ \cup {h.event},
                                      !.twice = @ \/ h.event \in payPast.applied]
     \/ UNCHANGED <<pay, payPast>>
  /\ Ends(t)
  /\ UNCHANGED booking

-----------------------------------------------------------------------------
\* The provider and the passenger's checkout; one attempt fails at most.
GatewayActs ==
  /\ pay.status # "none"
  /\ \E p \in GatewayMoves(pay) :
       /\ p.gateway = "failed" => ~ payPast.failed
       /\ pay' = p /\ payPast' = Announced(p)
  /\ UNCHANGED <<booking, hand>>

\* The process dies with its handlers and its job queue.
Restart ==
  /\ hand' = [t \in Hands |-> IdleHand]
  /\ pay' = [pay EXCEPT !.jobs = {}]
  /\ payPast' = [payPast EXCEPT !.cut = @ \/ \E t \in Hands : hand[t].op = "cancel"]
  /\ UNCHANGED booking

PaymentsNext ==
  \/ \E t \in Hands :
       \/ BeginCreate(t) \/ CommitCreate(t)
       \/ BeginConfirm(t) \/ BeginReconcile(t) \/ AskSnapshot(t) \/ CommitSnapshot(t)
       \/ BeginAccept(t) \/ BeginCancel(t) \/ BeginComplete(t)
       \/ Ask(t) \/ CommitCall(t) \/ Flush(t) \/ CommitBooking(t) \/ RollBack(t)
       \/ \E k \in {"capture", "refund"} : BeginJob(t, k)
       \/ \E e \in HookEvent : BeginWebhook(t, e)
       \/ CommitWebhook(t)
  \/ BookingMovesAlone \/ GatewayActs \/ Restart

PaymentsSpec == PaymentsInit /\ [][PaymentsNext]_payVars

-----------------------------------------------------------------------------
(* Money *)

MoneyTaken == {"captured", "refunding", "refunded"}

\* However handlers overlap, the row claims no capture and no refund that the
\* provider did not make.
NoPhantomMoney == pay.status \in {"captured", "refunded"} => pay.gateway \in MoneyTaken

\* Money that was taken is behind an unsettled row only while its webhook is on
\* the way, after a status was written over a newer one, or after an attempt that
\* failed closed the row for the attempts that follow.
BehindOnlyByLostUpdate ==
  pay.status \in {"pending", "authorized", "failed"} /\ pay.gateway \in {"captured", "refunding"}
    => "payment.captured" \in pay.hooks \/ payPast.lost \/ payPast.failed

\* A captured row goes back, and a refunded or failed one is revived, only by a
\* handler that had loaded an older status: never by what the provider said or by
\* a webhook out of order.
MovesBackOnlyByLostUpdate ==
  [][(pay.status = "captured" /\ pay'.status \notin {"captured", "refunded"})
       \/ (pay.status \in {"refunded", "failed"} /\ pay'.status # pay.status)
       => payPast'.lost]_payVars

\* Every event has its effect exactly once: an event that is answered was applied
\* and one that is still to come was not, although deliveries may overlap and
\* commits may fail.
EventsTakeEffectOnce ==
  /\ \A e \in payPast.emitted : e \in pay.hooks <=> e \notin payPast.applied
  /\ ~ payPast.twice

\* The fare of a booking that stands is refunded by no handler and no job, unless
\* the cancellation that asked for it was cut off before its commit.
RefundIsForCancelled ==
  payPast.refunded =>
    booking = "closed" \/ payPast.cut \/ \E t \in Hands : hand[t].op = "cancel"

\* complete_ride completes a booking only on a fare that was really taken, unless
\* it found no payment.
CompletionIsPaid ==
  [][\A t \in Hands :
       hand[t].op = "complete" /\ hand[t].copy.status # "none" /\ booking' # booking
         => pay.gateway \in MoneyTaken]_payVars
=============================================================================
