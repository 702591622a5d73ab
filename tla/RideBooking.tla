---------------------------- MODULE RideBooking ----------------------------
(***************************************************************************)
(* Rides, their bookings and the bookings' payments, with every handler of *)
(* RideService, BookingService and PaymentService that changes them as one *)
(* atomic step: what one API process does, whose coroutine endpoints run   *)
(* each handler to its commit on the event loop.                           *)
(*                                                                         *)
(* A booking is a slot: the (ride, passenger) pair of the unique constraint*)
(* uq_booking_ride_passenger.  RideOf gives the slot's ride; its status is *)
(* "none" until the passenger books.  Drivers and passengers act only on   *)
(* their own rides and bookings: the 403 and 404 answers change nothing    *)
(* and are not steps.                                                      *)
(***************************************************************************)
EXTENDS Naturals, FiniteSets, PaymentOps

CONSTANTS
  Rides,        \* the rides drivers may publish
  Bookings,     \* the (ride, passenger) slots
  RideOf,       \* the ride of every slot
  MaxSeats,     \* the most seats a ride may offer (10 in schemas/ride.py)
  PaidBookings  \* the slots whose passenger opens a payment

ASSUME ConstantsAssumption ==
  /\ IsFiniteSet(Bookings)
  /\ RideOf \in [Bookings -> Rides]
  /\ MaxSeats \in Nat \ {0}
  /\ PaidBookings \subseteq Bookings

VARIABLES
  ride,      \* rides table: status, available_seats, is_active
  booking,   \* bookings table: status, boarded_at is set, boarding OTP
  pay,       \* the payment entry of every slot (PaymentOps)
  capacity   \* history: the seats a ride has in all, offered and taken

vars == <<ride, booking, pay, capacity>>

RideStatus == {"none", "scheduled", "full", "completed", "cancelled"}
BookingStatus == {"none", "pending", "accepted", "rejected",
                  "cancelled_by_passenger", "cancelled_by_driver", "completed"}

\* "live" is an unexpired code, "expired" one whose expiry time has passed.
OtpStatus == {"none", "live", "expired"}

TypeOK ==
  /\ ride \in [Rides -> [status : RideStatus, seats : Nat, active : BOOLEAN]]
  /\ booking \in [Bookings -> [status : BookingStatus, boarded : BOOLEAN, otp : OtpStatus]]
  /\ pay \in [Bookings -> Entry]
  /\ capacity \in [Rides -> Nat]

Init ==
  /\ ride = [r \in Rides |-> [status |-> "none", seats |-> 0, active |-> FALSE]]
  /\ booking = [b \in Bookings |-> [status |-> "none", boarded |-> FALSE, otp |-> "none"]]
  /\ pay = [b \in Bookings |-> NoPayment]
  /\ capacity = [r \in Rides |-> 0]

-----------------------------------------------------------------------------
With(r, statuses) == {b \in Bookings : RideOf[b] = r /\ booking[b].status \in statuses}
Accepted(r) == With(r, {"accepted"})
Holders(r)  == With(r, {"accepted", "completed"})

\* status and is_active always follow the seats of an open ride.
OpenRide(n) == [status |-> IF n = 0 THEN "full" ELSE "scheduled",
                seats |-> n, active |-> n # 0]

SetStatus(b, s) == booking' = [booking EXCEPT ![b].status = s]

-----------------------------------------------------------------------------
(* RideService *)

CreateRide(r, n) ==
  /\ ride[r].status = "none"
  /\ n \in 1..MaxSeats
  /\ ride' = [ride EXCEPT ![r] = OpenRide(n)]
  /\ capacity' = [capacity EXCEPT ![r] = n]
  /\ UNCHANGED <<booking, pay>>

UpdateRide(r, n) ==
  /\ ride[r].status \in {"scheduled", "full"}
  /\ n \in 0..MaxSeats
  /\ n >= Cardinality(Accepted(r))
  /\ ride' = [ride EXCEPT ![r] = OpenRide(n)]
  /\ capacity' = [capacity EXCEPT ![r] = n + Cardinality(Holders(r))]
  /\ UNCHANGED <<booking, pay>>

\* Mutant: forgets the bookings the driver has not answered yet.
CancelRide_SeatedOnly(r) ==
  /\ ride[r].status \in {"scheduled", "full"}
  /\ ride' = [ride EXCEPT ![r].status = "cancelled", ![r].active = FALSE]
  /\ booking' = [b \in Bookings |->
                   IF b \in Accepted(r)
                   THEN [booking[b] EXCEPT !.status = "cancelled_by_driver"]
                   ELSE booking[b]]
  /\ UNCHANGED <<pay, capacity>>

\* Cancels the ride's open bookings; touches neither seats nor payments.
CancelRide(r) ==
  /\ ride[r].status \in {"scheduled", "full"}
  /\ ride' = [ride EXCEPT ![r].status = "cancelled", ![r].active = FALSE]
  /\ booking' = [b \in Bookings |->
                   IF b \in With(r, {"pending", "accepted"})
                   THEN [booking[b] EXCEPT !.status = "cancelled_by_driver"]
                   ELSE booking[b]]
  /\ UNCHANGED <<pay, capacity>>

\* Mutant: does not ask whether the passengers were boarded.
ReadyToComplete_Unboarded(r) == ride[r].status \in {"scheduled", "full"}

ReadyToComplete(r) ==
  /\ ride[r].status \in {"scheduled", "full"}
  /\ \A b \in Accepted(r) : booking[b].boarded

\* Mutant: an authorized fare is as good as a captured one.
Collected_Authorized(p) == p.status \in {"none", "authorized", "captured"}

Collected(p) == p.status \in {"none", "captured"}

\* One possible outcome of the capture calls for the bookings in S.
CaptureChoices(S) ==
  {f \in [S -> UNION {Capture(pay[b]) : b \in S}] : \A b \in S : f[b] \in Capture(pay[b])}

\* Every accepted booking's fare is captured (or it never had a payment).
CompleteRide(r) ==
  LET S == Accepted(r) IN
  /\ ReadyToComplete(r)
  /\ \E f \in CaptureChoices(S) :
       /\ \A b \in S : Collected(f[b])
       /\ pay' = [b \in Bookings |-> IF b \in S THEN f[b] ELSE pay[b]]
  /\ booking' = [b \in Bookings |->
                   IF b \in S THEN [booking[b] EXCEPT !.status = "completed"] ELSE booking[b]]
  /\ ride' = [ride EXCEPT ![r].status = "completed", ![r].active = FALSE]
  /\ UNCHANGED capacity

\* What a rolled-back handler leaves of q: the calls and the jobs, not the row.
RolledBack(p, q) == [q EXCEPT !.status = p.status, !.ref = p.ref]

\* Captures run one by one up to the first fare that is not collected: 409.
\* The rows are rolled back; the captures that were made stay made.
CompleteRideConflict(r) ==
  /\ ReadyToComplete(r)
  /\ \E last \in Accepted(r) : \E done \in SUBSET (Accepted(r) \ {last}) :
       \E f \in CaptureChoices(done \cup {last}) :
         /\ ~ Collected(f[last])
         /\ \A b \in done : Collected(f[b])
         /\ pay' = [b \in Bookings |-> IF b \in done \cup {last}
                                       THEN RolledBack(pay[b], f[b]) ELSE pay[b]]
  /\ UNCHANGED <<ride, booking, capacity>>

-----------------------------------------------------------------------------
(* BookingService *)

CreateBooking(b) ==
  /\ booking[b].status = "none"
  /\ LET r == ride[RideOf[b]] IN r.status = "scheduled" /\ r.active /\ r.seats >= 1
  /\ SetStatus(b, "pending")
  /\ UNCHANGED <<ride, pay, capacity>>

\* Mutant: accepts without looking for a free seat.
AcceptBooking_Unchecked(b) ==
  LET r == RideOf[b] IN
  /\ booking[b].status = "pending"
  /\ SetStatus(b, "accepted")
  /\ ride' = [ride EXCEPT ![r] = OpenRide(ride[r].seats - 1)]
  /\ \E q \in Capture(pay[b]) : pay' = [pay EXCEPT ![b] = q]
  /\ UNCHANGED capacity

\* The ride's own status is not looked at, only its seats.
AcceptBooking(b) ==
  LET r == RideOf[b] IN
  /\ booking[b].status = "pending"
  /\ ride[r].seats >= 1
  /\ SetStatus(b, "accepted")
  /\ ride' = [ride EXCEPT ![r] = OpenRide(ride[r].seats - 1)]
  /\ \E q \in Capture(pay[b]) : pay' = [pay EXCEPT ![b] = q]
  /\ UNCHANGED capacity

RejectBooking(b) ==
  /\ booking[b].status = "pending"
  /\ SetStatus(b, "rejected")
  /\ UNCHANGED <<ride, pay, capacity>>

\* Mutant: gives a seat back for a booking that never had one.
CancelBooking_AlwaysGivesBack(b, s) ==
  LET r == RideOf[b] IN
  /\ booking[b].status \in {"pending", "accepted"}
  /\ ride' = [ride EXCEPT ![r] = [status |-> "scheduled",
                                 seats |-> ride[r].seats + 1, active |-> TRUE]]
  /\ \E q \in Refund(pay[b]) : pay' = [pay EXCEPT ![b] = q]
  /\ SetStatus(b, s)
  /\ UNCHANGED capacity

\* Shared by the driver's and the passenger's cancellation.
CancelBooking(b, s) ==
  LET r == RideOf[b] IN
  /\ booking[b].status \in {"pending", "accepted"}
  /\ ride' = IF booking[b].status = "accepted"
             THEN [ride EXCEPT ![r] = [status |-> "scheduled",
                                       seats |-> ride[r].seats + 1, active |-> TRUE]]
             ELSE ride
  /\ \E q \in Refund(pay[b]) : pay' = [pay EXCEPT ![b] = q]
  /\ SetStatus(b, s)
  /\ UNCHANGED capacity

CancelByDriver(b) == CancelBooking(b, "cancelled_by_driver")
CancelByPassenger(b) == CancelBooking(b, "cancelled_by_passenger")

\* Booking-level completion by the driver: no payment is looked at.
CompleteBooking(b) ==
  /\ booking[b].status = "accepted"
  /\ booking[b].boarded
  /\ SetStatus(b, "completed")
  /\ UNCHANGED <<ride, pay, capacity>>

IssueBoardingOtp(b) ==
  /\ booking[b].status = "accepted"
  /\ ~ booking[b].boarded
  /\ booking' = [booking EXCEPT ![b].otp = "live"]
  /\ UNCHANGED <<ride, pay, capacity>>

\* With the code that was issued last; any other code is refused.
VerifyBoardingOtp(b) ==
  /\ booking[b].status = "accepted"
  /\ ~ booking[b].boarded
  /\ booking[b].otp = "live"
  /\ booking' = [booking EXCEPT ![b].boarded = TRUE, ![b].otp = "none"]
  /\ UNCHANGED <<ride, pay, capacity>>

OtpExpires(b) ==
  /\ booking[b].otp = "live"
  /\ booking' = [booking EXCEPT ![b].otp = "expired"]
  /\ UNCHANGED <<ride, pay, capacity>>

-----------------------------------------------------------------------------
(* DispatchService *)

\* accept_request: a one-seat ride made for one passenger, born full.
MatchRequest(b) ==
  LET r == RideOf[b] IN
  /\ ride[r].status = "none"
  /\ ride' = [ride EXCEPT ![r] = OpenRide(0)]
  /\ capacity' = [capacity EXCEPT ![r] = 1]
  /\ SetStatus(b, "accepted")
  /\ UNCHANGED pay

-----------------------------------------------------------------------------
(* PaymentService, its job worker and the provider *)

\* A step of b's payment that leaves rides and bookings alone.
PayStep(b, entries) ==
  /\ \E q \in entries : pay' = [pay EXCEPT ![b] = q]
  /\ UNCHANGED <<ride, booking, capacity>>

CreatePayment(b) ==
  /\ b \in PaidBookings
  /\ booking[b].status \in {"pending", "accepted"}
  /\ pay[b].status = "none"
  /\ PayStep(b, {Opened(pay[b])})

ConfirmPayment(b) ==
  /\ pay[b].status = "pending"
  /\ PayStep(b, Confirm(pay[b], booking[b].status = "accepted"))

\* The participants' and the support desk's reconcile endpoints.
ReconcilePayment(b) ==
  PayStep(b, Reconcile(pay[b], booking[b].status = "accepted"))

JobResult(b, k) ==
  CASE k = "capture" -> RetryCapture(pay[b])
    [] k = "refund"  -> RetryRefund(pay[b])
    [] OTHER         -> Reconcile(pay[b], booking[b].status = "accepted")

\* A job that ran is gone, or still queued: it failed and was put back, or
\* another copy of it is waiting.
RunJob(b, k) ==
  /\ k \in pay[b].jobs
  /\ PayStep(b, UNION {{q, [q EXCEPT !.jobs = @ \ {k}]} : q \in JobResult(b, k)})

DeliverWebhook(b, e) ==
  /\ e \in pay[b].hooks
  /\ PayStep(b, {Deliver(pay[b], e)})

GatewayStep(b) ==
  /\ pay[b].status # "none"
  /\ PayStep(b, GatewayMoves(pay[b]))

\* The process dies: the job queue lives in its memory.
Restart ==
  /\ pay' = [b \in Bookings |-> [pay[b] EXCEPT !.jobs = {}]]
  /\ UNCHANGED <<ride, booking, capacity>>

-----------------------------------------------------------------------------
RideNext(r) ==
  \/ \E n \in 0..MaxSeats : CreateRide(r, n) \/ UpdateRide(r, n)
  \/ CancelRide(r) \/ CompleteRide(r) \/ CompleteRideConflict(r)

BookingNext(b) ==
  \/ CreateBooking(b) \/ AcceptBooking(b) \/ RejectBooking(b)
  \/ CancelByDriver(b) \/ CancelByPassenger(b) \/ CompleteBooking(b)
  \/ IssueBoardingOtp(b) \/ VerifyBoardingOtp(b) \/ OtpExpires(b)
  \/ MatchRequest(b)

PaymentNext(b) ==
  \/ CreatePayment(b) \/ ConfirmPayment(b) \/ ReconcilePayment(b) \/ GatewayStep(b)
  \/ \E k \in JobKind : RunJob(b, k)
  \/ \E e \in HookEvent : DeliverWebhook(b, e)

Next ==
  \/ \E r \in Rides : RideNext(r)
  \/ \E b \in Bookings : BookingNext(b) \/ PaymentNext(b)
  \/ Restart

Spec == Init /\ [][Next]_vars

-----------------------------------------------------------------------------
(* Seats *)

\* The free-seat counter and the bookings that hold a seat always add up to the
\* ride's seats, through accepting, cancelling, resizing, completing and
\* dispatch matching (cancel_ride alone leaves the counter behind).
SeatConservation ==
  \A r \in Rides : ride[r].status # "cancelled" =>
    ride[r].seats + Cardinality(Holders(r)) = capacity[r]

\* search_rides and create_booking look at status, is_active and seats; the
\* three never disagree on an open ride, and a closed ride is never active.
RideFlagsAgree ==
  \A r \in Rides :
    /\ ride[r].status = "scheduled" => ride[r].seats > 0 /\ ride[r].active
    /\ ride[r].status = "full" => ride[r].seats = 0 /\ ~ ride[r].active
    /\ ride[r].status \in {"completed", "cancelled"} => ~ ride[r].active

\* cancel_ride leaves no passenger waiting or seated on a cancelled ride.
CancelledRideIsEmpty ==
  \A r \in Rides : ride[r].status = "cancelled" => With(r, {"pending", "accepted"}) = {}

\* Nobody is recorded as having travelled who was not boarded with a code,
\* whether the booking was completed alone or with its ride.
BoardedBeforeCompleted ==
  \A b \in Bookings : booking[b].status = "completed" => booking[b].boarded

\* A cancelled ride stays as it is: no handler revives it, although accepting
\* and cancelling bookings write the ride's status without reading it.
CancelledRideIsFinal ==
  [][\A r \in Rides : ride[r].status = "cancelled" => ride'[r] = ride[r]]_vars

\* "Completed or cancelled rides cannot be updated", "Ride is already completed":
\* a completed ride stays completed.
CompletedRideIsFinal ==
  [][\A r \in Rides : ride[r].status = "completed" => ride'[r].status = "completed"]_vars

\* A booking that was rejected, cancelled or completed keeps that status.
ClosedBookingIsFinal ==
  [][\A b \in Bookings :
       booking[b].status \in BookingStatus \ {"none", "pending", "accepted"}
         => booking'[b].status = booking[b].status]_vars

\* What a ride is in the ledger of seats, and who holds a seat of it.
LedgerState(r) == CASE ride[r].status = "none"      -> "unpublished"
                    [] ride[r].status = "cancelled" -> "void"
                    [] OTHER                        -> "open"

ledgerState == [r \in Rides |-> LedgerState(r)]
ledgerHolders == [r \in Rides |-> Holders(r)]

Ledger == INSTANCE SeatLedger WITH
  state <- ledgerState,
  holders <- ledgerHolders,
  Sizes <- 0..(MaxSeats + Cardinality(Bookings))

\* Seats are only taken, given back and resized as SeatLedger allows.
LedgerSpec == Ledger!Spec

-----------------------------------------------------------------------------
(* Money *)

\* The row claims a capture or a refund only if the provider made it.
NoPhantomMoney ==
  \A b \in Bookings :
    /\ pay[b].status = "captured" => pay[b].gateway \in {"captured", "refunding", "refunded"}
    /\ pay[b].status = "refunded" => pay[b].gateway \in {"captured", "refunding", "refunded"}

\* Money taken behind an unsettled row is still going to be announced: calls
\* that time out and handlers that roll back after capturing lose the answer,
\* and the undelivered webhook is what repairs the row.
CaptureIsAnnounced ==
  \A b \in Bookings :
    pay[b].status \in {"pending", "authorized"} /\ pay[b].gateway \in {"captured", "refunding"}
      => "payment.captured" \in pay[b].hooks

\* The row never moves backwards: captured money stays captured or is refunded,
\* and a refunded or failed payment is never revived by a late webhook, a retry
\* job or a reconciliation.
PaymentNeverMovesBack ==
  [][\A b \in Bookings :
       /\ pay[b].status = "captured" => pay'[b].status \in {"captured", "refunded"}
       /\ pay[b].status \in {"refunded", "failed"} => pay'[b].status = pay[b].status]_vars

Completes(r) == ride[r].status # "completed" /\ ride'[r].status = "completed"

\* complete_ride completes only bookings whose fare was captured (or that never
\* had a payment), whatever the provider answered on the way.
CompletionCollectsFares ==
  [][\A b \in Bookings :
       Completes(RideOf[b]) /\ booking[b].status = "accepted"
         => booking'[b].status = "completed" /\ pay'[b].status \in {"none", "captured"}]_vars
=============================================================================
