------------------------- MODULE RideBookingProofs -------------------------
(***************************************************************************)
(* Theorems about RideBooking and BookingSessions, for any rides,          *)
(* bookings, seats, processes and threads.                                 *)
(*                                                                         *)
(* The inductive invariant has three layers.  Sound (PaymentOpsProofs)     *)
(* says of every payment what the webhooks still to come may claim.        *)
(* TypeOK needs it: the row a webhook or a rollback leaves is only well    *)
(* formed because the calls are.  SeatInv adds to the seat properties that *)
(* a ride nobody published has no bookings, without which publishing it    *)
(* would start from a wrong seat count.                                    *)
(*                                                                         *)
(* The last two sections are about the handlers cut at their database      *)
(* statements: what the ride row's lock gives for any number of processes, *)
(* and that one process runs its handlers as RideBooking has them, because *)
(* nobody else writes the rides and the statuses its loop has loaded.      *)
(***************************************************************************)
EXTENDS BookingSessions, PaymentOpsProofs, FiniteSetTheorems

UnpublishedRideIsEmpty ==
  \A b \in Bookings : ride[RideOf[b]].status = "none" => booking[b].status = "none"

MoneyOK == \A b \in Bookings : Sound(pay[b])

SeatInv ==
  /\ SeatConservation
  /\ RideFlagsAgree
  /\ CancelledRideIsEmpty
  /\ BoardedBeforeCompleted
  /\ UnpublishedRideIsEmpty

IInv == TypeOK /\ MoneyOK /\ SeatInv

-----------------------------------------------------------------------------
(* Payments *)

\* Every step leaves every payment well formed, sound and no further back.
GoodPayments ==
  /\ pay' \in [Bookings -> Entry]
  /\ \A b \in Bookings : Good(pay[b], pay'[b])

LEMMA UnchangedPayments ==
  ASSUME TypeOK, MoneyOK, UNCHANGED pay
  PROVE  GoodPayments
  BY DEF TypeOK, MoneyOK, GoodPayments, Good, Advances

\* A step that replaces one payment by a good successor.
LEMMA OnePayment ==
  ASSUME TypeOK, MoneyOK, NEW b \in Bookings, NEW q, Good(pay[b], q),
         pay' = [pay EXCEPT ![b] = q]
  PROVE  GoodPayments
  BY DEF TypeOK, MoneyOK, GoodPayments, Good, Advances

LEMMA RolledBackGood ==
  ASSUME NEW p \in Entry, Sound(p), NEW q \in Capture(p)
  PROVE  Good(p, RolledBack(p, q))
  <1> DEFINE n == RolledBack(p, q)
  <1>1. /\ Good(p, q)
        /\ p.status # "authorized" => q = p
        /\ p.hooks \subseteq q.hooks
        /\ q.gateway # p.gateway => "payment.captured" \in q.hooks
    BY CaptureGood
  <1>2. /\ n \in Entry /\ n.status = p.status
        /\ n.gateway = q.gateway /\ n.hooks = q.hooks
    BY <1>1 DEF RolledBack, Good, Entry
  <1> HIDE DEF n
  <1>3. Sound(n)
    BY <1>1, <1>2 DEF Good, Sound
  <1> QED BY <1>2, <1>3 DEF Good, Advances, n

LEMMA RideNextPayments ==
  ASSUME TypeOK, MoneyOK, NEW r \in Rides, RideNext(r)
  PROVE  GoodPayments
  <1>1. ASSUME NEW n \in 0..MaxSeats, CreateRide(r, n) \/ UpdateRide(r, n)
        PROVE  GoodPayments
    BY <1>1, UnchangedPayments DEF CreateRide, UpdateRide
  <1>2. CASE CancelRide(r)
    BY <1>2, UnchangedPayments DEF CancelRide
  <1>3. CASE CompleteRide(r)
    <2>1. PICK f \in CaptureChoices(Accepted(r)) :
            pay' = [b \in Bookings |-> IF b \in Accepted(r) THEN f[b] ELSE pay[b]]
      BY <1>3 DEF CompleteRide
    <2>2. \A b \in Accepted(r) : f[b] \in Capture(pay[b])
      BY <2>1 DEF CaptureChoices
    <2>3. \A b \in Bookings : Good(pay[b], pay'[b])
      <3>1. ASSUME NEW b \in Bookings PROVE Good(pay[b], pay'[b])
        <4>1. pay[b] \in Entry /\ Sound(pay[b])
          BY DEF TypeOK, MoneyOK
        <4>2. CASE b \in Accepted(r)
          BY <2>1, <2>2, <4>1, <4>2, CaptureGood
        <4>3. CASE b \notin Accepted(r)
          BY <2>1, <4>1, <4>3 DEF Good, Advances
        <4> QED BY <4>2, <4>3
      <3> QED BY <3>1
    <2> QED BY <2>1, <2>3 DEF GoodPayments, Good
  <1>4. CASE CompleteRideConflict(r)
    <2>1. PICK last \in Accepted(r) : \E done \in SUBSET (Accepted(r) \ {last}) :
            \E f \in CaptureChoices(done \cup {last}) :
              pay' = [b \in Bookings |-> IF b \in done \cup {last}
                                         THEN RolledBack(pay[b], f[b]) ELSE pay[b]]
      BY <1>4 DEF CompleteRideConflict
    <2>2. PICK done \in SUBSET (Accepted(r) \ {last}) :
            \E f \in CaptureChoices(done \cup {last}) :
              pay' = [b \in Bookings |-> IF b \in done \cup {last}
                                         THEN RolledBack(pay[b], f[b]) ELSE pay[b]]
      BY <2>1
    <2>3. PICK f \in CaptureChoices(done \cup {last}) :
            pay' = [b \in Bookings |-> IF b \in done \cup {last}
                                       THEN RolledBack(pay[b], f[b]) ELSE pay[b]]
      BY <2>2
    <2>4. \A b \in done \cup {last} : f[b] \in Capture(pay[b])
      BY <2>3 DEF CaptureChoices
    <2>5. \A b \in Bookings : Good(pay[b], pay'[b])
      <3>1. ASSUME NEW b \in Bookings PROVE Good(pay[b], pay'[b])
        <4>1. pay[b] \in Entry /\ Sound(pay[b])
          BY DEF TypeOK, MoneyOK
        <4>2. CASE b \in done \cup {last}
          BY <2>3, <2>4, <4>1, <4>2, RolledBackGood
        <4>3. CASE b \notin done \cup {last}
          BY <2>3, <4>1, <4>3 DEF Good, Advances
        <4> QED BY <4>2, <4>3
      <3> QED BY <3>1
    <2> QED BY <2>3, <2>5 DEF GoodPayments, Good
  <1> QED BY <1>1, <1>2, <1>3, <1>4 DEF RideNext

LEMMA BookingNextPayments ==
  ASSUME TypeOK, MoneyOK, NEW b \in Bookings, BookingNext(b)
  PROVE  GoodPayments
  <1>1. pay[b] \in Entry /\ Sound(pay[b])
    BY DEF TypeOK, MoneyOK
  <1>2. CASE AcceptBooking(b)
    BY <1>1, <1>2, CaptureGood, OnePayment DEF AcceptBooking
  <1>3. CASE CancelByDriver(b) \/ CancelByPassenger(b)
    BY <1>1, <1>3, RefundGood, OnePayment DEF CancelByDriver, CancelByPassenger, CancelBooking
  <1>4. CASE UNCHANGED pay
    BY <1>4, UnchangedPayments
  <1> QED BY <1>2, <1>3, <1>4 DEF BookingNext, CreateBooking, RejectBooking, CompleteBooking,
             IssueBoardingOtp, VerifyBoardingOtp, OtpExpires, MatchRequest

LEMMA PaymentNextPayments ==
  ASSUME TypeOK, MoneyOK, NEW b \in Bookings, PaymentNext(b)
  PROVE  GoodPayments
  <1> DEFINE p == pay[b]
             accepted == booking[b].status = "accepted"
  <1>1. p \in Entry /\ Sound(p) /\ accepted \in BOOLEAN
    BY DEF TypeOK, MoneyOK
  <1> SUFFICES ASSUME NEW q, pay' = [pay EXCEPT ![b] = q], PaymentNext(b)
               PROVE  Good(p, q)
    <2>1. \E q : pay' = [pay EXCEPT ![b] = q]
      BY DEF PaymentNext, CreatePayment, ConfirmPayment, ReconcilePayment, GatewayStep,
             RunJob, DeliverWebhook, PayStep
    <2> QED BY <2>1, OnePayment
  <1>2. q = pay'[b]
    BY DEF TypeOK
  <1>3. CASE CreatePayment(b)
    <2>1. p.status = "none" /\ q = [p EXCEPT !.status = "pending"]
      BY <1>2, <1>3 DEF CreatePayment, PayStep, Opened, TypeOK
    <2> QED BY <1>1, <2>1 DEF Good, Sound, Advances, Entry, PaymentStatus
  <1>4. CASE ConfirmPayment(b)
    <2>1. q \in Confirm(p, accepted) /\ p.status = "pending"
      BY <1>2, <1>4 DEF ConfirmPayment, PayStep, TypeOK
    <2> QED BY <1>1, <2>1, ConfirmGood
  <1>5. CASE ReconcilePayment(b)
    <2>1. q \in Reconcile(p, accepted)
      BY <1>2, <1>5 DEF ReconcilePayment, PayStep, TypeOK
    <2> QED BY <1>1, <2>1, ReconcileGood
  <1>6. CASE GatewayStep(b)
    <2>1. q \in GatewayMoves(p) /\ p.status # "none"
      BY <1>2, <1>6 DEF GatewayStep, PayStep, TypeOK
    <2> QED BY <1>1, <2>1, GatewayGood
  <1>7. ASSUME NEW k \in JobKind, RunJob(b, k)
        PROVE  Good(p, q)
    <2>1. PICK n \in JobResult(b, k) : q = n \/ q = [n EXCEPT !.jobs = @ \ {k}]
      BY <1>2, <1>7 DEF RunJob, PayStep, TypeOK
    <2>2. Good(p, n)
      BY <1>1, <2>1, RetryGood, ReconcileGood DEF JobResult
    <2> QED BY <2>1, <2>2 DEF Good, Sound, Advances, Entry
  <1>8. ASSUME NEW e \in HookEvent, DeliverWebhook(b, e)
        PROVE  Good(p, q)
    <2>1. e \in p.hooks /\ q = Deliver(p, e)
      BY <1>2, <1>8 DEF DeliverWebhook, PayStep, TypeOK
    <2> QED BY <1>1, <2>1, DeliverGood
  <1> QED BY <1>3, <1>4, <1>5, <1>6, <1>7, <1>8 DEF PaymentNext

LEMMA NextPayments ==
  ASSUME TypeOK, MoneyOK, [Next]_vars
  PROVE  GoodPayments
  <1>1. CASE Restart
    <2>1. \A b \in Bookings : pay[b] \in Entry /\ Sound(pay[b])
      BY DEF TypeOK, MoneyOK
    <2>2. \A b \in Bookings : pay'[b] = [pay[b] EXCEPT !.jobs = {}]
      BY <1>1 DEF Restart
    <2>3. ASSUME NEW b \in Bookings PROVE Good(pay[b], pay'[b])
      <3>1. pay[b] \in Entry /\ Sound(pay[b]) /\ pay'[b] = [pay[b] EXCEPT !.jobs = {}]
        BY <2>1, <2>2
      <3>2. pay'[b] \in Entry
        BY <3>1 DEF Entry
      <3>3. /\ pay'[b].status = pay[b].status /\ pay'[b].gateway = pay[b].gateway
            /\ pay'[b].hooks = pay[b].hooks
        BY <3>1 DEF Entry
      <3> QED BY <3>1, <3>2, <3>3 DEF Good, Sound, Advances
    <2> QED BY <1>1, <2>3 DEF Restart, GoodPayments, Good
  <1> QED BY <1>1, RideNextPayments, BookingNextPayments, PaymentNextPayments,
             UnchangedPayments DEF Next, vars

-----------------------------------------------------------------------------
(* Types *)

LEMMA HoldersFinite ==
  ASSUME NEW r
  PROVE  /\ IsFiniteSet(Holders(r)) /\ Cardinality(Holders(r)) \in Nat
         /\ IsFiniteSet(Accepted(r)) /\ Cardinality(Accepted(r)) \in Nat
  <1>1. Holders(r) \subseteq Bookings /\ Accepted(r) \subseteq Bookings
    BY DEF Holders, Accepted, With
  <1> QED BY <1>1, ConstantsAssumption, FS_Subset, FS_CardinalityType

LEMMA OpenRideType ==
  ASSUME NEW n \in Nat
  PROVE  /\ OpenRide(n) \in [status : RideStatus, seats : Nat, active : BOOLEAN]
         /\ OpenRide(n).seats = n
         /\ OpenRide(n).status = IF n = 0 THEN "full" ELSE "scheduled"
         /\ OpenRide(n).active = (n # 0)
  BY DEF OpenRide, RideStatus

\* What every step leaves of the two tables, before anything is said of seats.
TablesOK ==
  /\ ride' \in [Rides -> [status : RideStatus, seats : Nat, active : BOOLEAN]]
  /\ booking' \in [Bookings -> [status : BookingStatus, boarded : BOOLEAN, otp : OtpStatus]]
  /\ capacity' \in [Rides -> Nat]

LEMMA RideNextTables ==
  ASSUME TypeOK, NEW r \in Rides, RideNext(r)
  PROVE  TablesOK
  <1> USE DEF TypeOK, TablesOK
  <1>1. ASSUME NEW n \in 0..MaxSeats, CreateRide(r, n) \/ UpdateRide(r, n)
        PROVE  TablesOK
    <2>1. n \in Nat /\ n + Cardinality(Holders(r)) \in Nat
      BY HoldersFinite, ConstantsAssumption
    <2>2. OpenRide(n) \in [status : RideStatus, seats : Nat, active : BOOLEAN]
      BY <2>1, OpenRideType
    <2>3. CASE CreateRide(r, n)
      BY <2>1, <2>2, <2>3 DEF CreateRide
    <2>4. CASE UpdateRide(r, n)
      BY <2>1, <2>2, <2>4 DEF UpdateRide
    <2> QED BY <1>1, <2>3, <2>4
  <1>2. CASE CancelRide(r)
    <2>1. ride' \in [Rides -> [status : RideStatus, seats : Nat, active : BOOLEAN]]
      BY <1>2 DEF CancelRide, RideStatus
    <2>2. booking' \in [Bookings -> [status : BookingStatus, boarded : BOOLEAN, otp : OtpStatus]]
      BY <1>2 DEF CancelRide, BookingStatus
    <2> QED BY <1>2, <2>1, <2>2 DEF CancelRide
  <1>3. CASE CompleteRide(r)
    <2>1. ride' \in [Rides -> [status : RideStatus, seats : Nat, active : BOOLEAN]]
      BY <1>3 DEF CompleteRide, RideStatus
    <2>2. booking' \in [Bookings -> [status : BookingStatus, boarded : BOOLEAN, otp : OtpStatus]]
      BY <1>3 DEF CompleteRide, BookingStatus
    <2> QED BY <1>3, <2>1, <2>2 DEF CompleteRide
  <1>4. CASE CompleteRideConflict(r)
    BY <1>4 DEF CompleteRideConflict
  <1> QED BY <1>1, <1>2, <1>3, <1>4 DEF RideNext

LEMMA BookingNextTables ==
  ASSUME TypeOK, NEW b \in Bookings, BookingNext(b)
  PROVE  TablesOK
  <1> DEFINE r == RideOf[b]
  <1> USE DEF TypeOK, TablesOK
  <1>0. r \in Rides
    BY ConstantsAssumption
  <1>1. CASE AcceptBooking(b)
    <2>1. ride[r].seats - 1 \in Nat
      BY <1>0, <1>1 DEF AcceptBooking
    <2>2. ride' \in [Rides -> [status : RideStatus, seats : Nat, active : BOOLEAN]]
      BY <1>0, <1>1, <2>1, OpenRideType DEF AcceptBooking
    <2> QED BY <1>1, <2>2 DEF AcceptBooking, SetStatus, BookingStatus
  <1>2. ASSUME NEW s \in {"cancelled_by_driver", "cancelled_by_passenger"}, CancelBooking(b, s)
        PROVE  TablesOK
    <2>1. ride' \in [Rides -> [status : RideStatus, seats : Nat, active : BOOLEAN]]
      BY <1>0, <1>2 DEF CancelBooking, RideStatus
    <2> QED BY <1>2, <2>1 DEF CancelBooking, SetStatus, BookingStatus
  <1>3. CASE MatchRequest(b)
    <2>1. ride' \in [Rides -> [status : RideStatus, seats : Nat, active : BOOLEAN]]
      BY <1>0, <1>3, OpenRideType DEF MatchRequest
    <2> QED BY <1>0, <1>3, <2>1 DEF MatchRequest, SetStatus, BookingStatus
  <1>4. CASE CreateBooking(b) \/ RejectBooking(b) \/ CompleteBooking(b)
    BY <1>4 DEF CreateBooking, RejectBooking, CompleteBooking, SetStatus, BookingStatus
  <1>5. CASE IssueBoardingOtp(b) \/ OtpExpires(b)
    <2>1. PICK o \in OtpStatus : booking' = [booking EXCEPT ![b].otp = o]
      BY <1>5 DEF IssueBoardingOtp, OtpExpires, OtpStatus
    <2>2. booking' \in [Bookings -> [status : BookingStatus, boarded : BOOLEAN, otp : OtpStatus]]
      BY <2>1
    <2> QED BY <1>5, <2>2 DEF IssueBoardingOtp, OtpExpires
  <1>6. CASE VerifyBoardingOtp(b)
    <2>1. booking' = [booking EXCEPT ![b] = [@ EXCEPT !.boarded = TRUE, !.otp = "none"]]
      BY <1>6 DEF VerifyBoardingOtp
    <2>2. "none" \in OtpStatus
      BY DEF OtpStatus
    <2>3. booking' \in [Bookings -> [status : BookingStatus, boarded : BOOLEAN, otp : OtpStatus]]
      BY <2>1, <2>2
    <2> QED BY <1>6, <2>3 DEF VerifyBoardingOtp
  <1> QED BY <1>1, <1>2, <1>3, <1>4, <1>5, <1>6 DEF BookingNext, CancelByDriver, CancelByPassenger

\* A payment step, a restart and a stutter leave the tables alone.
LEMMA QuietStep ==
  ASSUME NEW b \in Bookings, PaymentNext(b)
  PROVE  UNCHANGED <<ride, booking, capacity>>
  BY DEF PaymentNext, CreatePayment, ConfirmPayment, ReconcilePayment, GatewayStep,
         RunJob, DeliverWebhook, PayStep

LEMMA StepCases ==
  ASSUME [Next]_vars
  PROVE  \/ \E r \in Rides : RideNext(r)
         \/ \E b \in Bookings : BookingNext(b)
         \/ UNCHANGED <<ride, booking, capacity>>
  BY QuietStep DEF Next, Restart, vars

LEMMA TypeStep ==
  ASSUME TypeOK, MoneyOK, [Next]_vars
  PROVE  TypeOK' /\ MoneyOK'
  <1>1. GoodPayments
    BY NextPayments
  <1>2. TablesOK
    <2>1. CASE UNCHANGED <<ride, booking, capacity>>
      BY <2>1 DEF TypeOK, TablesOK
    <2> QED BY <2>1, StepCases, RideNextTables, BookingNextTables
  <1> QED BY <1>1, <1>2 DEF GoodPayments, Good, TablesOK, TypeOK, MoneyOK

-----------------------------------------------------------------------------
(* Seats *)

Seated == {"accepted", "completed"}

\* The holders of a ride follow the statuses of its bookings.
LEMMA SameHolders ==
  ASSUME NEW r \in Rides,
         \A b \in Bookings : RideOf[b] = r =>
           (booking'[b].status \in Seated <=> booking[b].status \in Seated)
  PROVE  Holders(r)' = Holders(r)
  BY DEF Holders, With, Seated

LEMMA OneMoreHolder ==
  ASSUME NEW b \in Bookings, booking[b].status \notin Seated, booking'[b].status \in Seated,
         \A c \in Bookings \ {b} : booking'[c] = booking[c]
  PROVE  /\ Holders(RideOf[b])' = Holders(RideOf[b]) \cup {b}
         /\ Cardinality(Holders(RideOf[b])') = Cardinality(Holders(RideOf[b])) + 1
  <1>1. Holders(RideOf[b])' = Holders(RideOf[b]) \cup {b} /\ b \notin Holders(RideOf[b])
    BY DEF Holders, With, Seated
  <1> QED BY <1>1, HoldersFinite, FS_AddElement

LEMMA OneHolderLess ==
  ASSUME NEW b \in Bookings, booking[b].status \in Seated, booking'[b].status \notin Seated,
         \A c \in Bookings \ {b} : booking'[c] = booking[c]
  PROVE  /\ Holders(RideOf[b])' = Holders(RideOf[b]) \ {b}
         /\ Cardinality(Holders(RideOf[b])') = Cardinality(Holders(RideOf[b])) - 1
  <1>1. Holders(RideOf[b])' = Holders(RideOf[b]) \ {b} /\ b \in Holders(RideOf[b])
    BY DEF Holders, With, Seated
  <1> QED BY <1>1, HoldersFinite, FS_RemoveElement

LEMMA CreateRideSeats ==
  ASSUME TypeOK, SeatInv, NEW r \in Rides, NEW n \in 0..MaxSeats, CreateRide(r, n)
  PROVE  SeatInv'
  <1> USE DEF SeatInv
  <1>1. /\ ride[r].status = "none" /\ n \in Nat \ {0}
        /\ ride' = [ride EXCEPT ![r] = OpenRide(n)]
        /\ capacity' = [capacity EXCEPT ![r] = n]
        /\ booking' = booking
    BY ConstantsAssumption DEF CreateRide
  <1>2. /\ ride'[r].status = "scheduled" /\ ride'[r].seats = n /\ ride'[r].active
        /\ capacity'[r] = n
        /\ \A r2 \in Rides \ {r} : ride'[r2] = ride[r2] /\ capacity'[r2] = capacity[r2]
    BY <1>1, OpenRideType DEF TypeOK
  <1>3. \A r2 \in Rides : Holders(r2)' = Holders(r2)
    BY <1>1 DEF Holders, With
  <1>4. SeatConservation'
    <2>1. Holders(r) = {}
      BY <1>1 DEF UnpublishedRideIsEmpty, Holders, With
    <2>2. Cardinality({}) = 0
      BY FS_EmptySet
    <2>3. ride'[r].seats + Cardinality(Holders(r)') = capacity'[r]
      BY <1>1, <1>2, <1>3, <2>1, <2>2
    <2> QED BY <1>2, <1>3, <2>3 DEF SeatConservation
  <1>5. RideFlagsAgree'
    BY <1>1, <1>2 DEF RideFlagsAgree
  <1>6. CancelledRideIsEmpty' /\ BoardedBeforeCompleted' /\ UnpublishedRideIsEmpty'
    BY <1>1, <1>2, ConstantsAssumption
       DEF CancelledRideIsEmpty, BoardedBeforeCompleted, UnpublishedRideIsEmpty, With
  <1> QED BY <1>4, <1>5, <1>6

LEMMA UpdateRideSeats ==
  ASSUME TypeOK, SeatInv, NEW r \in Rides, NEW n \in 0..MaxSeats, UpdateRide(r, n)
  PROVE  SeatInv'
  <1> USE DEF SeatInv
  <1>1. /\ ride[r].status \in {"scheduled", "full"} /\ n \in Nat
        /\ ride' = [ride EXCEPT ![r] = OpenRide(n)]
        /\ capacity' = [capacity EXCEPT ![r] = n + Cardinality(Holders(r))]
        /\ booking' = booking
    BY ConstantsAssumption DEF UpdateRide
  <1>2. /\ ride'[r] = OpenRide(n) /\ capacity'[r] = n + Cardinality(Holders(r))
        /\ \A r2 \in Rides \ {r} : ride'[r2] = ride[r2] /\ capacity'[r2] = capacity[r2]
    BY <1>1 DEF TypeOK
  <1>3. \A r2 \in Rides : Holders(r2)' = Holders(r2)
    BY <1>1 DEF Holders, With
  <1>4. SeatConservation'
    BY <1>1, <1>2, <1>3, OpenRideType DEF SeatConservation
  <1>5. RideFlagsAgree'
    BY <1>1, <1>2, OpenRideType DEF RideFlagsAgree
  <1>6. CancelledRideIsEmpty' /\ BoardedBeforeCompleted' /\ UnpublishedRideIsEmpty'
    BY <1>1, <1>2, OpenRideType, ConstantsAssumption
       DEF CancelledRideIsEmpty, BoardedBeforeCompleted, UnpublishedRideIsEmpty, With
  <1> QED BY <1>4, <1>5, <1>6

LEMMA CancelRideSeats ==
  ASSUME TypeOK, SeatInv, NEW r \in Rides, CancelRide(r)
  PROVE  SeatInv'
  <1> USE DEF SeatInv
  <1>1. /\ ride[r].status \in {"scheduled", "full"}
        /\ ride'[r].status = "cancelled" /\ ~ ride'[r].active
        /\ \A r2 \in Rides \ {r} : ride'[r2] = ride[r2]
        /\ capacity' = capacity
    BY DEF CancelRide, TypeOK
  <1>2. \A b \in Bookings :
          IF RideOf[b] = r /\ booking[b].status \in {"pending", "accepted"}
          THEN booking'[b].status = "cancelled_by_driver" /\ booking'[b].boarded = booking[b].boarded
          ELSE booking'[b] = booking[b]
    BY DEF CancelRide, With, TypeOK
  <1>3. \A r2 \in Rides \ {r} : Holders(r2)' = Holders(r2)
    BY <1>2 DEF Holders, With
  <1>4. SeatConservation'
    BY <1>1, <1>3 DEF SeatConservation
  <1>5. RideFlagsAgree'
    BY <1>1 DEF RideFlagsAgree
  <1>6. CancelledRideIsEmpty'
    BY <1>1, <1>2 DEF CancelledRideIsEmpty, With
  <1>7. BoardedBeforeCompleted' /\ UnpublishedRideIsEmpty'
    BY <1>1, <1>2, ConstantsAssumption DEF BoardedBeforeCompleted, UnpublishedRideIsEmpty
  <1> QED BY <1>4, <1>5, <1>6, <1>7

LEMMA CompleteRideSeats ==
  ASSUME TypeOK, SeatInv, NEW r \in Rides, CompleteRide(r)
  PROVE  SeatInv'
  <1> USE DEF SeatInv
  <1>1. /\ ride[r].status \in {"scheduled", "full"}
        /\ ride'[r].status = "completed" /\ ~ ride'[r].active
        /\ ride'[r].seats = ride[r].seats
        /\ \A r2 \in Rides \ {r} : ride'[r2] = ride[r2]
        /\ capacity' = capacity
    BY DEF CompleteRide, ReadyToComplete, TypeOK
  <1>2. \A b \in Bookings :
          IF RideOf[b] = r /\ booking[b].status = "accepted"
          THEN booking'[b].status = "completed" /\ booking'[b].boarded /\ booking[b].boarded
          ELSE booking'[b] = booking[b]
    BY DEF CompleteRide, ReadyToComplete, Accepted, With, TypeOK
  <1>3. \A r2 \in Rides : Holders(r2)' = Holders(r2)
    BY <1>2 DEF Holders, With
  <1>4. SeatConservation'
    BY <1>1, <1>3 DEF SeatConservation
  <1>5. RideFlagsAgree'
    BY <1>1 DEF RideFlagsAgree
  <1>6. CancelledRideIsEmpty'
    BY <1>1, <1>2 DEF CancelledRideIsEmpty, With
  <1>7. BoardedBeforeCompleted' /\ UnpublishedRideIsEmpty'
    BY <1>1, <1>2, ConstantsAssumption DEF BoardedBeforeCompleted, UnpublishedRideIsEmpty
  <1> QED BY <1>4, <1>5, <1>6, <1>7

\* Steps that move one booking without a seat changing hands.
LEMMA NoSeatMoves ==
  ASSUME TypeOK, SeatInv, NEW b \in Bookings, UNCHANGED <<ride, capacity>>,
         \A c \in Bookings \ {b} : booking'[c] = booking[c],
         booking[b].status \in Seated <=> booking'[b].status \in Seated,
         booking'[b].status = "completed" => booking'[b].boarded,
         booking'[b].status = "none" => booking[b].status = "none",
         booking[b].status = "none" /\ booking'[b].status # "none"
           => ride[RideOf[b]].status = "scheduled",
         booking'[b].status \in {"pending", "accepted"}
           => \/ booking[b].status \in {"pending", "accepted"}
              \/ ride[RideOf[b]].status = "scheduled"
  PROVE  SeatInv'
  <1> USE DEF SeatInv
  <1>1. \A r \in Rides : Holders(r)' = Holders(r)
    BY SameHolders
  <1>2. SeatConservation'
    BY <1>1 DEF SeatConservation
  <1>3. RideFlagsAgree'
    BY DEF RideFlagsAgree
  <1>4. CancelledRideIsEmpty'
    <2>1. ASSUME NEW r \in Rides, ride[r].status = "cancelled", NEW c \in Bookings, RideOf[c] = r
          PROVE  booking'[c].status \notin {"pending", "accepted"}
      BY <2>1 DEF CancelledRideIsEmpty, With
    <2> QED BY <2>1 DEF CancelledRideIsEmpty, With
  <1>5. BoardedBeforeCompleted'
    BY DEF BoardedBeforeCompleted
  <1>6. UnpublishedRideIsEmpty'
    BY DEF UnpublishedRideIsEmpty
  <1> QED BY <1>2, <1>3, <1>4, <1>5, <1>6

\* What a step that gives booking b a new ride row and a new status must respect.
LEMMA SeatMoves ==
  ASSUME TypeOK, SeatInv, NEW b \in Bookings, NEW row, NEW s \in BookingStatus \ {"none"},
         ride' = [ride EXCEPT ![RideOf[b]] = row],
         booking' = [booking EXCEPT ![b].status = s],
         s \notin {"pending", "completed"},
         row.seats \in Nat,
         row.seats = 0 => row.status = "full" /\ ~ row.active,
         row.seats # 0 => row.status = "scheduled" /\ row.active,
         \A r \in Rides \ {RideOf[b]} : capacity'[r] = capacity[r],
         row.seats + Cardinality(Holders(RideOf[b])') = capacity'[RideOf[b]]
  PROVE  SeatInv'
  <1> USE DEF SeatInv
  <1> DEFINE r == RideOf[b]
  <1>1. /\ r \in Rides /\ ride'[r] = row
        /\ \A r2 \in Rides \ {r} : ride'[r2] = ride[r2]
        /\ booking'[b].status = s /\ booking'[b].boarded = booking[b].boarded
        /\ \A c \in Bookings \ {b} : booking'[c] = booking[c]
    BY ConstantsAssumption DEF TypeOK
  <1>2. \A r2 \in Rides \ {r} : Holders(r2)' = Holders(r2)
    BY <1>1 DEF Holders, With
  <1>3. SeatConservation'
    BY <1>1, <1>2 DEF SeatConservation
  <1>4. RideFlagsAgree'
    BY <1>1 DEF RideFlagsAgree
  <1>5. CancelledRideIsEmpty'
    BY <1>1 DEF CancelledRideIsEmpty, With
  <1>6. BoardedBeforeCompleted'
    BY <1>1 DEF BoardedBeforeCompleted
  <1>7. UnpublishedRideIsEmpty'
    BY <1>1 DEF UnpublishedRideIsEmpty
  <1> QED BY <1>3, <1>4, <1>5, <1>6, <1>7

LEMMA AcceptBookingSeats ==
  ASSUME TypeOK, SeatInv, NEW b \in Bookings, AcceptBooking(b)
  PROVE  SeatInv'
  <1> DEFINE r == RideOf[b]
             row == OpenRide(ride[r].seats - 1)
  <1>1. /\ booking[b].status = "pending" /\ ride[r].seats >= 1
        /\ ride' = [ride EXCEPT ![r] = row]
        /\ booking' = [booking EXCEPT ![b].status = "accepted"]
        /\ capacity' = capacity
    BY DEF AcceptBooking, SetStatus
  <1>2. r \in Rides /\ ride[r].seats \in Nat
    BY ConstantsAssumption DEF TypeOK
  <1>3. /\ row.seats = ride[r].seats - 1 /\ row.seats \in Nat
        /\ row.seats = 0 => row.status = "full" /\ ~ row.active
        /\ row.seats # 0 => row.status = "scheduled" /\ row.active
    <2>1. ride[r].seats - 1 \in Nat
      BY <1>1, <1>2
    <2> QED BY <2>1 DEF OpenRide
  <1>4. Cardinality(Holders(r)') = Cardinality(Holders(r)) + 1
    BY <1>1, OneMoreHolder DEF Seated, TypeOK
  <1>5. ride[r].status # "cancelled"
    BY <1>1, <1>2 DEF SeatInv, CancelledRideIsEmpty, With
  <1>6. ride[r].seats + Cardinality(Holders(r)) = capacity[r]
    BY <1>2, <1>5 DEF SeatInv, SeatConservation
  <1>7. row.seats + Cardinality(Holders(r)') = capacity'[r]
    BY <1>1, <1>2, <1>3, <1>4, <1>6, HoldersFinite
  <1> HIDE DEF row
  <1>8. "accepted" \in BookingStatus \ {"none"} /\ "accepted" \notin {"pending", "completed"}
    BY DEF BookingStatus
  <1>9. \A r2 \in Rides \ {r} : capacity'[r2] = capacity[r2]
    BY <1>1
  <1> QED BY <1>1, <1>3, <1>7, <1>8, <1>9, SeatMoves

LEMMA CancelBookingSeats ==
  ASSUME TypeOK, SeatInv, NEW b \in Bookings,
         NEW s \in {"cancelled_by_driver", "cancelled_by_passenger"}, CancelBooking(b, s)
  PROVE  SeatInv'
  <1> DEFINE r == RideOf[b]
             row == [status |-> "scheduled", seats |-> ride[r].seats + 1, active |-> TRUE]
  <1>1. /\ booking[b].status \in {"pending", "accepted"}
        /\ booking' = [booking EXCEPT ![b].status = s]
        /\ capacity' = capacity
        /\ ride' = IF booking[b].status = "accepted" THEN [ride EXCEPT ![r] = row] ELSE ride
    BY DEF CancelBooking, SetStatus
  <1>2. r \in Rides /\ ride[r].seats \in Nat
    BY ConstantsAssumption DEF TypeOK
  <1>3. CASE booking[b].status = "pending"
    BY <1>1, <1>3, NoSeatMoves DEF Seated, TypeOK
  <1>4. CASE booking[b].status = "accepted"
    <2>1. Cardinality(Holders(r)') = Cardinality(Holders(r)) - 1
      BY <1>1, <1>4, OneHolderLess DEF Seated, TypeOK
    <2>2. ride[r].status # "cancelled"
      BY <1>1, <1>2 DEF SeatInv, CancelledRideIsEmpty, With
    <2>3. ride[r].seats + Cardinality(Holders(r)) = capacity[r]
      BY <1>2, <2>2 DEF SeatInv, SeatConservation
    <2>4. row.seats + Cardinality(Holders(r)') = capacity'[r]
      BY <1>1, <1>2, <2>1, <2>3, HoldersFinite
    <2>5. /\ row.status = "scheduled" /\ row.seats \in Nat /\ row.seats # 0 /\ row.active
      BY <1>2
    <2> HIDE DEF row
    <2> QED BY <1>1, <1>4, <2>4, <2>5, SeatMoves DEF BookingStatus
  <1> QED BY <1>1, <1>3, <1>4

LEMMA MatchRequestSeats ==
  ASSUME TypeOK, SeatInv, NEW b \in Bookings, MatchRequest(b)
  PROVE  SeatInv'
  <1> DEFINE r == RideOf[b]
             row == OpenRide(0)
  <1>1. /\ ride[r].status = "none"
        /\ ride' = [ride EXCEPT ![r] = row]
        /\ capacity' = [capacity EXCEPT ![r] = 1]
        /\ booking' = [booking EXCEPT ![b].status = "accepted"]
    BY DEF MatchRequest, SetStatus
  <1>2. r \in Rides /\ row.seats = 0 /\ row.status = "full" /\ ~ row.active
    BY ConstantsAssumption DEF OpenRide
  <1>3. Holders(r) = {} /\ booking[b].status = "none"
    BY <1>1, <1>2 DEF SeatInv, UnpublishedRideIsEmpty, Holders, With
  <1>4. Cardinality(Holders(r)') = 1
    <2>1. Cardinality(Holders(r)') = Cardinality(Holders(r)) + 1
      <3>1. booking'[b].status = "accepted" /\ \A c \in Bookings \ {b} : booking'[c] = booking[c]
        BY <1>1 DEF TypeOK
      <3> QED BY <1>3, <3>1, OneMoreHolder DEF Seated
    <2> QED BY <1>3, <2>1, FS_EmptySet
  <1>5. capacity'[r] = 1 /\ \A r2 \in Rides \ {r} : capacity'[r2] = capacity[r2]
    BY <1>1, <1>2 DEF TypeOK
  <1> HIDE DEF row
  <1>6. "accepted" \in BookingStatus \ {"none"} /\ "accepted" \notin {"pending", "completed"}
    BY DEF BookingStatus
  <1>7. row.seats + Cardinality(Holders(r)') = capacity'[r]
    BY <1>2, <1>4, <1>5
  <1>8. /\ row.seats \in Nat
        /\ row.seats = 0 => row.status = "full" /\ ~ row.active
        /\ row.seats # 0 => row.status = "scheduled" /\ row.active
    BY <1>2
  <1> QED BY <1>1, <1>5, <1>6, <1>7, <1>8, SeatMoves

LEMMA BookingNextSeats ==
  ASSUME TypeOK, SeatInv, NEW b \in Bookings, BookingNext(b)
  PROVE  SeatInv'
  <1>1. CASE AcceptBooking(b)
    BY <1>1, AcceptBookingSeats
  <1>2. CASE CancelByDriver(b) \/ CancelByPassenger(b)
    BY <1>2, CancelBookingSeats DEF CancelByDriver, CancelByPassenger
  <1>3. CASE MatchRequest(b)
    BY <1>3, MatchRequestSeats
  <1>4. CASE CreateBooking(b)
    BY <1>4, NoSeatMoves DEF CreateBooking, SetStatus, Seated, TypeOK
  <1>5. CASE RejectBooking(b)
    BY <1>5, NoSeatMoves DEF RejectBooking, SetStatus, Seated, TypeOK
  <1>6. CASE CompleteBooking(b)
    BY <1>6, NoSeatMoves DEF CompleteBooking, SetStatus, Seated, TypeOK
  <1>7. CASE IssueBoardingOtp(b)
    BY <1>7, NoSeatMoves DEF IssueBoardingOtp, Seated, TypeOK
  <1>8. CASE VerifyBoardingOtp(b)
    BY <1>8, NoSeatMoves DEF VerifyBoardingOtp, Seated, TypeOK
  <1>9. CASE OtpExpires(b)
    BY <1>9, NoSeatMoves DEF OtpExpires, Seated, TypeOK, SeatInv, BoardedBeforeCompleted
  <1> QED BY <1>1, <1>2, <1>3, <1>4, <1>5, <1>6, <1>7, <1>8, <1>9 DEF BookingNext

LEMMA SeatStep ==
  ASSUME TypeOK, SeatInv, [Next]_vars
  PROVE  SeatInv'
  <1>1. ASSUME NEW r \in Rides, RideNext(r)
        PROVE  SeatInv'
    <2>1. CASE CompleteRideConflict(r)
      BY <2>1 DEF CompleteRideConflict, SeatInv, SeatConservation, RideFlagsAgree,
         CancelledRideIsEmpty, BoardedBeforeCompleted, UnpublishedRideIsEmpty, Holders, With
    <2> QED BY <1>1, <2>1, CreateRideSeats, UpdateRideSeats, CancelRideSeats,
               CompleteRideSeats DEF RideNext
  <1>2. CASE UNCHANGED <<ride, booking, capacity>>
    BY <1>2 DEF SeatInv, SeatConservation, RideFlagsAgree, CancelledRideIsEmpty,
       BoardedBeforeCompleted, UnpublishedRideIsEmpty, Holders, With
  <1> QED BY <1>1, <1>2, StepCases, BookingNextSeats

-----------------------------------------------------------------------------
(* The inductive invariant *)

LEMMA InitIInv == Init => IInv
  <1> SUFFICES ASSUME Init PROVE IInv
    OBVIOUS
  <1>1. TypeOK
    BY DEF Init, TypeOK, RideStatus, BookingStatus, OtpStatus, NoPayment, Entry,
           PaymentStatus, GatewayStatus
  <1>2. MoneyOK
    BY DEF Init, MoneyOK, Sound, NoPayment
  <1>3. SeatConservation
    <2>1. \A r \in Rides : Holders(r) = {}
      BY DEF Init, Holders, With
    <2>2. Cardinality({}) = 0
      BY FS_EmptySet
    <2>3. \A r \in Rides : ride[r].seats = 0 /\ capacity[r] = 0
      BY DEF Init
    <2> QED BY <2>1, <2>2, <2>3 DEF SeatConservation
  <1>4. RideFlagsAgree /\ CancelledRideIsEmpty /\ BoardedBeforeCompleted /\ UnpublishedRideIsEmpty
    BY DEF Init, RideFlagsAgree, CancelledRideIsEmpty, BoardedBeforeCompleted,
           UnpublishedRideIsEmpty
  <1> QED BY <1>1, <1>2, <1>3, <1>4 DEF IInv, SeatInv

LEMMA NextIInv == IInv /\ [Next]_vars => IInv'
  BY TypeStep, SeatStep DEF IInv

\* Every reachable state satisfies the inductive invariant.
THEOREM InductiveInvariant == Spec => []IInv
  BY InitIInv, NextIInv, PTL DEF Spec

\* Every handler leaves rows of the declared types, the seat counter in particular
\* never below zero.
THEOREM TypeCorrect == Spec => []TypeOK
  <1>1. IInv => TypeOK
    BY DEF IInv
  <1> QED BY <1>1, InductiveInvariant, PTL

\* Free seats and seated passengers always add up, for any number of rides,
\* bookings and seats.
THEOREM SeatsConserved == Spec => []SeatConservation
  <1>1. IInv => SeatConservation
    BY DEF IInv, SeatInv
  <1> QED BY <1>1, InductiveInvariant, PTL

\* A ride's status, is_active and seats never disagree.
THEOREM FlagsAgree == Spec => []RideFlagsAgree
  <1>1. IInv => RideFlagsAgree
    BY DEF IInv, SeatInv
  <1> QED BY <1>1, InductiveInvariant, PTL

\* No open booking is left on a cancelled ride.
THEOREM CancelledEmpty == Spec => []CancelledRideIsEmpty
  <1>1. IInv => CancelledRideIsEmpty
    BY DEF IInv, SeatInv
  <1> QED BY <1>1, InductiveInvariant, PTL

\* A completed booking was boarded.
THEOREM Boarded == Spec => []BoardedBeforeCompleted
  <1>1. IInv => BoardedBeforeCompleted
    BY DEF IInv, SeatInv
  <1> QED BY <1>1, InductiveInvariant, PTL

\* The payments row claims no capture or refund the provider did not make.
THEOREM NoPhantoms == Spec => []NoPhantomMoney
  <1>1. IInv => NoPhantomMoney
    BY DEF IInv, MoneyOK, Sound, Charged, NoPhantomMoney
  <1> QED BY <1>1, InductiveInvariant, PTL

\* Money taken behind an unsettled row has its webhook on the way.
THEOREM CapturesAnnounced == Spec => []CaptureIsAnnounced
  <1>1. IInv => CaptureIsAnnounced
    BY DEF IInv, MoneyOK, Sound, CaptureIsAnnounced
  <1> QED BY <1>1, InductiveInvariant, PTL

-----------------------------------------------------------------------------
(* Action properties *)

\* A settled payments row never moves back.
THEOREM PaymentsSettle == Spec => PaymentNeverMovesBack
  <1>1. IInv /\ [Next]_vars =>
          [\A b \in Bookings :
             /\ pay[b].status = "captured" => pay'[b].status \in {"captured", "refunded"}
             /\ pay[b].status \in {"refunded", "failed"} => pay'[b].status = pay[b].status]_vars
    BY NextPayments DEF IInv, GoodPayments, Good, Advances
  <1> QED BY <1>1, InductiveInvariant, PTL DEF Spec, PaymentNeverMovesBack

LEMMA CancelledRideStep ==
  ASSUME IInv, [Next]_vars, NEW r \in Rides, ride[r].status = "cancelled"
  PROVE  ride'[r] = ride[r]
  <1> USE DEF IInv, TypeOK
  <1>1. CASE UNCHANGED <<ride, booking, capacity>>
    BY <1>1
  <1>2. ASSUME NEW r2 \in Rides, RideNext(r2)
        PROVE  ride'[r] = ride[r]
    BY <1>2 DEF RideNext, CreateRide, UpdateRide, CancelRide, CompleteRide,
                CompleteRideConflict, ReadyToComplete
  <1>3. ASSUME NEW b \in Bookings, BookingNext(b)
        PROVE  ride'[r] = ride[r]
    <2>1. RideOf[b] = r => booking[b].status \notin {"pending", "accepted"}
      BY DEF SeatInv, CancelledRideIsEmpty, With
    <2>2. CASE AcceptBooking(b)
      BY <2>1, <2>2 DEF AcceptBooking
    <2>3. ASSUME NEW s, CancelBooking(b, s)
          PROVE  ride'[r] = ride[r]
      BY <2>1, <2>3 DEF CancelBooking
    <2>4. CASE MatchRequest(b)
      BY <2>4 DEF MatchRequest
    <2>5. CASE UNCHANGED ride
      BY <2>5
    <2> QED BY <1>3, <2>2, <2>3, <2>4, <2>5
            DEF BookingNext, CreateBooking, RejectBooking, CancelByDriver, CancelByPassenger,
                CompleteBooking, IssueBoardingOtp, VerifyBoardingOtp, OtpExpires
  <1> QED BY <1>1, <1>2, <1>3, StepCases

\* A cancelled ride is never written again.
THEOREM CancelledFinal == Spec => CancelledRideIsFinal
  <1>1. IInv /\ [Next]_vars =>
          [\A r \in Rides : ride[r].status = "cancelled" => ride'[r] = ride[r]]_vars
    BY CancelledRideStep
  <1> QED BY <1>1, InductiveInvariant, PTL DEF Spec, CancelledRideIsFinal

LEMMA ClosedBookingStep ==
  ASSUME IInv, [Next]_vars, NEW b \in Bookings,
         booking[b].status \in BookingStatus \ {"none", "pending", "accepted"}
  PROVE  booking'[b].status = booking[b].status
  <1> USE DEF IInv, TypeOK
  <1>1. CASE UNCHANGED <<ride, booking, capacity>>
    BY <1>1
  <1>2. ASSUME NEW r \in Rides, RideNext(r)
        PROVE  booking'[b].status = booking[b].status
    <2>1. CASE CancelRide(r)
      BY <2>1 DEF CancelRide, With
    <2>2. CASE CompleteRide(r)
      BY <2>2 DEF CompleteRide, Accepted, With
    <2>3. CASE UNCHANGED booking
      BY <2>3
    <2> QED BY <1>2, <2>1, <2>2, <2>3 DEF RideNext, CreateRide, UpdateRide, CompleteRideConflict
  <1>3. ASSUME NEW c \in Bookings, BookingNext(c)
        PROVE  booking'[b].status = booking[b].status
    <2>1. CASE CreateBooking(c) \/ AcceptBooking(c) \/ RejectBooking(c) \/ CompleteBooking(c)
      BY <2>1 DEF CreateBooking, AcceptBooking, RejectBooking, CompleteBooking, SetStatus
    <2>2. ASSUME NEW s, CancelBooking(c, s)
          PROVE  booking'[b].status = booking[b].status
      BY <2>2 DEF CancelBooking, SetStatus
    <2>3. CASE IssueBoardingOtp(c) \/ VerifyBoardingOtp(c) \/ OtpExpires(c)
      BY <2>3 DEF IssueBoardingOtp, VerifyBoardingOtp, OtpExpires
    <2>4. CASE MatchRequest(c)
      <3>1. booking[c].status = "none"
        BY <2>4, ConstantsAssumption DEF MatchRequest, SeatInv, UnpublishedRideIsEmpty
      <3> QED BY <2>4, <3>1 DEF MatchRequest, SetStatus
    <2> QED BY <1>3, <2>1, <2>2, <2>3, <2>4 DEF BookingNext, CancelByDriver, CancelByPassenger
  <1> QED BY <1>1, <1>2, <1>3, StepCases

\* A closed booking keeps its status.
THEOREM ClosedFinal == Spec => ClosedBookingIsFinal
  <1>1. IInv /\ [Next]_vars =>
          [\A b \in Bookings :
             booking[b].status \in BookingStatus \ {"none", "pending", "accepted"}
               => booking'[b].status = booking[b].status]_vars
    BY ClosedBookingStep
  <1> QED BY <1>1, InductiveInvariant, PTL DEF Spec, ClosedBookingIsFinal

LEMMA CompletesStep ==
  ASSUME IInv, [Next]_vars, NEW b \in Bookings, Completes(RideOf[b]),
         booking[b].status = "accepted"
  PROVE  booking'[b].status = "completed" /\ pay'[b].status \in {"none", "captured"}
  <1> DEFINE r == RideOf[b]
  <1> USE DEF IInv, TypeOK
  <1>1. r \in Rides /\ ride[r].status # "completed" /\ ride'[r].status = "completed"
    BY ConstantsAssumption DEF Completes
  <1>2. CASE UNCHANGED <<ride, booking, capacity>>
    BY <1>1, <1>2
  <1>3. ASSUME NEW r2 \in Rides, RideNext(r2)
        PROVE  booking'[b].status = "completed" /\ pay'[b].status \in {"none", "captured"}
    <2>1. CASE CompleteRide(r2)
      <3>1. r2 = r
        BY <1>1, <2>1 DEF CompleteRide
      <3>2. b \in Accepted(r)
        BY DEF Accepted, With
      <3> QED BY <2>1, <3>1, <3>2 DEF CompleteRide, Collected
    <2>2. ASSUME NEW n \in 0..MaxSeats, CreateRide(r2, n) \/ UpdateRide(r2, n)
          PROVE  ride'[r].status # "completed"
      <3>1. ride'[r] = ride[r] \/ ride'[r] = OpenRide(n)
        BY <1>1, <2>2 DEF CreateRide, UpdateRide
      <3> QED BY <1>1, <3>1 DEF OpenRide
    <2>3. CASE CancelRide(r2) \/ CompleteRideConflict(r2)
      BY <1>1, <2>3 DEF CancelRide, CompleteRideConflict
    <2> QED BY <1>1, <1>3, <2>1, <2>2, <2>3 DEF RideNext
  <1>4. ASSUME NEW c \in Bookings, BookingNext(c)
        PROVE  FALSE
    <2>1. CASE AcceptBooking(c) \/ MatchRequest(c)
      <3>1. \E n : ride'[r] = ride[r] \/ ride'[r] = OpenRide(n)
        BY <1>1, <2>1 DEF AcceptBooking, MatchRequest
      <3> QED BY <1>1, <3>1 DEF OpenRide
    <2>2. ASSUME NEW s, CancelBooking(c, s)
          PROVE  FALSE
      BY <1>1, <2>2 DEF CancelBooking
    <2>3. CASE UNCHANGED ride
      BY <1>1, <2>3
    <2> QED BY <1>4, <2>1, <2>2, <2>3
            DEF BookingNext, CreateBooking, RejectBooking, CancelByDriver, CancelByPassenger,
                CompleteBooking, IssueBoardingOtp, VerifyBoardingOtp, OtpExpires
  <1> QED BY <1>2, <1>3, <1>4, StepCases

\* Completing a ride collects the fare of every passenger it completes.
THEOREM FaresCollected == Spec => CompletionCollectsFares
  <1>1. IInv /\ [Next]_vars =>
          [\A b \in Bookings :
             Completes(RideOf[b]) /\ booking[b].status = "accepted"
               => booking'[b].status = "completed" /\ pay'[b].status \in {"none", "captured"}]_vars
    BY CompletesStep
  <1> QED BY <1>1, InductiveInvariant, PTL DEF Spec, CompletionCollectsFares

-----------------------------------------------------------------------------
(* RideBooking implements SeatLedger *)

LedgerStep == Ledger!Next \/ UNCHANGED Ledger!ledgerVars

\* A step that moves neither seats nor the rides' being open is a stutter.
LEMMA LedgerStutter ==
  ASSUME \A r \in Rides : LedgerState(r)' = LedgerState(r) /\ Holders(r)' = Holders(r),
         capacity' = capacity
  PROVE  LedgerStep
  BY DEF LedgerStep, ledgerState, ledgerHolders, Ledger!ledgerVars

\* How the ledger reads a change of one ride.
LEMMA LedgerOneRide ==
  ASSUME NEW r \in Rides,
         \A r2 \in Rides \ {r} : LedgerState(r2)' = LedgerState(r2) /\ Holders(r2)' = Holders(r2)
  PROVE  /\ ledgerState[r] = LedgerState(r) /\ ledgerHolders[r] = Holders(r)
         /\ ledgerState' = [ledgerState EXCEPT ![r] = LedgerState(r)']
         /\ ledgerHolders' = [ledgerHolders EXCEPT ![r] = Holders(r)']
         /\ LedgerState(r)' = LedgerState(r) => UNCHANGED ledgerState
         /\ Holders(r)' = Holders(r) => UNCHANGED ledgerHolders
  BY DEF ledgerState, ledgerHolders

\* The ledger counts holders with its own copy of Cardinality.
LEMMA SameCardinality ==
  ASSUME NEW S
  PROVE  Ledger!Cardinality(S) = Cardinality(S)
  BY DEF Cardinality, Ledger!Cardinality

LEMMA CreateRideLedger ==
  ASSUME IInv, NEW r \in Rides, NEW n \in 0..MaxSeats, CreateRide(r, n)
  PROVE  LedgerStep
  <1>1. /\ LedgerState(r) = "unpublished" /\ LedgerState(r)' = "open"
        /\ \A r2 \in Rides \ {r} : LedgerState(r2)' = LedgerState(r2)
    BY DEF CreateRide, OpenRide, LedgerState, IInv, TypeOK
  <1>2. \A r2 \in Rides : Holders(r2)' = Holders(r2)
    BY DEF CreateRide, Holders, With
  <1>3. Holders(r) = {}
    BY DEF CreateRide, IInv, SeatInv, UnpublishedRideIsEmpty, Holders, With
  <1>4. n \in 0..(MaxSeats + Cardinality(Bookings)) /\ Cardinality({}) <= n
    BY ConstantsAssumption, FS_EmptySet, FS_CardinalityType
  <1>5. /\ ledgerState[r] = "unpublished" /\ ledgerState' = [ledgerState EXCEPT ![r] = "open"]
        /\ ledgerHolders' = [ledgerHolders EXCEPT ![r] = {}]
    BY <1>1, <1>2, <1>3, LedgerOneRide
  <1>6. Ledger!Publish(r, n, {})
    BY <1>4, <1>5, SameCardinality DEF Ledger!Publish, CreateRide
  <1> QED BY <1>4, <1>6 DEF LedgerStep, Ledger!Next

LEMMA UpdateRideLedger ==
  ASSUME IInv, NEW r \in Rides, NEW n \in 0..MaxSeats, UpdateRide(r, n)
  PROVE  LedgerStep
  <1> DEFINE m == n + Cardinality(Holders(r))
  <1>1. /\ LedgerState(r) = "open"
        /\ \A r2 \in Rides : LedgerState(r2)' = LedgerState(r2)
    BY DEF UpdateRide, OpenRide, LedgerState, IInv, TypeOK
  <1>2. \A r2 \in Rides : Holders(r2)' = Holders(r2)
    BY DEF UpdateRide, Holders, With
  <1>3. /\ m \in 0..(MaxSeats + Cardinality(Bookings))
        /\ Cardinality(Holders(r)) <= m
    <2>1. Holders(r) \subseteq Bookings
      BY DEF Holders, With
    <2>2. Cardinality(Holders(r)) <= Cardinality(Bookings) /\ Cardinality(Bookings) \in Nat
      BY <2>1, ConstantsAssumption, FS_Subset, FS_CardinalityType
    <2> QED BY <2>2, HoldersFinite, ConstantsAssumption
  <1>4. /\ ledgerState[r] = "open" /\ ledgerHolders[r] = Holders(r)
        /\ UNCHANGED <<ledgerState, ledgerHolders>>
    BY <1>1, <1>2, LedgerOneRide
  <1>5. capacity' = [capacity EXCEPT ![r] = m]
    BY DEF UpdateRide
  <1> HIDE DEF m
  <1>6. Ledger!Resize(r, m)
    BY <1>3, <1>4, <1>5, SameCardinality DEF Ledger!Resize
  <1> QED BY <1>3, <1>6 DEF LedgerStep, Ledger!Next

LEMMA CancelRideLedger ==
  ASSUME IInv, NEW r \in Rides, CancelRide(r)
  PROVE  LedgerStep
  <1>1. /\ LedgerState(r) = "open" /\ LedgerState(r)' = "void"
        /\ \A r2 \in Rides \ {r} : LedgerState(r2)' = LedgerState(r2)
    BY DEF CancelRide, LedgerState, IInv, TypeOK
  <1>2. \A b \in Bookings :
          booking'[b] = IF RideOf[b] = r /\ booking[b].status \in {"pending", "accepted"}
                        THEN [booking[b] EXCEPT !.status = "cancelled_by_driver"]
                        ELSE booking[b]
    BY DEF CancelRide, With
  <1>3. /\ Holders(r)' \subseteq Holders(r)
        /\ \A r2 \in Rides \ {r} : Holders(r2)' = Holders(r2)
    BY <1>2 DEF Holders, With, IInv, TypeOK
  <1>4. /\ ledgerState[r] = "open" /\ ledgerState' = [ledgerState EXCEPT ![r] = "void"]
        /\ Holders(r)' \in SUBSET ledgerHolders[r]
        /\ ledgerHolders' = [ledgerHolders EXCEPT ![r] = Holders(r)']
    BY <1>1, <1>3, LedgerOneRide
  <1>5. Ledger!Void(r)
    BY <1>4 DEF Ledger!Void, CancelRide
  <1> QED BY <1>5 DEF LedgerStep, Ledger!Next

LEMMA CompleteRideLedger ==
  ASSUME IInv, NEW r \in Rides, CompleteRide(r)
  PROVE  LedgerStep
  <1>1. \A r2 \in Rides : LedgerState(r2)' = LedgerState(r2)
    BY DEF CompleteRide, ReadyToComplete, LedgerState, IInv, TypeOK
  <1>2. \A b \in Bookings :
          booking'[b] = IF RideOf[b] = r /\ booking[b].status = "accepted"
                        THEN [booking[b] EXCEPT !.status = "completed"] ELSE booking[b]
    BY DEF CompleteRide, Accepted, With
  <1>3. \A r2 \in Rides : Holders(r2)' = Holders(r2)
    BY <1>2 DEF Holders, With, IInv, TypeOK
  <1> QED BY <1>1, <1>3, LedgerStutter DEF CompleteRide

LEMMA AcceptBookingLedger ==
  ASSUME IInv, NEW b \in Bookings, AcceptBooking(b)
  PROVE  LedgerStep
  <1> DEFINE r == RideOf[b]
  <1>1. /\ r \in Rides /\ booking[b].status = "pending" /\ ride[r].seats >= 1
        /\ booking'[b].status = "accepted"
        /\ \A c \in Bookings \ {b} : booking'[c] = booking[c]
        /\ ride' = [ride EXCEPT ![r] = OpenRide(ride[r].seats - 1)]
        /\ capacity' = capacity
    BY ConstantsAssumption DEF AcceptBooking, SetStatus, IInv, TypeOK
  <1>2. ride[r].status \notin {"none", "cancelled"}
    BY <1>1 DEF IInv, SeatInv, CancelledRideIsEmpty, UnpublishedRideIsEmpty, With
  <1>3. LedgerState(r) = "open" /\ \A r2 \in Rides : LedgerState(r2)' = LedgerState(r2)
    BY <1>1, <1>2 DEF LedgerState, OpenRide, IInv, TypeOK
  <1>4. /\ Holders(r)' = Holders(r) \cup {b} /\ b \notin Holders(r)
        /\ \A r2 \in Rides \ {r} : Holders(r2)' = Holders(r2)
    BY <1>1 DEF Holders, With
  <1>5. Cardinality(Holders(r)) < capacity[r]
    BY <1>1, <1>2, HoldersFinite DEF IInv, SeatInv, SeatConservation, TypeOK
  <1>6. /\ ledgerState[r] = "open" /\ ledgerHolders[r] = Holders(r)
        /\ UNCHANGED ledgerState
        /\ ledgerHolders' = [ledgerHolders EXCEPT ![r] = Holders(r) \cup {b}]
    BY <1>1, <1>3, <1>4, LedgerOneRide
  <1>7. Ledger!Take(b)
    BY <1>1, <1>4, <1>5, <1>6, SameCardinality DEF Ledger!Take
  <1> QED BY <1>7 DEF LedgerStep, Ledger!Next

LEMMA CancelBookingLedger ==
  ASSUME IInv, NEW b \in Bookings,
         NEW s \in {"cancelled_by_driver", "cancelled_by_passenger"}, CancelBooking(b, s)
  PROVE  LedgerStep
  <1> DEFINE r == RideOf[b]
  <1>1. /\ r \in Rides /\ booking[b].status \in {"pending", "accepted"}
        /\ booking'[b].status = s
        /\ \A c \in Bookings \ {b} : booking'[c] = booking[c]
        /\ ride' = ride \/ \E row : row.status = "scheduled" /\ ride' = [ride EXCEPT ![r] = row]
        /\ capacity' = capacity
    BY ConstantsAssumption DEF CancelBooking, SetStatus, IInv, TypeOK
  <1>2. ride[r].status \notin {"none", "cancelled"}
    BY <1>1 DEF IInv, SeatInv, CancelledRideIsEmpty, UnpublishedRideIsEmpty, With
  <1>3. LedgerState(r) = "open" /\ \A r2 \in Rides : LedgerState(r2)' = LedgerState(r2)
    BY <1>1, <1>2 DEF LedgerState, IInv, TypeOK
  <1>4. \A r2 \in Rides \ {r} : Holders(r2)' = Holders(r2)
    BY <1>1 DEF Holders, With
  <1>5. CASE booking[b].status = "pending"
    <2>1. \A r2 \in Rides : Holders(r2)' = Holders(r2)
      BY <1>1, <1>5 DEF Holders, With
    <2> QED BY <1>1, <1>3, <2>1, LedgerStutter
  <1>6. CASE booking[b].status = "accepted"
    <2>1. Holders(r)' = Holders(r) \ {b} /\ b \in Holders(r)
      BY <1>1, <1>6 DEF Holders, With
    <2>2. Ledger!Give(b)
      BY <1>1, <1>3, <1>4, <2>1, LedgerOneRide DEF Ledger!Give
    <2> QED BY <2>2 DEF LedgerStep, Ledger!Next
  <1> QED BY <1>1, <1>5, <1>6

LEMMA MatchRequestLedger ==
  ASSUME IInv, NEW b \in Bookings, MatchRequest(b)
  PROVE  LedgerStep
  <1> DEFINE r == RideOf[b]
  <1>1. /\ r \in Rides /\ ride[r].status = "none"
        /\ booking'[b].status = "accepted"
        /\ \A c \in Bookings \ {b} : booking'[c] = booking[c]
        /\ ride' = [ride EXCEPT ![r] = OpenRide(0)]
        /\ capacity' = [capacity EXCEPT ![r] = 1]
    BY ConstantsAssumption DEF MatchRequest, SetStatus, IInv, TypeOK
  <1>2. /\ LedgerState(r) = "unpublished" /\ LedgerState(r)' = "open"
        /\ \A r2 \in Rides \ {r} : LedgerState(r2)' = LedgerState(r2)
    BY <1>1 DEF LedgerState, OpenRide, IInv, TypeOK
  <1>3. Holders(r) = {}
    BY <1>1 DEF IInv, SeatInv, UnpublishedRideIsEmpty, Holders, With
  <1>4. Holders(r)' = {b} /\ \A r2 \in Rides \ {r} : Holders(r2)' = Holders(r2)
    BY <1>1, <1>3 DEF Holders, With
  <1>5. 1 \in 0..(MaxSeats + Cardinality(Bookings)) /\ Cardinality({b}) <= 1
    <2>1. Cardinality({b}) = 1
      BY FS_Singleton
    <2>2. Cardinality(Bookings) \in Nat
      BY ConstantsAssumption, FS_CardinalityType
    <2>3. MaxSeats \in Nat \ {0}
      BY ConstantsAssumption
    <2> QED BY <2>1, <2>2, <2>3
  <1>6. /\ ledgerState[r] = "unpublished" /\ ledgerState' = [ledgerState EXCEPT ![r] = "open"]
        /\ ledgerHolders' = [ledgerHolders EXCEPT ![r] = {b}]
    BY <1>1, <1>2, <1>4, LedgerOneRide
  <1>7. Ledger!Publish(r, 1, {b})
    BY <1>1, <1>5, <1>6, SameCardinality DEF Ledger!Publish
  <1> QED BY <1>1, <1>5, <1>7 DEF LedgerStep, Ledger!Next

LEMMA BookingNextLedger ==
  ASSUME IInv, NEW b \in Bookings, BookingNext(b)
  PROVE  LedgerStep
  <1>1. CASE AcceptBooking(b)
    BY <1>1, AcceptBookingLedger
  <1>2. CASE CancelByDriver(b) \/ CancelByPassenger(b)
    BY <1>2, CancelBookingLedger DEF CancelByDriver, CancelByPassenger
  <1>3. CASE MatchRequest(b)
    BY <1>3, MatchRequestLedger
  <1>4. ASSUME ride' = ride, capacity' = capacity,
               \A c \in Bookings : booking'[c].status \in Seated <=> booking[c].status \in Seated
        PROVE  LedgerStep
    BY <1>4, SameHolders, LedgerStutter DEF LedgerState
  <1>5. CASE CreateBooking(b) \/ RejectBooking(b) \/ CompleteBooking(b)
    BY <1>4, <1>5 DEF CreateBooking, RejectBooking, CompleteBooking, SetStatus, Seated,
       IInv, TypeOK
  <1>6. CASE IssueBoardingOtp(b) \/ VerifyBoardingOtp(b) \/ OtpExpires(b)
    BY <1>4, <1>6 DEF IssueBoardingOtp, VerifyBoardingOtp, OtpExpires, IInv, TypeOK
  <1> QED BY <1>1, <1>2, <1>3, <1>5, <1>6 DEF BookingNext

LEMMA LedgerNext ==
  ASSUME IInv, [Next]_vars
  PROVE  LedgerStep
  <1>1. CASE UNCHANGED <<ride, booking, capacity>>
    BY <1>1, LedgerStutter DEF LedgerState, Holders, With
  <1>2. ASSUME NEW r \in Rides, RideNext(r)
        PROVE  LedgerStep
    <2>1. CASE CompleteRideConflict(r)
      BY <1>1, <2>1 DEF CompleteRideConflict
    <2> QED BY <1>2, <2>1, CreateRideLedger, UpdateRideLedger, CancelRideLedger,
               CompleteRideLedger DEF RideNext
  <1> QED BY <1>1, <1>2, StepCases, BookingNextLedger

LEMMA LedgerInit == Init => Ledger!Init
  BY DEF Init, Ledger!Init, ledgerState, ledgerHolders, LedgerState, Holders, With

\* RideBooking implements SeatLedger: its counter of free seats is a ledger in
\* which nobody takes a seat that is not there.
THEOREM ImplementsLedger == Spec => LedgerSpec
  <1>1. IInv /\ [Next]_vars => [Ledger!Next]_(Ledger!ledgerVars)
    BY LedgerNext DEF LedgerStep
  <1> QED BY <1>1, LedgerInit, InductiveInvariant, PTL DEF Spec, LedgerSpec, Ledger!Spec

-----------------------------------------------------------------------------
(***************************************************************************)
(* The handlers cut at their database statements (BookingSessions)         *)
(***************************************************************************)

All == Loops \cup Threads

RideRow    == [status : RideStatus, seats : Nat, active : BOOLEAN]
BookingRow == [status : BookingStatus, boarded : BOOLEAN, otp : OtpStatus]

RowsOK == ride \in [Rides -> RideRow] /\ booking \in [Bookings -> BookingRow]

StatusOp == BookingStatus \ {"none", "pending"}

\* What a handler has loaded; "idle" has loaded nothing.
LoadedOK(h) ==
  /\ h.op \in LockingOp \cup StatusOp \cup {"issue_otp", "verify_otp"}
  /\ h.ride \in Rides /\ h.row \in RideRow
  /\ DOMAIN h.bookings \subseteq Bookings
  /\ h.bookings \in [DOMAIN h.bookings -> BookingRow]
  /\ \A b \in DOMAIN h.bookings : RideOf[b] = h.ride
  /\ h.op = "accepted" => h.row.seats >= 1
  /\ h.op = "update" => h.seats \in Nat

Locks(s, r) == session[s].op \in LockingOp /\ session[s].ride = r

SessionsOK ==
  /\ session = [s \in All |-> session[s]]
  /\ \A s \in All : session[s] = Idle \/ LoadedOK(session[s])
  /\ \A s \in Threads : session[s].op \notin LockingOp

\* The row of a ride is locked once, and stays as the handler with the lock loaded it.
LocksOK ==
  /\ \A s, u \in All, r \in Rides : Locks(s, r) /\ Locks(u, r) => s = u
  /\ \A s \in All, r \in Rides : Locks(s, r) => ride[r] = session[s].row /\ ride[r].status # "none"

\* create_booking found its ride open; cancel_ride has seen everybody who waits.
DecisionsOK ==
  \A s \in All :
    LET h == session[s] IN
    /\ h.op = "create" => h.row.status = "scheduled" /\ h.row.active /\ h.row.seats > 0
    /\ h.op = "cancel_ride" =>
         /\ Slots(h.ride) \subseteq DOMAIN h.bookings
         /\ \A b \in Slots(h.ride) : booking[b].status = "pending" => h.bookings[b].status = "pending"

SessionsInv == RowsOK /\ SessionsOK /\ LocksOK /\ DecisionsOK /\ NobodyWaitsOnCancelledRide

\* NewBookingOnOpenRide of one step.
BooksOpen ==
  \A b \in Bookings :
    booking[b].status = "none" /\ booking'[b].status = "pending"
      => LET r == ride[RideOf[b]] IN r.status = "scheduled" /\ r.active /\ r.seats > 0

-----------------------------------------------------------------------------
(* Rows *)

LEMMA OpenRow ==
  ASSUME NEW n \in Nat
  PROVE  OpenRide(n) \in RideRow /\ OpenRide(n).status \in {"scheduled", "full"}
  BY DEF OpenRide, RideRow, RideStatus

LEMMA UpdateRideRow ==
  ASSUME NEW cur \in RideRow, NEW old \in RideRow, NEW new \in RideRow
  PROVE  /\ Update(cur, old, new) \in RideRow
         /\ Update(cur, old, new).status = IF new.status # old.status THEN new.status ELSE cur.status
         /\ new = old => Update(cur, old, new) = cur
  <1>1. DOMAIN cur = {"status", "seats", "active"}
    BY DEF RideRow
  <1>2. Update(cur, old, new) = [c \in {"status", "seats", "active"} |->
                                   IF new[c] # old[c] THEN new[c] ELSE cur[c]]
    BY <1>1 DEF Update
  <1> QED BY <1>2 DEF RideRow

LEMMA UpdateBookingRow ==
  ASSUME NEW cur \in BookingRow, NEW old \in BookingRow, NEW new \in BookingRow
  PROVE  /\ Update(cur, old, new) \in BookingRow
         /\ Update(cur, old, new).status = IF new.status # old.status THEN new.status ELSE cur.status
  <1>1. DOMAIN cur = {"status", "boarded", "otp"}
    BY DEF BookingRow
  <1>2. Update(cur, old, new) = [c \in {"status", "boarded", "otp"} |->
                                   IF new[c] # old[c] THEN new[c] ELSE cur[c]]
    BY <1>1 DEF Update
  <1> QED BY <1>2 DEF BookingRow

-----------------------------------------------------------------------------
(* Loading *)

LEMMA LoadedFields ==
  ASSUME NEW op, NEW r, NEW S, NEW n
  PROVE  LET h == Loaded(op, r, S, n) IN
         /\ h.op = op /\ h.ride = r /\ h.seats = n /\ h.row = ride[r]
         /\ h.bookings = [b \in S |-> booking[b]]
         /\ DOMAIN h.bookings = S /\ \A b \in S : h.bookings[b] = booking[b]
  BY DEF Loaded

LEMMA BeginStep ==
  ASSUME SessionsInv, NEW s \in All, NEW op \in LockingOp \cup StatusOp \cup {"issue_otp", "verify_otp"},
         NEW r \in Rides, NEW S \in SUBSET Slots(r), NEW n,
         Begin(s, Loaded(op, r, S, n)),
         op \in LockingOp => s \in Loops /\ ~ Locked(r) /\ ride[r].status # "none",
         op = "create" => ride[r].status = "scheduled" /\ ride[r].active /\ ride[r].seats > 0,
         op = "cancel_ride" => S = Slots(r),
         op = "accepted" => ride[r].seats >= 1,
         op = "update" => n \in Nat
  PROVE  SessionsInv' /\ BooksOpen
  <1> DEFINE h == Loaded(op, r, S, n)
  <1>1. /\ h.op = op /\ h.ride = r /\ h.seats = n /\ h.row = ride[r]
        /\ h.bookings = [b \in S |-> booking[b]]
        /\ DOMAIN h.bookings = S /\ \A b \in S : h.bookings[b] = booking[b]
    BY LoadedFields
  <1>2. UNCHANGED <<ride, booking>> /\ session' = [session EXCEPT ![s] = h]
    BY DEF Begin, vars
  <1> HIDE DEF h
  <1>3. /\ session' = [u \in All |-> session'[u]] /\ session'[s] = h
        /\ \A u \in All \ {s} : session'[u] = session[u]
    BY <1>2 DEF SessionsInv, SessionsOK
  <1>4. LoadedOK(h)
    BY <1>1 DEF SessionsInv, RowsOK, LoadedOK, Slots
  <1>5. RowsOK' /\ NobodyWaitsOnCancelledRide' /\ BooksOpen
    BY <1>2 DEF SessionsInv, RowsOK, NobodyWaitsOnCancelledRide, With, BooksOpen
  <1>6. SessionsOK'
    BY <1>1, <1>3, <1>4, SessionsAssumption DEF SessionsInv, SessionsOK, All
  <1>7. op \in LockingOp => \A u \in All : ~ Locks(u, r)
    BY DEF SessionsInv, SessionsOK, Locked, Locks, All
  <1>8. LocksOK'
    <2>1. ASSUME NEW u \in All, NEW v \in All, NEW q \in Rides, Locks(u, q)', Locks(v, q)' PROVE u = v
      BY <1>1, <1>3, <1>7, <2>1 DEF SessionsInv, LocksOK, Locks
    <2>2. ASSUME NEW u \in All, NEW q \in Rides, Locks(u, q)'
          PROVE  ride'[q] = session'[u].row /\ ride'[q].status # "none"
      BY <1>1, <1>2, <1>3, <2>2 DEF SessionsInv, LocksOK, Locks
    <2> QED BY <2>1, <2>2 DEF LocksOK
  <1>9. DecisionsOK'
    BY <1>1, <1>2, <1>3 DEF SessionsInv, DecisionsOK, Slots
  <1> QED BY <1>5, <1>6, <1>8, <1>9 DEF SessionsInv

-----------------------------------------------------------------------------
(* Committing *)

\* What a commit does to the rows, whatever the handler decided.
LEMMA CommitFacts ==
  ASSUME SessionsInv, NEW s \in All, session[s] # Idle,
         NEW newRow \in RideRow, NEW new \in [DOMAIN session[s].bookings -> BookingRow],
         Commit(s, newRow, new)
  PROVE  LET h == session[s] IN
         /\ RowsOK'
         /\ \A r \in Rides : r # h.ride => ride'[r] = ride[r]
         /\ newRow = h.row => ride' = ride
         /\ newRow # h.row => ride'[h.ride].status = ride[h.ride].status \/ ride'[h.ride].status = newRow.status
         /\ newRow.status = h.row.status => ride'[h.ride].status = ride[h.ride].status
         /\ \A b \in Bookings \ DOMAIN h.bookings : booking'[b] = booking[b]
         /\ \A b \in DOMAIN h.bookings :
              booking'[b].status = IF new[b].status # h.bookings[b].status THEN new[b].status
                                   ELSE booking[b].status
  <1> DEFINE h == session[s]
             u == Update(ride[h.ride], h.row, newRow)
  <1>1. /\ LoadedOK(h) /\ RowsOK
        /\ h.ride \in Rides /\ h.row \in RideRow /\ ride[h.ride] \in RideRow
    BY DEF SessionsInv, SessionsOK, LoadedOK, RowsOK
  <1>2. /\ ride' = [ride EXCEPT ![h.ride] = u]
        /\ booking' = [b \in Bookings |->
                         IF b \in DOMAIN h.bookings
                         THEN Update(booking[b], h.bookings[b], new[b]) ELSE booking[b]]
    BY DEF Commit
  <1>3. /\ u \in RideRow
        /\ u.status = IF newRow.status # h.row.status THEN newRow.status ELSE ride[h.ride].status
        /\ newRow = h.row => u = ride[h.ride]
    BY <1>1, UpdateRideRow
  <1>4. ASSUME NEW b \in DOMAIN h.bookings
        PROVE  /\ Update(booking[b], h.bookings[b], new[b]) \in BookingRow
               /\ Update(booking[b], h.bookings[b], new[b]).status
                    = IF new[b].status # h.bookings[b].status THEN new[b].status ELSE booking[b].status
    BY <1>1, <1>4, UpdateBookingRow DEF LoadedOK, RowsOK
  <1> HIDE DEF u, h
  <1>5. ride' \in [Rides -> RideRow] /\ ride'[h.ride] = u /\ \A r \in Rides : r # h.ride => ride'[r] = ride[r]
    BY <1>1, <1>2, <1>3 DEF RowsOK
  <1>6. newRow = h.row => ride' = ride
    BY <1>1, <1>2, <1>3 DEF RowsOK
  <1>7. DOMAIN h.bookings \subseteq Bookings
    BY <1>1 DEF LoadedOK
  <1>8. /\ booking' \in [Bookings -> BookingRow]
        /\ \A b \in Bookings \ DOMAIN h.bookings : booking'[b] = booking[b]
        /\ \A b \in DOMAIN h.bookings :
             booking'[b].status = IF new[b].status # h.bookings[b].status THEN new[b].status
                                  ELSE booking[b].status
    BY <1>1, <1>2, <1>4, <1>7 DEF RowsOK
  <1> QED BY <1>3, <1>5, <1>6, <1>8 DEF RowsOK, h

\* A step that ends the handler of s, leaves locked rows of others alone, makes
\* nobody wait but by create_booking and cancels rides by cancel_ride only.
LEMMA EndKept ==
  ASSUME SessionsInv, NEW s \in All, session' = [session EXCEPT ![s] = Idle], RowsOK',
         \A r \in Rides : ride'[r] = ride[r] \/ (session[s] # Idle /\ session[s].ride = r),
         \/ ride' = ride
         \/ session[s].op \in LockingOp
         \/ ~ Locked(session[s].ride),
         \A b \in Bookings : booking'[b].status = "pending" =>
            booking[b].status = "pending" \/ (session[s].op = "create" /\ RideOf[b] = session[s].ride),
         \A r \in Rides : ride'[r].status = "cancelled" =>
            \/ ride[r].status = "cancelled"
            \/ \A b \in Slots(r) : booking'[b].status # "pending"
  PROVE  SessionsInv' /\ BooksOpen
  <1> DEFINE h == session[s]
  <1>1. /\ session' = [u \in All |-> session'[u]] /\ session'[s] = Idle
        /\ \A u \in All \ {s} : session'[u] = session[u]
    BY DEF SessionsInv, SessionsOK
  <1>2. Idle.op \notin LockingOp /\ Idle.op = "idle"
    BY DEF Idle, LockingOp
  <1>3. SessionsOK'
    BY <1>1, <1>2 DEF SessionsInv, SessionsOK, All
  <1>4. h # Idle => LoadedOK(h) /\ h.ride \in Rides
    BY DEF SessionsInv, SessionsOK, LoadedOK
  <1>5. ASSUME NEW u \in All, NEW r \in Rides, Locks(u, r)'
        PROVE  /\ u # s /\ Locks(u, r) /\ ride'[r] = ride[r]
               /\ ~ (h.op \in LockingOp /\ h.ride = r)
    <2>1. u # s /\ Locks(u, r)
      BY <1>1, <1>2, <1>5 DEF Locks
    <2>2. ~ (h.op \in LockingOp /\ h.ride = r)
      BY <2>1 DEF SessionsInv, LocksOK, Locks
    <2>3. Locked(r)
      BY <2>1 DEF SessionsInv, SessionsOK, Locked, Locks, All
    <2> QED BY <2>1, <2>2, <2>3
  <1>6. LocksOK'
    <2>1. ASSUME NEW u \in All, NEW v \in All, NEW r \in Rides, Locks(u, r)', Locks(v, r)' PROVE u = v
      BY <1>5, <2>1 DEF SessionsInv, LocksOK
    <2>2. ASSUME NEW u \in All, NEW r \in Rides, Locks(u, r)'
          PROVE  ride'[r] = session'[u].row /\ ride'[r].status # "none"
      BY <1>1, <1>5, <2>2 DEF SessionsInv, LocksOK
    <2> QED BY <2>1, <2>2 DEF LocksOK
  <1>7. DecisionsOK'
    <2> SUFFICES ASSUME NEW u \in All, u # s, session'[u] = session[u], session[u] # Idle,
                        session[u].op = "cancel_ride",
                        NEW b \in Slots(session[u].ride), booking'[b].status = "pending"
                 PROVE  booking[b].status = "pending"
      BY <1>1, <1>2 DEF SessionsInv, DecisionsOK, Slots
    <2>1. session[u].ride \in Rides /\ Locks(u, session[u].ride)'
      BY DEF SessionsInv, SessionsOK, LoadedOK, Locks, LockingOp
    <2>2. h.op # "create" \/ RideOf[b] # h.ride
      BY <1>5, <2>1 DEF Slots, LockingOp
    <2> QED BY <2>2 DEF Slots
  <1>8. ASSUME h.op = "create" PROVE h.ride \in Rides /\ LET r == ride[h.ride] IN
                                       r.status = "scheduled" /\ r.active /\ r.seats > 0
    <2>1. h.ride \in Rides /\ Locks(s, h.ride)
      BY <1>2, <1>4, <1>8 DEF Locks, LockingOp
    <2> QED BY <1>8, <2>1 DEF SessionsInv, LocksOK, DecisionsOK
  <1>9. NobodyWaitsOnCancelledRide'
    <2> SUFFICES ASSUME NEW r \in Rides, ride'[r].status = "cancelled",
                        NEW b \in Bookings, RideOf[b] = r, booking'[b].status = "pending"
                 PROVE  FALSE
      BY DEF NobodyWaitsOnCancelledRide, With
    <2>1. ride[r].status = "cancelled"
      BY DEF Slots
    <2>2. booking[b].status # "pending"
      BY <2>1 DEF SessionsInv, NobodyWaitsOnCancelledRide, With
    <2> QED BY <1>8, <2>1, <2>2
  <1>10. BooksOpen
    BY <1>8 DEF BooksOpen
  <1> QED BY <1>3, <1>6, <1>7, <1>9, <1>10 DEF SessionsInv

LEMMA StatusRows ==
  ASSUME NEW S, NEW old \in [S -> BookingRow], NEW from, NEW to \in BookingStatus
  PROVE  /\ WithStatus(old, from, to) \in [S -> BookingRow]
         /\ \A b \in S : WithStatus(old, from, to)[b].status
                           = IF old[b].status \in from THEN to ELSE old[b].status
  BY DEF WithStatus, BookingRow

\* A handler that writes rows: the ride as newRow, the bookings in from as to.
LEMMA WriteStep ==
  ASSUME SessionsInv, NEW s \in All, session[s] # Idle, NEW newRow \in RideRow,
         NEW new \in [DOMAIN session[s].bookings -> BookingRow],
         Commit(s, newRow, new),
         \A b \in DOMAIN session[s].bookings : new[b].status = "pending" =>
            session[s].bookings[b].status = "pending" \/ session[s].op = "create",
         newRow.status = "cancelled" =>
            \/ newRow.status = session[s].row.status
            \/ /\ session[s].op = "cancel_ride"
               /\ \A b \in DOMAIN session[s].bookings : new[b].status # "pending"
  PROVE  SessionsInv' /\ BooksOpen
  <1> DEFINE h == session[s]
  <1>1. /\ RowsOK'
        /\ \A r \in Rides : r # h.ride => ride'[r] = ride[r]
        /\ newRow = h.row => ride' = ride
        /\ newRow # h.row => ride'[h.ride].status = ride[h.ride].status \/ ride'[h.ride].status = newRow.status
        /\ newRow.status = h.row.status => ride'[h.ride].status = ride[h.ride].status
        /\ \A b \in Bookings \ DOMAIN h.bookings : booking'[b] = booking[b]
        /\ \A b \in DOMAIN h.bookings :
             booking'[b].status = IF new[b].status # h.bookings[b].status THEN new[b].status
                                  ELSE booking[b].status
    BY CommitFacts
  <1>2. LoadedOK(h) /\ session' = [session EXCEPT ![s] = Idle]
    BY DEF SessionsInv, SessionsOK, Commit
  <1>3. ride' = ride \/ h.op \in LockingOp \/ ~ Locked(h.ride)
    BY <1>1 DEF Commit
  <1>4. ASSUME NEW b \in Bookings, booking'[b].status = "pending"
        PROVE  booking[b].status = "pending" \/ (h.op = "create" /\ RideOf[b] = h.ride)
    BY <1>1, <1>2, <1>4 DEF LoadedOK
  <1>5. ASSUME NEW r \in Rides, ride'[r].status = "cancelled", ride[r].status # "cancelled"
        PROVE  \A b \in Slots(r) : booking'[b].status # "pending"
    <2>1. /\ r = h.ride /\ newRow.status = "cancelled" /\ newRow.status # h.row.status
          /\ h.op = "cancel_ride" /\ \A b \in DOMAIN h.bookings : new[b].status # "pending"
      BY <1>1, <1>5
    <2>2. /\ Slots(r) \subseteq DOMAIN h.bookings
          /\ \A b \in Slots(r) : booking[b].status = "pending" => h.bookings[b].status = "pending"
      BY <2>1 DEF SessionsInv, DecisionsOK
    <2> QED BY <1>1, <2>1, <2>2
  <1> QED BY <1>1, <1>2, <1>3, <1>4, <1>5, EndKept

LEMMA CommitSteps ==
  ASSUME SessionsInv, NEW s \in All,
         \/ CommitCreateBooking(s) \/ CommitUpdateRide(s) \/ CommitCancelRide(s)
         \/ CommitCompleteRide(s) \/ CommitUpdateStatus(s) \/ CommitVerifyOtp(s)
  PROVE  SessionsInv' /\ BooksOpen
  <1> DEFINE h == session[s]
             D == DOMAIN h.bookings
  <1>1. h.op # "idle"
    BY DEF CommitCreateBooking, CommitUpdateRide, CommitCancelRide, CommitCompleteRide,
           CommitUpdateStatus, CommitVerifyOtp, BookingStatus
  <1>2. h # Idle /\ LoadedOK(h)
    BY <1>1 DEF Idle, SessionsInv, SessionsOK
  <1>3. h.row \in RideRow /\ h.bookings \in [D -> BookingRow]
    BY <1>2 DEF LoadedOK
  <1>4. CASE CommitCreateBooking(s)
    <2>1. WithStatus(h.bookings, {"none"}, "pending") \in [D -> BookingRow]
      BY <1>3, StatusRows DEF BookingStatus
    <2> QED BY <1>2, <1>3, <1>4, <2>1, WriteStep DEF CommitCreateBooking
  <1>5. CASE CommitUpdateRide(s)
    <2>1. OpenRide(h.seats) \in RideRow /\ OpenRide(h.seats).status \in {"scheduled", "full"}
      BY <1>2, <1>5, OpenRow DEF LoadedOK, CommitUpdateRide
    <2> QED BY <1>2, <1>3, <1>5, <2>1, WriteStep DEF CommitUpdateRide
  <1>6. CASE CommitCancelRide(s)
    <2> DEFINE row == [h.row EXCEPT !.status = "cancelled", !.active = FALSE]
               new == WithStatus(h.bookings, {"pending", "accepted"}, "cancelled_by_driver")
    <2>1. row \in RideRow
      BY <1>3 DEF RideRow, RideStatus
    <2>2. new \in [D -> BookingRow] /\ \A b \in D : new[b].status # "pending"
      BY <1>3, StatusRows DEF BookingStatus
    <2>3. h.op = "cancel_ride" /\ Commit(s, row, new)
      BY <1>6 DEF CommitCancelRide
    <2> HIDE DEF row, new
    <2> QED BY <1>2, <2>1, <2>2, <2>3, WriteStep
  <1>7. CASE CommitCompleteRide(s)
    <2> DEFINE row == [h.row EXCEPT !.status = "completed", !.active = FALSE]
               new == WithStatus(h.bookings, {"accepted"}, "completed")
    <2>1. row \in RideRow /\ row.status = "completed"
      BY <1>3 DEF RideRow, RideStatus
    <2>2. new \in [D -> BookingRow] /\ \A b \in D : new[b].status = "pending" => h.bookings[b].status = "pending"
      BY <1>3, StatusRows DEF BookingStatus
    <2>3. Commit(s, row, new)
      BY <1>7 DEF CommitCompleteRide
    <2> HIDE DEF row, new
    <2> QED BY <1>2, <2>1, <2>2, <2>3, WriteStep
  <1>8. CASE CommitUpdateStatus(s)
    <2> DEFINE row == NewRow(h)
               new == WithStatus(h.bookings, {"pending", "accepted"}, h.op)
    <2>1. h.op \in BookingStatus /\ h.op # "pending" /\ Commit(s, row, new)
      BY <1>8 DEF CommitUpdateStatus
    <2>2. new \in [D -> BookingRow] /\ \A b \in D : new[b].status # "pending"
      BY <1>3, <2>1, StatusRows
    <2>3. row \in RideRow /\ (row.status = "cancelled" => row.status = h.row.status)
      <3>1. h.row.seats \in Nat
        BY <1>3 DEF RideRow
      <3>2. CASE h.op = "accepted"
        <4>1. h.row.seats - 1 \in Nat
          BY <1>2, <3>1, <3>2 DEF LoadedOK
        <4>2. row = OpenRide(h.row.seats - 1)
          BY <3>2 DEF NewRow
        <4> QED BY <4>1, <4>2, OpenRow
      <3>3. CASE h.op # "accepted"
        <4>1. row = h.row \/ row = [status |-> "scheduled", seats |-> h.row.seats + 1, active |-> TRUE]
          BY <3>3 DEF NewRow
        <4>2. h.row.seats + 1 \in Nat
          BY <3>1
        <4> DEFINE more == [status |-> "scheduled", seats |-> h.row.seats + 1, active |-> TRUE]
        <4>3. more \in RideRow /\ more.status = "scheduled"
          BY <4>2 DEF RideRow, RideStatus
        <4> HIDE DEF more, row
        <4>4. row = h.row \/ row = more
          BY <4>1 DEF more
        <4> QED BY <1>3, <4>3, <4>4
      <3> QED BY <3>2, <3>3
    <2> HIDE DEF row, new
    <2> QED BY <1>2, <2>1, <2>2, <2>3, WriteStep
  <1>9. CASE CommitVerifyOtp(s)
    <2> DEFINE new == [b \in D |-> [h.bookings[b] EXCEPT !.boarded = TRUE, !.otp = "none"]]
    <2>1. /\ new \in [D -> BookingRow]
          /\ \A b \in D : new[b].status = h.bookings[b].status
      BY <1>3 DEF BookingRow, OtpStatus
    <2>2. Commit(s, h.row, new)
      BY <1>9 DEF CommitVerifyOtp
    <2> HIDE DEF new
    <2> QED BY <1>2, <1>3, <2>1, <2>2, WriteStep
  <1> QED BY <1>4, <1>5, <1>6, <1>7, <1>8, <1>9

LEMMA IssueStep ==
  ASSUME SessionsInv, NEW s \in All, CommitIssueOtp(s)
  PROVE  SessionsInv' /\ BooksOpen
  <1> DEFINE h == session[s]
  <1>1. /\ h.op = "issue_otp" /\ ride' = ride /\ session' = [session EXCEPT ![s] = Idle]
        /\ booking' = [b \in Bookings |-> IF b \in DOMAIN h.bookings
                                          THEN [booking[b] EXCEPT !.otp = "live"] ELSE booking[b]]
    BY DEF CommitIssueOtp
  <1>2. \A b \in Bookings : booking'[b] \in BookingRow /\ booking'[b].status = booking[b].status
    <2> SUFFICES ASSUME NEW b \in Bookings
                 PROVE  booking'[b] \in BookingRow /\ booking'[b].status = booking[b].status
      OBVIOUS
    <2>1. booking[b] \in BookingRow
      BY DEF SessionsInv, RowsOK
    <2>2. booking'[b] = [booking[b] EXCEPT !.otp = "live"] \/ booking'[b] = booking[b]
      BY <1>1
    <2> QED BY <2>1, <2>2 DEF BookingRow, OtpStatus
  <1>3. RowsOK'
    BY <1>1, <1>2 DEF SessionsInv, RowsOK
  <1> QED BY <1>1, <1>2, <1>3, EndKept

-----------------------------------------------------------------------------
(* Rows of other tables and rides that nobody has loaded *)

LEMMA ElsewhereStep ==
  ASSUME SessionsInv, Elsewhere
  PROVE  SessionsInv' /\ BooksOpen
  <1>1. UNCHANGED session
    BY DEF Elsewhere
  <1>2. /\ RowsOK'
        /\ \A r \in Rides : \/ ride'[r] = ride[r]
                            \/ ride[r].status = "none" /\ ride'[r].status # "cancelled"
        /\ \A b \in Bookings : booking'[b].status = "pending" => booking[b].status = "pending"
    <2>1. CASE \E r \in Rides, n \in 1..MaxSeats : CreateRide(r, n)
      <3>1. PICK r \in Rides, n \in 1..MaxSeats : CreateRide(r, n)
        BY <2>1
      <3>2. OpenRide(n) \in RideRow /\ OpenRide(n).status \in {"scheduled", "full"}
        BY OpenRow, ConstantsAssumption
      <3> QED BY <3>1, <3>2 DEF CreateRide, SessionsInv, RowsOK
    <2>2. CASE \E b \in Bookings : MatchRequest(b)
      <3>1. PICK b \in Bookings : MatchRequest(b)
        BY <2>2
      <3>2. OpenRide(0) \in RideRow /\ OpenRide(0).status \in {"scheduled", "full"} /\ RideOf[b] \in Rides
        BY OpenRow, ConstantsAssumption
      <3>3. booking' \in [Bookings -> BookingRow] /\ \A c \in Bookings : booking'[c].status \in {booking[c].status, "accepted"}
        BY <3>1 DEF MatchRequest, SetStatus, SessionsInv, RowsOK, BookingRow, BookingStatus
      <3> QED BY <3>1, <3>2, <3>3 DEF MatchRequest, SessionsInv, RowsOK
    <2>3. CASE \E b \in Bookings : OtpExpires(b)
      <3>1. PICK b \in Bookings : OtpExpires(b)
        BY <2>3
      <3>2. booking' \in [Bookings -> BookingRow] /\ \A c \in Bookings : booking'[c].status = booking[c].status
        BY <3>1 DEF OtpExpires, SessionsInv, RowsOK, BookingRow, OtpStatus
      <3> QED BY <3>1, <3>2 DEF OtpExpires, SessionsInv, RowsOK
    <2> QED BY <2>1, <2>2, <2>3 DEF Elsewhere
  <1>3. LocksOK'
    BY <1>1, <1>2 DEF SessionsInv, LocksOK, Locks
  <1>4. DecisionsOK' /\ SessionsOK'
    BY <1>1, <1>2 DEF SessionsInv, DecisionsOK, SessionsOK, Slots
  <1>5. NobodyWaitsOnCancelledRide' /\ BooksOpen
    BY <1>2 DEF SessionsInv, NobodyWaitsOnCancelledRide, With, BooksOpen
  <1> QED BY <1>2, <1>3, <1>4, <1>5 DEF SessionsInv

-----------------------------------------------------------------------------
(* Handlers that begin *)

LEMMA SlotOf ==
  ASSUME NEW b \in Bookings
  PROVE  RideOf[b] \in Rides /\ {b} \in SUBSET Slots(RideOf[b])
  BY ConstantsAssumption DEF Slots

\* A handler that takes no lock and loads one booking.
LEMMA BookingOpBegins ==
  ASSUME SessionsInv, NEW s \in All, NEW b \in Bookings,
         NEW op \in StatusOp \cup {"issue_otp", "verify_otp"}, BeginBookingOp(s, op, b),
         op = "accepted" => ride[RideOf[b]].seats >= 1
  PROVE  SessionsInv' /\ BooksOpen
  <1>1. op \notin LockingOp
    BY DEF LockingOp, StatusOp, BookingStatus
  <1>2. Begin(s, Loaded(op, RideOf[b], {b}, 0))
    BY DEF BeginBookingOp
  <1>3. op # "create" /\ op # "cancel_ride" /\ op # "update"
    BY <1>1 DEF LockingOp
  <1> QED BY <1>1, <1>2, <1>3, SlotOf, BeginStep

LEMMA LoopBegins ==
  ASSUME SessionsInv, NEW s \in Loops,
         \/ \E b \in Bookings : \/ BeginCreateBooking(s, b) \/ BeginAccept(s, b)
                                \/ BeginReject(s, b) \/ BeginCancel(s, b) \/ BeginComplete(s, b)
         \/ \E r \in Rides : \/ \E n \in 0..MaxSeats : BeginUpdateRide(s, r, n)
                             \/ BeginCancelRide(s, r) \/ BeginCompleteRide(s, r)
  PROVE  SessionsInv' /\ BooksOpen
  <1>1. s \in All
    BY DEF All
  <1>2. ASSUME NEW b \in Bookings, BeginCreateBooking(s, b) PROVE SessionsInv' /\ BooksOpen
    <2>1. /\ Begin(s, Loaded("create", RideOf[b], {b}, 0)) /\ ~ Locked(RideOf[b])
          /\ ride[RideOf[b]].status = "scheduled" /\ ride[RideOf[b]].active /\ ride[RideOf[b]].seats >= 1
      BY <1>2 DEF BeginCreateBooking, BeginLocking
    <2>2. ride[RideOf[b]].seats \in Nat
      BY SlotOf DEF SessionsInv, RowsOK, RideRow
    <2>3. ride[RideOf[b]].seats > 0 /\ ride[RideOf[b]].status # "none"
      BY <2>1, <2>2
    <2>4. "create" \in LockingOp /\ RideOf[b] \in Rides /\ {b} \in SUBSET Slots(RideOf[b])
      BY SlotOf DEF LockingOp
    <2> HIDE DEF LockingOp
    <2> QED BY <1>1, <2>1, <2>3, <2>4, BeginStep
  <1>3. ASSUME NEW b \in Bookings,
               BeginAccept(s, b) \/ BeginReject(s, b) \/ BeginCancel(s, b) \/ BeginComplete(s, b)
        PROVE  SessionsInv' /\ BooksOpen
    BY <1>1, <1>3, BookingOpBegins
       DEF BeginAccept, BeginReject, BeginCancel, BeginComplete, StatusOp, BookingStatus
  <1>4. ASSUME NEW r \in Rides, NEW n \in 0..MaxSeats, BeginUpdateRide(s, r, n) PROVE SessionsInv' /\ BooksOpen
    <2>1. Begin(s, Loaded("update", r, Slots(r), n)) /\ ~ Locked(r) /\ ride[r].status # "none" /\ n \in Nat
      BY <1>4, ConstantsAssumption DEF BeginUpdateRide, BeginLocking
    <2> QED BY <1>1, <2>1, BeginStep DEF LockingOp
  <1>5. ASSUME NEW r \in Rides, BeginCancelRide(s, r) PROVE SessionsInv' /\ BooksOpen
    <2>1. Begin(s, Loaded("cancel_ride", r, Slots(r), 0)) /\ ~ Locked(r) /\ ride[r].status # "none"
      BY <1>5 DEF BeginCancelRide, BeginLocking
    <2> QED BY <1>1, <2>1, BeginStep DEF LockingOp
  <1>6. ASSUME NEW r \in Rides, BeginCompleteRide(s, r) PROVE SessionsInv' /\ BooksOpen
    <2>1. Begin(s, Loaded("complete_ride", r, Slots(r), 0)) /\ ~ Locked(r) /\ ride[r].status # "none"
      BY <1>6 DEF BeginCompleteRide, BeginLocking, ReadyToComplete
    <2> QED BY <1>1, <2>1, BeginStep DEF LockingOp
  <1> QED BY <1>2, <1>3, <1>4, <1>5, <1>6

-----------------------------------------------------------------------------
(* Theorems *)

LEMMA Inductive ==
  ASSUME SessionsInv, [SessionsNext]_sessionVars
  PROVE  SessionsInv' /\ [BooksOpen]_sessionVars
  <1>1. CASE UNCHANGED sessionVars
    BY <1>1 DEF sessionVars, SessionsInv, RowsOK, SessionsOK, LocksOK, Locks, DecisionsOK,
                NobodyWaitsOnCancelledRide, With
  <1>2. CASE Elsewhere
    BY <1>2, ElsewhereStep
  <1>3. ASSUME NEW s \in Loops, LoopNext(s) PROVE SessionsInv' /\ BooksOpen
    BY <1>3, LoopBegins, CommitSteps DEF LoopNext, All
  <1>4. ASSUME NEW s \in Threads, ThreadNext(s) PROVE SessionsInv' /\ BooksOpen
    <2>1. s \in All
      BY DEF All
    <2> QED BY <1>4, <2>1, BookingOpBegins, IssueStep, CommitSteps DEF ThreadNext, BeginIssueOtp, BeginVerifyOtp
  <1> QED BY <1>1, <1>2, <1>3, <1>4 DEF SessionsNext

LEMMA InitOK == SessionsInit => SessionsInv
  <1> SUFFICES ASSUME SessionsInit PROVE SessionsInv
    OBVIOUS
  <1>1. Idle.op = "idle" /\ "idle" \notin LockingOp
    BY DEF Idle, LockingOp
  <1>2. RowsOK /\ NobodyWaitsOnCancelledRide
    BY DEF SessionsInit, Init, RowsOK, RideRow, RideStatus, BookingRow, BookingStatus, OtpStatus,
           NobodyWaitsOnCancelledRide
  <1>3. SessionsOK
    BY <1>1 DEF SessionsInit, SessionsOK, All
  <1>4. LocksOK /\ DecisionsOK
    BY <1>1 DEF SessionsInit, LocksOK, Locks, DecisionsOK, All, LockingOp
  <1> QED BY <1>2, <1>3, <1>4 DEF SessionsInv

\* One handler at a time holds the lock of a ride, whose row stays as it loaded it
\* (get_by_id_for_update), whatever the handlers without a lock write meanwhile.
THEOREM LocksHold == SessionsSpec => []SessionsInv
  <1>1. SessionsInv /\ [SessionsNext]_sessionVars => SessionsInv'
    BY Inductive
  <1> QED BY <1>1, InitOK, PTL DEF SessionsSpec

\* cancel_ride leaves no pending booking, whatever the other processes book.
THEOREM NobodyWaits == SessionsSpec => []NobodyWaitsOnCancelledRide
  <1>1. SessionsInv => NobodyWaitsOnCancelledRide
    BY DEF SessionsInv
  <1> QED BY <1>1, LocksHold, PTL

\* create_booking commits on a ride that is open at that moment.
THEOREM NewBookingsFit == SessionsSpec => NewBookingOnOpenRide
  <1>1. SessionsInv /\ [SessionsNext]_sessionVars => [BooksOpen]_sessionVars
    BY Inductive
  <1> QED BY <1>1, LocksHold, PTL DEF SessionsSpec, NewBookingOnOpenRide, BooksOpen

-----------------------------------------------------------------------------
(***************************************************************************)
(* One process: its handlers are atomic                                    *)
(***************************************************************************)

\* One API process runs one event loop.
OneProcess == \A s, u \in Loops : s = u

\* What the handler decided is still what RideBooking would allow.
StillDue(h) ==
  LET r == h.ride IN
  /\ h.op \in {"update", "cancel_ride", "complete_ride"} =>
       ride[r].status \in {"scheduled", "full"} /\ DOMAIN h.bookings = Slots(r)
  /\ h.op = "update" => h.seats \in 0..MaxSeats /\ h.seats >= Cardinality(Accepted(r))
  /\ h.op = "complete_ride" => \A b \in Accepted(r) : booking[b].boarded
  /\ h.op \in {"create"} \cup StatusOp =>
       \E b \in Bookings :
         /\ DOMAIN h.bookings = {b} /\ r = RideOf[b]
         /\ h.op = "create" => /\ booking[b].status = "none"
                               /\ ride[r].status = "scheduled" /\ ride[r].active /\ ride[r].seats >= 1
         /\ h.op = "accepted" => booking[b].status = "pending" /\ ride[r].seats >= 1
         /\ h.op = "rejected" => booking[b].status = "pending"
         /\ h.op \in {"cancelled_by_driver", "cancelled_by_passenger"}
              => booking[b].status \in {"pending", "accepted"}
         /\ h.op = "completed" => booking[b].status = "accepted" /\ booking[b].boarded

\* Nobody else writes the ride or the statuses a handler of the loop has loaded.
LoopSees(s) ==
  LET h == session[s] IN
  h # Idle => /\ ride[h.ride] = h.row /\ h.row.status # "none"
              /\ \A b \in DOMAIN h.bookings : booking[b].status = h.bookings[b].status
              /\ StillDue(h)

\* Passengers pay in cash: no capture or refund has anything to do.
NoMoney == pay = [b \in Bookings |-> NoPayment]

OneInv == SessionsInv /\ IInv /\ NoMoney /\ \A s \in Loops : LoopSees(s)

\* A step that leaves published rides and the statuses of their bookings alone.
LeavesPublished ==
  \A r \in Rides : ride[r].status # "none" =>
    /\ ride'[r] = ride[r]
    /\ \A b \in Slots(r) : /\ booking'[b].status = booking[b].status
                           /\ booking[b].boarded => booking'[b].boarded

LEMMA SameSight ==
  ASSUME SessionsInv, NEW s \in Loops, LoopSees(s), session'[s] = session[s], LeavesPublished
  PROVE  LoopSees(s)'
  <1> DEFINE h == session[s]
  <1> SUFFICES ASSUME h # Idle PROVE LoopSees(s)'
    BY DEF LoopSees
  <1>1. LoadedOK(h) /\ h.ride \in Rides /\ DOMAIN h.bookings \subseteq Slots(h.ride)
    BY DEF SessionsInv, SessionsOK, All, LoadedOK, Slots
  <1>2. /\ ride[h.ride] = h.row /\ h.row.status # "none" /\ StillDue(h)
        /\ \A b \in DOMAIN h.bookings : booking[b].status = h.bookings[b].status
    BY DEF LoopSees
  <1>3. /\ ride'[h.ride] = ride[h.ride]
        /\ \A b \in Slots(h.ride) : /\ booking'[b].status = booking[b].status
                                    /\ booking[b].boarded => booking'[b].boarded
    BY <1>1, <1>2 DEF LeavesPublished
  <1>4. Accepted(h.ride)' = Accepted(h.ride) /\ Accepted(h.ride) \subseteq Slots(h.ride)
    BY <1>3 DEF Accepted, With, Slots
  <1>5. StillDue(h)'
    BY <1>1, <1>2, <1>3, <1>4 DEF StillDue
  <1> QED BY <1>1, <1>2, <1>3, <1>5 DEF LoopSees

-----------------------------------------------------------------------------
(* What the threads commit *)

LEMMA RowsAreTyped ==
  ASSUME IInv
  PROVE  /\ ride \in [Rides -> RideRow] /\ booking \in [Bookings -> BookingRow]
         /\ capacity \in [Rides -> Nat] /\ pay \in [Bookings -> Entry]
  BY DEF IInv, TypeOK, RideRow, BookingRow

LEMMA BoardingKeeps ==
  ASSUME IInv, BoardingRecorded, RowsOK'
  PROVE  IInv' /\ LeavesPublished
  <1>1. UNCHANGED <<ride, pay, capacity>>
    BY DEF BoardingRecorded
  <1>2. TypeOK'
    BY <1>1, RowsAreTyped DEF TypeOK, RowsOK, RideRow, BookingRow
  <1>3. MoneyOK'
    BY <1>1 DEF IInv, MoneyOK
  <1>4. \A b \in Bookings : /\ booking'[b].status = booking[b].status
                            /\ booking[b].boarded => booking'[b].boarded
    BY DEF BoardingRecorded
  <1>5. \A r \in Rides : Holders(r)' = Holders(r) /\ With(r, {"pending", "accepted"})' = With(r, {"pending", "accepted"})
    BY <1>4 DEF Holders, With
  <1>6. SeatConservation' /\ RideFlagsAgree' /\ CancelledRideIsEmpty'
    BY <1>1, <1>5 DEF IInv, SeatInv, SeatConservation, RideFlagsAgree, CancelledRideIsEmpty
  <1>7. BoardedBeforeCompleted' /\ UnpublishedRideIsEmpty'
    BY <1>1, <1>4 DEF IInv, SeatInv, BoardedBeforeCompleted, UnpublishedRideIsEmpty
  <1>8. LeavesPublished
    BY <1>1, <1>4 DEF LeavesPublished, Slots
  <1> QED BY <1>2, <1>3, <1>6, <1>7, <1>8 DEF IInv, SeatInv

LEMMA IssueRecords ==
  ASSUME IInv, NEW s \in Threads, CommitIssueOtp(s)
  PROVE  BoardingRecorded
  <1>1. \A b \in Bookings : booking'[b] = booking[b] \/ booking'[b] = [booking[b] EXCEPT !.otp = "live"]
    BY DEF CommitIssueOtp
  <1>2. \A b \in Bookings : booking'[b].status = booking[b].status /\ booking'[b].boarded = booking[b].boarded
    BY <1>1, RowsAreTyped DEF BookingRow
  <1> QED BY <1>2 DEF CommitIssueOtp, BoardingRecorded

LEMMA BoardedKept ==
  ASSUME NEW cur \in BookingRow, NEW old \in BookingRow, NEW new \in BookingRow, new.boarded
  PROVE  cur.boarded => Update(cur, old, new).boarded
  <1>1. Update(cur, old, new) = [c \in {"status", "boarded", "otp"} |-> IF new[c] # old[c] THEN new[c] ELSE cur[c]]
    BY DEF Update, BookingRow
  <1> QED BY <1>1 DEF BookingRow

LEMMA VerifyRecords ==
  ASSUME SessionsInv, IInv, NEW s \in Threads, CommitVerifyOtp(s)
  PROVE  BoardingRecorded
  <1> DEFINE h == session[s]
             D == DOMAIN h.bookings
             new == [b \in D |-> [h.bookings[b] EXCEPT !.boarded = TRUE, !.otp = "none"]]
  <1>0. s \in All /\ h.op = "verify_otp"
    BY DEF CommitVerifyOtp, All
  <1>1. s \in All /\ h # Idle
    BY <1>0 DEF Idle
  <1>2. LoadedOK(h)
    BY <1>1 DEF SessionsInv, SessionsOK
  <1>3. h.row \in RideRow /\ h.bookings \in [D -> BookingRow] /\ D \subseteq Bookings
    BY <1>2 DEF LoadedOK
  <1>4. /\ new \in [D -> BookingRow]
        /\ \A b \in D : new[b].status = h.bookings[b].status /\ new[b].boarded
    BY <1>3 DEF BookingRow, OtpStatus
  <1>5. Commit(s, h.row, new) /\ UNCHANGED capacity
    BY DEF CommitVerifyOtp
  <1> HIDE DEF new
  <1>6. /\ ride' = ride
        /\ \A b \in Bookings \ D : booking'[b] = booking[b]
        /\ \A b \in D : booking'[b].status = booking[b].status
    BY <1>1, <1>3, <1>4, <1>5, CommitFacts
  <1>7. /\ UNCHANGED pay
        /\ \A b \in D : booking'[b] = Update(booking[b], h.bookings[b], new[b])
    BY <1>3, <1>5 DEF Commit
  <1>8. \A b \in D : booking[b].boarded => booking'[b].boarded
    BY <1>3, <1>4, <1>7, BoardedKept, RowsAreTyped
  <1> HIDE DEF h, D
  <1> QED BY <1>5, <1>6, <1>7, <1>8 DEF BoardingRecorded

-----------------------------------------------------------------------------
(* What the loop commits *)

LEMMA WholeRow ==
  ASSUME NEW old \in RideRow, NEW new \in RideRow
  PROVE  Update(old, old, new) = new
  <1>1. Update(old, old, new) = [c \in {"status", "seats", "active"} |-> IF new[c] # old[c] THEN new[c] ELSE old[c]]
    BY DEF Update, RideRow
  <1>2. new = [c \in {"status", "seats", "active"} |-> new[c]]
    BY DEF RideRow
  <1> QED BY <1>1, <1>2

LEMMA StatusOnly ==
  ASSUME NEW cur \in BookingRow, NEW old \in BookingRow, cur.status = old.status,
         NEW to \in BookingStatus
  PROVE  /\ Update(cur, old, [old EXCEPT !.status = to]) = [cur EXCEPT !.status = to]
         /\ Update(cur, old, old) = cur
  <1> DEFINE C == {"status", "boarded", "otp"}
             new == [old EXCEPT !.status = to]
             got == [cur EXCEPT !.status = to]
  <1>1. cur = [c \in C |-> cur[c]] /\ DOMAIN cur = C
    BY DEF BookingRow
  <1>2. new.status = to /\ new.boarded = old.boarded /\ new.otp = old.otp
    BY DEF BookingRow
  <1>3. got = [c \in C |-> got[c]] /\ got.status = to /\ got.boarded = cur.boarded /\ got.otp = cur.otp
    BY DEF BookingRow
  <1> HIDE DEF new, got
  <1>4. Update(cur, old, new) = [c \in C |-> IF new[c] # old[c] THEN new[c] ELSE cur[c]]
    BY <1>1 DEF Update
  <1>5. \A c \in C : (IF new[c] # old[c] THEN new[c] ELSE cur[c]) = got[c]
    BY <1>2, <1>3
  <1>6. Update(cur, old, new) = got
    BY <1>3, <1>4, <1>5
  <1>7. Update(cur, old, old) = cur
    BY <1>1 DEF Update
  <1> QED BY <1>6, <1>7 DEF new, got

\* Ride r becomes newRow, its bookings among S that are in from become to.
Writes(r, S, newRow, from, to) ==
  /\ ride' = [ride EXCEPT ![r] = newRow] /\ pay' = pay
  /\ \A b \in Bookings :
       booking'[b] = IF b \in S /\ booking[b].status \in from
                     THEN [booking[b] EXCEPT !.status = to] ELSE booking[b]
  /\ booking' = [b \in Bookings |-> booking'[b]]

\* A handler of the loop writes over rows it knows.
LEMMA LoopCommit ==
  ASSUME SessionsInv, IInv, NEW s \in Loops, session[s] # Idle, LoopSees(s),
         NEW newRow \in RideRow, NEW from, NEW to \in BookingStatus,
         Commit(s, newRow, WithStatus(session[s].bookings, from, to))
  PROVE  Writes(session[s].ride, DOMAIN session[s].bookings, newRow, from, to)
  <1> DEFINE h == session[s]
             D == DOMAIN h.bookings
             u == Update(ride[h.ride], h.row, newRow)
             new == WithStatus(h.bookings, from, to)
  <1>1. LoadedOK(h) /\ h.ride \in Rides /\ D \subseteq Bookings /\ h.bookings \in [D -> BookingRow]
    BY DEF SessionsInv, SessionsOK, LoadedOK, All
  <1>2. ride[h.ride] = h.row /\ \A b \in D : booking[b].status = h.bookings[b].status
    BY DEF LoopSees
  <1>3. /\ ride' = [ride EXCEPT ![h.ride] = u] /\ pay' = pay
        /\ booking' = [b \in Bookings |->
                         IF b \in D THEN Update(booking[b], h.bookings[b], new[b]) ELSE booking[b]]
    BY DEF Commit
  <1>4. ride[h.ride] \in RideRow /\ \A b \in Bookings : booking[b] \in BookingRow
    BY <1>1, RowsAreTyped
  <1>5. u = newRow
    BY <1>2, <1>4, WholeRow
  <1>6. ASSUME NEW b \in D
        PROVE  Update(booking[b], h.bookings[b], new[b]) = IF booking[b].status \in from
                  THEN [booking[b] EXCEPT !.status = to] ELSE booking[b]
    <2>1. new[b] = IF h.bookings[b].status \in from THEN [h.bookings[b] EXCEPT !.status = to]
                   ELSE h.bookings[b]
      BY DEF WithStatus
    <2>2. booking[b] \in BookingRow /\ h.bookings[b] \in BookingRow /\ booking[b].status = h.bookings[b].status
      BY <1>1, <1>2, <1>4
    <2> HIDE DEF h, D
    <2> QED BY <2>1, <2>2, StatusOnly
  <1> HIDE DEF u, h, D
  <1>7. ride' = [ride EXCEPT ![h.ride] = newRow]
    BY <1>3, <1>5
  <1>8. booking' = [b \in Bookings |-> booking'[b]]
    BY <1>3
  <1>9. \A b \in Bookings : booking'[b] = IF b \in D /\ booking[b].status \in from
                     THEN [booking[b] EXCEPT !.status = to] ELSE booking[b]
    BY <1>1, <1>3, <1>6
  <1> QED BY <1>3, <1>7, <1>8, <1>9 DEF h, D, Writes

\* The facts about the handler of s that its commit rests on.
LEMMA LoopFacts ==
  ASSUME SessionsInv, IInv, NEW s \in Loops, LoopSees(s), session[s].op # "idle"
  PROVE  LET h == session[s] IN
         /\ h # Idle /\ LoadedOK(h) /\ h.ride \in Rides /\ h.row = ride[h.ride] /\ h.row \in RideRow
         /\ DOMAIN h.bookings \subseteq Bookings
         /\ StillDue(h)
  <1>1. session[s] # Idle
    BY DEF Idle
  <1> QED BY <1>1 DEF SessionsInv, SessionsOK, LoadedOK, All, LoopSees

LEMMA RideSame ==
  ASSUME IInv, NEW r \in Rides
  PROVE  [ride EXCEPT ![r] = ride[r]] = ride
  BY RowsAreTyped

LEMMA CreateCommits ==
  ASSUME SessionsInv, IInv, NEW s \in Loops, LoopSees(s), CommitCreateBooking(s)
  PROVE  \E b \in Bookings : CreateBooking(b)
  <1> DEFINE h == session[s]
  <1>1. /\ h.op = "create" /\ UNCHANGED capacity
        /\ Commit(s, h.row, WithStatus(h.bookings, {"none"}, "pending"))
    BY DEF CommitCreateBooking
  <1>2. h # Idle /\ h.ride \in Rides /\ h.row = ride[h.ride] /\ h.row \in RideRow /\ StillDue(h)
    BY <1>1, LoopFacts
  <1>3. PICK b \in Bookings :
          /\ DOMAIN h.bookings = {b} /\ h.ride = RideOf[b]
          /\ booking[b].status = "none"
          /\ ride[RideOf[b]].status = "scheduled" /\ ride[RideOf[b]].active /\ ride[RideOf[b]].seats >= 1
    BY <1>1, <1>2 DEF StillDue
  <1>4. "pending" \in BookingStatus
    BY DEF BookingStatus
  <1>w. Writes(h.ride, DOMAIN h.bookings, h.row, {"none"}, "pending")
    BY <1>1, <1>2, <1>4, LoopCommit
  <1>5. /\ ride' = [ride EXCEPT ![h.ride] = h.row] /\ pay' = pay
        /\ \A c \in Bookings :
             booking'[c] = IF c \in DOMAIN h.bookings /\ booking[c].status \in {"none"}
                           THEN [booking[c] EXCEPT !.status = "pending"] ELSE booking[c]
        /\ booking' = [c \in Bookings |-> booking'[c]]
    BY <1>w DEF Writes
  <1>6. ride' = ride
    BY <1>2, <1>5, RideSame
  <1> HIDE DEF h
  <1>7. SetStatus(b, "pending")
    BY <1>3, <1>5, RowsAreTyped DEF SetStatus
  <1> QED BY <1>1, <1>3, <1>5, <1>6, <1>7 DEF CreateBooking

LEMMA UpdateCommits ==
  ASSUME SessionsInv, IInv, NEW s \in Loops, LoopSees(s), CommitUpdateRide(s)
  PROVE  \E r \in Rides, n \in 0..MaxSeats : UpdateRide(r, n)
  <1> DEFINE h == session[s]
  <1>1. /\ h.op = "update" /\ Commit(s, OpenRide(h.seats), h.bookings)
        /\ capacity' = [capacity EXCEPT ![h.ride] = h.seats + Cardinality(Holders(h.ride))]
    BY DEF CommitUpdateRide
  <1>2. h # Idle /\ h.ride \in Rides /\ LoadedOK(h) /\ StillDue(h)
    BY <1>1, LoopFacts
  <1>3. /\ ride[h.ride].status \in {"scheduled", "full"}
        /\ h.seats \in 0..MaxSeats /\ h.seats >= Cardinality(Accepted(h.ride))
    BY <1>1, <1>2 DEF StillDue
  <1>4. OpenRide(h.seats) \in RideRow
    BY <1>3, OpenRow, ConstantsAssumption
  <1>5. h.bookings = WithStatus(h.bookings, {}, "pending") /\ "pending" \in BookingStatus
    BY <1>2 DEF LoadedOK, WithStatus, BookingStatus
  <1>a. Commit(s, OpenRide(h.seats), WithStatus(h.bookings, {}, "pending"))
    BY <1>1, <1>5
  <1>w. Writes(h.ride, DOMAIN h.bookings, OpenRide(h.seats), {}, "pending")
    BY <1>2, <1>4, <1>5, <1>a, LoopCommit
  <1>6. /\ ride' = [ride EXCEPT ![h.ride] = OpenRide(h.seats)] /\ pay' = pay
        /\ \A c \in Bookings :
             booking'[c] = IF c \in DOMAIN h.bookings /\ booking[c].status \in {}
                           THEN [booking[c] EXCEPT !.status = "pending"] ELSE booking[c]
        /\ booking' = [c \in Bookings |-> booking'[c]]
    BY <1>w DEF Writes
  <1> HIDE DEF h
  <1>7. booking' = booking
    <2>1. \A c \in Bookings : booking'[c] = booking[c]
      BY <1>6
    <2> QED BY <1>6, <2>1, RowsAreTyped
  <1>8. UpdateRide(h.ride, h.seats)
    BY <1>1, <1>3, <1>6, <1>7 DEF UpdateRide
  <1> QED BY <1>2, <1>3, <1>8

LEMMA CancelCommits ==
  ASSUME SessionsInv, IInv, NEW s \in Loops, LoopSees(s), CommitCancelRide(s)
  PROVE  \E r \in Rides : CancelRide(r)
  <1> DEFINE h == session[s]
             row == [h.row EXCEPT !.status = "cancelled", !.active = FALSE]
  <1>1. /\ h.op = "cancel_ride" /\ UNCHANGED capacity
        /\ Commit(s, row, WithStatus(h.bookings, {"pending", "accepted"}, "cancelled_by_driver"))
    BY DEF CommitCancelRide
  <1>2. h # Idle /\ h.ride \in Rides /\ h.row = ride[h.ride] /\ h.row \in RideRow /\ StillDue(h)
    BY <1>1, LoopFacts
  <1>3. ride[h.ride].status \in {"scheduled", "full"} /\ DOMAIN h.bookings = Slots(h.ride)
    BY <1>1, <1>2 DEF StillDue
  <1>4. row \in RideRow /\ "cancelled_by_driver" \in BookingStatus
    BY <1>2 DEF RideRow, RideStatus, BookingStatus
  <1>5. row = [ride[h.ride] EXCEPT !.status = "cancelled", !.active = FALSE]
    BY <1>2
  <1> HIDE DEF row
  <1>w. Writes(h.ride, DOMAIN h.bookings, row, {"pending", "accepted"}, "cancelled_by_driver")
    BY <1>1, <1>2, <1>4, LoopCommit
  <1>6. /\ ride' = [ride EXCEPT ![h.ride] = row] /\ pay' = pay
        /\ \A c \in Bookings :
             booking'[c] = IF c \in DOMAIN h.bookings /\ booking[c].status \in {"pending", "accepted"}
                           THEN [booking[c] EXCEPT !.status = "cancelled_by_driver"] ELSE booking[c]
        /\ booking' = [c \in Bookings |-> booking'[c]]
    BY <1>w DEF Writes
  <1> DEFINE r == h.ride
  <1>7. ride' = [ride EXCEPT ![r].status = "cancelled", ![r].active = FALSE]
    BY <1>2, <1>5, <1>6, RowsAreTyped
  <1>8. \A c \in Bookings : booking'[c] = IF c \in With(r, {"pending", "accepted"})
                                          THEN [booking[c] EXCEPT !.status = "cancelled_by_driver"]
                                          ELSE booking[c]
    BY <1>3, <1>6 DEF With, Slots
  <1> HIDE DEF h, r
  <1>9. CancelRide(r)
    BY <1>1, <1>3, <1>6, <1>7, <1>8 DEF CancelRide, r
  <1> QED BY <1>2, <1>9 DEF r

\* Without a payment there is nothing to capture or to give back.
LEMMA NothingToPay ==
  ASSUME NoMoney
  PROVE  /\ \A b \in Bookings : pay[b] = NoPayment /\ Capture(pay[b]) = {pay[b]} /\ Refund(pay[b]) = {pay[b]}
         /\ \A b \in Bookings : [pay EXCEPT ![b] = pay[b]] = pay
         /\ pay = [b \in Bookings |-> pay[b]]
  BY DEF NoMoney, NoPayment, Capture, Refund

LEMMA CompleteCommits ==
  ASSUME SessionsInv, IInv, NoMoney, NEW s \in Loops, LoopSees(s), CommitCompleteRide(s)
  PROVE  \E r \in Rides : CompleteRide(r)
  <1> DEFINE h == session[s]
             row == [h.row EXCEPT !.status = "completed", !.active = FALSE]
  <1>1. /\ h.op = "complete_ride" /\ UNCHANGED capacity
        /\ Commit(s, row, WithStatus(h.bookings, {"accepted"}, "completed"))
    BY DEF CommitCompleteRide
  <1>2. h # Idle /\ h.ride \in Rides /\ h.row = ride[h.ride] /\ h.row \in RideRow /\ StillDue(h)
    BY <1>1, LoopFacts
  <1>3. /\ ride[h.ride].status \in {"scheduled", "full"} /\ DOMAIN h.bookings = Slots(h.ride)
        /\ \A b \in Accepted(h.ride) : booking[b].boarded
    BY <1>1, <1>2 DEF StillDue
  <1>4. row \in RideRow /\ "completed" \in BookingStatus
    BY <1>2 DEF RideRow, RideStatus, BookingStatus
  <1>5. row = [ride[h.ride] EXCEPT !.status = "completed", !.active = FALSE]
    BY <1>2
  <1> HIDE DEF row
  <1>w. Writes(h.ride, DOMAIN h.bookings, row, {"accepted"}, "completed")
    BY <1>1, <1>2, <1>4, LoopCommit
  <1>6. /\ ride' = [ride EXCEPT ![h.ride] = row] /\ pay' = pay
        /\ \A c \in Bookings :
             booking'[c] = IF c \in DOMAIN h.bookings /\ booking[c].status \in {"accepted"}
                           THEN [booking[c] EXCEPT !.status = "completed"] ELSE booking[c]
        /\ booking' = [c \in Bookings |-> booking'[c]]
    BY <1>w DEF Writes
  <1> DEFINE r == h.ride
             S == Accepted(r)
             f == [b \in S |-> pay[b]]
  <1>7. ride' = [ride EXCEPT ![r].status = "completed", ![r].active = FALSE]
    BY <1>2, <1>5, <1>6, RowsAreTyped
  <1>8. \A c \in Bookings : booking'[c] = IF c \in S THEN [booking[c] EXCEPT !.status = "completed"]
                                          ELSE booking[c]
    BY <1>3, <1>6 DEF Accepted, With, Slots
  <1>9. ReadyToComplete(r)
    BY <1>3 DEF ReadyToComplete
  <1> HIDE DEF h, r
  <1>10. S \subseteq Bookings
    BY DEF Accepted, With
  <1>11. f \in CaptureChoices(S)
    <2>1. \A b \in S : f[b] \in Capture(pay[b])
      BY <1>10, NothingToPay
    <2>2. f \in [S -> UNION {Capture(pay[b]) : b \in S}]
      BY <2>1
    <2> QED BY <2>1, <2>2 DEF CaptureChoices
  <1>12. \A b \in S : Collected(f[b])
    BY <1>10, NothingToPay DEF Collected, NoPayment
  <1>13. pay' = [b \in Bookings |-> IF b \in S THEN f[b] ELSE pay[b]]
    BY <1>6, <1>10, NothingToPay
  <1> HIDE DEF f
  <1>14. CompleteRide(r)
    BY <1>1, <1>6, <1>7, <1>8, <1>9, <1>11, <1>12, <1>13 DEF CompleteRide
  <1> QED BY <1>2, <1>14 DEF r

LEMMA NewRowCases ==
  ASSUME NEW h
  PROVE  /\ h.op = "accepted" => NewRow(h) = OpenRide(h.row.seats - 1)
         /\ h.op \in {"rejected", "completed"} => NewRow(h) = h.row
         /\ h.op \in {"cancelled_by_driver", "cancelled_by_passenger"} =>
              NewRow(h) = IF \E b \in DOMAIN h.bookings : h.bookings[b].status = "accepted"
                          THEN [status |-> "scheduled", seats |-> h.row.seats + 1, active |-> TRUE]
                          ELSE h.row
  BY DEF NewRow

LEMMA StatusCommits ==
  ASSUME SessionsInv, IInv, NoMoney, NEW s \in Loops, LoopSees(s), CommitUpdateStatus(s)
  PROVE  \E b \in Bookings : BookingNext(b)
  <1> DEFINE h == session[s]
  <1>1. /\ h.op \in StatusOp /\ UNCHANGED capacity
        /\ Commit(s, NewRow(h), WithStatus(h.bookings, {"pending", "accepted"}, h.op))
    BY DEF CommitUpdateStatus, StatusOp
  <1>2. h # Idle /\ h.ride \in Rides /\ h.row = ride[h.ride] /\ h.row \in RideRow /\ StillDue(h)
    BY <1>1, LoopFacts DEF StatusOp, BookingStatus
  <1>3. PICK b \in Bookings :
          /\ DOMAIN h.bookings = {b} /\ h.ride = RideOf[b]
          /\ h.op = "accepted" => booking[b].status = "pending" /\ ride[h.ride].seats >= 1
          /\ h.op = "rejected" => booking[b].status = "pending"
          /\ h.op \in {"cancelled_by_driver", "cancelled_by_passenger"}
               => booking[b].status \in {"pending", "accepted"}
          /\ h.op = "completed" => booking[b].status = "accepted" /\ booking[b].boarded
    BY <1>1, <1>2 DEF StillDue
  <1>4. h.bookings[b].status = booking[b].status
    BY <1>2, <1>3 DEF LoopSees
  <1>5. h.op \in {"accepted", "rejected", "cancelled_by_driver", "cancelled_by_passenger", "completed"}
    BY <1>1 DEF StatusOp, BookingStatus
  <1> DEFINE row == NewRow(h)
             r == RideOf[b]
  <1>6. /\ h.op = "accepted" => row = OpenRide(ride[r].seats - 1)
        /\ h.op \in {"rejected", "completed"} => row = ride[r]
        /\ h.op \in {"cancelled_by_driver", "cancelled_by_passenger"} =>
             row = IF booking[b].status = "accepted"
                   THEN [status |-> "scheduled", seats |-> ride[r].seats + 1, active |-> TRUE]
                   ELSE ride[r]
    <2>1. h.row = ride[r] /\ ((\E c \in DOMAIN h.bookings : h.bookings[c].status = "accepted")
                                <=> booking[b].status = "accepted")
      BY <1>2, <1>3, <1>4
    <2> QED BY <2>1, NewRowCases
  <1>7. ride[r] \in RideRow /\ ride[r].seats \in Nat
    BY <1>2, <1>3 DEF RideRow
  <1> HIDE DEF row
  <1>8. row \in RideRow
    <2>1. h.op = "accepted" => ride[r].seats - 1 \in Nat
      BY <1>3, <1>7
    <2>2. [status |-> "scheduled", seats |-> ride[r].seats + 1, active |-> TRUE] \in RideRow
      BY <1>7 DEF RideRow, RideStatus
    <2> QED BY <1>5, <1>6, <1>7, <2>1, <2>2, OpenRow
  <1>9. h.op \in BookingStatus
    BY <1>1 DEF StatusOp
  <1>10. Writes(h.ride, DOMAIN h.bookings, row, {"pending", "accepted"}, h.op)
    BY <1>1, <1>2, <1>8, <1>9, LoopCommit DEF row
  <1>11. /\ ride' = [ride EXCEPT ![r] = row] /\ pay' = pay
         /\ \A c \in Bookings :
              booking'[c] = IF c \in {b} /\ booking[c].status \in {"pending", "accepted"}
                            THEN [booking[c] EXCEPT !.status = h.op] ELSE booking[c]
         /\ booking' = [c \in Bookings |-> booking'[c]]
    BY <1>3, <1>10 DEF Writes
  <1> DEFINE op == h.op
  <1>op. /\ op \in {"accepted", "rejected", "cancelled_by_driver", "cancelled_by_passenger", "completed"}
         /\ UNCHANGED capacity
    BY <1>1, <1>5
  <1>12. SetStatus(b, op)
    <2>1. booking[b].status \in {"pending", "accepted"}
      BY <1>3, <1>5
    <2> HIDE DEF h, op
    <2> QED BY <1>11, <2>1, RowsAreTyped DEF SetStatus, op
  <1>13. pay' = [pay EXCEPT ![b] = pay[b]] /\ pay[b] \in Capture(pay[b]) /\ pay[b] \in Refund(pay[b])
    BY <1>11, NothingToPay
  <1>14. row = ride[r] => ride' = ride
    BY <1>7, <1>11, RowsAreTyped
  <1>15. CASE op = "accepted"
    <2>1. ride[r].seats >= 1 /\ booking[b].status = "pending" /\ ride' = [ride EXCEPT ![r] = OpenRide(ride[r].seats - 1)]
      BY <1>3, <1>6, <1>11, <1>15
    <2> QED BY <1>op, <1>12, <1>13, <1>15, <2>1 DEF AcceptBooking, BookingNext
  <1>16. CASE op = "rejected"
    <2>1. booking[b].status = "pending" /\ ride' = ride
      BY <1>3, <1>6, <1>14, <1>16
    <2> QED BY <1>op, <1>11, <1>12, <1>16, <2>1 DEF RejectBooking, BookingNext
  <1>17. CASE op \in {"cancelled_by_driver", "cancelled_by_passenger"}
    <2>1. booking[b].status \in {"pending", "accepted"}
      BY <1>3, <1>17
    <2>2. ride' = IF booking[b].status = "accepted"
                  THEN [ride EXCEPT ![r] = [status |-> "scheduled", seats |-> ride[r].seats + 1, active |-> TRUE]]
                  ELSE ride
      BY <1>6, <1>11, <1>14, <1>17
    <2>3. CancelBooking(b, op)
      BY <1>op, <1>12, <1>13, <2>1, <2>2 DEF CancelBooking
    <2> QED BY <1>17, <2>3 DEF CancelByDriver, CancelByPassenger, BookingNext
  <1>18. CASE op = "completed"
    <2>1. booking[b].status = "accepted" /\ booking[b].boarded /\ ride' = ride
      BY <1>3, <1>6, <1>14, <1>18
    <2> QED BY <1>op, <1>11, <1>12, <1>18, <2>1 DEF CompleteBooking, BookingNext
  <1> QED BY <1>op, <1>15, <1>16, <1>17, <1>18

LEMMA CommitsAreNext ==
  ASSUME SessionsInv, IInv, NoMoney, NEW s \in Loops, LoopSees(s),
         \/ CommitCreateBooking(s) \/ CommitUpdateRide(s) \/ CommitCancelRide(s)
         \/ CommitCompleteRide(s) \/ CommitUpdateStatus(s)
  PROVE  Next /\ pay' = pay /\ session'[s] = Idle
  <1>1. Next
    <2>1. ASSUME CommitCreateBooking(s) \/ CommitUpdateStatus(s) PROVE \E b \in Bookings : BookingNext(b)
      BY <2>1, CreateCommits, StatusCommits DEF BookingNext
    <2>2. ASSUME CommitUpdateRide(s) \/ CommitCancelRide(s) \/ CommitCompleteRide(s)
          PROVE  \E r \in Rides : RideNext(r)
      BY <2>2, UpdateCommits, CancelCommits, CompleteCommits DEF RideNext
    <2> QED BY <2>1, <2>2 DEF Next
  <1>2. pay' = pay /\ session' = [session EXCEPT ![s] = Idle]
    BY DEF CommitCreateBooking, CommitUpdateRide, CommitCancelRide, CommitCompleteRide, CommitUpdateStatus, Commit
  <1> QED BY <1>1, <1>2 DEF SessionsInv, SessionsOK, All

-----------------------------------------------------------------------------
(* What the loop loads *)

LEMMA BeginSees ==
  ASSUME SessionsInv, NEW s \in Loops, NEW op, NEW r \in Rides, NEW S, NEW n,
         Begin(s, Loaded(op, r, S, n)), ride[r].status # "none", StillDue(Loaded(op, r, S, n))
  PROVE  LoopSees(s)' /\ UNCHANGED vars
  <1> DEFINE h == Loaded(op, r, S, n)
  <1>1. /\ h.op = op /\ h.ride = r /\ h.seats = n /\ h.row = ride[r]
        /\ h.bookings = [b \in S |-> booking[b]]
        /\ DOMAIN h.bookings = S /\ \A b \in S : h.bookings[b] = booking[b]
    BY LoadedFields
  <1>2. UNCHANGED vars /\ session'[s] = h
    BY DEF Begin, SessionsInv, SessionsOK, All
  <1> HIDE DEF h
  <1>3. StillDue(session[s])'
    <2>1. StillDue(h)
      BY DEF h
    <2>2. UNCHANGED <<ride, booking>> /\ \A q : Accepted(q)' = Accepted(q)
      BY <1>2 DEF vars, Accepted, With
    <2> QED BY <1>2, <2>1, <2>2 DEF StillDue, Slots
  <1> QED BY <1>1, <1>2, <1>3 DEF LoopSees, vars

LEMMA PublishedRide ==
  ASSUME IInv, NEW b \in Bookings, booking[b].status # "none"
  PROVE  RideOf[b] \in Rides /\ ride[RideOf[b]].status # "none"
  BY ConstantsAssumption DEF IInv, SeatInv, UnpublishedRideIsEmpty

LEMMA BookingBegins ==
  ASSUME SessionsInv, IInv, NEW s \in Loops, NEW b \in Bookings,
         \/ BeginCreateBooking(s, b) \/ BeginAccept(s, b) \/ BeginReject(s, b)
         \/ BeginCancel(s, b) \/ BeginComplete(s, b)
  PROVE  LoopSees(s)' /\ UNCHANGED vars
  <1> DEFINE r == RideOf[b]
             h(op) == Loaded(op, r, {b}, 0)
  <1>1. ASSUME NEW op
        PROVE  h(op).op = op /\ h(op).ride = r /\ DOMAIN h(op).bookings = {b}
    BY DEF Loaded
  <1> HIDE DEF h
  <1>2. PICK op :
          /\ op \in {"create"} \cup StatusOp /\ Begin(s, h(op))
          /\ op = "create" => /\ booking[b].status = "none"
                              /\ ride[r].status = "scheduled" /\ ride[r].active /\ ride[r].seats >= 1
          /\ op = "accepted" => booking[b].status = "pending" /\ ride[r].seats >= 1
          /\ op = "rejected" => booking[b].status = "pending"
          /\ op \in {"cancelled_by_driver", "cancelled_by_passenger"}
               => booking[b].status \in {"pending", "accepted"}
          /\ op = "completed" => booking[b].status = "accepted" /\ booking[b].boarded
    BY DEF BeginCreateBooking, BeginAccept, BeginReject, BeginCancel, BeginComplete, BeginBookingOp,
           BeginLocking, StatusOp, BookingStatus, h
  <1>3. op \in {"create", "accepted", "rejected", "cancelled_by_driver", "cancelled_by_passenger", "completed"}
    BY <1>2 DEF StatusOp, BookingStatus
  <1>4. r \in Rides /\ ride[r].status # "none"
    BY <1>2, <1>3, PublishedRide, ConstantsAssumption
  <1>5. StillDue(h(op))
    BY <1>1, <1>2, <1>3 DEF StillDue
  <1> QED BY <1>2, <1>4, <1>5, BeginSees DEF h

LEMMA RideBegins ==
  ASSUME SessionsInv, NEW s \in Loops, NEW r \in Rides,
         \/ \E n \in 0..MaxSeats : BeginUpdateRide(s, r, n)
         \/ BeginCancelRide(s, r) \/ BeginCompleteRide(s, r)
  PROVE  LoopSees(s)' /\ UNCHANGED vars
  <1> DEFINE h(op, n) == Loaded(op, r, Slots(r), n)
  <1>1. ASSUME NEW op, NEW n
        PROVE  h(op, n).op = op /\ h(op, n).ride = r /\ h(op, n).seats = n /\ DOMAIN h(op, n).bookings = Slots(r)
    BY DEF Loaded
  <1> HIDE DEF h
  <1>2. PICK op, n :
          /\ op \in {"update", "cancel_ride", "complete_ride"} /\ Begin(s, h(op, n))
          /\ ride[r].status \in {"scheduled", "full"}
          /\ op = "update" => n \in 0..MaxSeats /\ n >= Cardinality(Accepted(r))
          /\ op = "complete_ride" => \A b \in Accepted(r) : booking[b].boarded
    <2>1. ASSUME NEW n \in 0..MaxSeats, BeginUpdateRide(s, r, n)
          PROVE  /\ Begin(s, h("update", n)) /\ ride[r].status \in {"scheduled", "full"}
                 /\ n >= Cardinality(Accepted(r))
      BY <2>1 DEF BeginUpdateRide, BeginLocking, h
    <2>2. ASSUME BeginCancelRide(s, r)
          PROVE  Begin(s, h("cancel_ride", 0)) /\ ride[r].status \in {"scheduled", "full"}
      BY <2>2 DEF BeginCancelRide, BeginLocking, h
    <2>3. ASSUME BeginCompleteRide(s, r)
          PROVE  /\ Begin(s, h("complete_ride", 0)) /\ ride[r].status \in {"scheduled", "full"}
                 /\ \A b \in Accepted(r) : booking[b].boarded
      BY <2>3 DEF BeginCompleteRide, BeginLocking, ReadyToComplete, h
    <2> QED BY <2>1, <2>2, <2>3
  <1>3. StillDue(h(op, n))
    BY <1>1, <1>2 DEF StillDue, StatusOp, BookingStatus
  <1> QED BY <1>2, <1>3, BeginSees DEF h

LEMMA LoopStep ==
  ASSUME SessionsInv, IInv, NoMoney, NEW s \in Loops, LoopSees(s), LoopNext(s)
  PROVE  [Next]_vars /\ LoopSees(s)' /\ pay' = pay
  <1>1. CASE \/ \E b \in Bookings : \/ BeginCreateBooking(s, b) \/ BeginAccept(s, b)
                                    \/ BeginReject(s, b) \/ BeginCancel(s, b) \/ BeginComplete(s, b)
             \/ \E r \in Rides : \/ \E n \in 0..MaxSeats : BeginUpdateRide(s, r, n)
                                 \/ BeginCancelRide(s, r) \/ BeginCompleteRide(s, r)
    <2>1. LoopSees(s)' /\ UNCHANGED vars
      BY <1>1, BookingBegins, RideBegins
    <2> QED BY <2>1 DEF vars
  <1>2. CASE \/ CommitCreateBooking(s) \/ CommitUpdateRide(s) \/ CommitCancelRide(s)
             \/ CommitCompleteRide(s) \/ CommitUpdateStatus(s)
    BY <1>2, CommitsAreNext DEF LoopSees
  <1> QED BY <1>1, <1>2 DEF LoopNext

LEMMA ThreadStep ==
  ASSUME SessionsInv, IInv, NEW s \in Threads, ThreadNext(s)
  PROVE  (BoardingRecorded \/ UNCHANGED vars) /\ pay' = pay /\ \A u \in Loops : session'[u] = session[u]
  <1>1. PICK h : session' = [session EXCEPT ![s] = h]
    BY DEF ThreadNext, BeginIssueOtp, BeginVerifyOtp, BeginBookingOp, Begin, CommitIssueOtp,
           CommitVerifyOtp, Commit
  <1>2. \A u \in Loops : session'[u] = session[u]
    BY <1>1, SessionsAssumption DEF SessionsInv, SessionsOK, All
  <1>3. CASE \E b \in Bookings : BeginIssueOtp(s, b) \/ BeginVerifyOtp(s, b)
    BY <1>2, <1>3 DEF BeginIssueOtp, BeginVerifyOtp, BeginBookingOp, Begin, vars
  <1>4. CASE CommitIssueOtp(s) \/ CommitVerifyOtp(s)
    BY <1>2, <1>4, IssueRecords, VerifyRecords DEF BoardingRecorded
  <1> QED BY <1>3, <1>4 DEF ThreadNext

\* Rides are published, matched and codes expire beside the handlers.
LEMMA OthersStep ==
  ASSUME IInv, Elsewhere
  PROVE  Next /\ LeavesPublished /\ pay' = pay /\ session' = session
  <1>1. CASE \E r \in Rides, n \in 1..MaxSeats : CreateRide(r, n)
    <2>1. PICK r \in Rides, n \in 1..MaxSeats : CreateRide(r, n)
      BY <1>1
    <2>2. Next
      <3>1. n \in 0..MaxSeats
        BY ConstantsAssumption
      <3> QED BY <2>1, <3>1 DEF Next, RideNext
    <2>3. LeavesPublished /\ pay' = pay
      BY <2>1, RowsAreTyped DEF CreateRide, LeavesPublished
    <2> QED BY <2>2, <2>3 DEF Elsewhere
  <1>2. CASE \E b \in Bookings : MatchRequest(b)
    <2>1. PICK b \in Bookings : MatchRequest(b)
      BY <1>2
    <2>2. Next
      BY <2>1 DEF Next, BookingNext
    <2>3. LeavesPublished /\ pay' = pay
      BY <2>1, RowsAreTyped DEF MatchRequest, SetStatus, LeavesPublished, Slots
    <2> QED BY <2>2, <2>3 DEF Elsewhere
  <1>3. CASE \E b \in Bookings : OtpExpires(b)
    <2>1. PICK b \in Bookings : OtpExpires(b)
      BY <1>3
    <2>2. Next
      BY <2>1 DEF Next, BookingNext
    <2>3. booking'[b] = [booking[b] EXCEPT !.otp = "expired"] /\ \A c \in Bookings \ {b} : booking'[c] = booking[c]
      BY <2>1, RowsAreTyped DEF OtpExpires
    <2>4. booking'[b].status = booking[b].status /\ booking'[b].boarded = booking[b].boarded
      BY <2>3, RowsAreTyped DEF BookingRow
    <2>5. LeavesPublished /\ pay' = pay
      BY <2>1, <2>3, <2>4 DEF OtpExpires, LeavesPublished, Slots
    <2> QED BY <2>2, <2>5 DEF Elsewhere
  <1> QED BY <1>1, <1>2, <1>3 DEF Elsewhere

LEMMA OneStep ==
  ASSUME OneProcess, OneInv, [SessionsNext]_sessionVars
  PROVE  OneInv' /\ (Next \/ BoardingRecorded \/ UNCHANGED vars)
  <1>1. SessionsInv /\ IInv /\ NoMoney /\ (\A s \in Loops : LoopSees(s)) /\ SessionsInv'
    BY Inductive DEF OneInv
  <1>2. CASE \E s \in Loops : LoopNext(s)
    <2>1. PICK s \in Loops : LoopNext(s)
      BY <1>2
    <2>2. [Next]_vars /\ LoopSees(s)' /\ pay' = pay
      BY <1>1, <2>1, LoopStep
    <2>3. \A u \in Loops : LoopSees(u)'
      BY <2>2 DEF OneProcess
    <2> QED BY <1>1, <2>2, <2>3, NextIInv DEF OneInv, NoMoney
  <1>3. CASE \E s \in Threads : ThreadNext(s)
    <2>1. PICK s \in Threads : ThreadNext(s)
      BY <1>3
    <2>2. /\ BoardingRecorded \/ UNCHANGED vars
          /\ pay' = pay /\ \A u \in Loops : session'[u] = session[u]
      BY <1>1, <2>1, ThreadStep
    <2>3. IInv' /\ LeavesPublished
      <3>1. CASE BoardingRecorded
        BY <1>1, <3>1, BoardingKeeps DEF SessionsInv
      <3>2. CASE UNCHANGED vars
        BY <1>1, <3>2, NextIInv DEF vars, LeavesPublished
      <3> QED BY <2>2, <3>1, <3>2
    <2>4. \A u \in Loops : LoopSees(u)'
      BY <1>1, <2>2, <2>3, SameSight
    <2> QED BY <1>1, <2>2, <2>3, <2>4 DEF OneInv, NoMoney
  <1>4. CASE Elsewhere
    <2>1. Next /\ LeavesPublished /\ pay' = pay /\ session' = session
      BY <1>1, <1>4, OthersStep
    <2>2. \A u \in Loops : LoopSees(u)'
      BY <1>1, <2>1, SameSight
    <2> QED BY <1>1, <2>1, <2>2, NextIInv DEF OneInv, NoMoney
  <1>5. CASE UNCHANGED sessionVars
    <2>1. UNCHANGED vars /\ session' = session /\ LeavesPublished /\ pay' = pay
      BY <1>5 DEF sessionVars, vars, LeavesPublished
    <2>2. \A u \in Loops : LoopSees(u)'
      BY <1>1, <2>1, SameSight
    <2> QED BY <1>1, <2>1, <2>2, NextIInv DEF OneInv, NoMoney
  <1> QED BY <1>2, <1>3, <1>4, <1>5 DEF SessionsNext

LEMMA OneInit == SessionsInit => OneInv
  <1> SUFFICES ASSUME SessionsInit PROVE OneInv
    OBVIOUS
  <1>1. SessionsInv /\ IInv
    BY InitOK, InitIInv DEF SessionsInit
  <1>2. NoMoney /\ \A s \in Loops : LoopSees(s)
    BY DEF SessionsInit, Init, NoMoney, LoopSees
  <1> QED BY <1>1, <1>2 DEF OneInv

-----------------------------------------------------------------------------
\* What the loop's handler has loaded is what the rows still say, and every
\* invariant of RideBooking holds between the halves of a handler.
THEOREM WithOneProcess == ASSUME OneProcess PROVE SessionsSpec => []OneInv
  <1>1. OneInv /\ [SessionsNext]_sessionVars => OneInv'
    BY OneStep
  <1> QED BY <1>1, OneInit, PTL DEF SessionsSpec

\* One API process runs its handlers as RideBooking has them, in one step each,
\* although the boarding endpoints commit on other threads in between.
THEOREM HandlersRunWhole == ASSUME OneProcess PROVE SessionsSpec => HandlersAreAtomic
  <1>1. OneInv /\ [SessionsNext]_sessionVars => [Next \/ BoardingRecorded]_vars
    BY OneStep DEF vars
  <1> QED BY <1>1, WithOneProcess, PTL DEF SessionsSpec, HandlersAreAtomic

\* So the seats add up and the flags agree with the handlers cut in two.
THEOREM OneProcessKeepsSeats ==
  ASSUME OneProcess
  PROVE  SessionsSpec => [](SeatConservation /\ RideFlagsAgree /\ CancelledRideIsEmpty /\ BoardedBeforeCompleted)
  <1>1. OneInv => SeatConservation /\ RideFlagsAgree /\ CancelledRideIsEmpty /\ BoardedBeforeCompleted
    BY DEF OneInv, IInv, SeatInv
  <1> QED BY <1>1, WithOneProcess, PTL

\* A closed booking stays as it was closed.
THEOREM OneProcessClosesForGood == ASSUME OneProcess PROVE SessionsSpec => ClosedBookingIsFinal
  <1>1. ASSUME OneInv, [SessionsNext]_sessionVars, NEW b \in Bookings,
               booking[b].status \in BookingStatus \ {"none", "pending", "accepted"}
        PROVE  booking'[b].status = booking[b].status
    <2>1. Next \/ BoardingRecorded \/ UNCHANGED vars
      BY <1>1, OneStep
    <2>2. CASE BoardingRecorded
      BY <2>2 DEF BoardingRecorded
    <2> QED BY <1>1, <2>1, <2>2, ClosedBookingStep DEF OneInv, vars
  <1>2. OneInv /\ [SessionsNext]_sessionVars =>
          [\A b \in Bookings :
             booking[b].status \in BookingStatus \ {"none", "pending", "accepted"}
               => booking'[b].status = booking[b].status]_vars
    BY <1>1
  <1> QED BY <1>2, WithOneProcess, PTL DEF SessionsSpec, ClosedBookingIsFinal

\* The split handlers of one process implement the seat ledger.
THEOREM OneProcessImplementsLedger == ASSUME OneProcess PROVE SessionsSpec => LedgerSpec
  <1>1. ASSUME OneInv, [SessionsNext]_sessionVars PROVE LedgerStep
    <2>1. Next \/ BoardingRecorded \/ UNCHANGED vars
      BY <1>1, OneStep
    <2>2. CASE BoardingRecorded
      <3>1. ride' = ride /\ capacity' = capacity /\ \A b \in Bookings : booking'[b].status = booking[b].status
        BY <2>2 DEF BoardingRecorded
      <3>2. \A r \in Rides : LedgerState(r)' = LedgerState(r)
        BY <3>1 DEF LedgerState
      <3>3. \A r \in Rides : Holders(r)' = Holders(r)
        BY <3>1 DEF Holders, With
      <3> QED BY <3>1, <3>2, <3>3, LedgerStutter
    <2> QED BY <1>1, <2>1, <2>2, LedgerNext DEF OneInv
  <1>2. SessionsInit => Ledger!Init
    BY LedgerInit DEF SessionsInit
  <1>3. OneInv /\ [SessionsNext]_sessionVars => [Ledger!Next]_(Ledger!ledgerVars)
    BY <1>1 DEF LedgerStep
  <1> QED BY <1>2, <1>3, WithOneProcess, PTL DEF SessionsSpec, LedgerSpec, Ledger!Spec
=============================================================================
