-------------------------- MODULE BookingSessions --------------------------
(***************************************************************************)
(* The ride and booking handlers of RideBooking cut at their database      *)
(* statements: a handler first loads its rows (Begin), decides on that     *)
(* snapshot, and later writes and commits (Commit); others run in between. *)
(*                                                                         *)
(*  - create_booking, update_ride, cancel_ride and complete_ride load the  *)
(*    ride row FOR UPDATE and hold its lock until they commit.             *)
(*  - update_status and the boarding handlers load without a lock; their   *)
(*    UPDATE of a ride row waits for the lock, but the values it writes    *)
(*    were computed from the snapshot.                                     *)
(*  - SQLAlchemy's UPDATE carries the columns whose value changed since    *)
(*    the row was loaded, and no others (autoflush and expire_on_commit    *)
(*    are off, so nothing is loaded again).                                *)
(*                                                                         *)
(* The endpoints of the first two groups are coroutines that never await   *)
(* inside the handler: one process runs one of them at a time, on its      *)
(* event loop (Loops).  The boarding endpoints are plain functions and run *)
(* on the thread pool (Threads).  Two loops are two API processes.         *)
(*                                                                         *)
(* Passengers pay in cash here: without a payments row the capture and     *)
(* refund calls return at once, so pay stays as it is.                     *)
(***************************************************************************)
EXTENDS RideBooking

CONSTANTS Loops, Threads

ASSUME SessionsAssumption == Loops \cap Threads = {}

VARIABLE session  \* the handler each loop or thread is executing

sessionVars == <<ride, booking, pay, capacity, session>>

Idle == [op |-> "idle"]

LockingOp == {"create", "update", "cancel_ride", "complete_ride"}

\* The handler's rows as it loaded them: the ride and the bookings in S.
Loaded(op, r, S, n) ==
  [op |-> op, ride |-> r, seats |-> n, row |-> ride[r], bookings |-> [b \in S |-> booking[b]]]

\* Mutant: the ride is loaded without FOR UPDATE.
Locked_Never(r) == r \notin Rides

\* The handler of another session holds the lock on r's row.
Locked(r) == \E s \in Loops : session[s].op \in LockingOp /\ session[s].ride = r

\* Mutant: the UPDATE carries every column of the loaded row.
Update_WholeRow(current, loaded, new) == [c \in DOMAIN current |-> new[c]]

\* An UPDATE of the columns that changed between the loaded and the new row.
Update(current, loaded, new) ==
  [c \in DOMAIN current |-> IF new[c] # loaded[c] THEN new[c] ELSE current[c]]

Begin(s, h) ==
  /\ session[s] = Idle
  /\ session' = [session EXCEPT ![s] = h]
  /\ UNCHANGED vars

\* Writes h's new ride row and booking rows and commits.
Commit(s, newRow, newBookings) ==
  LET h == session[s] IN
  /\ h.op \notin LockingOp /\ newRow # h.row => ~ Locked(h.ride)
  /\ ride' = [ride EXCEPT ![h.ride] = Update(@, h.row, newRow)]
  /\ booking' = [b \in Bookings |->
                   IF b \in DOMAIN h.bookings
                   THEN Update(booking[b], h.bookings[b], newBookings[b]) ELSE booking[b]]
  /\ session' = [session EXCEPT ![s] = Idle]
  /\ UNCHANGED pay

-----------------------------------------------------------------------------
(* Handlers that lock the ride row *)

BeginLocking(s, op, r, S, n) == ~ Locked(r) /\ Begin(s, Loaded(op, r, S, n))

\* A second request for the same slot waits for the lock and is then refused.
BeginCreateBooking(s, b) ==
  /\ booking[b].status = "none"
  /\ LET r == ride[RideOf[b]] IN r.status = "scheduled" /\ r.active /\ r.seats >= 1
  /\ BeginLocking(s, "create", RideOf[b], {b}, 0)

Slots(r) == {b \in Bookings : RideOf[b] = r}

BeginUpdateRide(s, r, n) ==
  /\ ride[r].status \in {"scheduled", "full"}
  /\ n >= Cardinality(Accepted(r))
  /\ BeginLocking(s, "update", r, Slots(r), n)

BeginCancelRide(s, r) ==
  /\ ride[r].status \in {"scheduled", "full"}
  /\ BeginLocking(s, "cancel_ride", r, Slots(r), 0)

BeginCompleteRide(s, r) ==
  /\ ReadyToComplete(r)
  /\ BeginLocking(s, "complete_ride", r, Slots(r), 0)

WithStatus(bookings, from, to) ==
  [b \in DOMAIN bookings |-> IF bookings[b].status \in from
                             THEN [bookings[b] EXCEPT !.status = to] ELSE bookings[b]]

CommitCreateBooking(s) ==
  LET h == session[s] IN
  /\ h.op = "create"
  /\ Commit(s, h.row, WithStatus(h.bookings, {"none"}, "pending"))
  /\ UNCHANGED capacity

CommitUpdateRide(s) ==
  LET h == session[s] IN
  /\ h.op = "update"
  /\ Commit(s, OpenRide(h.seats), h.bookings)
  /\ capacity' = [capacity EXCEPT ![h.ride] = h.seats + Cardinality(Holders(h.ride))]

CommitCancelRide(s) ==
  LET h == session[s] IN
  /\ h.op = "cancel_ride"
  /\ Commit(s, [h.row EXCEPT !.status = "cancelled", !.active = FALSE],
            WithStatus(h.bookings, {"pending", "accepted"}, "cancelled_by_driver"))
  /\ UNCHANGED capacity

CommitCompleteRide(s) ==
  LET h == session[s] IN
  /\ h.op = "complete_ride"
  /\ Commit(s, [h.row EXCEPT !.status = "completed", !.active = FALSE],
            WithStatus(h.bookings, {"accepted"}, "completed"))
  /\ UNCHANGED capacity

-----------------------------------------------------------------------------
(* update_status: no lock *)

BeginBookingOp(s, op, b) == Begin(s, Loaded(op, RideOf[b], {b}, 0))

BeginAccept(s, b) ==
  booking[b].status = "pending" /\ ride[RideOf[b]].seats >= 1 /\ BeginBookingOp(s, "accepted", b)

BeginReject(s, b) == booking[b].status = "pending" /\ BeginBookingOp(s, "rejected", b)

BeginCancel(s, b) ==
  /\ booking[b].status \in {"pending", "accepted"}
  /\ \E op \in {"cancelled_by_driver", "cancelled_by_passenger"} : BeginBookingOp(s, op, b)

BeginComplete(s, b) ==
  booking[b].status = "accepted" /\ booking[b].boarded /\ BeginBookingOp(s, "completed", b)

\* The ride row update_status writes for h: a seat less, a seat more, the same.
NewRow(h) ==
  CASE h.op = "accepted" -> OpenRide(h.row.seats - 1)
    [] /\ h.op \in {"cancelled_by_driver", "cancelled_by_passenger"}
       /\ \E b \in DOMAIN h.bookings : h.bookings[b].status = "accepted"
         -> [status |-> "scheduled", seats |-> h.row.seats + 1, active |-> TRUE]
    [] OTHER -> h.row

CommitUpdateStatus(s) ==
  LET h == session[s] IN
  /\ h.op \in BookingStatus \ {"none", "pending"}
  /\ Commit(s, NewRow(h), WithStatus(h.bookings, {"pending", "accepted"}, h.op))
  /\ UNCHANGED capacity

-----------------------------------------------------------------------------
(* The boarding endpoints, on the thread pool *)

BeginIssueOtp(s, b) ==
  booking[b].status = "accepted" /\ ~ booking[b].boarded /\ BeginBookingOp(s, "issue_otp", b)

BeginVerifyOtp(s, b) ==
  /\ booking[b].status = "accepted" /\ ~ booking[b].boarded /\ booking[b].otp = "live"
  /\ BeginBookingOp(s, "verify_otp", b)

\* A new code always differs from the loaded one, so it is always written.
CommitIssueOtp(s) ==
  LET h == session[s] IN
  /\ h.op = "issue_otp"
  /\ booking' = [b \in Bookings |-> IF b \in DOMAIN h.bookings
                                    THEN [booking[b] EXCEPT !.otp = "live"] ELSE booking[b]]
  /\ session' = [session EXCEPT ![s] = Idle]
  /\ UNCHANGED <<ride, pay, capacity>>

CommitVerifyOtp(s) ==
  LET h == session[s] IN
  /\ h.op = "verify_otp"
  /\ Commit(s, h.row, [b \in DOMAIN h.bookings |->
                         [h.bookings[b] EXCEPT !.boarded = TRUE, !.otp = "none"]])
  /\ UNCHANGED capacity

-----------------------------------------------------------------------------
\* Steps of RideBooking that insert new rows, or only let time pass.
Elsewhere ==
  /\ \/ \E r \in Rides, n \in 1..MaxSeats : CreateRide(r, n)
     \/ \E b \in Bookings : MatchRequest(b) \/ OtpExpires(b)
  /\ UNCHANGED session

LoopNext(s) ==
  \/ \E b \in Bookings : \/ BeginCreateBooking(s, b) \/ BeginAccept(s, b)
                         \/ BeginReject(s, b) \/ BeginCancel(s, b) \/ BeginComplete(s, b)
  \/ \E r \in Rides : \/ \E n \in 0..MaxSeats : BeginUpdateRide(s, r, n)
                      \/ BeginCancelRide(s, r) \/ BeginCompleteRide(s, r)
  \/ CommitCreateBooking(s) \/ CommitUpdateRide(s) \/ CommitCancelRide(s)
  \/ CommitCompleteRide(s) \/ CommitUpdateStatus(s)

ThreadNext(s) ==
  \/ \E b \in Bookings : BeginIssueOtp(s, b) \/ BeginVerifyOtp(s, b)
  \/ CommitIssueOtp(s) \/ CommitVerifyOtp(s)

SessionsInit == Init /\ session = [s \in Loops \cup Threads |-> Idle]

SessionsNext ==
  \/ Elsewhere
  \/ \E s \in Loops : LoopNext(s)
  \/ \E s \in Threads : ThreadNext(s)

SessionsSpec == SessionsInit /\ [][SessionsNext]_sessionVars

-----------------------------------------------------------------------------
(* With one process, the seat rules of RideBooking hold although handlers   *)
(* overlap with the boarding endpoints; with two, only some of them do.     *)

\* What the boarding endpoints commit: a code or a boarding, which moves no status
\* and no seat; the booking may have been closed since they loaded it.
BoardingRecorded ==
  /\ UNCHANGED <<ride, pay, capacity>>
  /\ \A b \in Bookings : /\ booking'[b].status = booking[b].status
                         /\ booking[b].boarded => booking'[b].boarded

\* One process runs its handlers as RideBooking has them, in one step each: what is
\* committed is what the handler would do to the rows as they are now, although
\* it decided on rows loaded earlier and boarding endpoints committed in between.
HandlersAreAtomic == [][Next \/ BoardingRecorded]_vars

\* create_booking never books a ride that was closed, filled or hidden between
\* its check and its commit.
NewBookingOnOpenRide ==
  [][\A b \in Bookings :
       booking[b].status = "none" /\ booking'[b].status = "pending"
         => LET r == ride[RideOf[b]] IN r.status = "scheduled" /\ r.active /\ r.seats > 0
    ]_sessionVars

\* cancel_ride leaves no request behind on the ride it cancelled, even one that
\* another process was creating meanwhile.
NobodyWaitsOnCancelledRide ==
  \A r \in Rides : ride[r].status = "cancelled" => With(r, {"pending"}) = {}

\* "Only accepted bookings can be boarded": when boarding is recorded, the
\* booking is an accepted one.
BoardingOnlyAccepted ==
  [][\A b \in Bookings :
       ~ booking[b].boarded /\ booking'[b].boarded => booking[b].status = "accepted"
    ]_sessionVars
=============================================================================
