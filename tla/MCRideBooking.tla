--------------------------- MODULE MCRideBooking ---------------------------
(* Instances of RideBooking for TLC. *)
EXTENDS RideBooking, TLC
CONSTANTS r1, r2, b1, b2, b3

OneRide == [b \in Bookings |-> r1]
\* b1 and b2 compete for r1; b3 is alone on r2.
TwoRides == [b \in Bookings |-> IF b = b3 THEN r2 ELSE r1]
=============================================================================
