\* Two rides, three passengers, nobody pays online: the seat rules.
SPECIFICATION Spec
CONSTANTS
  r1 = r1
  r2 = r2
  b1 = b1
  b2 = b2
  b3 = b3
  Rides = {r1, r2}
  Bookings = {b1, b2, b3}
  RideOf <- TwoRides
  MaxSeats = 2
  PaidBookings = {}
INVARIANTS SeatConservation CancelledRideIsEmpty BoardedBeforeCompleted
PROPERTIES LedgerSpec
CHECK_DEADLOCK FALSE
