\* Two API processes; nobody is boarded.
SPECIFICATION SessionsSpec
CONSTANTS
  r1 = r1
  b1 = b1
  b2 = b2
  l1 = l1
  l2 = l2
  t1 = t1
  t2 = t2
  Rides = {r1}
  Bookings = {b1, b2}
  RideOf <- OneRide
  MaxSeats = 2
  PaidBookings = {}
  Loops = {l1, l2}
  Threads = {}
INVARIANTS
  NobodyWaitsOnCancelledRide
PROPERTIES
  NewBookingOnOpenRide
SYMMETRY Symmetric
CHECK_DEADLOCK FALSE
