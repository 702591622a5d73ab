\* One API process: can a cancelled booking be boarded?
SPECIFICATION SessionsSpec
CONSTANTS
  r1 = r1
  b1 = b1
  b2 = b2
  l1 = l1
  l2 = l2
  t1 = t1
  t2 = t2
  Rides = {r1}
  Bookings = {b1, b2}
  RideOf <- OneRide
  MaxSeats = 1
  PaidBookings = {}
  Loops = {l1}
  Threads = {t1}
PROPERTIES
  BoardingOnlyAccepted
CHECK_DEADLOCK FALSE
