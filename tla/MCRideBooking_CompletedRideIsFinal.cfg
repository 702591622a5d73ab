\* One ride, two passengers: CompletedRideIsFinal.
SPECIFICATION Spec
CONSTANTS
  r1 = r1
  r2 = r2
  b1 = b1
  b2 = b2
  b3 = b3
  Rides = {r1}
  Bookings = {b1, b2}
  RideOf <- OneRide
  MaxSeats = 2
  PaidBookings = {b1}
PROPERTIES
  CompletedRideIsFinal
CHECK_DEADLOCK FALSE
