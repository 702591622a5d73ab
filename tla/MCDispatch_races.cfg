\* Two threads, two drivers: what the lock on the request row protects.
SPECIFICATION Spec
CONSTANTS
  q1 = q1
  q2 = q2
  passenger = passenger
  Requests = {q1, q2}
  Passengers = {passenger}
  PassengerOf <- OnePassenger
  Drivers = {d1, d2}
  NoDriver = NoDriver
  Threads = {t1, t2}
SYMMETRY Symmetric
INVARIANTS OneTripPerMatch
PROPERTIES TripForOpenRequest
CHECK_DEADLOCK FALSE
