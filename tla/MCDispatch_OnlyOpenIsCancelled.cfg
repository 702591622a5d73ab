\* Two handlers overlap.
SPECIFICATION Spec
CONSTANTS
  q1 = q1
  q2 = q2
  passenger = passenger
  Requests = {q1, q2}
  Passengers = {passenger}
  PassengerOf <- OnePassenger
  Drivers = {d1}
  NoDriver = NoDriver
  Threads = {t1, t2}
PROPERTY OnlyOpenIsCancelled
CHECK_DEADLOCK FALSE
