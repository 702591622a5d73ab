------------------------- MODULE MCBookingSessions -------------------------
(* Instances of BookingSessions for TLC. *)
EXTENDS BookingSessions, TLC
CONSTANTS r1, b1, b2, l1, l2, t1, t2

OneRide == [b \in Bookings |-> r1]

\* Bookings of the one ride, processes and threads are interchangeable.
Symmetric ==
  Permutations(Bookings) \cup Permutations(Loops) \cup Permutations(Threads)
=============================================================================
