----------------------------- MODULE SeatLedger -----------------------------
(***************************************************************************)
(* What the booking system promises about seats, without saying how: every *)
(* published ride has a capacity and a set of bookings that hold a seat,   *)
(* and nobody takes a seat that is not there.  The implementation keeps no *)
(* such set, only a counter of free seats that many handlers adjust.       *)
(***************************************************************************)
EXTENDS Naturals, FiniteSets

CONSTANTS Rides, Bookings, RideOf,
          Sizes   \* the capacities a ride may have

VARIABLES
  state,     \* of a ride: "unpublished", "open" or "void" (cancelled)
  capacity,  \* the seats of a ride
  holders    \* the bookings that hold one of them

ledgerVars == <<state, capacity, holders>>

Init ==
  /\ state = [r \in Rides |-> "unpublished"]
  /\ capacity = [r \in Rides |-> 0]
  /\ holders = [r \in Rides |-> {}]

\* Publishing may give seats away at once (a matched dispatch request).
Publish(r, n, S) ==
  /\ state[r] = "unpublished"
  /\ Cardinality(S) <= n
  /\ \A b \in S : RideOf[b] = r
  /\ state' = [state EXCEPT ![r] = "open"]
  /\ capacity' = [capacity EXCEPT ![r] = n]
  /\ holders' = [holders EXCEPT ![r] = S]

Resize(r, n) ==
  /\ state[r] = "open"
  /\ Cardinality(holders[r]) <= n
  /\ capacity' = [capacity EXCEPT ![r] = n]
  /\ UNCHANGED <<state, holders>>

Take(b) ==
  LET r == RideOf[b] IN
  /\ state[r] = "open"
  /\ b \notin holders[r]
  /\ Cardinality(holders[r]) < capacity[r]
  /\ holders' = [holders EXCEPT ![r] = @ \cup {b}]
  /\ UNCHANGED <<state, capacity>>

Give(b) ==
  LET r == RideOf[b] IN
  /\ state[r] = "open"
  /\ b \in holders[r]
  /\ holders' = [holders EXCEPT ![r] = @ \ {b}]
  /\ UNCHANGED <<state, capacity>>

\* A cancelled ride drops holders; nothing happens to it afterwards.
Void(r) ==
  /\ state[r] = "open"
  /\ state' = [state EXCEPT ![r] = "void"]
  /\ \E S \in SUBSET holders[r] : holders' = [holders EXCEPT ![r] = S]
  /\ UNCHANGED capacity

Next ==
  \/ \E r \in Rides :
       \/ \E n \in Sizes, S \in SUBSET Bookings : Publish(r, n, S)
       \/ \E n \in Sizes : Resize(r, n)
       \/ Void(r)
  \/ \E b \in Bookings : Take(b) \/ Give(b)

Spec == Init /\ [][Next]_ledgerVars
=============================================================================
