----------------------------- MODULE MCDispatch -----------------------------
(* Dispatch on small instances. *)
EXTENDS Dispatch, TLC

CONSTANTS q1, q2, passenger

OnePassenger == [q \in Requests |-> passenger]

Symmetric == Permutations(Requests) \cup Permutations(Drivers) \cup Permutations(Threads)
=============================================================================
