------------------------- MODULE MCPaymentSessions -------------------------
(* PaymentSessions on small instances. *)
EXTENDS PaymentSessions, TLC

Symmetry == Permutations(Hands)
=============================================================================
