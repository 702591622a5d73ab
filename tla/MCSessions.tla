----------------------------- MODULE MCSessions -----------------------------
(* Two requests at once and the job worker, on the sessions of one account.  *)
EXTENDS Sessions, TLC

Symmetry == Permutations(Pairs) \cup Permutations(Pool)
=============================================================================
