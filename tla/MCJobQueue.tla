----------------------------- MODULE MCJobQueue -----------------------------
(* JobQueue on small instances. *)
EXTENDS JobQueue

CONSTANTS email, refund, cleanup   \* three jobs

ByName == [j \in Jobs |-> IF j = refund THEN 2 ELSE IF j = email THEN 1 ELSE 0]
=============================================================================
