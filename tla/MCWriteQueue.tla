----------------------------- MODULE MCWriteQueue -----------------------------
(* An instance of WriteQueue: two deliveries for one row. *)
EXTENDS WriteQueue, TLC

CONSTANTS e1, e2, r1

SameRow == (e1 :> r1) @@ (e2 :> r1)
=============================================================================
