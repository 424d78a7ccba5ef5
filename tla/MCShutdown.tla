------------------------------ MODULE MCShutdown ------------------------------
(* An instance of Shutdown: one row per request. *)
EXTENDS Shutdown, TLC

CONSTANTS e1, e2, r1, r2

OwnRow == (e1 :> r1) @@ (e2 :> r2)

\* A write may fail before or after its commit; the second only for the stream, whose
\* goroutine awaits what became of it.
GapOfTheStream == outcome'[e2] # "gap"

ExitSpec == InitAll /\ [][NextAll /\ GapOfTheStream]_allVars
=============================================================================
