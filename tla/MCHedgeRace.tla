----------------------------- MODULE MCHedgeRace -----------------------------
(* Constants for the runs of HedgeRace alone. *)
EXTENDS HedgeRace, TLC
=============================================================================
