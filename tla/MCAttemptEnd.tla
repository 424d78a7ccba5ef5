----------------------------- MODULE MCAttemptEnd -----------------------------
(* The end of an attempt: how its response ends (ResponsePump), what the circuit
   remembers of it (CircuitBreaker), what its row is charged (RowSettlement), how slow
   it was (SlowRate), and the lease it held if it was a probe (ProbeLease).  These share
   no state, so a behaviour is about one of them, chosen at the start, and one run
   explores all. *)
EXTENDS CircuitBreaker, ResponsePump, MCRowSettlement, SlowRate, ProbeLease

VARIABLE part

partVars == <<part, circuitVars, pumpVars, vars, slowVars, probeVars>>

\* A row that is closed, with nobody about to write to it.
RowClosed ==
  /\ finalBy = Patrol /\ cost = None /\ losers = {} /\ leased = {} /\ deducted = 0
  /\ notified = {} /\ patrol = "idle" /\ limbo = {}
  /\ place = [a \in Settlements \cup Losers |-> "ended"]
  /\ tries = [a \in Settlements \cup Losers |-> 0]
  /\ result = [s \in Settlements |-> "none"]

(* A part that is not explored is at rest: its fairness asks for nothing. *)
PartInit ==
  /\ CircuitInit /\ part \in {"circuit", "stream", "ledger", "slow", "probe"}
  /\ part # "circuit" => tier = "provider"
  /\ IF part = "stream" THEN PumpInit ELSE PumpAt("gone", {})
  /\ IF part = "ledger" THEN Init ELSE RowClosed
  /\ SlowInit /\ ProbeInit

PartNext ==
  /\ \/ part = "circuit" /\ CircuitNext /\ UNCHANGED <<pumpVars, vars, slowVars, probeVars>>
     \/ part = "stream" /\ PumpNext /\ UNCHANGED <<circuitVars, vars, slowVars, probeVars>>
     \/ part = "ledger" /\ Next /\ UNCHANGED <<circuitVars, pumpVars, slowVars, probeVars>>
     \/ part = "slow" /\ SlowNext /\ UNCHANGED <<circuitVars, pumpVars, vars, probeVars>>
     \/ part = "probe" /\ ProbeNext /\ UNCHANGED <<circuitVars, pumpVars, vars, slowVars>>
  /\ UNCHANGED part

(* The circuit, the slow samples and the probe have safety properties only. *)
PartSpec == PartInit /\ [][PartNext]_partVars /\ PumpFairness /\ PatrolFairness

=============================================================================
