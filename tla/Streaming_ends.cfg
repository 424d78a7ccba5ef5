\* Race: two candidates that fail over, dials that time out, a selection that fails, losers
\* that are billed, a client that may leave.
\* Budget: three users and room for one that asks for all of it.  Gate: a source of three
\* chunks, three checkpoints: with the ladder and the probe, the ladder alone, neither.
SPECIFICATION StreamingSpec
CONSTANTS
  a = a
  b = b
  Providers = {a, b}
  First = a
  None = None
  MaxInFlight = 2
  Billable = TRUE
  ClientMayCancel = TRUE
  Faults = {"provider", "dialTimeout", "select"}
  g1 = g1
  g2 = g2
  g3 = g3
  Gates = {g1, g2, g3}
  Limit = 3
  Demands = {1, 3}
  NoGate = NoGate
  Reader = g1
  Cap = 2
  EventCap = 1
  WorstCase = 3
  ContentBytes = 2
  IdleTimeout = 2
  Probes = {0, 3}
  Rates = {0, 1}
  Stages <- Rungs
  MaxChunks = 3
INVARIANTS
  OrphansOnlyOfClients
  LineIsKept
  BytesKept
PROPERTIES
  AttemptsEnd
  WaitersAreServed
  ContentIsDecided
\* The race is over, or its goroutines wait for a caller that left (HedgeRace_abort); the
\* stream has ended.
CHECK_DEADLOCK FALSE
