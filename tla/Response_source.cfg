\* Race: three candidates for two slots, without billing.  Replay: two requests for one
\* response of two chunks, one call to Redis that is executed up to two times
\* or loses its reply, and a queue of one job.
\* Calls: three providers, one with a single place and two tries, two switches, a rectifier.
\* Places: two requests for that place, one call to Redis that goes wrong, time for one TTL.
SPECIFICATION ResponseSpec
CONSTANTS
  a = a
  b = b
  c = c
  q1 = q1
  q2 = q2
  None = None
  Providers = {a, b, c}
  First = a
  MaxInFlight = 2
  Billable = FALSE
  ClientMayCancel = FALSE
  Faults = {"provider", "stateful", "terminal"}
  Requests = {q1, q2}
  NoOne = NoOne
  MaxRetries = 1
  MaxFaults = 1
  Length = 2
  QueueSize = 1
  c1 = c1
  c2 = c2
  Vendors = {a, b, c}
  Callers = {c1, c2}
  RawCallers = {c2}
  SlotLimit <- OneAtFirst
  Tracking = FALSE
  SlotTTL = 2
  LastSlotTick = 2
  MaxTries <- TwoTries
  MaxSwitches = 2
  Rectifiers = {"thinking"}
  RedisFaults = 1
  NoVendor = NoVendor
SYMMETRY AnyRequest
INVARIANTS
  WinnerNotCancelled
  LaunchWindowWorks
  ChainTellsAll
  ReplaysAreWhole
  PlacesAreHeld
  CallsTellTheTruth
PROPERTIES
  OneAnswer
  CompletedIsDurable
  CallsComeToAnEnd
\* The race is over, or nobody is left to finish it (HedgeRace_hang); the requests have
\* been answered and what is kept has expired.
CHECK_DEADLOCK FALSE
