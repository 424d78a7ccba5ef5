\* Nothing fails but the dial of a provider that does not answer in time; the client may
\* leave.
SPECIFICATION Spec
CONSTANTS
  a = a
  b = b
  Providers = {a, b}
  First = a
  None = None
  MaxInFlight = 2
  Billable = FALSE
  ClientMayCancel = TRUE
  Faults = {"dialTimeout"}
INVARIANTS
  AbortMeansClient
CHECK_DEADLOCK FALSE
