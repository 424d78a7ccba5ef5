SPECIFICATION FairSpec
CONSTANTS
  a = a
  b = b
  Providers = {a, b}
  First = a
  None = None
  MaxInFlight = 2
  Billable = FALSE
  ClientMayCancel = TRUE
  Faults = {}
PROPERTIES
  CancelReturns
\* The run shows where the race gets stuck.
CHECK_DEADLOCK FALSE
