SPECIFICATION ExitSpec
CONSTANTS
  e1 = e1
  e2 = e2
  r1 = r1
  r2 = r2
  None = None
  Entries = {e1, e2}
  Requests = {e1, e2}
  Rows = {r1, r2}
  RowOf <- OwnRow
  Streams = {e1}
  Capacity = 1
  BatchSize = 2
  TombstoneLimit = 2
  WriteFaults = {"failed", "gap"}
INVARIANTS
  DrainedMeansEmpty
  CleanExitLosesNothing
  NobodyWaitsInVain
\* The process has ended.
CHECK_DEADLOCK FALSE
