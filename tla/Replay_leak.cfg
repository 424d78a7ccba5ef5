\* One owner whose calls all succeed.
SPECIFICATION ReplayFairSpec
CONSTANTS
  q1 = q1
  Requests = {q1}
  NoOne = NoOne
  MaxRetries = 2
  MaxFaults = 0
  Length = 2
  QueueSize = 1
PROPERTIES
  SpoolsEnd
\* The spool was released.
CHECK_DEADLOCK FALSE
