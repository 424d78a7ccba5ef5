SPECIFICATION FairSpec
CONSTANTS
  e1 = e1
  e2 = e2
  r1 = r1
  None = None
  Entries = {e1, e2}
  Rows = {r1}
  RowOf <- SameRow
  Streams = {e1, e2}
  Capacity = 1
  BatchSize = 2
  TombstoneLimit = 2
  WriteFaults = {"lost"}
INVARIANTS
  QueueKeepsItsWord
PROPERTIES
  QueueGoesOn
  QueueIsALine
\* Stop returned and every delivery was answered: the queue is over.
CHECK_DEADLOCK FALSE
