\* One writer on the hash of an endpoint: two failures open it, the window
\* passes, and the success of the trial that follows is recorded.
SPECIFICATION CircuitSpec
CONSTANTS
    w1 = w1
    Writers = {w1}
    Tiers = {"endpoint"}
    FailureThreshold = 2
    SuccessThreshold = 2
    Base = 1
    Increment = 0
    MaxOpenCount = 0
    MaxRetries = 2
    MaxTime = 3
    MaxRecords = 3
PROPERTIES
    SuccessNeverShuts
\* The clock and the number of recorded outcomes are bounded.
CHECK_DEADLOCK FALSE
