\* A handler that leaves its loop by a panic, without a silence timeout.
SPECIFICATION PumpFairSpec
CONSTANTS
    MaxChunks = 3
    IdleTimeout = FALSE
PROPERTIES
    CloseEndsTheStream
\* The stream ends.
CHECK_DEADLOCK FALSE
