\* One chunk, taken by a client that is slow to write it.
SPECIFICATION PumpSpec
CONSTANTS
    MaxChunks = 3
    IdleTimeout = TRUE
PROPERTIES
    IdleMeansSilent
\* The stream ends.
CHECK_DEADLOCK FALSE
