\* Circuit: two concurrent writers on one hash, of a provider or of an endpoint,
\* with a breaker of two failures, windows of one tick plus one per level, and a
\* clock that runs long enough for a failed trial and a recovery.
\* Stream: three chunks and a silence timeout.
\* Ledger: a settlement with a cost and one without, two billed losers, two attempts.
\* Slow samples: two recorders, five samples of two requests, a window of one tick.
\* Probe: three requests, and time for one to lose the lease and another to hold it.
SPECIFICATION PartSpec
CONSTANTS
    w1 = w1
    w2 = w2
    Writers = {w1, w2}
    Tiers = {"provider", "endpoint"}
    FailureThreshold = 2
    SuccessThreshold = 2
    Base = 1
    Increment = 1
    MaxOpenCount = 1
    MaxRetries = 2
    MaxTime = 5
    MaxRecords = 4
    MaxChunks = 3
    IdleTimeout = TRUE
    s1 = s1
    s2 = s2
    l1 = l1
    l2 = l2
    None = None
    Patrol = Patrol
    Settlements = {s1, s2}
    Losers = {l1, l2}
    CostOf <- Costs
    LoserCost <- LoserCosts
    Total <- Totals
    MaxAttempts = 2
    Recorders = {w1, w2}
    Members = {s1, s2}
    TriggerCount = 2
    RecoveryRequests = 2
    SlowWindow = 1
    MaxSamples = 5
    MaxSlowTime = 3
    Probes = {s1, s2, l1}
    Nobody = None
    LeaseTTL = 3
    MaxProbeTime = 5
INVARIANTS
    HashTellsHistory
    BlameFitsTheCause
    LedgerExact
    LeasesBehindLedger
    EffectsOwned
    PunishedIsMarked
    ProbeHoldsLease
PROPERTIES
    WindowKept
    NothingSlowIsForgotten
    CancelSettles
    EveryRowCloses
\* The clocks, the recorded outcomes, the chunks and the samples are bounded; a row that is final
\* and whose writers have ended is done with.
CHECK_DEADLOCK FALSE
