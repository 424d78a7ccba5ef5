\* One reader resolves the key, another reads the user; one write, one invalidation.
SPECIFICATION AuthOnly
CONSTANTS
    r1 = r1
    r2 = r2
    i1 = i1
    a1 = a1
    a2 = a2
    g1 = g1
    g2 = g2
    Readers = {r1, r2}
    Invalidators = {i1}
    Failed = Failed
    None = None
    MaxVersion = 1
    MaxEpoch = 1
    Regs = {}
    ChannelOf <- Own
    NoConn = NoConn
    MaxConns = 1
    MaxLosses = 0
    Askers = {}
    LoadError = LoadError
    NoValue = NoValue
    MaxSetting = 0
    MaxGuard = 0
    Bound = g1
    q1 = q1
    q2 = q2
    q3 = q3
    p1 = p1
    p2 = p2
    k1 = k1
    k2 = k2
    Requests = {q1, q2, q3}
    Processes = {p1, p2}
    Terms = {k1, k2}
    FirstTerms = k1
    Limit <- Limits
    Portion <- Portions
    TTL = 1
    MaxCost = 2
    MaxTime = 1
    Nothing = Nothing
    t1 = t1
    t2 = t2
    Posters = {q1, q2}
    Instances = {p1, p2}
    Rows = {t1, t2}
    BatchSize = 1
    MaxAttempts = 2
    MaxFaults = 1
    Absent = Absent
    Turns = {q1, q2, q3}
    Admins = {a1}
    ApiKeys = {k1, k2}
    Destinations = {p1, p2}
    KeyOf <- SessionKey
    NoOne = Nothing
    BindingTTL = 2
    TerminationTTL = 1
    MaxBindingTime = 4
INVARIANT UsersAreFresh
CHECK_DEADLOCK FALSE
