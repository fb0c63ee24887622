\* Three of five records, readings, a rejected and an unstorable one, in every order of sends, retries and replays.
CONSTANTS
    p1 = p1
    r10 = r10
    r20 = r20
    r20b = r20b
    bad = bad
    poison = poison
    huge = huge
    None = None
    Pump = {p1}
    Record = {r10, r20, r20b, bad, huge}
    BatchSize = 2
    MaxRetries = 1
    MaxAttempts = 1
    MaxEvents = 3
    Faults = TRUE
    EspOf <- MCEspOf
    TimeOf <- MCTimeOf
    KeyOf <- MCKeyOf
    Accepted <- MCAccepted
    Rejected <- MCRejected
    Unstorable <- MCUnstorable
SPECIFICATION Spec
INVARIANTS
    NothingDisappears
    ReceiptsAreTrue
    LatestHasHistory
PROPERTIES
    LatestRegister
CHECK_DEADLOCK FALSE
