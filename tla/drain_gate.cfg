\* Any two of an ordinary reading, a rejected record and one the table cannot store, each sent up to twice, and a gate that may look twice.
CONSTANTS
    p1 = p1
    fine = fine
    bad = bad
    huge = huge
    None = None
    Pump = {p1}
    Record = {fine, bad, huge}
    BatchSize = 2
    MaxRetries = 0
    MaxAttempts = 2
    MaxEvents = 2
    Faults = TRUE
    EspOf <- MCEspOf
    TimeOf <- MCTimeOf
    KeyOf <- MCKeyOf
    Accepted <- MCAccepted
    Rejected <- MCRejected
    Unstorable <- MCUnstorable
    MaxLooks = 2
SPECIFICATION DrainFairSpec
INVARIANTS
    IngestInv
    CompleteIsTrue
    MissingWasNotArchived
PROPERTIES
    AcknowledgedIsAccounted
    GateEnds
CHECK_DEADLOCK FALSE
