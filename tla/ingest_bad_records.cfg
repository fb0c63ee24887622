\* No fault at all: only a record that makes the contract raise.
CONSTANTS
    p1 = p1
    r10 = r10
    r20 = r20
    r20b = r20b
    bad = bad
    poison = poison
    huge = huge
    None = None
    Pump = {p1}
    Record = {r10, poison}
    BatchSize = 2
    MaxRetries = 1
    MaxAttempts = 1
    MaxEvents = 2
    Faults = FALSE
    EspOf <- MCEspOf
    TimeOf <- MCTimeOf
    KeyOf <- MCKeyOf
    Accepted <- MCAccepted
    Rejected <- MCRejected
    Unstorable <- MCUnstorable
SPECIFICATION Spec
INVARIANTS
    BadRecordsAreQuarantined
CHECK_DEADLOCK FALSE
