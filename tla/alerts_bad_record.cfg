\* No fault: a record with a null measurement in front of a good one.
CONSTANTS
    p1 = p1
    a1 = a1
    a2 = a2
    a4 = a4
    a6 = a6
    a7 = a7
    n3 = n3
    n5 = n5
    n8 = n8
    junk = junk
    null = null
    NoRow = NoRow
    Pump = {p1}
    Record = {a1, null}
    Id = {a1, null}
    Rules = 2
    BatchSize = 2
    MaxRetries = 1
    Cooldown = 2
    MaxLen = 3
    Faults = FALSE
    MaxMisreads = 0
    EspOf <- MCEspOf
    IdOf <- MCIdOf
    TimeOf <- MCTimeOf
    TrigOf <- MCTrigOf
    Readable <- MCReadable
    Raises <- MCRaises
SPECIFICATION Spec
PROPERTIES
    BadRecordIsSkipped
CHECK_DEADLOCK FALSE
