\* A batch that opens and closes an episode fails after its work is done.
CONSTANTS
    p1 = p1
    a1 = a1
    a2 = a2
    a4 = a4
    a6 = a6
    a7 = a7
    n3 = n3
    n5 = n5
    n8 = n8
    junk = junk
    null = null
    NoRow = NoRow
    Pump = {p1}
    Record = {a1, n3}
    Id = {a1, n3}
    Rules = 2
    BatchSize = 2
    MaxRetries = 1
    Cooldown = 2
    MaxLen = 3
    Faults = TRUE
    MaxMisreads = 0
    EspOf <- MCEspOf
    IdOf <- MCIdOf
    TimeOf <- MCTimeOf
    TrigOf <- MCTrigOf
    Readable <- MCReadable
    Raises <- MCRaises
SPECIFICATION Spec
PROPERTIES
    RecordedAlertsAreNotRepeated
CHECK_DEADLOCK FALSE
