\* Records of one pump in any order, with duplicates, faults, bisection, one read of an older row, and records the handler cannot read or use.
CONSTANTS
    p1 = p1
    a1 = a1
    a2 = a2
    a4 = a4
    a6 = a6
    a7 = a7
    n3 = n3
    n5 = n5
    n8 = n8
    junk = junk
    null = null
    NoRow = NoRow
    Pump = {p1}
    Record = {a1, a2, n3, a4, junk, null}
    Id = {a1, a2, n3, a4, junk, null}
    Rules = 2
    BatchSize = 2
    MaxRetries = 0
    Cooldown = 2
    MaxLen = 3
    Faults = TRUE
    MaxMisreads = 1
    EspOf <- MCEspOf
    IdOf <- MCIdOf
    TimeOf <- MCTimeOf
    TrigOf <- MCTrigOf
    Readable <- MCReadable
    Raises <- MCRaises
SPECIFICATION FairSpec
INVARIANTS
    TriggersAreSpaced
    EachMessageOnce
    
    RecoveryHasTrigger
    EpisodesFollowTelemetry
    EpisodeInv
PROPERTIES
    AnomalyEventuallyAnnounced
    EpisodeEventuallyCloses
CHECK_DEADLOCK FALSE
