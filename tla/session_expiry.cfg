\* Three sessions in a row, laptops lost anywhere, three failing calls, under fairness.
CONSTANTS
    s1 = s1
    s2 = s2
    s3 = s3
    None = None
    Session = {s1, s2, s3}
    Retries = 1
    MaxFaults = 3
SPECIFICATION FairSpec
INVARIANTS
    TypeOK
    StackIsGuarded
    OnlyOwnScheduleFires
PROPERTIES
    StackEventuallyGoes
CHECK_DEADLOCK FALSE
