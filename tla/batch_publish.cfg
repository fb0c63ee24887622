\* Two overlapping executions, one rewrite of raw data and up to three faults, under fairness.
CONSTANTS
    m1 = m1
    m2 = m2
    csv = csv
    v1 = v1
    dirty = dirty
    None = None
    Gone = Gone
    Done = Done
    Broken = Broken
    Run = {m1, m2}
    Object = {csv}
    Version = {v1, dirty}
    Bad = {dirty}
    MaxRewrites = 1
    MaxFaults = 3
SPECIFICATION FairSpec
INVARIANTS
    TypeOK
    NamedRunsAreComplete
    SuccessIsCataloged
PROPERTIES
    PublishesOnce
    ExecutionEnds
CHECK_DEADLOCK FALSE
