\* No fault: a raw key is written again between the manifest and the end of the job.
CONSTANTS
    m1 = m1
    m2 = m2
    csv = csv
    v1 = v1
    dirty = dirty
    None = None
    Gone = Gone
    Done = Done
    Broken = Broken
    Run = {m1, m2}
    Object = {csv}
    Version = {v1, dirty}
    Bad = {dirty}
    MaxRewrites = 1
    MaxFaults = 0
SPECIFICATION Spec
INVARIANTS
    ManifestFixesInput
CHECK_DEADLOCK FALSE
