\* A page and other clients on two request threads, a row written twice and read from lagging replicas, an outage at any time.
CONSTANTS
    thread1 = thread1
    thread2 = thread2
    Request = {thread1, thread2}
    Ttl = 1
    UnavailableAfter = 2
    MaxTime = 2
    MaxVersions = 2
    None = None
SPECIFICATION FairSpec
INVARIANTS
    DashboardInv
    ClaimedAgeIsTrue
PROPERTIES
    LabelsAreTrue
    PageNeverGoesBack
    PageCatchesUp
    RequestsAreAnswered
CHECK_DEADLOCK FALSE
