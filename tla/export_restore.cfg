\* Export, reset, restore and verification beside a pipeline that writes, with failures and a damaged copy.
CONSTANTS
    state = state
    alerts = alerts
    pump = pump
    episode = episode
    Key = {1, 2}
    Table = {state, alerts}
    Row = {pump, episode}
    TableOf <- MCTableOf
    PageSize = 1
    Absent = Absent
    Damaged = Damaged
    MaxWrites = 2
    MaxDamage = 1
SPECIFICATION Spec
INVARIANTS
    ExportIsFaithful
    NothingDamagedIsRestored
    NothingThatStayedIsLost
