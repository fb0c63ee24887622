\* Every input of up to four rows from two raw objects, with every kind of duplicate and conflict.
CONSTANTS
    ok = ok
    other = other
    late = late
    plain = plain
    tagged = tagged
    Source = {1, 2}
    Historical = {1}
    Event = {1, 2, 3}
    Fields = {ok, other, late}
    Extra = {plain, tagged}
    InWindow = {ok, other}
    WithPump = {ok}
    Delivery <- MCDelivery
    MaxRows = 4
SPECIFICATION Spec
INVARIANTS
    EveryRowIsAccounted
    PassedTableIsComplete
    OracleAgreesWithJob
    OracleIsStricter
    RedeliveryChangesNothing
CHECK_DEADLOCK FALSE
