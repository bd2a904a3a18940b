\* The bounds end.
SPECIFICATION MCSpec
CHECK_DEADLOCK FALSE
CONSTANTS
    p1 = p1
    x = x
    Principals = {p1, p2}
    Delegable = {p1, p2}
    Users = {u1}
    Rows = {r1}
    Contents = {x, y}
    Migrations = {m1, m2}
    Touching = {m2}
    Absent = Absent
    MaxApprovals = 2
    MaxRowFlips = 3
    MaxSchemaFlips = 3
    MaxRevision = 1
    MaxHolds = 2
    MaxMemberships = 2
INVARIANTS
    TwoActors
PROPERTIES
    Gated
    GrantDies
