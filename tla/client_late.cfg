SPECIFICATION Spec
CONSTANTS
    Null = Null
    Tabs = {t1}
    Ids = {r1, r2}
    Seats = {a1, a2}
    MaxCalls = 2
    Ops = {}

PROPERTY OnlyStaleIsDropped
CHECK_DEADLOCK FALSE
