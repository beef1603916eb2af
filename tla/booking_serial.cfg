SPECIFICATION Spec
CONSTANTS
    DayLen = 2
    KstOffset = 1
    ReservationTTL = 1
    InsertDelay = 1
    MaxTime = 2
    Tokens = {t1, t2}
    Devices = {d1}
    Seats = {s1, s2}
    ResIds = {r1, r2, r3}
    Workers = {w1, w2}
    Null = Null
    Ops = {"approve", "reserve", "cancel", "audit", "revoke", "release"}
SYMMETRY Symmetry
INVARIANTS TokenHoldsOne RevokedHoldsNothing
