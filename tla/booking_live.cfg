SPECIFICATION FairSpec
CONSTANTS
    DayLen = 2
    KstOffset = 1
    ReservationTTL = 1
    InsertDelay = 1
    MaxTime = 2
    Tokens = {t1}
    Devices = {d1}
    Seats = {s1}
    ResIds = {r1, r2}
    Workers = {w1, w2}
    Null = Null
    Ops = {"approve", "reserve", "cancel", "seats", "release", "overlap"}
PROPERTY LapsedIsReleased
