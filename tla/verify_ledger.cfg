SPECIFICATION Spec
CONSTANTS
    DayLen = 2
    KstOffset = 1
    ReservationTTL = 1
    MaxTime = 1
    Null = Null
    shopA = shopA
    shopB = shopB
    nameA = nameA
    n1 = n1
    Names = {nameA}
    ShopOrder <- MCShopOrder
    Similarity <- MCSimilarity
    Readings <- MCReadings
    Tokens = {t1, t2}
    Devices = {d1, d2}
    Photos = {p1}
    ValidPhotos = {p1}
    Workers = {w1, w2}
    MaxRows = 2
    Ops = {"audit", "status", "abort"}
SYMMETRY Symmetry
INVARIANT OneApproval
PROPERTY ImplementsLedger
