SPECIFICATION Spec
CONSTANTS
    DayLen = 2
    KstOffset = 1
    ReservationTTL = 1
    MaxTime = 1
    Null = Null
    shopA = shopA
    shopB = shopB
    nameA = nameA
    n1 = n1
    Names = {nameA}
    ShopOrder <- MCShopOrder
    Similarity <- MCSimilarity
    Readings <- MCReadings
    Tokens = {t1, t2}
    Devices = {d1, d2}
    Photos = {p1, p2, p3}
    ValidPhotos = {p1, p2}
    Workers = {w1, w2}
    MaxRows = 2
    Ops = {"audit", "shops", "status", "abort"}
SYMMETRY Symmetry
INVARIANTS TypeOK UnauditedIsClean LockedOutByApproval
PROPERTY ResubmissionIsCaught
