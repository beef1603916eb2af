SPECIFICATION Spec
CONSTANTS
    Null = Null
    s1 = s1
    s2 = s2
    d1 = d1
    Screens = {s1, s2}
    Devices = {d1}
    Readers = {s1}
    Owner <- MCOwner
    h1 = h1
    h2 = h2
    Handlers = {h1, h2}
    Ids = {1, 2, 3, 4}
    Old = {1, 3}
    Window = 1
    PageSize = 1
    MaxTime = 1
    Ops = {"fail", "lose", "delete", "restart"}
SYMMETRY MCSymmetry
INVARIANTS TypeOK NothingSkipped NothingRepeated RateLimitIsEarned NotedPostsCount
