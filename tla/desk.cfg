SPECIFICATION Spec
CONSTANTS
    Null = Null
    Sessions = {t1, t2}
    Workers = {w1, w2}
    RowIds = {a, b}
    Stocked = {a}
    Names = {n1, n2}
    Bodies <- MCBodies
    SessionTTL = 1
    MaxTime = 1
    MaxWrites = 3
    Ops = {"patch", "create", "fail", "restart"}
SYMMETRY Symmetry
INVARIANTS TypeOK PatchTakesEffect CreatedOnce
PROPERTIES SessionDecides PatchKeepsTheRest
