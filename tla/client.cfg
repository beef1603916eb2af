SPECIFICATION FairSpec
CONSTANTS
    Null = Null
    Tabs = {t1}
    Ids = {r1, r2}
    Seats = {a1, a2}
    MaxCalls = 2
    Ops = {"online", "revoke", "lose"}
INVARIANT TypeOK
PROPERTIES DropFollowsAnEnd EndIsNoticed ButtonComesBack
CHECK_DEADLOCK FALSE
