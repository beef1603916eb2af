SPECIFICATION FairSpec
CONSTANTS
    Null = Null
    Photos = {p1, p2}
    Others = {o1, o2}
    Patient = {p1, o1}
    Calls = {c1, c2}
    Commits = 1
    Threads = 3
    Conns = 2
    Slots = 1
    Ops = {"poolTimeout", "coreRestart"}
INVARIANTS TypeOK EngineIsBounded
PROPERTIES SaturationIsReal OthersAreServed SubmissionsAreAnswered
