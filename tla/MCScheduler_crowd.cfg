SPECIFICATION Spec
CONSTANTS
    Daemons = {d1, d2}
    OneShot = {}
    Repos = {r1}
    Clis = {c1}
    ThreadIds = {1, 2}
    HungRepos = {}
    PidReuse = TRUE
    MaxCrashes = 1
    NoPid = NoPid
    NoRepo = NoRepo
INVARIANTS TypeOK NoDoubleIngest
CHECK_DEADLOCK FALSE
