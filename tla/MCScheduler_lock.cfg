SPECIFICATION SpecNoRace
CONSTANTS
    Daemons = {d1, d2}
    OneShot = {}
    Repos = {r1, r2}
    Clis = {}
    ThreadIds = {1, 2}
    HungRepos = {}
    PidReuse = FALSE
    MaxCrashes = 1
    NoPid = NoPid
    NoRepo = NoRepo
INVARIANTS NoLeakedLock
PROPERTIES ReleasedOnlyWhenIdle OneIngestAtATime
SYMMETRY DaemonSymmetry
CHECK_DEADLOCK FALSE
