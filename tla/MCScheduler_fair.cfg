SPECIFICATION FairSpec
CONSTANTS
    Daemons = {d1, d2}
    OneShot = {d2}
    Repos = {r1, r2}
    Clis = {}
    ThreadIds = {1}
    HungRepos = {r2}
    PidReuse = FALSE
    MaxCrashes = 1
    NoPid = NoPid
    NoRepo = NoRepo
PROPERTIES EveryRepoIngested
CHECK_DEADLOCK FALSE
