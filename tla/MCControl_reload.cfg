SPECIFICATION FairSpec
CONSTANTS
    r1 = r1
    r2 = r2
    v1 = v1
    v2 = v2
    c1 = c1
    c2 = c2
    p1 = p1
    p2 = p2
    p3 = p3
    Repos = {r1, r2}
    Settings = {v1}
    Unset = Unset
    Clients = {c1}
    Pids = {p1}
    NoPid = NoPid
    Blank = Blank
    MaxCommands = 3
    MaxDeaths = 0
PROPERTIES ChangeReachesDaemon
CHECK_DEADLOCK FALSE
