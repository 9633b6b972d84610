SPECIFICATION Spec
CONSTANTS
    r1 = r1
    r2 = r2
    v1 = v1
    v2 = v2
    c1 = c1
    c2 = c2
    p1 = p1
    p2 = p2
    p3 = p3
    Repos = {r1, r2}
    Settings = {v1, v2}
    Unset = Unset
    Clients = {c1, c2}
    Pids = {p1, p2, p3}
    NoPid = NoPid
    Blank = Blank
    MaxCommands = 3
    MaxDeaths = 1
INVARIANTS RegistryKept OneDaemon
CHECK_DEADLOCK FALSE
