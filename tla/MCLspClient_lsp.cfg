SPECIFICATION FairSpec
CONSTANTS
    MaxIds = 4
    MaxOpens = 1
    MaxStdin = 1
    MaxPipe = 1
    MaxStderr = 0
    MaxNoise = 2
INVARIANTS ReaderServes ServerStopped
PROPERTIES SessionEnds
CHECK_DEADLOCK FALSE
