SPECIFICATION Spec
CONSTANTS
    f1 = f1
    f2 = f2
    s1 = s1
    s2 = s2
    k1 = k1
    k2 = k2
    k3 = k3
    d1 = d1
    d2 = d2
    o1 = o1
    Files = {f1, f2}
    Symbols = {s1, s2}
    Services = {v1}
    Home <- MCHome
    Imports <- MCImports
    Calls <- MCCalls
    Facts = {d1, d2, o1}
    Kind <- MCKind
    About <- MCAbout
    Related = {r2}
    Chunks = {k1, k2, k3}
    ChunkOf <- MCChunkOf
    Line <- MCLine
    Ghost = Ghost
    Paths = {f1, Ghost}
    Named <- MCNamed
    RrfK = 60
    Scale = 378200
    Priors <- MCPriors
    TopK = 2
    RerankTop = 1
    HopTop = 1
    HopLimit = 1
    CandidateCap = 2
    FallbackTop = 1
    ChunkFiles = 2
    KeepChunks = 1
    KeepFiles = 1
    KeepSymbols = 1
    SymbolLimit = 1
    NameLimit = 1
    CallLimit = 1
    ChunkLimit = 2
    FactLimit = 1
    LinkLimit = 1
    Weight <- MCWeight
    Most <- MCMost
    Budgets = {4, 8}
    MaxFailures = 1
    MaxGone = 1
INVARIANTS Grounded Complete Anchored CutInOrder FusionIsFair
CHECK_DEADLOCK FALSE
