SPECIFICATION FairSpec
CONSTANTS
    Files = {f1, f2}
    Ignored = {}
    Deletable = {}
    Restore = FALSE
    Revert = FALSE
    Chunkless = {}
    Git = TRUE
    GitMayFail = TRUE
    LlmMayFail = FALSE
    Skips = {{}}
    Workers = {w1}
    NoPack = NoPack
    MaxVersion = 3
    MaxEdits = 2
    MaxCommits = 1
    MaxFull = 1
    MaxAborts = 1
INVARIANTS RecordedIsIndexed RecordedHasText PackedIsIndexed
PROPERTIES Converges Settles Follows
