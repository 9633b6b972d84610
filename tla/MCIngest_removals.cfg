SPECIFICATION FairSpec
CONSTANTS
    Files = {f1, f2}
    Ignored = {f2}
    Deletable = {f1}
    Restore = FALSE
    Revert = FALSE
    Chunkless = {}
    Git = TRUE
    GitMayFail = TRUE
    LlmMayFail = TRUE
    Skips = {{}}
    Workers = {w1}
    NoPack = NoPack
    MaxVersion = 3
    MaxEdits = 2
    MaxCommits = 1
    MaxFull = 0
    MaxAborts = 0
PROPERTIES Converges NoChangesIsTrue SummaryNeverLost
