SPECIFICATION Spec
CONSTANTS
    Texts = {text, blank}
    Blank = blank
    Clients = {c1, c2}
    Dedupe = TRUE
    RestoreReplaced = FALSE
    NoText = NoText
    MaxIds = 3
    MaxOld = 2
    Batch = 1
SYMMETRY ClientSymmetry
INVARIANTS NoCoSurfacing SupersededIsReplaced CopiesBounded
PROPERTIES AppliedInFull Corrects
