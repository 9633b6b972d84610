SPECIFICATION FairSpec
CONSTANTS
    a = a
    b = b
    c = c
    af = af
    ag = ag
    bg = bg
    bk = bk
    bh = bh
    cg = cg
    f = f
    g = g
    h = h
    Order <- MCOrder
    Symbols = {af, ag, bg, bk, bh, cg}
    Names = {f, g, h}
    FileOf <- MCFileOf
    NameOf <- MCNameOf
    History <- MCHistory
    Absent = Absent
    Lsp <- MCLsp
    Unsteady = {a}
    MaxFull = 1
    MaxAborts = 1
INVARIANTS CallsAreMade
PROPERTIES Replaced OthersOnlyLose NoGhosts
CHECK_DEADLOCK FALSE
