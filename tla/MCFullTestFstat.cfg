\* Two clients, as in TEST.CFS, or the local program, that run once each.
CONSTANTS
    Users = {u0, u1}
    Defects <- MCDefects
    FILES = 2
    RUNS = 1
    Tmpdirs <- MCTmpdirs
CHECK_DEADLOCK FALSE
SYMMETRY UserSymmetry
SPECIFICATION Spec
INVARIANT FstatDifferenceReported
