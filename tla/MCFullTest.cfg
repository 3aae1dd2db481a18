\* Two clients, as in TEST.CFS, or the local program, that run twice each.
CONSTANTS
    Users = {u0, u1}
    Defects <- MCDefects
    FILES = 2
    RUNS = 2
    Tmpdirs <- MCTmpdirs
CHECK_DEADLOCK FALSE
CONSTRAINT DefectBound
SYMMETRY UserSymmetry
SPECIFICATION Spec
INVARIANTS
    TypeOK
    DefectsReported
    NamesBounded
PROPERTIES
    NoFalseAlarm
    HomesApart
