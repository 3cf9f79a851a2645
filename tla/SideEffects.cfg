SPECIFICATION Spec
CONSTANTS
    a = a
    b = b
    c = c
    d = d
    e = e
    Entities <- Four
    Graphs <- AllGraphs
INVARIANTS
    TypeOK
    ReachesAffectedRows
    EffectsAreOneLevel
PROPERTY
    Terminates
CHECK_DEADLOCK FALSE
