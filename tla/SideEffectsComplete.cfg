SPECIFICATION Spec
CONSTANTS
    a = a
    b = b
    c = c
    d = d
    e = e
    Entities <- Five
    Graphs <- SharedComponent
INVARIANT
    EffectsAreComplete
CHECK_DEADLOCK FALSE
