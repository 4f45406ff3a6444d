SPECIFICATION Spec
CONSTANTS
    Ids = {s1, s2}
    Keys = {k1, k2}
    Values = {v}
    MaxTime = 3
SYMMETRY MCSymmetry
INVARIANTS AllOrNothing
PROPERTIES ImplementsCheckpoint
