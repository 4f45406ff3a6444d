SPECIFICATION Spec
CONSTANTS
    Threads = {t1, t2}
    Ids = {s1, s2, s3, s4}
    Keys = {k}
    Values = {u1}
    MaxAge = 3
    Threshold = 2
    Delay = 1
    NoId = NoId
    NoValue = NoValue
    NoSession = NoSession
SYMMETRY MCSymmetry
INVARIANTS NotCutShort CleanupDue
PROPERTIES EndedForGood ExpiredForGood
