SPECIFICATION Spec
CONSTANTS
    Threads = {t1}
    Ids = {s1}
    Keys = {k}
    Values = {u1, u2}
    MaxAge = 2
    Threshold = 2
    Delay = 0
    NoId = NoId
    NoValue = NoValue
    NoSession = NoSession
SYMMETRY MCSymmetry
PROPERTIES OnlyMatchingInvalidated
