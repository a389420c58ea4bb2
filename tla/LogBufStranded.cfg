CONSTANTS
    t1 = t1
    t2 = t2
    Callers <- OneCaller
    NTypes = 1
    Levels <- OneLevel
    MaxObj = 1
    RingCap = 4
SPECIFICATION Spec
INVARIANT
    NeedLogMarksValues
