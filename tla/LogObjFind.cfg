CONSTANTS
    t1 = t1
    t2 = t2
    Callers <- OneCaller
    NTypes = 1
    Levels <- OneLevel
    MaxObj = 2
    RingCap = 2
SPECIFICATION Spec
INVARIANT
    FindsEveryObject
