CONSTANTS
    p1 = p1
    p2 = p2
    c1 = c1
    c2 = c2
    a = a
    b = b
    NULL = NULL
    Producers <- TwoProducers
    Consumers <- OneConsumer
    Cap = 2
    Items <- OneItem
    MaxOvertake = 2
SPECIFICATION Spec
INVARIANT
    HoldsAtMostCap
