CONSTANTS
    p1 = p1
    p2 = p2
    c1 = c1
    c2 = c2
    a = a
    b = b
    NULL = NULL
    Producers <- TwoProducers
    Consumers <- TwoConsumers
    Cap = 2
    Items <- OneItem
    MaxOvertake = 1
SPECIFICATION Spec
SYMMETRY Symmetry
INVARIANT
    NoneLost

    
