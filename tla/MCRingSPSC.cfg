CONSTANTS
    p1 = p1
    p2 = p2
    c1 = c1
    c2 = c2
    a = a
    b = b
    NULL = NULL
    Producers <- OneProducer
    Consumers <- OneConsumer
    Cap = 4
    Items <- TwoItems
    MaxOvertake = 0
SPECIFICATION Spec
PROPERTIES
    LoadsItsObject
    IsAQueue
