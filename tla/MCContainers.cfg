CONSTANTS
    FifoCap = 4
    FifoBytes = {1, 2}
    MaxBytes = 6
    LifoCap = 4
    LifoWidth = 16
    Bytes = {1, 2}
    ListNodes = {1, 2, 3}
    ListVals = {1, 2}
    QElems = {1, 2, 3, 4}
    SetCap = 4
    SetVals = {1, 2, 3}
    StrCap = 2
    Chars = {1, 2}
    BITS_PER_WORD = 2
    BmSizes <- TwoMaps
    Hash <- HashThree
    force_resize_ratio = 0
    MapKeys = {1, 2, 3}
    MapVals = {1, 2}
    Counts = {2, 3, 5}
    IdxVals = {1, 2, 3}
    IdxCounts = {2, 3, 5}
    RbNodes = {1, 2, 3, 4}
    RbVals = {1, 2, 3}
    HpiElems = {1, 2, 3, 4, 5, 6, 7}
SPECIFICATION Spec
CHECK_DEADLOCK FALSE
INVARIANTS
    FifoKeepsBytes
    LifoHoldsThePushed
    
    QueuesKeepTheirElements
    SetKeepsItsValues
    
    BitmapIsASet
    MapTablesAgree
    IndexTablesAgree
    RbKeepsOne
    HpiIsARedBlackTree
PROPERTIES
    LifoPopsTheLast
    
