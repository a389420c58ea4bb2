CONSTANTS
    t1 = t1
    t2 = t2
    t3 = t3
    Threads <- MCThreads
    MaxCnt <- MCMaxCnt
SPECIFICATION FairSpec
INVARIANTS
    Exclusion
    CntMeansHolders
PROPERTIES
    SomebodyGetsIn
    WriterStarvesOnlyIfOutrun
