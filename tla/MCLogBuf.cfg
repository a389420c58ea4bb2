CONSTANTS
    t1 = t1
    t2 = t2
    Callers <- TwoCallers
    NTypes = 2
    Levels <- OneLevel
    MaxObj = 1
    RingCap = 2
SPECIFICATION FairSpec
INVARIANTS
    TypeOK
    StrandedOnlyByThatRace
PROPERTY
    EveryTypeServed
