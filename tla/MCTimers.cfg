CONSTANTS Timers = {1,2,3}
Callers = {c1, c2}
Src <- SrcDef
NSrc = 2
Expire <- ExpireDef
MaxCalls = 2
SPECIFICATION TimerSpec
CHECK_DEADLOCK FALSE
INVARIANTS TimerLocksAccounted TimerPendingIsQueued TimerFreedOnlyByAlias
 
