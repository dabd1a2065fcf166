CONSTANTS
    Object = {o1, o2, o3}
    NoTask = NoTask
    MaxPid = 5
SPECIFICATION Spec
INVARIANT TypeOK
INVARIANT OwnContext
INVARIANT OwnAddressSpace
INVARIANT ListedAlive
PROPERTY ExitedNeverResumed
PROPERTY NoOvertaking
PROPERTY EveryTaskRuns
CHECK_DEADLOCK FALSE
