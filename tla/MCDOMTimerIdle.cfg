CONSTANTS
    Timers <- MCTimers
    NumIds = 2
    Intervals <- MCIntervals
    MinimumTimerInterval = 4
    MaxDomChanges = 1
    MaxFireDepth = 1
    DocumentContexts = {TRUE}
SPECIFICATION Spec
INVARIANT IdleNestingLevelZero
