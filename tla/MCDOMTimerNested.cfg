CONSTANTS
    Timers <- MCTimers
    NumIds = 2
    Intervals <- MCIntervals
    MinimumTimerInterval = 4
    MaxDomChanges = 1
    MaxFireDepth = 2
    DocumentContexts = {TRUE}
SPECIFICATION Spec
INVARIANT NestedTrackingWhileOneShotRuns
