CONSTANTS
    Timers <- MCTimers
    NumIds = 2
    Intervals <- MCZeroInterval
    MinimumTimerInterval = 4
    MaxDomChanges = 0
    MaxFireDepth = 2
    DocumentContexts = {TRUE, FALSE}
SPECIFICATION Spec
INVARIANT TypeOK
INVARIANT IntervalConsistent
INVARIANT NestedMapSound
