CONSTANTS
    Timers <- MCTimers
    NumIds = 2
    Intervals <- MCZeroInterval
    MinimumTimerInterval = 4
    MaxDomChanges = 1
    MaxFireDepth = 1
    DocumentContexts = {TRUE, FALSE}
SPECIFICATION FairSpec
PROPERTY ThrottleLiftedWhenDisabled
