CONSTANTS
    FireTimes <- MCFireTimes
    AlignmentIntervals <- MCAlignmentIntervals
    Steps = 7
SPECIFICATION Spec
INVARIANT AlignsToNextSlot
