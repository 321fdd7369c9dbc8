SPECIFICATION MCWSpec
CONSTANTS
    SegmentSize = 3
    MaxSaves = 6
    MaxStops = 2
    MaxOutages = 1
INVARIANT NoCrcErrors
CHECK_DEADLOCK FALSE
