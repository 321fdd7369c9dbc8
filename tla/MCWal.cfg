SPECIFICATION MCWSpec
CONSTANTS
    SegmentSize = 3
    MaxSaves = 6
    MaxStops = 2
    MaxOutages = 1
INVARIANTS WTypeOK NamesOrdered ReadableUnlessHurt
PROPERTIES ReadAllExact ImplementsEntryLog
CHECK_DEADLOCK FALSE
