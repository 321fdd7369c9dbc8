SPECIFICATION MCMSpec
CONSTANTS
    Key = {k1}
    Value = {v1, v2}
    Handle = {main, other}
    Main = main
    Absent = Absent
    Unset = Unset
    MaxLayers = 6
    MaxPuts = 2
    MaxStops = 1
SYMMETRY Symmetry
INVARIANTS MTypeOK ReadsSnapshot Available
PROPERTIES ImplementsVersionedStore
CHECK_DEADLOCK FALSE
