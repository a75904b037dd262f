SPECIFICATION Spec
CONSTANTS
    Int64Bits = 8
    MaxDynamicOffset = 8
    FunctionDepth = 4
    BoundDepth = 4
    DefaultPeriod = 6
    ShiftDepth = 1
    NarrowMax = 3
    Cases <- MCDocumented
    MaxSamples = 4
    MaxGenerated = 5
    MaxRows = 3
    MaxSets = 1
CHECK_DEADLOCK FALSE
INVARIANT
    DocumentedLookbacks
