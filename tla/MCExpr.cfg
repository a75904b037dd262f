SPECIFICATION MCSpec
CONSTANTS
    Int64Bits = 8
    InlineDepthLimit = 3
    InferDepthLimit = 4
    StackCapacity = 6
    MaxFastCode = 20
    MaxFastArgs = 3
    Cases <- MCCases
    MaxChanges = 2
    MaxOffset = 2
CHECK_DEADLOCK FALSE
INVARIANTS
    CompiledAgrees
    NumberAgrees
    TypesPredict
    CallsByValue
    OffsetIsThePast
    StacksAsValidated
    ParserIsGrammar
    PrintReparses
PROPERTY
    ImplementsFastStack
