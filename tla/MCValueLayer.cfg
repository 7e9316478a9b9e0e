SPECIFICATION Spec
CONSTANTS
    Types <- MCTypes
    Debuggees <- MCDebuggees
    Memories <- MCMemories
    ByteBits = 3
    PtrSize = 2
    Host = "little"
    Casts <- MCCasts
    Numbers <- MCNumbers
    Steps <- MCSteps
    MaxCalls = 3
INVARIANTS
    TypeOK
    PointersAgree
    FieldsAgree
    ObjectsOnly
    DynamicTypeRight
PROPERTIES
    WritesReadBack
CHECK_DEADLOCK FALSE
