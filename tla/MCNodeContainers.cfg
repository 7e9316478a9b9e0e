SPECIFICATION Spec
CONSTANTS
    Nodes <- MCNodes
    Header = Header
    Null = Null
    Bad = Bad
    MaxSize = 3
    MaxStack = 16
    MaxChanges = 1
    Kinds <- MCKinds
    Beyond <- MCBeyond
INVARIANTS
    TypeOK
    SizeAgrees
    ElementsAgree
    StaleChildFails
    OverflowOnlyLeftCycle
PROPERTIES
    WalkEnds
CHECK_DEADLOCK FALSE
