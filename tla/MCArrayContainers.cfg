SPECIFICATION Spec
CONSTANTS
    Kinds <- MCKinds
    MaxLen = 7
    MaxText = 5
    Bases <- MCBases
    Unreadable = 70
    Modulus = 100
    MaxSize = 6
    MaxVector = 12
    BufSize = 4
    BlockSizes <- MCBlockSizes
    ElementSizes <- MCElementSizes
    MapSize = 3
    Spacing = 10
    LocalBuffer = 4
    Radix = 16
    WordBits = 2
    MaxPrinted = 1
    WideChars = 2
    MaxChanges = 1
INVARIANTS
    TypeOK
    SizesAgree
    ElementsAgree
    TextAgrees
    DequeOutlivesResult
CHECK_DEADLOCK FALSE
