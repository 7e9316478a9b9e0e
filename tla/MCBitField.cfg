SPECIFICATION Spec
CONSTANTS
    BitSizes <- MCBitSizes
    TypeSizes <- MCTypeSizes
    Readable <- MCReadable
INVARIANTS
    TypeOK
    FieldReadsBack
    EveryBitOnce
    NoSpuriousError
CHECK_DEADLOCK FALSE
