SPECIFICATION Spec
CONSTANTS
    BitSizes <- MCBitSizes
    TypeSizes <- MCTypeSizes
    Readable <- MCReadable
INVARIANT
    ReadsAllBits
CHECK_DEADLOCK FALSE
