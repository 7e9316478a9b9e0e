SPECIFICATION Spec
CONSTANTS
    leaf = leaf
    ptr = ptr
    rec = rec
    fun = fun
    lam = lam
    cust = cust
    NoValue = NoValue
    Values <- MCValues
    Heaps <- MCHeaps
    FieldBudget = 3
    MaxCalls = 3
    MaxFrames = 20
INVARIANTS
    TypeOK
    OptsBalanced
    DepthBalanced
    BudgetBound
    ErrorsContained
    ConversionHidesRawData
PROPERTIES
    BudgetFresh
    FormatTerminates
CHECK_DEADLOCK FALSE
