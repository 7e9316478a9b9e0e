CONSTANTS
    Terms <- theTerms
    FunLists <- theFuns
    Growing <- theGrowing
    MaxFields = 1
    UnitLength <- lengths
    CountLimit = 4000
    Kinds = {"tuple", "libcxx_tuple", "unique_ptr", "shared_ptr", "libcxx_shared_ptr", "optional", "variant", "function", "any", "libcxx_function", "bind", "duration", "time_point"}
    Item <- items
    MaxElems = 3
    MaxOwners = 2
    Counts <- counts
    Word = 8
    AddressSize = 8
    Functors <- theFunctors
    SizeOf <- sizes
    Trivial <- trivial
    Managers <- theManagers
    Asking = {"any"}
    MaxChanges = 1
SPECIFICATION Spec
INVARIANTS TypeOK ContentShown TimesAgree TypesAgree
CHECK_DEADLOCK FALSE
