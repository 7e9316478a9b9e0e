SPECIFICATION Spec
CONSTANTS
    Null = Null
    Fresh = Fresh
    Objects = {o1, o2, o3, o4}
    Slots = {"first"}
    MaxLevel = 3
INVARIANT UnreferencedAreDestroyed
