SPECIFICATION Spec
CONSTANTS
    Objects = {o1, o2, o3}
    MaxRefs = 2
    MaxLocks = 1
    MaxGrants = 1
    MaxThreads = 1
SYMMETRY Symmetry
INVARIANT UnloadedIsQuiet
