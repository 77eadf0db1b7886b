SPECIFICATION Spec
CONSTANTS
    Threads = {b, a1, a2}
    Boot = b
    Free = free
INVARIANTS
    MutualExclusion
PROPERTIES
    ImplementsAbstractLock
