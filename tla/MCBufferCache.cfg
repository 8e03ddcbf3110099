\* One process more than buffers and one sector more than buffers: buffers
\* are recycled, contended for, and run out.
SPECIFICATION Spec
CONSTANTS
    NBUF = 2
    Procs = {p1, p2, p3}
    Sectors = {0, 1, 2}
    Value = {0, 1}
    Nothing = Nothing
SYMMETRY Symmetry
INVARIANTS
    TypeOK
    OneBufferPerSector
    SleepersServed
    PanicOnlyIfAllInUse
PROPERTIES
    ImplementsStore
