\* A read the disk reports as failed.
SPECIFICATION ErrorSpec
CONSTANTS
    NBUF = 2
    Procs = {p1}
    Sectors = {0, 1}
    Value = {0, 1}
    Nothing = Nothing
INVARIANTS
    ValidMeansRead
