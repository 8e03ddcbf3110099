\* The one CPU main() starts, three table entries: kill, exit and wait under
\* a fair scheduler.
SPECIFICATION FairSpec
CONSTANTS
    NPROC = 3
    NCPU = 1
    MaxPid = 3
INVARIANTS
    KilledNotAsleep
PROPERTIES
    KilledExits
    WaitReturns
