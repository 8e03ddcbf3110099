\* Two CPUs, three table entries: fork fails for want of an entry, orphans
\* are passed to init, a parent and its child race on different CPUs.
SPECIFICATION Spec
CONSTANTS
    NPROC = 3
    NCPU = 2
    MaxPid = 3
INVARIANTS
    TypeOK
    SchedDiscipline
    StackInUse
    NoLostWakeup
    ParentAlive
    PidsUnique
