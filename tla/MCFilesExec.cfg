\* exec() that fails after it has closed the program file.
SPECIFICATION Spec
CONSTANTS
    NPROC = 2
    NFILE = 4
    NOFILE = 2
    StdFds = {0}
    NPIPE = 1
    Modes = {{"r"}}
INVARIANTS
    ClosedOnce
