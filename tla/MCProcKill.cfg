\* The kill flag a reaped or never-used entry carries into its next process.
SPECIFICATION Spec
CONSTANTS
    NPROC = 2
    NCPU = 1
    MaxPid = 2
PROPERTIES
    BornNotKilled
