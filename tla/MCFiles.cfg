\* Two processes with two descriptors each and four Files: a pipe's two ends
\* and two consoles fill the table, and a pipe needs both descriptors.
SPECIFICATION Spec
CONSTANTS
    NPROC = 2
    NFILE = 4
    NOFILE = 2
    StdFds = {0}
    NPIPE = 1
    Modes = {{"r", "w"}}
CONSTRAINT
    UpToLateFailure
INVARIANTS
    TypeOK
    RefCount
    DescriptorsValid
    PipeEndsTracked
    NoRefPanic
PROPERTIES
    DescriptorStable
