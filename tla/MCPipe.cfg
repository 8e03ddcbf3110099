\* Two processes that hold both ends, as after a fork() before close(): readers
\* compete, writers compete, and a write may not fit into what is left.
SPECIFICATION Spec
CONSTANTS
    PIPESIZE = 2
    Wrap = 4
    Byte = {0, 1}
    Junk = 1
    MaxN = 2
    Procs = {b, w}
    Readers = {b, w}
    Writers = {b, w}
    Nobody = Nobody
INVARIANTS
    TypeOK
    PipeSleepersBlocked
    FreedOnceUnused
PROPERTIES
    ImplementsChannel
    ReaderSeesEof
    WriterSeesClose
    KilledReturns
