\* A panic stops the machine, and so does the end of the calls.
SPECIFICATION Spec
CONSTANTS
    NPAGES = 16
    PGSIZE = 2
    NPTENTRIES = 4
    KERNBASE = 12
    NPROC = 2
    Programs = {11, 12, 13, 14}
    Image <- MCImage
    Deltas <- MCDeltas
    ArgSizes = {1, 3}
    Written = {0}
    MaxCalls = 4
INVARIANTS
    TypeOK
    PagesOwnedOnce
    SizeIsMapped
    NoVmPanic
    ReadyImage
PROPERTIES
    ImplementsAddressSpaces
CHECK_DEADLOCK FALSE
