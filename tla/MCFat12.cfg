SPECIFICATION Spec
CONSTANTS
    Procs = {p, q}
    NFILE = 1
    Bytes = 2
    SectorsPerCluster = 2
    FatSector = 8
    Fats <- MCFats
    Root <- MCRoot
    Dir <- MCDir
    PerSector = 3
    NameLen = 2
    ExtLen = 3
    Paths <- MCPaths
    Chdirs <- MCChdirs
    PartSize = 10
    Stale = {"q"}
    Lengths = {1, 3, 5}
INVARIANT TypeOK
INVARIANT ReadExact
INVARIANT OpenFinds
SYMMETRY MCSymmetry
