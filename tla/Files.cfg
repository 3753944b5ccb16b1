SPECIFICATION FilesSpec
CONSTANTS
    TotalClusters = 6
    FreeCount = 3
    Slots = 3
    Base = 6
    Names = {kernel, a}
    Kernel = kernel
    Texts = {t}
    MaxRestarts = 1
    ExtNames = {x, y, d}
    Dir = d
    BlockLen = 6
    inode_per_group = 72
    OnlyExisting = TRUE
    ClusterLen = 4
    ReadLen = 2
    MaxLen = 10
    BUFFER_SIZE = 6
    ROW_LEN = 2
    COLUMN_LEN = 3
    MaxInst = 3
    MaxFile = 3
INVARIANTS
    ChainsApart
    CardSound
    
    NamesOnce
    FilesFound
    InodesOwned
    RecordsFill
    ReadsRight
    
PROPERTIES
    FilesKept
