SPECIFICATION Spec
CONSTANTS
    Names = {x, y, d}
    Dir = d
    BlockLen = 6
    inode_per_group = 72
    OnlyExisting = FALSE
INVARIANTS
    FilesFound
