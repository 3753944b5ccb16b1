\* Directory buffers whose writes may fail.
CONSTANTS
    Size = 2
    Sectors <- TwoSectors
    BASE = 2
    Values <- TwoValues
    Kinds <- DirectoryOnly
    Fails <- UnnoticedFails
SPECIFICATION Spec
INVARIANT FlushedSurvives
