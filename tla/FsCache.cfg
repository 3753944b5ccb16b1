\* Two buffers of each kind over three sectors; the writes of a file may fail.
CONSTANTS
    Size = 2
    Sectors <- ThreeSectors
    BASE = 3
    Values <- TwoValues
    Kinds <- AllKinds
    Fails <- NoticedFails
SPECIFICATION Spec
INVARIANTS  OneBufferEach FlushedSurvives MirrorsAgree
