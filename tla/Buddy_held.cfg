\* Two groups of four pages, freed at any time.
CONSTANTS
    MAX_BUDDY_ORDER = 2
    Groups = 2
    PageNums <- AllPageNums
    HeldPairs = TRUE
SPECIFICATION Spec
INVARIANT FreeIsFree
CHECK_DEADLOCK FALSE
