\* The start: eight pages of the kernel, four for the structs page, twenty in all, a
\* table of four. Then two groups of four pages, of 14 words: two objects of 3 words
\* or one of 5 in a page; a group is freed only while none of its pairs is held. The
\* tree has eight pages, as in the source.
CONSTANTS
    KernelPages = 8
    PagesOfPages = 4
    max_pfn = 20
    MAX_INFO = 4
    BootRequests <- SomeRequests
    MAX_BUDDY_ORDER = 2
    Groups = 2
    PageNums <- AllPageNums
    HeldPairs = FALSE
    PageWords = 14
    ObjSizes <- TwoSizes
    OFFSET_TREE = 8
SPECIFICATION SystemSpec
INVARIANTS BootApart EveryPageOnce   
PROPERTY IsPageAllocator
CHECK_DEADLOCK FALSE
