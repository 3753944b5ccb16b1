\* Keys and modifiers at any moment, in a ring of two.
CONSTANTS
    Size = 2
    Keys <- Modifiers
    MaxKeys = 5
    MaxCaps = 2
SPECIFICATION FairSpec
INVARIANTS NeverTwice InOrder 
PROPERTY NothingLost
CHECK_DEADLOCK FALSE
