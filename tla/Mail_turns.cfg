\* Two senders and two successive owners of the pid; the calls do not overlap.
CONSTANTS
    s1 = s1
    s2 = s2
    Senders <- TwoSenders
    Sends = 2
    MAILBOX_SIZE = 2
    Registrations = 2
    TakeTurns = TRUE
SPECIFICATION FairSpec
INVARIANTS NoWildAccess
PROPERTIES IsMailQueue SentIsRead
CHECK_DEADLOCK FALSE
