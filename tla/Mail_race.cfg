\* One sender and the reader, preempted anywhere.
CONSTANTS
    s1 = s1
    s2 = s2
    Senders <- OneSender
    Sends = 3
    MAILBOX_SIZE = 2
    Registrations = 2
    TakeTurns = FALSE
SPECIFICATION Spec
INVARIANT SentIsKept
CHECK_DEADLOCK FALSE
