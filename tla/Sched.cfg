SPECIFICATION ListSpec
CONSTANTS
    PriQueueNum = 3
    TimeUnit = 1
    PidNum = 4
    MaxPid = 4
    Commands <- MostCommands
INVARIANTS
    TypeOK
    NoHalt
    InOnePlace
    KernelProcessesLive
    PidsOwned
    MailboxesOwned
    ListsAgree
PROPERTIES
    Feedback
    KillsOnlyAllowed
    NoStarvation
    ExitListDrains
