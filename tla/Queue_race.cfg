SPECIFICATION RaceSpec
CONSTANTS
    PriQueueNum = 3
    TimeUnit = 1
    PidNum = 4
    MaxPid = 4
    Commands <- MostCommands
INVARIANTS
    ListsAgree
