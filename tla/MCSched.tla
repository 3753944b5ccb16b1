------------------------------ MODULE MCSched ------------------------------
(* Constants of the model-checking runs of Sched and TaskList. *)
EXTENDS TaskList

\* A free task on every level, a fixed one, the clock and the two that talk.
MostCommands ==
    {[prog |-> "test", level |-> 0, fixed |-> 0],
     [prog |-> "test", level |-> 1, fixed |-> 1],
     [prog |-> "test", level |-> 2, fixed |-> 0],
     [prog |-> "time", level |-> 2, fixed |-> 1],
     [prog |-> "Send test", level |-> 0, fixed |-> 0]}
=============================================================================
