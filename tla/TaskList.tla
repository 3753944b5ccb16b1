------------------------------ MODULE TaskList ------------------------------
(***************************************************************************)
(* The process control (Sched) together with the linked lists that hold its   *)
(* queues (NodeList): every step does to the nodes what the code does to them, *)
(* in the code's order.  A queue of Sched is what the pointers lead to.        *)
(*                                                                         *)
(* In ListSpec pc_create adds the node in one step.  In RaceSpec a tick may    *)
(* come where the end of the queue was found and the node not yet linked.      *)
(***************************************************************************)
EXTENDS Sched

VARIABLES
    nodes,     \* the task_nodes
    tail       \* pid -> the end of the queue that its list_insert has found

L == INSTANCE NodeList WITH MaxNodes <- MaxPid + 2

list_vars == <<vars, nodes, tail>>

Exit == PriQueueNum      \* PROC_EXIT_LEVEL
NoTail == [p \in Pid |-> L!NULL]

-----------------------------------------------------------------------------
\* pc_find_next moves a task of a lower queue to its end.
Found(t, next) ==
    IF t[next].level > t[current_task].level
    THEN L!list_move_to_end(nodes, t[next].level, next) ELSE {nodes}

\* pc_schedule: the current task moves to the exit list or a queue down.
Requeued(t, m) ==
    LET level == t[current_task].level
        to == IF t[current_task].state = "FINISH" THEN Exit ELSE level + 1
        goes == \/ t[current_task].state = "FINISH"
                \/ current_task' # current_task /\ task'[current_task].level # level
    IN  IF ~goes THEN {m}
        ELSE {L!add_task_to_list(left, to, current_task) :
                 left \in L!list_delete(m, level, current_task)}

\* pc_clear_exit: the first node goes until there is none.
Cleared(m) ==
    LET left[k \in 0 .. MaxPid + 1] ==
            IF k = 0 THEN {m}
            ELSE UNION {LET first == c[L!list_head(Exit)].next
                        IN  IF first = L!NULL THEN {c} ELSE L!list_delete(c, Exit, first[2]) :
                            c \in left[k - 1]}
    IN  left[MaxPid + 1]

\* The nodes after pc_schedule on the tasks t, as a set of one element.
Scheduled(t) ==
    UNION {UNION {UNION {Cleared(m2) : m2 \in Requeued(t, m1)} : m1 \in Found(t, f.next)} :
               f \in pc_find_next(t)}

\* A call ends with its process.
Ended == tail' = [p \in Pid |-> IF call'[p].op = "create" THEN tail[p] ELSE L!NULL]

TickLists == Tick /\ nodes' \in Scheduled(task) /\ UNCHANGED tail

ExceptionLists ==
    /\ Exception
    /\ \E m \in Scheduled(Finished) :
          nodes' = IF current_task = ShellPid
                   THEN L!add_task_to_list(m, 0, Last(task_lists'[0])) ELSE m
    /\ Ended

\* pc_kill: a node in the exit list first, then the old one goes.
PcKillRemoveLists ==
    /\ PcKillRemove
    /\ LET pid == call[current_task].pid
       IN  nodes' \in IF pid \in Queued
                      THEN UNION {L!list_delete(m, task[pid].level, pid) :
                                      m \in {L!add_task_to_list(nodes, Exit, pid)}}
                      ELSE {nodes}
    /\ Ended

\* The end of pc_create.
PcCreateLists ==
    /\ PcCreateQueue
    /\ LET c == call[current_task]
       IN  nodes' = L!add_task_to_list(nodes, c.level, c.pid)
    /\ UNCHANGED tail

\* The steps that leave the lists alone.
OtherLists ==
    /\ \/ \E pid \in Pid, r \in ShellCommands \cup {[prog |-> "Read test", level |-> 0, fixed |-> 0]} :
              PcCreateAlloc(pid, r)
       \/ \E pid \in Pid : PcKillCheck(pid)
       \/ PcRegisterMailbox
    /\ UNCHANGED <<nodes, tail>>

-----------------------------------------------------------------------------
(* list_insert in pc_create, cut in two *)

FindTail ==
    /\ Running
    /\ call[current_task].op = "create"
    /\ tail[current_task] = L!NULL
    /\ tail' = [tail EXCEPT ![current_task] = L!TailOf(nodes, call[current_task].level)]
    /\ UNCHANGED <<vars, nodes>>

Link ==
    /\ tail[current_task] # L!NULL
    /\ PcCreateQueue
    /\ LET c == call[current_task]
       IN  nodes' = L!LinkBehind(nodes, tail[current_task], L!Node(c.level, c.pid))
    /\ tail' = [tail EXCEPT ![current_task] = L!NULL]

-----------------------------------------------------------------------------
\* init_pc queues idle, create_startup_process the shell and the clock.
ListInit ==
    /\ Init
    /\ nodes = LET m0 == L!list_init(Level \cup {Exit})
                   m1 == L!add_task_to_list(m0, Lowest, IDLE_PID)
                   m2 == L!add_task_to_list(m1, 0, ShellPid)
               IN  L!add_task_to_list(m2, Lowest, ClockPid)
    /\ tail = NoTail

Always == TickLists \/ ExceptionLists \/ PcKillRemoveLists \/ OtherLists

ListNext == Always \/ PcCreateLists
ListSpec == ListInit /\ [][ListNext]_list_vars /\ WF_vars(Tick)      \* as FairSpec

RaceNext == Always \/ FindTail \/ Link
RaceSpec == ListInit /\ [][RaceNext]_list_vars

-----------------------------------------------------------------------------
(* Properties *)

\* The tasks of a list, along the pointers.
Tasks(level) == LET a == Tail(L!Along(nodes, level)) IN [k \in DOMAIN a |-> a[k][2]]

\* The pointers lead to exactly the tasks of each queue, in its order, and back: no
\* insertion, deletion or move, in whatever order ticks, kills and exceptions come,
\* loses a task, leaves one in two lists or cuts a list off.
ListsAgree ==
    /\ \A l \in Level : Tasks(l) = task_lists[l]
    /\ Tasks(Exit) = exit_list
    /\ \A n \in DOMAIN nodes :
          /\ nodes[n].next # L!NULL => nodes[nodes[n].next].previous = n
          /\ nodes[n].previous # L!NULL => nodes[nodes[n].previous].next = n
=============================================================================
