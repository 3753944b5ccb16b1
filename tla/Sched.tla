------------------------------- MODULE Sched -------------------------------
(***************************************************************************)
(* The process table of HugePie and the kernel entries that change it      *)
(* (kernel/pc/pc.c, kernel/pc/pid.c, the part of kernel/pc/mail.c that      *)
(* tracks who owns a mailbox, arch/mips32/exc.c).                           *)
(*                                                                         *)
(* Grain.  The timer interrupt and the exception handler run with           *)
(* interrupts off (EXL is set), so pc_schedule and do_exceptions are one    *)
(* action each.  pc_create and pc_kill are called by an ordinary process    *)
(* with interrupts on: pc_create is split where another process can first   *)
(* see its effect (the pid is in the tree, the task is not yet queued) and  *)
(* pc_kill between its checks and its masked section.  The finer races      *)
(* inside the list, tree and mail operations have modules of their own.     *)
(***************************************************************************)
EXTENDS Integers, FiniteSets, SequencesExt

CONSTANTS
    PriQueueNum,  \* PRI_QUEUE_NUM, number of run queues
    TimeUnit,     \* TIME_UNIT, quanta of a task at level 0
    PidNum,       \* PID_NUM, Check_pid knows only the pids below it
    MaxPid,       \* bound of the model: no pid above it is handed out
    Commands      \* bound of the model: the pc_create calls the shell issues

IDLE_PID == 0
ShellPid == 1
ClockPid == 2
NoPid    == -1

Pid   == 0 .. MaxPid
Level == 0 .. PriQueueNum - 1
Lowest == PriQueueNum - 1

\* The bodies of the processes; only what they ask of the kernel matters.
Prog == {"idle", "powershell", "time", "test", "Send test", "Read test"}

\* The pc_create calls of the shell: proc, time and testcomm (usr/ps.c).
ShellCommands ==
    [prog : {"test"}, level : Level, fixed : {0, 1}]
        \cup {[prog |-> "time", level |-> Lowest, fixed |-> 1],
              [prog |-> "Send test", level |-> 0, fixed |-> 0]}

ASSUME ConstantsAssumption ==
    /\ PriQueueNum \in Nat /\ PriQueueNum >= 2
    /\ TimeUnit \in Nat \ {0}
    /\ PidNum \in Nat
    /\ MaxPid \in Nat /\ MaxPid > ClockPid
    /\ Commands \subseteq ShellCommands

VARIABLES
    task_lists,    \* level -> the pids queued there, head first
    exit_list,     \* the pids waiting to be reaped
    task,          \* pid -> its task_struct
    current_task,
    pid_tree,      \* the pids that are allocated
    mailbox_tree,  \* the pids that own a mailbox
    call,          \* pid -> the pc_create or pc_kill that process is inside of
    halted         \* "no", or which while(1) error stop of pc_schedule was reached

vars == <<task_lists, exit_list, task, current_task, pid_tree, mailbox_tree,
          call, halted>>

TaskStruct == [state : {"FREE", "READY", "RUNNING", "FINISH"}, level : Level,
               fixed : {0, 1}, time_cnt : 1 .. TimeUnit * PriQueueNum, prog : Prog]

Call == [op : {"none", "create", "kill", "done"}, pid : Pid \cup {NoPid},
         prog : Prog, level : Level, fixed : {0, 1}]

NoCall == [op |-> "none", pid |-> NoPid, prog |-> "idle", level |-> 0, fixed |-> 0]

NewTask(prog, level, fixed) ==
    [state |-> "READY", level |-> level, fixed |-> fixed,
     time_cnt |-> TimeUnit * (level + 1), prog |-> prog]

\* No list leads to a task_struct with this pid.
NoTask == [NewTask("idle", 0, 0) EXCEPT !.state = "FREE"]

Queued == UNION {Range(task_lists[l]) : l \in Level}

-----------------------------------------------------------------------------
(* List and pid helpers *)

\* Variant of list_delete that unlinks nothing.
Bad_list_delete(list, pid) == list

\* list_delete: nothing happens when the pid is not in that list.
list_delete(list, pid) == RemoveFirst(list, pid)

\* Variant of list_move_to_end that leaves the list as it is.
Bad_list_move_to_end(list, pid) == list

list_move_to_end(list, pid) == Append(list_delete(list, pid), pid)

add_task_to_list(list, pid) == Append(list, pid)

\* The least element of a set of naturals, as a set: empty for the empty set.
Least(S) == {i \in S : \A j \in S : i <= j}

\* The positions of the READY tasks of a queue.
Ready(t, list) == {i \in DOMAIN list : t[list[i]].state = "READY"}

\* pc_find_available: the first READY task of a queue; {} stands for NULL.
pc_find_available(t, list) == {list[i] : i \in Least(Ready(t, list))}

Check_pid(tree, pid) == pid \in tree /\ pid < PidNum

\* Variant of Alloc_pid that takes the number of processes for the next pid.
Bad_Alloc_pid(tree, pid) == pid = Cardinality(tree)

\* pid is what Alloc_pid returns: one above the greatest pid of the tree.
Alloc_pid(tree, pid) == \E max \in tree : pid = max + 1 /\ \A q \in tree : q <= max

-----------------------------------------------------------------------------
(* pc_schedule *)

WithReady(t, levels) == {k \in levels : Ready(t, task_lists[k]) # {}}

\* pc_find_next: the task that runs next and the queues after list_move_to_end,
\* as the set of that one outcome.
pc_find_next(t) ==
    LET level  == t[current_task].level
        list   == task_lists[level]
        pos    == CHOOSE i \in DOMAIN list : list[i] = current_task
        lower  == WithReady(t, level + 1 .. Lowest)
        higher == WithReady(t, 0 .. level - 1)
        Stay(pid) == [next |-> pid, lists |-> task_lists]
        Move(k, pid) ==
            [next |-> pid, lists |-> [task_lists EXCEPT ![k] = list_move_to_end(@, pid)]]
    IN  IF current_task \notin Range(list) THEN {Stay(NoPid)}
        ELSE IF pos = Len(list) /\ lower # {} THEN
            UNION {{Move(k, pid) : pid \in pc_find_available(t, task_lists[k])} : k \in Least(lower)}
        ELSE IF higher # {} THEN
            UNION {{Stay(pid) : pid \in pc_find_available(t, task_lists[k])} : k \in Least(higher)}
        ELSE IF pos # Len(list) /\ t[list[pos + 1]].state = "READY" THEN {Stay(list[pos + 1])}
        ELSE IF Ready(t, list) # {} THEN {Stay(pid) : pid \in pc_find_available(t, list)}
        ELSE {Stay(current_task)}

\* Variant of Demoted that restarts the slice of the level it leaves.
Bad_Demoted(p) == [p EXCEPT !.level = @ + 1, !.time_cnt = TimeUnit * (p.level + 1)]

Demoted(p) == [p EXCEPT !.level = @ + 1, !.time_cnt = TimeUnit * (p.level + 2)]

\* Variant of Sliced that lets a task of the lowest level sink further.
Unbounded_Sliced(p) ==
    IF p.fixed = 1 THEN p
    ELSE IF p.time_cnt = 1 THEN Demoted(p)
    ELSE [p EXCEPT !.time_cnt = @ - 1]

\* A task loses one quantum when another one replaces it.
Sliced(p) ==
    IF p.fixed = 1 \/ p.level = Lowest THEN p
    ELSE IF p.time_cnt = 1 THEN Demoted(p)
    ELSE [p EXCEPT !.time_cnt = @ - 1]

Preempted(p) == IF p.state = "FINISH" THEN p ELSE [Sliced(p) EXCEPT !.state = "READY"]

\* Variant of Destroy_mailboxes that keeps the mailbox of a dead process.
Bad_Destroy_mailboxes(tree, dead) == tree

Destroy_mailboxes(tree, dead) == tree \ dead

\* Variant of Del_pids that leaks the pid.
Bad_Del_pids(tree, dead) == tree

Del_pids(tree, dead) == tree \ dead

\* The task_structs that stay reachable.
Kept(t, dead) == [p \in Pid |-> IF p \in dead THEN NoTask ELSE t[p]]

Table(lists, exits, t, cur, pids, boxes, stop) ==
    [task_lists |-> lists, exit_list |-> exits, task |-> t, current_task |-> cur,
     pid_tree |-> pids, mailbox_tree |-> boxes, halted |-> stop]

\* Where pc_schedule stops the machine; the other variables keep their values,
\* for nothing runs any more.
Stopped(t, why) == Table(task_lists, exit_list, t, current_task, pid_tree, mailbox_tree, why)

\* pc_schedule up to pc_clear_exit, on the tasks t and with what pc_find_next found:
\* retire or slice the current task and switch.
Switched(t, found) ==
    LET next  == found.next
        cur   == t[current_task]
        new   == IF next = current_task THEN cur ELSE Preempted(cur)
        left  == [found.lists EXCEPT ![cur.level] = list_delete(@, current_task)]
        lists == IF cur.state = "FINISH" THEN left
                 ELSE IF new.level # cur.level
                 THEN [left EXCEPT ![new.level] = add_task_to_list(@, current_task)]
                 ELSE found.lists
        exits == IF cur.state = "FINISH" THEN add_task_to_list(exit_list, current_task)
                 ELSE exit_list
        tasks == IF next = current_task THEN t
                 ELSE [t EXCEPT ![current_task] = new, ![next].state = "RUNNING"]
    IN  IF next = NoPid THEN Stopped(t, "no available processes")
        ELSE IF next = current_task /\ current_task # IDLE_PID THEN Stopped(t, "idle is missing")
        ELSE Table(lists, exits, tasks, next, pid_tree, mailbox_tree, "no")

\* pc_clear_exit: mailbox, pid and node of every finished process go.
pc_clear_exit(s) ==
    LET dead == Range(s.exit_list)
    IN  IF s.halted # "no" THEN s
        ELSE IF \E p \in dead : s.task[p].state # "FINISH"
        THEN [s EXCEPT !.halted = "unfinished task in exit list"]
        ELSE Table(s.task_lists, <<>>, Kept(s.task, dead), s.current_task,
                   Del_pids(s.pid_tree, dead), Destroy_mailboxes(s.mailbox_tree, dead), "no")

Commit(s) ==
    /\ task_lists' = s.task_lists     /\ exit_list' = s.exit_list
    /\ task' = s.task                 /\ current_task' = s.current_task
    /\ pid_tree' = s.pid_tree         /\ mailbox_tree' = s.mailbox_tree
    /\ halted' = s.halted

-----------------------------------------------------------------------------
(* The kernel entries *)

Running == halted = "no"

\* Variant of Tick in which pc_schedule returns before pc_clear_exit.
Bad_Tick ==
    /\ Running
    /\ \E found \in pc_find_next(task) : \E s \in {Switched(task, found)} : Commit(s)
    /\ UNCHANGED call

\* Interrupt 7: the timer calls pc_schedule.
Tick ==
    /\ Running
    /\ \E found \in pc_find_next(task) :
       \E s \in {Switched(task, found)} :
       \E c \in {pc_clear_exit(s)} : Commit(c)
    /\ UNCHANGED call

\* pc_create(ps, "powershell", 0, 1, 1) at the end of do_exceptions.
ShellPidIn(tree) == IF Check_pid(tree, ShellPid) THEN Max(tree) + 1 ELSE ShellPid

\* Variant of RecreateShell that lets Alloc_pid choose the pid.
Bad_RecreateShell(s) ==
    LET pid == Max(s.pid_tree) + 1
    IN  [s EXCEPT !.pid_tree = @ \cup {pid},
                  !.task[pid] = NewTask("powershell", 0, 1),
                  !.task_lists[0] = add_task_to_list(@, pid)]

RecreateShell(s) ==
    LET pid == ShellPidIn(s.pid_tree)
    IN  [s EXCEPT !.pid_tree = @ \cup {pid},
                  !.task[pid] = NewTask("powershell", 0, 1),
                  !.task_lists[0] = add_task_to_list(@, pid)]

\* pc_kill_syscall: the current process is finished, and pc_schedule replaces it.
Finished == [task EXCEPT ![current_task].state = "FINISH"]

\* do_exceptions: whatever the cause (a system call too), the current process
\* dies; a shell is started again.  The idle loop raises no exception.
Exception ==
    /\ Running
    /\ current_task # IDLE_PID
    /\ \E found \in pc_find_next(Finished) :
       \E s \in {Switched(Finished, found)} :
       \E c \in {pc_clear_exit(s)} :
           Commit(IF current_task = ShellPid /\ c.halted = "no" THEN RecreateShell(c) ELSE c)
    /\ call' = [call EXCEPT ![current_task] = NoCall]

\* What the program of the current process may pass to pc_create now.
Requests ==
    CASE task[current_task].prog = "powershell" -> Commands
      [] task[current_task].prog = "Send test" ->
            {[prog |-> "Read test", level |-> 0, fixed |-> 0]}
      [] OTHER -> {}

\* pc_create, first part: the pid is taken.
PcCreateAlloc(pid, r) ==
    /\ Running
    /\ call[current_task].op = "none"
    /\ r \in Requests
    /\ Alloc_pid(pid_tree, pid)
    /\ pid_tree' = pid_tree \cup {pid}
    /\ call' = [call EXCEPT ![current_task] =
                   [op |-> "create", pid |-> pid, prog |-> r.prog,
                    level |-> r.level, fixed |-> r.fixed]]
    /\ UNCHANGED <<task_lists, exit_list, task, current_task, mailbox_tree, halted>>

\* pc_create, second part: the task_struct is filled in and queued.  test_send
\* creates one process, the shell goes on to its next command.
PcCreateQueue ==
    LET c == call[current_task]
    IN  /\ Running
        /\ c.op = "create"
        /\ task' = [task EXCEPT ![c.pid] = NewTask(c.prog, c.level, c.fixed)]
        /\ task_lists' = [task_lists EXCEPT ![c.level] = add_task_to_list(@, c.pid)]
        /\ call' = [call EXCEPT ![current_task] =
                       IF task[current_task].prog = "Send test"
                       THEN [NoCall EXCEPT !.op = "done"] ELSE NoCall]
        /\ UNCHANGED <<exit_list, current_task, pid_tree, mailbox_tree, halted>>

\* Variant of KillAllowed without the test for the idle process.
Bad_KillAllowed(pid) == Check_pid(pid_tree, pid) /\ pid # ShellPid /\ pid # current_task

\* The checks of pc_kill, made with interrupts on.
KillAllowed(pid) ==
    /\ Check_pid(pid_tree, pid)
    /\ pid # IDLE_PID
    /\ pid # ShellPid
    /\ pid # current_task

PcKillCheck(pid) ==
    /\ Running
    /\ task[current_task].prog = "powershell"
    /\ call[current_task].op = "none"
    /\ KillAllowed(pid)
    /\ call' = [call EXCEPT ![current_task] = [NoCall EXCEPT !.op = "kill", !.pid = pid]]
    /\ UNCHANGED <<task_lists, exit_list, task, current_task, pid_tree, mailbox_tree, halted>>

\* The masked section of pc_kill; the target may have died meanwhile.
PcKillRemove ==
    LET pid == call[current_task].pid
    IN  /\ Running
        /\ call[current_task].op = "kill"
        /\ IF pid \in Queued
           THEN /\ task' = [task EXCEPT ![pid].state = "FINISH"]
                /\ exit_list' = add_task_to_list(exit_list, pid)
                /\ task_lists' = [task_lists EXCEPT ![task[pid].level] = list_delete(@, pid)]
                /\ call' = [call EXCEPT ![pid] = NoCall, ![current_task] = NoCall]
           ELSE /\ call' = [call EXCEPT ![current_task] = NoCall]
                /\ UNCHANGED <<task, exit_list, task_lists>>
        /\ UNCHANGED <<current_task, pid_tree, mailbox_tree, halted>>

\* pc_register_mailbox: test_read asks for a mailbox once.
PcRegisterMailbox ==
    /\ Running
    /\ task[current_task].prog = "Read test"
    /\ current_task \notin mailbox_tree
    /\ mailbox_tree' = mailbox_tree \cup {current_task}
    /\ UNCHANGED <<task_lists, exit_list, task, current_task, pid_tree, call, halted>>

-----------------------------------------------------------------------------
\* The state in which interrupts are enabled: init_pc and create_startup_process.
Init ==
    /\ task_lists = [l \in Level |-> CASE l = 0 -> <<ShellPid>>
                                       [] l = Lowest -> <<IDLE_PID, ClockPid>>
                                       [] OTHER -> <<>>]
    /\ exit_list = <<>>
    /\ task = [p \in Pid |-> CASE p = IDLE_PID -> NewTask("idle", Lowest, 1)
                               [] p = ShellPid -> NewTask("powershell", 0, 1)
                               [] p = ClockPid -> NewTask("time", Lowest, 1)
                               [] OTHER -> NoTask]
    /\ current_task = IDLE_PID
    /\ pid_tree = {IDLE_PID, ShellPid, ClockPid}
    /\ mailbox_tree = {}
    /\ call = [p \in Pid |-> NoCall]
    /\ halted = "no"

Next ==
    \/ Tick
    \/ Exception
    \/ \E pid \in Pid, r \in ShellCommands \cup {[prog |-> "Read test", level |-> 0, fixed |-> 0]} :
           PcCreateAlloc(pid, r)
    \/ PcCreateQueue
    \/ \E pid \in Pid : PcKillCheck(pid)
    \/ PcKillRemove
    \/ PcRegisterMailbox

Spec == Init /\ [][Next]_vars

\* The timer never stops interrupting; nothing else is promised to happen.
FairSpec == Spec /\ WF_vars(Tick)

-----------------------------------------------------------------------------
(* Properties *)

\* Every variable has its type (pc.h's structures).
TypeOK ==
    /\ task_lists \in [Level -> Seq(Pid)]
    /\ exit_list \in Seq(Pid)
    /\ task \in [Pid -> TaskStruct]
    /\ current_task \in Pid
    /\ pid_tree \subseteq Pid
    /\ mailbox_tree \subseteq Pid
    /\ call \in [Pid -> Call]
    /\ halted \in {"no", "no available processes", "idle is missing",
                   "unfinished task in exit list"}

\* None of the error stops of pc_schedule ("no available processes", "Idle
\* process is missing", "Error occurs when clearing the exit list") is ever
\* reached, whatever is created, killed or crashes between two ticks.
NoHalt == halted = "no"

\* A process is in exactly one place: once in the queue of the level its
\* task_struct records, or once in the exit list and then FINISHed.
InOnePlace ==
    /\ \A l \in Level :
          /\ IsInjective(task_lists[l])
          /\ \A p \in Range(task_lists[l]) : task[p].level = l /\ task[p].state \in {"READY", "RUNNING"}
    /\ IsInjective(exit_list)
    /\ \A p \in Range(exit_list) : task[p].state = "FINISH"

\* The current process is queued and nobody else is RUNNING; idle may be current
\* and still READY, as init_pc leaves it.
CurrentRuns ==
    /\ current_task \in Range(task_lists[task[current_task].level])
    /\ \A p \in Queued : task[p].state = "RUNNING" => p = current_task
    /\ task[current_task].state = "RUNNING" \/ current_task = IDLE_PID

\* pc_kill's promise that idle and the shell cannot be killed, and do_exceptions'
\* restart of the shell: both always have a place in a run queue, under pids 0
\* and 1, whatever crashes.
KernelProcessesLive ==
    /\ IDLE_PID \in Range(task_lists[Lowest])
    /\ ShellPid \in Range(task_lists[0])

\* The processes that are between the two parts of pc_create.
Creating == {p \in Pid : call[p].op = "create"}

\* A pid is in use by at most one of: a queued process, a process waiting to be
\* reaped, a process that pc_create has not queued yet; and it is then in the
\* pid tree, so that Alloc_pid cannot hand it out again.
PidsOwned ==
    /\ Queued \cup Range(exit_list) \subseteq pid_tree
    /\ \A p \in Creating :
          /\ call[p].pid \in pid_tree
          /\ call[p].pid \notin Queued \cup Range(exit_list)
          /\ \A q \in Creating : call[q].pid = call[p].pid => q = p

\* A new process never finds the mailbox of a dead one: a mailbox belongs to a
\* queued process or to one that is still to be reaped (pc_clear_exit destroys
\* the mailbox with the pid).
MailboxesOwned == mailbox_tree \subseteq Queued \cup Range(exit_list)

\* While a process lives, one step moves it at most one level down, only when it
\* leaves the processor, never when it is fixed; with the level it gets that
\* level's whole time slice (the feedback rule of pc_schedule).
StepsDown(p) ==
    (p \in Queued /\ p \in Queued' /\ task[p].level # task'[p].level) =>
        \/ /\ p = current_task /\ current_task' # p
           /\ task[p].fixed = 0
           /\ task'[p].level = task[p].level + 1
           /\ task'[p].time_cnt = TimeUnit * (task'[p].level + 1)
Feedback == [][\A p \in Pid : StepsDown(p)]_vars

\* Only the process that is running or the target of a pc_kill that passed its
\* checks may finish; idle never does, and the shell only by its own exception.
MayFinish(p) ==
    (p \in Queued /\ task[p].state # "FINISH" /\ task'[p].state \in {"FINISH", "FREE"}) =>
        /\ p # IDLE_PID
        /\ p = current_task \/ (p # ShellPid /\ call[current_task].pid = p)
KillsOnlyAllowed == [][\A p \in Pid : MayFinish(p)]_vars

\* Round robin inside a level, feedback between levels: a READY process runs again
\* or is killed, provided that the shell at some time stops losing its place: a
\* shell that crashes for ever is queued again behind the processes it has just
\* created, and queue 0 never comes to its end.
ShellRestarted ==
    /\ current_task = ShellPid /\ current_task' # ShellPid
    /\ task_lists'[0] # task_lists[0]
ShellSettles == <>[][~ShellRestarted]_vars
NoStarvation ==
    ShellSettles => \A p \in Pid :
        (p \in Queued /\ task[p].state = "READY") ~> (current_task = p \/ p \notin Queued)

\* A finished process is reaped: its pid leaves the exit list by the next tick.
ExitListDrains == \A p \in Pid : (p \in Range(exit_list)) ~> (p \notin Range(exit_list))

-----------------------------------------------------------------------------
(* The inductive invariant behind the safety properties *)

\* The shell never sinks, so that do_exceptions' shell keeps its queue.
ShellFixed == task[ShellPid].fixed = 1

\* What pc_kill's checks established still holds in its masked section.
KillTargets ==
    \A p \in Pid : call[p].op = "kill" => call[p].pid \notin {IDLE_PID, ShellPid, p}

\* All of them together: what every step of Next preserves.
IInv == TypeOK /\ NoHalt /\ InOnePlace /\ CurrentRuns /\ KernelProcessesLive
            /\ PidsOwned /\ MailboxesOwned /\ ShellFixed /\ KillTargets
=============================================================================
