---------------------------- MODULE Sched_proofs ----------------------------
(***************************************************************************)
(* Proofs about Sched: the inductive invariant IInv and the safety          *)
(* properties that follow from it, for every number of queues, length of    *)
(* the time slice and bound on the pids.  The second half is about TaskList:  *)
(* the linked lists, with every pointer, hold the queues of Sched.            *)
(***************************************************************************)
EXTENDS TaskList, SeqLemmas, FiniteSetTheorems

\* The slice of a level is positive and at most that of the lowest level.
LEMMA SliceInRange ==
  ASSUME NEW l \in Level
  PROVE  TimeUnit * (l + 1) \in 1 .. TimeUnit * PriQueueNum
<1>1. /\ TimeUnit \in Nat /\ TimeUnit >= 1
      /\ PriQueueNum \in Nat /\ l \in Nat /\ l + 1 <= PriQueueNum
  BY ConstantsAssumption DEF Level
<1>2. ASSUME NEW a \in Nat, NEW b \in Nat, NEW c \in Nat, a >= 1, b >= 1, b <= c
      PROVE  a * b \in Nat /\ a * c \in Nat /\ a * b >= 1 /\ a * b <= a * c
  BY <1>2, Z3
<1>3. l + 1 \in Nat /\ l + 1 >= 1
  BY <1>1
<1>. QED  BY <1>1, <1>2, <1>3

\* A new task is a task.
LEMMA NewTaskType ==
  ASSUME NEW prog \in Prog, NEW l \in Level, NEW f \in {0, 1}
  PROVE  NewTask(prog, l, f) \in TaskStruct
BY SliceInRange DEF NewTask, TaskStruct

\* So is the placeholder of a free pid.
LEMMA NoTaskType == NoTask \in TaskStruct
<1>1. 0 \in Level
  BY ConstantsAssumption DEF Level
<1>2. NewTask("idle", 0, 0) \in TaskStruct
  BY <1>1, NewTaskType DEF Prog
<1>. QED  BY <1>2 DEF NoTask, TaskStruct

\* Losing a quantum changes the level by at most one, and never for a fixed task
\* or one of the lowest level.
LEMMA SlicedFacts ==
  ASSUME NEW p \in TaskStruct
  PROVE  /\ Sliced(p) \in TaskStruct
         /\ Sliced(p).fixed = p.fixed
         /\ Sliced(p).state = p.state
         /\ Sliced(p).level # p.level => p.fixed = 0 /\ Sliced(p).level = p.level + 1
                                           /\ Sliced(p).time_cnt = TimeUnit * (Sliced(p).level + 1)
<1>1. CASE p.fixed = 1 \/ p.level = Lowest
  BY <1>1 DEF Sliced
<1>2. CASE ~(p.fixed = 1 \/ p.level = Lowest) /\ p.time_cnt = 1
  <2>1. Sliced(p) = [p EXCEPT !.level = @ + 1, !.time_cnt = TimeUnit * (p.level + 2)]
    BY <1>2 DEF Sliced, Demoted
  <2>2. p.level \in Level /\ p.level + 1 \in Level /\ p.fixed = 0
    BY <1>2, ConstantsAssumption DEF Level, Lowest, TaskStruct
  <2>3. TimeUnit * ((p.level + 1) + 1) \in 1 .. TimeUnit * PriQueueNum
    BY <2>2, SliceInRange
  <2>4. (p.level + 1) + 1 = p.level + 2
    BY <2>2 DEF Level
  <2>. DEFINE q == [p EXCEPT !.level = @ + 1, !.time_cnt = TimeUnit * (p.level + 2)]
  <2>6. q \in TaskStruct
    BY <2>2, <2>3, <2>4 DEF TaskStruct
  <2>7. /\ q.level = p.level + 1 /\ q.fixed = p.fixed /\ q.state = p.state
        /\ q.time_cnt = TimeUnit * (p.level + 2)
    BY DEF TaskStruct
  <2>. QED  BY <2>1, <2>2, <2>4, <2>6, <2>7
<1>3. CASE ~(p.fixed = 1 \/ p.level = Lowest) /\ p.time_cnt # 1
  <2>1. Sliced(p) = [p EXCEPT !.time_cnt = @ - 1]
    BY <1>3 DEF Sliced
  <2>2. p.time_cnt - 1 \in 1 .. TimeUnit * PriQueueNum
    <3>1. p.time_cnt \in 1 .. TimeUnit * PriQueueNum
      BY DEF TaskStruct
    <3>2. ASSUME NEW n \in Nat, NEW k \in 1 .. n, k # 1  PROVE k - 1 \in 1 .. n
      BY <3>2
    <3>3. TimeUnit * PriQueueNum \in Nat
      BY ConstantsAssumption
    <3>. QED  BY <3>1, <3>2, <3>3, <1>3
  <2>. QED  BY <2>1, <2>2 DEF TaskStruct
<1>. QED  BY <1>1, <1>2, <1>3

-----------------------------------------------------------------------------
(* The queues *)

\* Everybody queued is READY but the current process, and the level of a queued
\* process is the index of its queue.
LEMMA QueuedFacts ==
  ASSUME TypeOK, InOnePlace, CurrentRuns, KernelProcessesLive
  PROVE  /\ Lowest \in Level /\ 0 \in Level /\ Lowest # 0
         /\ IDLE_PID \in Pid /\ ShellPid \in Pid /\ IDLE_PID # ShellPid
         /\ NoPid \notin Pid
         /\ \A l \in Level : /\ task_lists[l] \in Seq(Pid) /\ IsInjective(task_lists[l])
                             /\ Range(task_lists[l]) \subseteq Queued
         /\ Queued \subseteq Pid
         /\ \A p \in Queued : /\ task[p].level \in Level
                              /\ p \in Range(task_lists[task[p].level])
                              /\ task[p].state \in {"READY", "RUNNING"}
                              /\ p # current_task => task[p].state = "READY"
         /\ \A l \in Level : \A p \in Range(task_lists[l]) : task[p].level = l
         /\ current_task \in Queued
         /\ IDLE_PID \in Queued /\ task[IDLE_PID].level = Lowest
         /\ ShellPid \in Queued /\ task[ShellPid].level = 0
<1>1. /\ Lowest \in Level /\ 0 \in Level /\ Lowest # 0
      /\ IDLE_PID \in Pid /\ ShellPid \in Pid /\ IDLE_PID # ShellPid /\ NoPid \notin Pid
  BY ConstantsAssumption DEF Level, Lowest, Pid, IDLE_PID, ShellPid, ClockPid, NoPid
<1>2. \A l \in Level : /\ task_lists[l] \in Seq(Pid) /\ IsInjective(task_lists[l])
                       /\ Range(task_lists[l]) \subseteq Queued
                       /\ Range(task_lists[l]) \subseteq Pid
  <2>. TAKE l \in Level
  <2>1. task_lists[l] \in Seq(Pid) /\ IsInjective(task_lists[l])
    BY DEF TypeOK, InOnePlace
  <2>2. Range(task_lists[l]) \subseteq Pid
    BY <2>1, RangeOfSeq
  <2>. QED  BY <2>1, <2>2 DEF Queued
<1>3. \A l \in Level : \A p \in Range(task_lists[l]) :
          task[p].level = l /\ task[p].state \in {"READY", "RUNNING"}
  BY DEF InOnePlace
<1>4. \A p \in Queued : \E l \in Level : p \in Range(task_lists[l])
  BY DEF Queued
<1>5. task[current_task].level \in Level
  BY DEF TypeOK, TaskStruct
<1>6. \A p \in Queued : /\ p \in Pid /\ task[p].level \in Level
                        /\ p \in Range(task_lists[task[p].level])
                        /\ task[p].state \in {"READY", "RUNNING"}
  BY <1>2, <1>3, <1>4
<1>7. \A p \in Queued : p # current_task => task[p].state = "READY"
  BY <1>6 DEF CurrentRuns
<1>8. current_task \in Queued
  BY <1>2, <1>5 DEF CurrentRuns
<1>9. /\ IDLE_PID \in Queued /\ task[IDLE_PID].level = Lowest
      /\ ShellPid \in Queued /\ task[ShellPid].level = 0
  BY <1>1, <1>2, <1>3 DEF KernelProcessesLive
<1>10. \A l \in Level : \A p \in Range(task_lists[l]) : task[p].level = l
  BY <1>3
<1>. QED  BY <1>1, <1>2, <1>6, <1>7, <1>8, <1>9, <1>10

\* list_move_to_end permutes a queue.
LEMMA MoveToEndFacts ==
  ASSUME NEW S, NEW s \in Seq(S), IsInjective(s), NEW x \in Range(s)
  PROVE  /\ list_move_to_end(s, x) \in Seq(S)
         /\ Range(list_move_to_end(s, x)) = Range(s)
         /\ IsInjective(list_move_to_end(s, x))
<1>. DEFINE r == RemoveFirst(s, x)
<1>1. r \in Seq(S) /\ Range(r) = Range(s) \ {x} /\ IsInjective(r)
  BY RemoveFirstFacts
<1>2. x \in S
  BY RangeOfSeq
<1>. HIDE DEF r
<1>3. /\ Append(r, x) \in Seq(S) /\ Range(Append(r, x)) = Range(r) \cup {x}
      /\ IsInjective(Append(r, x))
  BY <1>1, <1>2, AppendFacts
<1>4. list_move_to_end(s, x) = Append(r, x)
  BY DEF list_move_to_end, list_delete, r
<1>. QED  BY <1>1, <1>3, <1>4

\* t is the process table pc_schedule works on: task, but for the state of the
\* current process, which pc_kill_syscall may have FINISHed.
Entry(t) ==
    /\ t \in [Pid -> TaskStruct]
    /\ \A p \in Pid : p # current_task => t[p] = task[p]
    /\ t[current_task].level = task[current_task].level
    /\ t[current_task].fixed = task[current_task].fixed
    /\ t[current_task].state = "READY" => current_task = IDLE_PID
    /\ t[current_task].state = "FINISH" => current_task # IDLE_PID

\* Outcome of pc_find_next: a READY process other than the current one, and
\* queues with the same members.
Choice(t, found) ==
    /\ found.next \in Queued
    /\ found.next # current_task
    /\ t[found.next].state = "READY"
    /\ found.lists \in [Level -> Seq(Pid)]
    /\ \A l \in Level : /\ IsInjective(found.lists[l])
                        /\ Range(found.lists[l]) = Range(task_lists[l])

\* pc_find_next always finds another READY process: the idle process or the shell
\* is one if there is no other.
LEMMA FindNext ==
  ASSUME TypeOK, InOnePlace, CurrentRuns, KernelProcessesLive,
         NEW t, Entry(t), NEW found \in pc_find_next(t)
  PROVE  Choice(t, found)
<1>. DEFINE level  == t[current_task].level
            list   == task_lists[level]
            pos    == CHOOSE i \in DOMAIN list : list[i] = current_task
            lower  == WithReady(t, level + 1 .. Lowest)
            higher == WithReady(t, 0 .. level - 1)
            Stay(pid) == [next |-> pid, lists |-> task_lists]
            Move(k, pid) ==
              [next |-> pid, lists |-> [task_lists EXCEPT ![k] = list_move_to_end(@, pid)]]
<1>1. /\ Lowest \in Level /\ 0 \in Level /\ Lowest # 0
      /\ IDLE_PID # ShellPid
      /\ \A l \in Level : /\ task_lists[l] \in Seq(Pid) /\ IsInjective(task_lists[l])
                          /\ Range(task_lists[l]) \subseteq Queued
      /\ Queued \subseteq Pid
      /\ \A l \in Level : \A p \in Range(task_lists[l]) : task[p].level = l
      /\ current_task \in Queued
      /\ IDLE_PID \in Queued /\ ShellPid \in Queued
  BY QueuedFacts
<1>2. \A p \in Queued : p # current_task => t[p].state = "READY"
  BY <1>1, QueuedFacts DEF Entry
<1>3. level \in Level /\ level = task[current_task].level /\ current_task \in Range(list)
  BY <1>1, QueuedFacts DEF Entry
<1>4. \A l \in Level : DOMAIN task_lists[l] = 1 .. Len(task_lists[l]) /\ Len(task_lists[l]) \in Nat
  BY <1>1, LenProperties
<1>5. Level \subseteq Nat /\ level + 1 .. Lowest \subseteq Level /\ 0 .. level - 1 \subseteq Level
      /\ (\A l \in Level : l <= Lowest)
  BY <1>1, <1>3, ConstantsAssumption DEF Level, Lowest
<1>6. pos \in 1 .. Len(list) /\ list[pos] = current_task
  BY <1>3, <1>4 DEF Range
<1>7. \A l \in Level : \A i \in Ready(t, task_lists[l]) :
          /\ i \in 1 .. Len(task_lists[l])
          /\ task_lists[l][i] \in Range(task_lists[l])
          /\ t[task_lists[l][i]].state = "READY"
  BY <1>4 DEF Ready, Range
<1>8. ASSUME NEW l \in Level, NEW p \in Range(task_lists[l]), t[p].state = "READY"
      PROVE  Ready(t, task_lists[l]) # {}
  BY <1>8 DEF Ready, Range
<1>9. ASSUME NEW l \in Level, NEW pid \in pc_find_available(t, task_lists[l])
      PROVE  pid \in Range(task_lists[l]) /\ t[pid].state = "READY"
  BY <1>7, <1>9 DEF pc_find_available, Least
<1>10. ASSUME NEW l \in Level, l # level, NEW p \in Range(task_lists[l])
       PROVE  p # current_task
  BY <1>1, <1>3, <1>10
<1>11. IDLE_PID \in Range(task_lists[Lowest]) /\ ShellPid \in Range(task_lists[0])
  BY DEF KernelProcessesLive
<1>12. ASSUME NEW pid \in Queued, pid # current_task, t[pid].state = "READY",
              found = Stay(pid)
       PROVE  Choice(t, found)
  BY <1>1, <1>12 DEF Choice, TypeOK
<1>. HIDE DEF level, list, pos, lower, higher
<1>13. found \in
        IF current_task \notin Range(list) THEN {Stay(NoPid)}
        ELSE IF pos = Len(list) /\ lower # {} THEN
            UNION {{Move(k, pid) : pid \in pc_find_available(t, task_lists[k])} : k \in Least(lower)}
        ELSE IF higher # {} THEN
            UNION {{Stay(pid) : pid \in pc_find_available(t, task_lists[k])} : k \in Least(higher)}
        ELSE IF pos # Len(list) /\ t[list[pos + 1]].state = "READY" THEN {Stay(list[pos + 1])}
        ELSE IF Ready(t, list) # {} THEN {Stay(pid) : pid \in pc_find_available(t, list)}
        ELSE {Stay(current_task)}
  BY DEF pc_find_next, level, list, pos, lower, higher
<1>14. CASE pos = Len(list) /\ lower # {}
  <2>1. PICK k \in Least(lower) : \E pid \in pc_find_available(t, task_lists[k]) : found = Move(k, pid)
    BY <1>3, <1>13, <1>14
  <2>2. PICK pid \in pc_find_available(t, task_lists[k]) : found = Move(k, pid)
    BY <2>1
  <2>3. k \in level + 1 .. Lowest
    BY DEF lower, WithReady, Least
  <2>4. k \in Level /\ k # level
    BY <2>3, <1>3, <1>5
  <2>5. pid \in Range(task_lists[k]) /\ t[pid].state = "READY" /\ pid # current_task
    BY <2>4, <1>9, <1>10
  <2>. DEFINE moved == list_move_to_end(task_lists[k], pid)
  <2>6. moved \in Seq(Pid) /\ Range(moved) = Range(task_lists[k]) /\ IsInjective(moved)
    BY <2>4, <2>5, <1>1, MoveToEndFacts
  <2>. HIDE DEF moved
  <2>7. found = [next |-> pid, lists |-> [task_lists EXCEPT ![k] = moved]]
    BY <2>2 DEF moved
  <2>8. task_lists \in [Level -> Seq(Pid)]
    BY DEF TypeOK
  <2>. QED  BY <2>4, <2>5, <2>6, <2>7, <2>8, <1>1 DEF Choice
<1>15. CASE ~(pos = Len(list) /\ lower # {}) /\ higher # {}
  <2>1. PICK k \in Least(higher) : \E pid \in pc_find_available(t, task_lists[k]) : found = Stay(pid)
    BY <1>3, <1>13, <1>15
  <2>2. k \in Level /\ k # level
    BY <1>3, <1>5 DEF higher, WithReady, Least
  <2>. QED  BY <2>1, <2>2, <1>1, <1>9, <1>10, <1>12
<1>16. CASE higher = {} /\ ~(pos = Len(list) /\ lower # {})
            /\ pos # Len(list) /\ t[list[pos + 1]].state = "READY"
  <2>1. found = Stay(list[pos + 1])
    BY <1>3, <1>13, <1>16
  <2>2. pos + 1 \in 1 .. Len(list) /\ Len(list) \in Nat
    BY <1>3, <1>4, <1>6, <1>16 DEF list
  <2>3. list[pos + 1] # current_task /\ list[pos + 1] \in Queued
    BY <2>2, <1>1, <1>3, <1>4, <1>6 DEF list, IsInjective, Range
  <2>. QED  BY <2>1, <2>3, <1>12, <1>16
<1>17. CASE higher = {} /\ ~(pos = Len(list) /\ lower # {})
            /\ ~(pos # Len(list) /\ t[list[pos + 1]].state = "READY")
  <2>1. current_task # IDLE_PID
    <3>1. SUFFICES ASSUME current_task = IDLE_PID  PROVE FALSE
      OBVIOUS
    <3>2. level = Lowest
      BY <3>1, <1>3, QueuedFacts
    <3>3. 0 \in 0 .. level - 1
      BY <3>2, <1>1, <1>5
    <3>4. Ready(t, task_lists[0]) # {}
      BY <3>1, <1>1, <1>2, <1>8, <1>11
    <3>. QED  BY <3>3, <3>4, <1>17 DEF higher, WithReady
  <2>2. t[IDLE_PID].state = "READY" /\ Ready(t, task_lists[Lowest]) # {}
    BY <2>1, <1>1, <1>2, <1>8, <1>11
  <2>3. pos = Len(list)
    <3>1. SUFFICES ASSUME pos # Len(list)  PROVE FALSE
      OBVIOUS
    <3>2. pos + 1 \in 1 .. Len(list) /\ Len(list) \in Nat
      BY <3>1, <1>3, <1>4, <1>6 DEF list
    <3>3. list[pos + 1] # current_task /\ list[pos + 1] \in Queued
      BY <3>2, <1>1, <1>3, <1>4, <1>6 DEF list, IsInjective, Range
    <3>. QED  BY <3>1, <3>3, <1>2, <1>17
  <2>4. level = Lowest
    <3>1. SUFFICES ASSUME level # Lowest  PROVE FALSE
      OBVIOUS
    <3>2. Lowest \in level + 1 .. Lowest
      BY <3>1, <1>1, <1>3, <1>5
    <3>. QED  BY <3>2, <2>2, <2>3, <1>17 DEF lower, WithReady
  <2>5. PICK pid \in pc_find_available(t, list) : found = Stay(pid)
    BY <2>2, <2>4, <1>3, <1>13, <1>17 DEF list
  <2>6. pid \in Range(list) /\ t[pid].state = "READY"
    BY <1>3, <1>9 DEF list
  <2>7. pid # current_task
    BY <2>1, <2>6 DEF Entry
  <2>. QED  BY <2>5, <2>6, <2>7, <1>1, <1>3, <1>12 DEF list
<1>. QED  BY <1>14, <1>15, <1>16, <1>17

-----------------------------------------------------------------------------
(* pc_schedule *)

\* Where the processes of a table are queued.
Waiting(lists) == UNION {Range(lists[l]) : l \in Level}

\* What pc_schedule leaves behind it: the parts of IInv that speak of one table,
\* and the new current process is RUNNING even if it is idle.
Sound(s) ==
    /\ s.task_lists \in [Level -> Seq(Pid)]
    /\ s.exit_list \in Seq(Pid)
    /\ s.task \in [Pid -> TaskStruct]
    /\ s.current_task \in Pid
    /\ s.halted = "no"
    /\ \A l \in Level : /\ IsInjective(s.task_lists[l])
                        /\ \A p \in Range(s.task_lists[l]) : s.task[p].level = l
    /\ \A p \in Waiting(s.task_lists) :
          s.task[p].state = IF p = s.current_task THEN "RUNNING" ELSE "READY"
    /\ IsInjective(s.exit_list)
    /\ \A p \in Range(s.exit_list) : s.task[p].state = "FINISH"
    /\ s.current_task \in Range(s.task_lists[s.task[s.current_task].level])
    /\ IDLE_PID \in Range(s.task_lists[Lowest])

\* A table of pc_schedule has the fields it was made of.
LEMMA TableFields ==
  ASSUME NEW a, NEW b, NEW c, NEW d, NEW e, NEW f, NEW g
  PROVE  /\ Table(a, b, c, d, e, f, g).task_lists = a
         /\ Table(a, b, c, d, e, f, g).exit_list = b
         /\ Table(a, b, c, d, e, f, g).task = c
         /\ Table(a, b, c, d, e, f, g).current_task = d
         /\ Table(a, b, c, d, e, f, g).pid_tree = e
         /\ Table(a, b, c, d, e, f, g).mailbox_tree = f
         /\ Table(a, b, c, d, e, f, g).halted = g
BY DEF Table

\* Leaving the processor makes a process READY, one level lower at most.
LEMMA PreemptedFacts ==
  ASSUME NEW p \in TaskStruct
  PROVE  /\ Preempted(p) \in TaskStruct
         /\ Preempted(p).fixed = p.fixed
         /\ Preempted(p).state = IF p.state = "FINISH" THEN "FINISH" ELSE "READY"
         /\ p.state = "FINISH" => Preempted(p) = p
         /\ Preempted(p).level # p.level =>
               p.fixed = 0 /\ Preempted(p).level = p.level + 1
                 /\ Preempted(p).time_cnt = TimeUnit * (Preempted(p).level + 1)
<1>1. CASE p.state = "FINISH"
  BY <1>1 DEF Preempted
<1>2. CASE p.state # "FINISH"
  <2>. DEFINE q == Sliced(p)
  <2>1. /\ q \in TaskStruct /\ q.fixed = p.fixed
        /\ q.level # p.level => p.fixed = 0 /\ q.level = p.level + 1
                                  /\ q.time_cnt = TimeUnit * (q.level + 1)
    BY SlicedFacts
  <2>2. Preempted(p) = [q EXCEPT !.state = "READY"]
    BY <1>2 DEF Preempted
  <2>. HIDE DEF q
  <2>3. /\ [q EXCEPT !.state = "READY"] \in TaskStruct
        /\ [q EXCEPT !.state = "READY"].fixed = q.fixed
        /\ [q EXCEPT !.state = "READY"].level = q.level
        /\ [q EXCEPT !.state = "READY"].time_cnt = q.time_cnt
        /\ [q EXCEPT !.state = "READY"].state = "READY"
    BY <2>1 DEF TaskStruct
  <2>. QED  BY <1>2, <2>1, <2>2, <2>3
<1>. QED  BY <1>1, <1>2

\* pc_schedule up to pc_clear_exit: the current process changes queue or leaves
\* for the exit list, another one runs, everybody else stays where he is.
LEMMA SwitchFacts ==
  ASSUME IInv, NEW t, Entry(t), NEW found, Choice(t, found),
         NEW s, s = Switched(t, found)
  PROVE  /\ Sound(s)
         /\ s.pid_tree = pid_tree /\ s.mailbox_tree = mailbox_tree
         /\ s.current_task = found.next
         /\ Range(s.exit_list) = Range(exit_list) \cup
               (IF t[current_task].state = "FINISH" THEN {current_task} ELSE {})
         /\ Waiting(s.task_lists) = Queued \
               (IF t[current_task].state = "FINISH" THEN {current_task} ELSE {})
         /\ \A p \in Pid : p \notin {current_task, found.next} => s.task[p] = task[p]
         /\ s.task[found.next] = [task[found.next] EXCEPT !.state = "RUNNING"]
         /\ s.task[current_task] = Preempted(t[current_task])
<1>. DEFINE c     == current_task
            next  == found.next
            new   == Preempted(t[c])
            left  == [found.lists EXCEPT ![t[c].level] = list_delete(@, c)]
            lists == IF t[c].state = "FINISH" THEN left
                     ELSE IF new.level # t[c].level
                     THEN [left EXCEPT ![new.level] = add_task_to_list(@, c)]
                     ELSE found.lists
            exits == IF t[c].state = "FINISH" THEN add_task_to_list(exit_list, c)
                     ELSE exit_list
            tasks == [t EXCEPT ![c] = new, ![next].state = "RUNNING"]
            gone  == IF t[c].state = "FINISH" THEN {c} ELSE {}
<1>1. /\ TypeOK /\ InOnePlace /\ CurrentRuns /\ KernelProcessesLive /\ ShellFixed
  BY DEF IInv
<1>2. /\ Lowest \in Level /\ 0 \in Level
      /\ IDLE_PID \in Pid /\ ShellPid \in Pid
      /\ NoPid \notin Pid
      /\ Queued \subseteq Pid
      /\ \A p \in Queued : /\ task[p].level \in Level
                           /\ p \in Range(task_lists[task[p].level])
                           /\ p # c => task[p].state = "READY"
      /\ \A l \in Level : /\ Range(task_lists[l]) \subseteq Queued
                          /\ \A p \in Range(task_lists[l]) : task[p].level = l
      /\ c \in Queued
      /\ IDLE_PID \in Queued /\ task[IDLE_PID].level = Lowest
  BY <1>1, QueuedFacts
<1>3. /\ t \in [Pid -> TaskStruct]
      /\ \A p \in Pid : p # c => t[p] = task[p]
      /\ t[c].level = task[c].level
      /\ t[c].fixed = task[c].fixed
      /\ t[c].state = "READY" => c = IDLE_PID
      /\ t[c].state = "FINISH" => c # IDLE_PID
  BY DEF Entry
<1>4. /\ next \in Queued /\ next # c /\ t[next].state = "READY" /\ next \in Pid
      /\ found.lists \in [Level -> Seq(Pid)]
      /\ \A l \in Level : /\ IsInjective(found.lists[l])
                          /\ Range(found.lists[l]) = Range(task_lists[l])
  BY <1>2 DEF Choice
<1>5. \A l \in Level : Range(found.lists[l]) = {p \in Queued : task[p].level = l}
  <2>. TAKE l \in Level
  <2>1. Range(found.lists[l]) = Range(task_lists[l])
    BY <1>4
  <2>2. \A p : p \in Range(task_lists[l]) <=> p \in Queued /\ task[p].level = l
    BY <1>2
  <2>. QED  BY <2>1, <2>2
<1>6. /\ t[c] \in TaskStruct /\ c \in Pid /\ t[c].level \in Level
  BY <1>2, <1>3
<1>7. /\ new \in TaskStruct /\ new.level \in Level /\ new.fixed = t[c].fixed
      /\ new.state = IF t[c].state = "FINISH" THEN "FINISH" ELSE "READY"
      /\ t[c].state = "FINISH" => new.level = t[c].level
  BY <1>6, PreemptedFacts DEF TaskStruct
<1>8. s = Table(lists, exits, tasks, next, pid_tree, mailbox_tree, "no")
  <2>1. next # NoPid /\ next # c
    BY <1>2, <1>4
  <2>. QED  BY <2>1 DEF Switched
<1>9. /\ s.task_lists = lists /\ s.exit_list = exits /\ s.task = tasks
      /\ s.current_task = next /\ s.pid_tree = pid_tree
      /\ s.mailbox_tree = mailbox_tree /\ s.halted = "no"
  BY <1>8, TableFields
<1>10. /\ left \in [Level -> Seq(Pid)]
       /\ \A l \in Level : /\ IsInjective(left[l])
                           /\ Range(left[l]) = {p \in Queued \ {c} : task[p].level = l}
  <2>. DEFINE d == list_delete(found.lists[t[c].level], c)
  <2>1. d \in Seq(Pid) /\ IsInjective(d) /\ Range(d) = Range(found.lists[t[c].level]) \ {c}
    BY <1>4, <1>6, RemoveFirstFacts DEF list_delete
  <2>2. left = [found.lists EXCEPT ![t[c].level] = d]
    OBVIOUS
  <2>. HIDE DEF d, left
  <2>. QED  BY <2>1, <2>2, <1>3, <1>4, <1>5, <1>6
<1>. HIDE DEF left, new
<1>11. /\ tasks \in [Pid -> TaskStruct]
       /\ tasks[c] = new
       /\ \A p \in Pid : p \notin {c, next} => tasks[p] = t[p]
       /\ tasks[next].state = "RUNNING" /\ tasks[next].level = t[next].level
  BY <1>3, <1>4, <1>6, <1>7 DEF TaskStruct
<1>21. tasks[next] = [t[next] EXCEPT !.state = "RUNNING"]
  BY <1>3, <1>4, <1>6
<1>. HIDE DEF tasks
<1>12. /\ lists \in [Level -> Seq(Pid)]
       /\ \A l \in Level : /\ IsInjective(lists[l])
                           /\ Range(lists[l]) = {p \in Queued \ gone : tasks[p].level = l}
  <2>1. \A p \in Queued : p # c => tasks[p].level = task[p].level
    <3>. SUFFICES ASSUME NEW p \in Queued, p # c  PROVE tasks[p].level = task[p].level
      OBVIOUS
    <3>1. p \in Pid /\ t[p] = task[p]
      BY <1>2, <1>3
    <3>2. tasks[p].level = t[p].level
      BY <3>1, <1>11
    <3>. QED  BY <3>1, <3>2
  <2>2. CASE t[c].state = "FINISH"
    BY <2>1, <2>2, <1>10
  <2>3. CASE t[c].state # "FINISH" /\ new.level = t[c].level
    <3>1. lists = found.lists /\ gone = {}
      BY <2>3
    <3>2. \A p \in Queued : tasks[p].level = task[p].level
      BY <2>1, <2>3, <1>3, <1>11
    <3>. HIDE DEF lists, gone
    <3>. QED  BY <3>1, <3>2, <1>4, <1>5
  <2>4. CASE t[c].state # "FINISH" /\ new.level # t[c].level
    <3>. DEFINE a == Append(left[new.level], c)
    <3>1. a \in Seq(Pid) /\ Range(a) = Range(left[new.level]) \cup {c} /\ IsInjective(a)
      BY <1>6, <1>7, <1>10, AppendFacts
    <3>2. lists = [left EXCEPT ![new.level] = a]
      BY <2>4 DEF add_task_to_list
    <3>3. gone = {} /\ c \in Queued /\ tasks[c].level = new.level /\ task[c].level # new.level
      BY <2>4, <1>2, <1>3, <1>11
    <3>. HIDE DEF a, lists, gone
    <3>4. lists \in [Level -> Seq(Pid)]
      BY <3>1, <3>2, <1>7, <1>10
    <3>5. ASSUME NEW l \in Level
          PROVE  /\ IsInjective(lists[l])
                 /\ Range(lists[l]) = {p \in Queued \ gone : tasks[p].level = l}
      <4>1. CASE l = new.level
        <5>1. IsInjective(lists[l]) /\ Range(lists[l]) = Range(left[l]) \cup {c}
          BY <4>1, <3>1, <3>2, <1>7, <1>10
        <5>. QED  BY <5>1, <4>1, <3>3, <2>1, <1>10
      <4>2. CASE l # new.level
        <5>1. lists[l] = left[l]
          BY <4>2, <3>2, <1>10
        <5>. QED  BY <5>1, <4>2, <3>3, <2>1, <1>10
      <4>. QED  BY <4>1, <4>2
    <3>. QED  BY <3>4, <3>5
  <2>. QED  BY <2>2, <2>3, <2>4
<1>13. /\ exits \in Seq(Pid) /\ IsInjective(exits) /\ Range(exits) = Range(exit_list) \cup gone
       /\ \A p \in Range(exits) : tasks[p].state = "FINISH"
  <2>1. /\ exit_list \in Seq(Pid) /\ IsInjective(exit_list)
        /\ \A p \in Range(exit_list) : task[p].state = "FINISH"
    BY <1>1 DEF TypeOK, InOnePlace
  <2>2. \A p \in Queued : p \notin Range(exit_list)
    <3>1. \A p \in Queued : task[p].state \in {"READY", "RUNNING"}
      BY <1>1, QueuedFacts
    <3>. QED  BY <2>1, <3>1
  <2>3. \A p \in Range(exit_list) : p \in Pid /\ tasks[p].state = "FINISH"
    <3>1. Range(exit_list) \subseteq Pid
      BY <2>1, RangeOfSeq
    <3>. QED  BY <3>1, <2>1, <2>2, <1>2, <1>3, <1>4, <1>11
  <2>4. CASE t[c].state # "FINISH"
    BY <2>1, <2>3, <2>4
  <2>5. CASE t[c].state = "FINISH"
    <3>1. /\ Append(exit_list, c) \in Seq(Pid) /\ IsInjective(Append(exit_list, c))
          /\ Range(Append(exit_list, c)) = Range(exit_list) \cup {c}
      BY <2>1, <2>2, <1>2, <1>6, AppendFacts
    <3>. QED  BY <3>1, <2>3, <2>5, <1>7, <1>11 DEF add_task_to_list
  <2>. QED  BY <2>4, <2>5
<1>. HIDE DEF lists, exits
<1>14. Waiting(lists) = Queued \ gone
  <2>1. \A p \in Queued : p \in Pid /\ tasks[p].level \in Level
    BY <1>2, <1>11 DEF TaskStruct
  <2>. QED  BY <2>1, <1>12 DEF Waiting
<1>15. \A p \in Queued \ gone : tasks[p].state = IF p = next THEN "RUNNING" ELSE "READY"
  BY <1>2, <1>3, <1>4, <1>7, <1>11
<1>16. next \in Range(lists[tasks[next].level])
  <2>1. next \in Queued \ gone
    BY <1>4
  <2>2. tasks[next].level \in Level
    BY <1>4, <1>11 DEF TaskStruct
  <2>. QED  BY <2>1, <2>2, <1>12
<1>17. IDLE_PID \in Range(lists[Lowest])
  <2>1. IDLE_PID \notin gone
    BY <1>3
  <2>2. tasks[IDLE_PID].level = Lowest
    <3>1. CASE IDLE_PID # c
      BY <3>1, <1>2, <1>3, <1>4, <1>11
    <3>2. CASE IDLE_PID = c
      <4>1. Preempted(t[c]).level # t[c].level => Preempted(t[c]).level = t[c].level + 1
        BY <1>6, PreemptedFacts
      <4>2. t[c].level = Lowest
        BY <3>2, <1>2, <1>3
      <4>3. \A l \in Level : l # Lowest + 1
        BY ConstantsAssumption DEF Level, Lowest
      <4>. QED  BY <3>2, <4>1, <4>2, <4>3, <1>7, <1>11 DEF new
    <3>. QED  BY <3>1, <3>2
  <2>. QED  BY <2>1, <2>2, <1>2, <1>12
<1>18. Sound(s)
  BY <1>4, <1>9, <1>11, <1>12, <1>13, <1>14, <1>15, <1>16, <1>17 DEF Sound
<1>19. /\ \A p \in Pid : p \notin {c, next} => tasks[p] = task[p]
       /\ tasks[next] = [task[next] EXCEPT !.state = "RUNNING"]
  BY <1>3, <1>4, <1>11, <1>21
<1>20. s.task[current_task] = Preempted(t[current_task])
  BY <1>9, <1>11 DEF new
<1>. QED  BY <1>9, <1>13, <1>14, <1>18, <1>19, <1>20

\* pc_clear_exit forgets the finished processes and nobody else.
LEMMA ClearFacts ==
  ASSUME NEW s, Sound(s), NEW c, c = pc_clear_exit(s)
  PROVE  /\ Sound(c)
         /\ c = Table(c.task_lists, c.exit_list, c.task, c.current_task, c.pid_tree,
                      c.mailbox_tree, c.halted)
         /\ c.task_lists = s.task_lists /\ c.exit_list = <<>>
         /\ c.current_task = s.current_task
         /\ c.pid_tree = s.pid_tree \ Range(s.exit_list)
         /\ c.mailbox_tree = s.mailbox_tree \ Range(s.exit_list)
         /\ \A p \in Waiting(s.task_lists) : c.task[p] = s.task[p]
<1>. DEFINE dead == Range(s.exit_list)
<1>1. c = Table(s.task_lists, <<>>, Kept(s.task, dead), s.current_task,
                s.pid_tree \ dead, s.mailbox_tree \ dead, "no")
  <2>1. s.halted = "no" /\ \A p \in dead : s.task[p].state = "FINISH"
    BY DEF Sound
  <2>. QED  BY <2>1 DEF pc_clear_exit, Del_pids, Destroy_mailboxes
<1>2. /\ c.task_lists = s.task_lists /\ c.exit_list = <<>> /\ c.task = Kept(s.task, dead)
      /\ c.current_task = s.current_task /\ c.pid_tree = s.pid_tree \ dead
      /\ c.mailbox_tree = s.mailbox_tree \ dead /\ c.halted = "no"
  BY <1>1, TableFields
<1>3. Kept(s.task, dead) \in [Pid -> TaskStruct]
  BY NoTaskType DEF Kept, Sound
<1>4. \A p \in Waiting(s.task_lists) : p \in Pid /\ p \notin dead
  <2>1. \A l \in Level : Range(s.task_lists[l]) \subseteq Pid
    <3>. TAKE l \in Level
    <3>1. s.task_lists[l] \in Seq(Pid)
      BY DEF Sound
    <3>. QED  BY <3>1, RangeOfSeq
  <2>2. \A p \in Waiting(s.task_lists) : p \in Pid
    BY <2>1 DEF Waiting
  <2>. QED  BY <2>2 DEF Sound
<1>5. \A p \in Waiting(s.task_lists) : c.task[p] = s.task[p]
  BY <1>2, <1>4 DEF Kept
<1>6. /\ <<>> \in Seq(Pid) /\ Range(<<>>) = {} /\ IsInjective(<<>>)
  BY DEF Range, IsInjective
<1>7. \A l \in Level : Range(s.task_lists[l]) \subseteq Waiting(s.task_lists)
  BY DEF Waiting
<1>8. s.current_task \in Waiting(s.task_lists)
  BY <1>7 DEF Sound, TaskStruct
<1>9. /\ \A l \in Level : /\ IsInjective(c.task_lists[l])
                          /\ \A p \in Range(c.task_lists[l]) : c.task[p].level = l
      /\ \A p \in Waiting(c.task_lists) :
            c.task[p].state = IF p = c.current_task THEN "RUNNING" ELSE "READY"
      /\ c.current_task \in Range(c.task_lists[c.task[c.current_task].level])
  <2>1. /\ \A l \in Level : /\ IsInjective(s.task_lists[l])
                            /\ \A p \in Range(s.task_lists[l]) : s.task[p].level = l
        /\ \A p \in Waiting(s.task_lists) :
              s.task[p].state = IF p = s.current_task THEN "RUNNING" ELSE "READY"
        /\ s.current_task \in Range(s.task_lists[s.task[s.current_task].level])
    BY DEF Sound
  <2>. QED  BY <2>1, <1>2, <1>5, <1>7, <1>8
<1>10. Sound(c)
  BY <1>2, <1>3, <1>6, <1>9 DEF Sound
<1>. QED  BY <1>1, <1>2, <1>5, <1>10

\* The whole of pc_schedule.  gone is what it reaps.
LEMMA ScheduleFacts ==
  ASSUME IInv, NEW t, Entry(t), NEW found \in pc_find_next(t),
         NEW c, c = pc_clear_exit(Switched(t, found))
  PROVE  LET dead == IF t[current_task].state = "FINISH" THEN {current_task} ELSE {}
             gone == Range(exit_list) \cup dead
         IN  /\ Sound(c)
             /\ c = Table(c.task_lists, c.exit_list, c.task, c.current_task, c.pid_tree,
                          c.mailbox_tree, c.halted)
             /\ c.exit_list = <<>>
             /\ c.current_task # current_task
             /\ c.pid_tree = pid_tree \ gone
             /\ c.mailbox_tree = mailbox_tree \ gone
             /\ Waiting(c.task_lists) = Queued \ dead
             /\ \A p \in Queued \ dead :
                   c.task[p] = IF p = current_task THEN Preempted(t[p])
                               ELSE [task[p] EXCEPT !.state = c.task[p].state]
<1>. DEFINE dead == IF t[current_task].state = "FINISH" THEN {current_task} ELSE {}
            s    == Switched(t, found)
<1>1. /\ TypeOK /\ InOnePlace /\ CurrentRuns /\ KernelProcessesLive
  BY DEF IInv
<1>2. Choice(t, found)
  BY <1>1, FindNext
<1>3. /\ Sound(s)
      /\ s.pid_tree = pid_tree /\ s.mailbox_tree = mailbox_tree
      /\ s.current_task = found.next
      /\ Range(s.exit_list) = Range(exit_list) \cup dead
      /\ Waiting(s.task_lists) = Queued \ dead
      /\ \A p \in Pid : p \notin {current_task, found.next} => s.task[p] = task[p]
      /\ s.task[found.next] = [task[found.next] EXCEPT !.state = "RUNNING"]
      /\ s.task[current_task] = Preempted(t[current_task])
  BY <1>2, SwitchFacts
<1>. HIDE DEF s
<1>4. /\ Sound(c)
      /\ c = Table(c.task_lists, c.exit_list, c.task, c.current_task, c.pid_tree,
                   c.mailbox_tree, c.halted)
      /\ c.task_lists = s.task_lists /\ c.exit_list = <<>>
      /\ c.current_task = s.current_task
      /\ c.pid_tree = s.pid_tree \ Range(s.exit_list)
      /\ c.mailbox_tree = s.mailbox_tree \ Range(s.exit_list)
      /\ \A p \in Waiting(s.task_lists) : c.task[p] = s.task[p]
  BY <1>3, ClearFacts DEF s
<1>5. found.next # current_task
  BY <1>2 DEF Choice
<1>6. ASSUME NEW p \in Queued \ dead
      PROVE  c.task[p] = IF p = current_task THEN Preempted(t[p])
                         ELSE [task[p] EXCEPT !.state = c.task[p].state]
  <2>1. c.task[p] = s.task[p] /\ p \in Pid
    BY <1>1, <1>3, <1>4, QueuedFacts
  <2>2. task[p] \in TaskStruct
    BY <2>1, <1>1 DEF TypeOK
  <2>3. CASE p = current_task
    BY <2>1, <2>3, <1>3
  <2>4. CASE p = found.next
    BY <2>1, <2>2, <2>4, <1>3, <1>5 DEF TaskStruct
  <2>5. CASE p \notin {current_task, found.next}
    BY <2>1, <2>2, <2>5, <1>3 DEF TaskStruct
  <2>. QED  BY <2>3, <2>4, <2>5
<1>. QED  BY <1>3, <1>4, <1>5, <1>6

\* A sound table with the shell in queue 0, and calls in progress that refer to it
\* properly, make IInv.
LEMMA CommitKeepsIInv ==
  ASSUME NEW c, Commit(c), Sound(c),
         c.exit_list = <<>>,
         c.pid_tree \subseteq Pid,
         c.mailbox_tree \subseteq Waiting(c.task_lists),
         Waiting(c.task_lists) \subseteq c.pid_tree,
         ShellPid \in Range(c.task_lists[0]), c.task[ShellPid].fixed = 1,
         call' \in [Pid -> Call],
         \A p \in Pid : call'[p].op = "kill" => call'[p].pid \notin {IDLE_PID, ShellPid, p},
         \A p \in Pid : call'[p].op = "create" =>
            /\ call'[p].pid \in c.pid_tree
            /\ call'[p].pid \notin Waiting(c.task_lists)
            /\ \A q \in Pid : call'[q].op = "create" /\ call'[q].pid = call'[p].pid => q = p
  PROVE  IInv'
<1>1. /\ task_lists' = c.task_lists /\ exit_list' = <<>> /\ task' = c.task
      /\ current_task' = c.current_task /\ pid_tree' = c.pid_tree
      /\ mailbox_tree' = c.mailbox_tree /\ halted' = c.halted
  BY DEF Commit
<1>2. Queued' = Waiting(c.task_lists)
  BY <1>1 DEF Queued, Waiting
<1>3. Range(exit_list') = {} /\ IsInjective(exit_list') /\ exit_list' \in Seq(Pid)
  BY <1>1 DEF Range, IsInjective
<1>4. \A l \in Level : \A p \in Range(c.task_lists[l]) : p \in Waiting(c.task_lists)
  BY DEF Waiting
<1>5. \A p \in Waiting(c.task_lists) : p \in Pid
  OBVIOUS
<1>6. TypeOK'
  BY <1>1, <1>3, <1>4, <1>5 DEF TypeOK, Sound
<1>7. NoHalt'
  BY <1>1 DEF NoHalt, Sound
<1>8. InOnePlace'
  BY <1>1, <1>3, <1>4 DEF InOnePlace, Sound
<1>9. CurrentRuns'
  <2>1. current_task' \in Range(task_lists'[task'[current_task'].level])
    BY <1>1 DEF Sound
  <2>2. current_task' \in Waiting(c.task_lists)
    <3>1. c.task[c.current_task].level \in Level
      BY DEF Sound, TaskStruct
    <3>. QED  BY <2>1, <3>1, <1>1 DEF Waiting
  <2>. QED  BY <2>1, <2>2, <1>1, <1>2 DEF CurrentRuns, Sound
<1>10. KernelProcessesLive'
  BY <1>1 DEF KernelProcessesLive, Sound
<1>11. PidsOwned'
  BY <1>1, <1>2, <1>3 DEF PidsOwned, Creating
<1>12. MailboxesOwned'
  BY <1>1, <1>2, <1>3 DEF MailboxesOwned
<1>13. ShellFixed' /\ KillTargets'
  BY <1>1 DEF ShellFixed, KillTargets
<1>. QED  BY <1>6, <1>7, <1>8, <1>9, <1>10, <1>11, <1>12, <1>13 DEF IInv

\* What IInv says of the calls in progress, in the form the lemma above wants.
LEMMA CallFacts ==
  ASSUME IInv
  PROVE  /\ call \in [Pid -> Call]
         /\ NoCall \in Call /\ NoCall.op = "none" /\ NoCall.pid = NoPid
         /\ \A p \in Pid : call[p].op = "kill" => call[p].pid \notin {IDLE_PID, ShellPid, p}
         /\ \A p \in Pid : call[p].op = "create" =>
               /\ call[p].pid \in pid_tree
               /\ call[p].pid \notin Queued /\ call[p].pid \notin Range(exit_list)
               /\ \A q \in Pid : call[q].op = "create" /\ call[q].pid = call[p].pid => q = p
<1>1. 0 \in Level
  BY ConstantsAssumption DEF Level
<1>. QED  BY <1>1 DEF IInv, TypeOK, KillTargets, PidsOwned, Creating, NoCall, Call, Prog

\* Alloc_pid never hands out a pid that is in the tree.
LEMMA AllocPidFresh ==
  ASSUME NEW tree, tree \subseteq Pid, NEW pid, Alloc_pid(tree, pid)
  PROVE  pid \notin tree
<1>1. PICK max \in tree : pid = max + 1 /\ \A q \in tree : q <= max
  BY DEF Alloc_pid
<1>2. tree \subseteq Int
  BY ConstantsAssumption DEF Pid
<1>. QED  BY <1>1, <1>2

-----------------------------------------------------------------------------
(* One lemma per kernel entry *)

\* The timer: no process is lost, and only the one that leaves the processor is
\* sliced.
LEMMA TickStep ==
  ASSUME IInv, Tick
  PROVE  /\ IInv'
         /\ current_task' # current_task
         /\ Queued' = Queued
         /\ \A p \in Queued :
               task'[p] = IF p = current_task THEN Preempted(task[p])
                          ELSE [task[p] EXCEPT !.state = task'[p].state]
<1>1. /\ TypeOK /\ InOnePlace /\ CurrentRuns /\ KernelProcessesLive
      /\ PidsOwned /\ MailboxesOwned /\ ShellFixed
  BY DEF IInv
<1>2. /\ 0 \in Level /\ ShellPid \in Queued /\ task[ShellPid].level = 0 /\ ShellPid \in Pid
      /\ current_task \in Queued /\ Queued \subseteq Pid
      /\ task[current_task].state \in {"READY", "RUNNING"}
  BY <1>1, QueuedFacts
<1>3. Entry(task)
  BY <1>1, <1>2 DEF Entry, TypeOK, CurrentRuns
<1>4. PICK found \in pc_find_next(task) : Commit(pc_clear_exit(Switched(task, found)))
  BY DEF Tick
<1>. DEFINE c == pc_clear_exit(Switched(task, found))
<1>5. call' = call
  BY DEF Tick
<1>6. task[current_task].state # "FINISH"
  BY <1>2
<1>7. /\ Sound(c)
      /\ c.exit_list = <<>>
      /\ c.current_task # current_task
      /\ c.pid_tree = pid_tree \ Range(exit_list)
      /\ c.mailbox_tree = mailbox_tree \ Range(exit_list)
      /\ Waiting(c.task_lists) = Queued
      /\ \A p \in Queued : c.task[p] = IF p = current_task THEN Preempted(task[p])
                                       ELSE [task[p] EXCEPT !.state = c.task[p].state]
  <2>. DEFINE dead == IF task[current_task].state = "FINISH" THEN {current_task} ELSE {}
              gone == Range(exit_list) \cup dead
  <2>1. /\ Sound(c)
        /\ c.exit_list = <<>>
        /\ c.current_task # current_task
        /\ c.pid_tree = pid_tree \ gone
        /\ c.mailbox_tree = mailbox_tree \ gone
        /\ Waiting(c.task_lists) = Queued \ dead
        /\ \A p \in Queued \ dead :
              c.task[p] = IF p = current_task THEN Preempted(task[p])
                          ELSE [task[p] EXCEPT !.state = c.task[p].state]
    BY <1>3, <1>4, ScheduleFacts
  <2>2. dead = {} /\ gone = Range(exit_list)
    BY <1>6
  <2>. HIDE DEF dead, gone
  <2>. QED  BY <2>1, <2>2
<1>. HIDE DEF c
<1>12. Commit(c)
  BY <1>4 DEF c
<1>8. c.task[ShellPid].fixed = 1 /\ c.task[ShellPid].level = 0
  <2>1. task[ShellPid] \in TaskStruct
    BY <1>1, <1>2 DEF TypeOK
  <2>2. task[ShellPid].fixed = 1
    BY <1>1 DEF ShellFixed
  <2>3. CASE ShellPid = current_task
    <3>1. /\ Preempted(task[ShellPid]).fixed = task[ShellPid].fixed
          /\ Preempted(task[ShellPid]).level # task[ShellPid].level => task[ShellPid].fixed = 0
      BY <2>1, PreemptedFacts
    <3>2. c.task[ShellPid] = Preempted(task[ShellPid])
      BY <2>3, <1>2, <1>7
    <3>. QED  BY <3>1, <3>2, <2>2, <1>2
  <2>4. CASE ShellPid # current_task
    <3>1. c.task[ShellPid] = [task[ShellPid] EXCEPT !.state = c.task[ShellPid].state]
      BY <2>4, <1>2, <1>7
    <3>. QED  BY <3>1, <2>1, <2>2, <1>2 DEF TaskStruct
  <2>. QED  BY <2>3, <2>4
<1>9. ShellPid \in Range(c.task_lists[0])
  BY <1>2, <1>7, <1>8 DEF Waiting, Sound
<1>10. /\ c.pid_tree \subseteq Pid
       /\ c.mailbox_tree \subseteq Waiting(c.task_lists)
       /\ Waiting(c.task_lists) \subseteq c.pid_tree
  <2>1. \A p \in Queued : p \notin Range(exit_list)
    BY <1>1, QueuedFacts DEF InOnePlace
  <2>. QED  BY <2>1, <1>1, <1>7 DEF TypeOK, PidsOwned, MailboxesOwned
<1>11. \A p \in Pid : call[p].op = "create" =>
            /\ call[p].pid \in c.pid_tree
            /\ call[p].pid \notin Waiting(c.task_lists)
            /\ \A q \in Pid : call[q].op = "create" /\ call[q].pid = call[p].pid => q = p
  BY <1>7, CallFacts
<1>13. IInv'
  BY <1>5, <1>7, <1>8, <1>9, <1>10, <1>11, <1>12, CallFacts, CommitKeepsIInv
<1>14. /\ task' = c.task /\ task_lists' = c.task_lists /\ current_task' = c.current_task
  BY <1>12 DEF Commit
<1>15. Queued' = Waiting(c.task_lists)
  BY <1>14 DEF Queued, Waiting
<1>. QED  BY <1>7, <1>13, <1>14, <1>15

\* A shell is started again under pid 1 once the pid is free.
LEMMA RecreateShellFacts ==
  ASSUME NEW c, Sound(c), NEW r, r = RecreateShell(c),
         c = Table(c.task_lists, c.exit_list, c.task, c.current_task, c.pid_tree,
                   c.mailbox_tree, c.halted),
         c.exit_list = <<>>,
         ShellPid \notin c.pid_tree, ShellPid \notin Waiting(c.task_lists)
  PROVE  /\ Sound(r)
         /\ r.exit_list = <<>>
         /\ r.pid_tree = c.pid_tree \cup {ShellPid}
         /\ r.mailbox_tree = c.mailbox_tree
         /\ Waiting(r.task_lists) = Waiting(c.task_lists) \cup {ShellPid}
         /\ ShellPid \in Range(r.task_lists[0]) /\ r.task[ShellPid].fixed = 1
         /\ \A p \in Pid \ {ShellPid} : r.task[p] = c.task[p]
<1>. DEFINE new == NewTask("powershell", 0, 1)
            q   == Append(c.task_lists[0], ShellPid)
            lists == [c.task_lists EXCEPT ![0] = q]
            tasks == [c.task EXCEPT ![ShellPid] = new]
<1>1. /\ 0 \in Level /\ ShellPid \in Pid /\ Lowest \in Level /\ Lowest # 0
  BY ConstantsAssumption DEF Level, Lowest, Pid, ShellPid, ClockPid
<1>2. new \in TaskStruct /\ new.level = 0 /\ new.fixed = 1 /\ new.state = "READY"
  BY <1>1, NewTaskType DEF Prog, NewTask
<1>. HIDE DEF new
<1>3. ShellPidIn(c.pid_tree) = ShellPid
  BY DEF ShellPidIn, Check_pid
<1>4. /\ r.task_lists = lists /\ r.exit_list = <<>> /\ r.task = tasks
      /\ r.current_task = c.current_task /\ r.pid_tree = c.pid_tree \cup {ShellPid}
      /\ r.mailbox_tree = c.mailbox_tree /\ r.halted = c.halted
  BY <1>3 DEF RecreateShell, Table, add_task_to_list, new
<1>5. /\ c.task_lists \in [Level -> Seq(Pid)]
      /\ c.task \in [Pid -> TaskStruct]
      /\ c.current_task \in Pid /\ c.halted = "no"
      /\ \A l \in Level : /\ IsInjective(c.task_lists[l])
                          /\ \A p \in Range(c.task_lists[l]) : c.task[p].level = l
      /\ \A p \in Waiting(c.task_lists) :
            c.task[p].state = IF p = c.current_task THEN "RUNNING" ELSE "READY"
      /\ c.current_task \in Range(c.task_lists[c.task[c.current_task].level])
      /\ IDLE_PID \in Range(c.task_lists[Lowest])
  BY DEF Sound
<1>6. \A l \in Level : Range(c.task_lists[l]) \subseteq Waiting(c.task_lists)
  BY DEF Waiting
<1>7. /\ q \in Seq(Pid) /\ IsInjective(q) /\ Range(q) = Range(c.task_lists[0]) \cup {ShellPid}
  BY <1>1, <1>5, <1>6, AppendFacts
<1>. HIDE DEF q
<1>8. /\ lists \in [Level -> Seq(Pid)] /\ lists[0] = q
      /\ \A l \in Level : l # 0 => lists[l] = c.task_lists[l]
  BY <1>1, <1>5, <1>7
<1>9. /\ tasks \in [Pid -> TaskStruct] /\ tasks[ShellPid] = new
      /\ \A p \in Pid : p # ShellPid => tasks[p] = c.task[p]
  BY <1>1, <1>2, <1>5
<1>. HIDE DEF lists, tasks
<1>10. Waiting(lists) = Waiting(c.task_lists) \cup {ShellPid}
  BY <1>1, <1>7, <1>8 DEF Waiting
<1>11. Waiting(c.task_lists) \subseteq Pid
  <2>1. \A l \in Level : Range(c.task_lists[l]) \subseteq Pid
    BY <1>5, RangeOfSeq
  <2>. QED  BY <2>1 DEF Waiting
<1>12. \A p \in Waiting(c.task_lists) : tasks[p] = c.task[p]
  BY <1>9, <1>11
<1>13. c.current_task \in Waiting(c.task_lists)
  <2>1. c.task[c.current_task].level \in Level
    BY <1>5 DEF TaskStruct
  <2>. QED  BY <2>1, <1>5, <1>6
<1>14. ASSUME NEW l \in Level
       PROVE  IsInjective(lists[l]) /\ \A p \in Range(lists[l]) : tasks[p].level = l
  <2>1. CASE l = 0
    BY <2>1, <1>2, <1>5, <1>6, <1>7, <1>8, <1>9, <1>12
  <2>2. CASE l # 0
    <3>1. lists[l] = c.task_lists[l] /\ Range(c.task_lists[l]) \subseteq Waiting(c.task_lists)
      BY <2>2, <1>6, <1>8
    <3>2. /\ IsInjective(c.task_lists[l])
          /\ \A p \in Range(c.task_lists[l]) : c.task[p].level = l
      BY <1>5
    <3>3. \A p \in Range(c.task_lists[l]) : tasks[p].level = l
      BY <3>1, <3>2, <1>12
    <3>. QED  BY <3>1, <3>2, <3>3
  <2>. QED  BY <2>1, <2>2
<1>15. \A p \in Waiting(lists) :
          tasks[p].state = IF p = c.current_task THEN "RUNNING" ELSE "READY"
  BY <1>2, <1>5, <1>9, <1>10, <1>12, <1>13
<1>16. c.current_task \in Range(lists[tasks[c.current_task].level])
  <2>1. tasks[c.current_task] = c.task[c.current_task]
    BY <1>12, <1>13
  <2>2. Range(c.task_lists[0]) \subseteq Range(lists[0])
    BY <1>7, <1>8
  <2>3. c.task[c.current_task].level \in Level
    BY <1>5 DEF TaskStruct
  <2>. QED  BY <2>1, <2>2, <2>3, <1>5, <1>8
<1>17. <<>> \in Seq(Pid) /\ IsInjective(<<>>) /\ Range(<<>>) = {}
  BY DEF IsInjective, Range
<1>18. Sound(r)
  BY <1>1, <1>4, <1>5, <1>8, <1>9, <1>14, <1>15, <1>16, <1>17 DEF Sound
<1>. QED  BY <1>2, <1>4, <1>7, <1>8, <1>9, <1>10, <1>18

\* An exception: the current process goes, but the shell comes back at once.
LEMMA ExceptionStep ==
  ASSUME IInv, Exception
  PROVE  /\ IInv'
         /\ current_task # IDLE_PID
         /\ current_task # ShellPid => current_task \notin Queued'
         /\ \A p \in Queued \ {current_task} :
               p \in Queued' /\ task'[p] = [task[p] EXCEPT !.state = task'[p].state]
<1>. DEFINE t == Finished
<1>1. /\ TypeOK /\ InOnePlace /\ CurrentRuns /\ KernelProcessesLive
      /\ PidsOwned /\ MailboxesOwned /\ ShellFixed
  BY DEF IInv
<1>2. /\ 0 \in Level /\ ShellPid \in Queued /\ task[ShellPid].level = 0 /\ ShellPid \in Pid
      /\ current_task \in Queued /\ Queued \subseteq Pid
  BY <1>1, QueuedFacts
<1>3. current_task # IDLE_PID /\ call' = [call EXCEPT ![current_task] = NoCall]
  BY DEF Exception
<1>4. Entry(t) /\ t[current_task].state = "FINISH"
  <2>1. task \in [Pid -> TaskStruct] /\ current_task \in Pid
    BY <1>1, <1>2 DEF TypeOK
  <2>2. /\ t \in [Pid -> TaskStruct] /\ t[current_task].state = "FINISH"
        /\ \A p \in Pid : p # current_task => t[p] = task[p]
        /\ t[current_task].level = task[current_task].level
        /\ t[current_task].fixed = task[current_task].fixed
    BY <2>1 DEF Finished, TaskStruct
  <2>. HIDE DEF t
  <2>. QED  BY <2>2, <1>3 DEF Entry
<1>5. PICK found \in pc_find_next(t) :
         Commit(IF current_task = ShellPid /\ pc_clear_exit(Switched(t, found)).halted = "no"
                THEN RecreateShell(pc_clear_exit(Switched(t, found)))
                ELSE pc_clear_exit(Switched(t, found)))
  BY DEF Exception
<1>. DEFINE c == pc_clear_exit(Switched(t, found))
            gone == Range(exit_list) \cup {current_task}
<1>. HIDE DEF t
<1>6. /\ Sound(c)
      /\ c = Table(c.task_lists, c.exit_list, c.task, c.current_task, c.pid_tree,
                   c.mailbox_tree, c.halted)
      /\ c.exit_list = <<>>
      /\ c.pid_tree = pid_tree \ gone
      /\ c.mailbox_tree = mailbox_tree \ gone
      /\ Waiting(c.task_lists) = Queued \ {current_task}
      /\ \A p \in Queued \ {current_task} :
            c.task[p] = [task[p] EXCEPT !.state = c.task[p].state]
  <2>. DEFINE dead == IF t[current_task].state = "FINISH" THEN {current_task} ELSE {}
              lost == Range(exit_list) \cup dead
  <2>1. /\ Sound(c)
        /\ c = Table(c.task_lists, c.exit_list, c.task, c.current_task, c.pid_tree,
                     c.mailbox_tree, c.halted)
        /\ c.exit_list = <<>>
        /\ c.pid_tree = pid_tree \ lost
        /\ c.mailbox_tree = mailbox_tree \ lost
        /\ Waiting(c.task_lists) = Queued \ dead
        /\ \A p \in Queued \ dead :
              c.task[p] = IF p = current_task THEN Preempted(t[p])
                          ELSE [task[p] EXCEPT !.state = c.task[p].state]
    BY <1>4, ScheduleFacts
  <2>2. dead = {current_task} /\ lost = gone
    BY <1>4
  <2>. HIDE DEF dead, lost, gone
  <2>. QED  BY <2>1, <2>2
<1>. HIDE DEF c
<1>7. Commit(IF current_task = ShellPid THEN RecreateShell(c) ELSE c)
  BY <1>5, <1>6 DEF c, Sound
<1>8. /\ c.pid_tree \subseteq Pid
      /\ c.mailbox_tree \subseteq Waiting(c.task_lists)
      /\ Waiting(c.task_lists) \subseteq c.pid_tree
  <2>1. \A p \in Queued : p \notin Range(exit_list)
    BY <1>1, QueuedFacts DEF InOnePlace
  <2>. QED  BY <2>1, <1>1, <1>6 DEF TypeOK, PidsOwned, MailboxesOwned
<1>9. /\ call' \in [Pid -> Call]
      /\ \A p \in Pid : call'[p].op # "none" => p # current_task /\ call'[p] = call[p]
  BY <1>2, <1>3, CallFacts
<1>10. /\ \A p \in Pid : call'[p].op = "kill" => call'[p].pid \notin {IDLE_PID, ShellPid, p}
       /\ \A p \in Pid : call'[p].op = "create" =>
            /\ call'[p].pid \in c.pid_tree
            /\ call'[p].pid \notin Queued
            /\ \A q \in Pid : call'[q].op = "create" /\ call'[q].pid = call'[p].pid => q = p
  <2>1. \A p \in Pid : call'[p].op = "kill" => call'[p].pid \notin {IDLE_PID, ShellPid, p}
    BY <1>9, CallFacts
  <2>2. ASSUME NEW p \in Pid, call'[p].op = "create"
        PROVE  /\ call'[p].pid \in c.pid_tree
               /\ call'[p].pid \notin Queued
               /\ \A q \in Pid : call'[q].op = "create" /\ call'[q].pid = call'[p].pid => q = p
    <3>1. call'[p] = call[p] /\ call[p].op = "create"
      BY <2>2, <1>9
    <3>2. \A q \in Pid : call'[q].op = "create" => call'[q] = call[q]
      BY <1>9
    <3>. QED  BY <3>1, <3>2, <1>2, <1>6, CallFacts
  <2>. QED  BY <2>1, <2>2
<1>11. CASE current_task # ShellPid
  <2>1. c.task[ShellPid].fixed = 1 /\ c.task[ShellPid].level = 0
    <3>1. c.task[ShellPid] = [task[ShellPid] EXCEPT !.state = c.task[ShellPid].state]
      BY <1>2, <1>6, <1>11
    <3>2. task[ShellPid] \in TaskStruct /\ task[ShellPid].fixed = 1
      BY <1>1, <1>2 DEF TypeOK, ShellFixed
    <3>. QED  BY <3>1, <3>2, <1>2 DEF TaskStruct
  <2>2. ShellPid \in Range(c.task_lists[0])
    BY <2>1, <1>2, <1>6, <1>11 DEF Waiting, Sound
  <2>3. IInv'
    BY <2>1, <2>2, <1>6, <1>7, <1>8, <1>9, <1>10, <1>11, CommitKeepsIInv
  <2>4. task' = c.task /\ task_lists' = c.task_lists
    BY <1>7, <1>11 DEF Commit
  <2>5. Queued' = Waiting(c.task_lists)
    BY <2>4 DEF Queued, Waiting
  <2>. QED  BY <2>3, <2>4, <2>5, <1>3, <1>6
<1>12. CASE current_task = ShellPid
  <2>. DEFINE r == RecreateShell(c)
  <2>1. ShellPid \notin c.pid_tree /\ ShellPid \notin Waiting(c.task_lists)
    BY <1>6, <1>12
  <2>2. /\ Sound(r)
        /\ r.exit_list = <<>>
        /\ r.pid_tree = c.pid_tree \cup {ShellPid}
        /\ r.mailbox_tree = c.mailbox_tree
        /\ Waiting(r.task_lists) = Waiting(c.task_lists) \cup {ShellPid}
        /\ ShellPid \in Range(r.task_lists[0]) /\ r.task[ShellPid].fixed = 1
        /\ \A p \in Pid \ {ShellPid} : r.task[p] = c.task[p]
    BY <2>1, <1>6, RecreateShellFacts
  <2>. HIDE DEF r
  <2>3. Commit(r)
    BY <1>7, <1>12 DEF r
  <2>4. /\ r.pid_tree \subseteq Pid
        /\ r.mailbox_tree \subseteq Waiting(r.task_lists)
        /\ Waiting(r.task_lists) \subseteq r.pid_tree
        /\ Waiting(r.task_lists) \subseteq Queued
    BY <2>2, <1>2, <1>6, <1>8
  <2>5. \A p \in Pid : call'[p].op = "create" =>
            /\ call'[p].pid \in r.pid_tree
            /\ call'[p].pid \notin Waiting(r.task_lists)
            /\ \A q \in Pid : call'[q].op = "create" /\ call'[q].pid = call'[p].pid => q = p
    BY <2>2, <2>4, <1>10
  <2>6. IInv'
    BY <2>2, <2>3, <2>4, <2>5, <1>9, <1>10, CommitKeepsIInv
  <2>7. task' = r.task /\ task_lists' = r.task_lists
    BY <2>3 DEF Commit
  <2>8. Queued' = Waiting(r.task_lists)
    BY <2>7 DEF Queued, Waiting
  <2>9. \A p \in Queued \ {current_task} : p \in Queued' /\ task'[p] = c.task[p]
    BY <2>2, <2>7, <2>8, <1>2, <1>6, <1>12
  <2>. QED  BY <2>6, <2>9, <1>3, <1>6, <1>12
<1>. QED  BY <1>11, <1>12

\* The pid pc_create takes is nobody's: a pid is taken once.
LEMMA PcCreateAllocStep ==
  ASSUME IInv, NEW pid \in Pid,
         NEW r \in ShellCommands \cup {[prog |-> "Read test", level |-> 0, fixed |-> 0]},
         PcCreateAlloc(pid, r)
  PROVE  IInv'
<1>1. /\ TypeOK /\ NoHalt /\ InOnePlace /\ CurrentRuns /\ KernelProcessesLive
      /\ PidsOwned /\ MailboxesOwned /\ ShellFixed /\ KillTargets
  BY DEF IInv
<1>2. /\ pid_tree' = pid_tree \cup {pid}
      /\ call' = [call EXCEPT ![current_task] = [op |-> "create", pid |-> pid, prog |-> r.prog,
                                                 level |-> r.level, fixed |-> r.fixed]]
      /\ task_lists' = task_lists /\ exit_list' = exit_list /\ task' = task
      /\ current_task' = current_task /\ mailbox_tree' = mailbox_tree /\ halted' = halted
      /\ Alloc_pid(pid_tree, pid)
  BY DEF PcCreateAlloc
<1>3. r.prog \in Prog /\ r.level \in Level /\ r.fixed \in {0, 1}
  <2>1. 0 \in Level /\ Lowest \in Level
    BY <1>1, QueuedFacts
  <2>2. CASE r \in [prog : {"test"}, level : Level, fixed : {0, 1}]
    BY <2>2 DEF Prog
  <2>3. CASE r = [prog |-> "time", level |-> Lowest, fixed |-> 1]
    BY <2>1, <2>3 DEF Prog
  <2>4. CASE r = [prog |-> "Send test", level |-> 0, fixed |-> 0]
    BY <2>1, <2>4 DEF Prog
  <2>5. CASE r = [prog |-> "Read test", level |-> 0, fixed |-> 0]
    BY <2>1, <2>5 DEF Prog
  <2>. QED  BY <2>2, <2>3, <2>4, <2>5 DEF ShellCommands
<1>. DEFINE new == [op |-> "create", pid |-> pid, prog |-> r.prog,
                    level |-> r.level, fixed |-> r.fixed]
<1>4. new \in Call /\ new.op = "create" /\ new.pid = pid
  BY <1>3 DEF Call
<1>. HIDE DEF new
<1>5. /\ current_task \in Pid /\ call \in [Pid -> Call] /\ call' = [call EXCEPT ![current_task] = new]
  BY <1>1, <1>2 DEF TypeOK, new
<1>6. /\ call' \in [Pid -> Call] /\ call'[current_task] = new
      /\ \A p \in Pid : p # current_task => call'[p] = call[p]
  BY <1>4, <1>5
<1>7. pid \notin pid_tree
  <2>1. pid_tree \subseteq Pid /\ Alloc_pid(pid_tree, pid)
    BY <1>1, <1>2 DEF TypeOK
  <2>. QED  BY <2>1, AllocPidFresh
<1>8. Queued' = Queued
  BY <1>2 DEF Queued
<1>9. TypeOK'
  BY <1>1, <1>2, <1>6 DEF TypeOK
<1>10. NoHalt' /\ InOnePlace' /\ CurrentRuns' /\ KernelProcessesLive' /\ ShellFixed' /\ MailboxesOwned'
  BY <1>1, <1>2, <1>8 DEF NoHalt, InOnePlace, CurrentRuns, KernelProcessesLive, ShellFixed,
                          MailboxesOwned
<1>11. PidsOwned'
  <2>1. Queued' \cup Range(exit_list') \subseteq pid_tree'
    BY <1>1, <1>2, <1>8 DEF PidsOwned
  <2>2. ASSUME NEW p \in Pid, call'[p].op = "create"
        PROVE  /\ call'[p].pid \in pid_tree'
               /\ call'[p].pid \notin Queued' \cup Range(exit_list')
               /\ \A q \in Pid : call'[q].op = "create" /\ call'[q].pid = call'[p].pid => q = p
    <3>1. \A q \in Pid : call[q].op = "create" =>
             call[q].pid \in pid_tree /\ call[q].pid # pid /\ call[q].pid \notin Queued \cup Range(exit_list)
      BY <1>1, <1>7 DEF PidsOwned, Creating
    <3>2. pid \notin Queued \cup Range(exit_list)
      BY <1>1, <1>7 DEF PidsOwned
    <3>3. CASE p = current_task
      BY <3>1, <3>2, <3>3, <2>2, <1>2, <1>4, <1>6, <1>8
    <3>4. CASE p # current_task
      <4>1. \A q \in Pid : call[q].op = "create" /\ call[q].pid = call[p].pid => q = p
        BY <3>4, <2>2, <1>6, CallFacts
      <4>. QED  BY <3>1, <3>4, <4>1, <2>2, <1>2, <1>4, <1>6, <1>8
    <3>. QED  BY <3>3, <3>4
  <2>. QED  BY <2>1, <2>2 DEF PidsOwned, Creating
<1>12. KillTargets'
  BY <1>1, <1>2, <1>4, <1>6 DEF KillTargets
<1>. QED  BY <1>9, <1>10, <1>11, <1>12 DEF IInv

\* The process pc_create queues is new to every list.
LEMMA PcCreateQueueStep ==
  ASSUME IInv, PcCreateQueue
  PROVE  IInv' /\ Queued \subseteq Queued'
<1>1. /\ TypeOK /\ NoHalt /\ InOnePlace /\ CurrentRuns /\ KernelProcessesLive
      /\ PidsOwned /\ MailboxesOwned /\ ShellFixed /\ KillTargets
  BY DEF IInv
<1>. DEFINE c   == call[current_task]
            new == NewTask(c.prog, c.level, c.fixed)
            end == IF task[current_task].prog = "Send test"
                   THEN [NoCall EXCEPT !.op = "done"] ELSE NoCall
            q   == Append(task_lists[c.level], c.pid)
<1>2. /\ c.op = "create"
      /\ task' = [task EXCEPT ![c.pid] = new]
      /\ task_lists' = [task_lists EXCEPT ![c.level] = q]
      /\ call' = [call EXCEPT ![current_task] = end]
      /\ exit_list' = exit_list /\ current_task' = current_task /\ pid_tree' = pid_tree
      /\ mailbox_tree' = mailbox_tree /\ halted' = halted
  BY DEF PcCreateQueue, add_task_to_list
<1>3. /\ current_task \in Queued /\ current_task \in Pid /\ Queued \subseteq Pid
      /\ \A p \in Queued : task[p].level \in Level
      /\ \A l \in Level : /\ task_lists[l] \in Seq(Pid) /\ IsInjective(task_lists[l])
                          /\ Range(task_lists[l]) \subseteq Queued
                          /\ \A p \in Range(task_lists[l]) : task[p].level = l
      /\ Lowest \in Level /\ 0 \in Level
      /\ IDLE_PID \in Queued /\ ShellPid \in Queued
      /\ task_lists \in [Level -> Seq(Pid)] /\ task \in [Pid -> TaskStruct]
      /\ exit_list \in Seq(Pid)
  BY <1>1, QueuedFacts DEF TypeOK
<1>4. /\ c \in Call /\ c.pid \in pid_tree /\ c.pid \in Pid /\ c.level \in Level
      /\ c.prog \in Prog /\ c.fixed \in {0, 1}
      /\ c.pid \notin Queued /\ c.pid \notin Range(exit_list)
      /\ \A p \in Pid : call[p].op = "create" /\ call[p].pid = c.pid => p = current_task
  BY <1>1, <1>2, <1>3, CallFacts DEF TypeOK, Call
<1>5. new \in TaskStruct /\ new.level = c.level /\ new.state = "READY"
  BY <1>4, NewTaskType DEF NewTask
<1>6. end \in Call /\ end.op \notin {"create", "kill"}
  BY CallFacts DEF Call, NoCall
<1>7. /\ q \in Seq(Pid) /\ IsInjective(q) /\ Range(q) = Range(task_lists[c.level]) \cup {c.pid}
  BY <1>3, <1>4, AppendFacts
<1>. HIDE DEF c, new, end, q
<1>8. /\ task' \in [Pid -> TaskStruct] /\ task'[c.pid] = new
      /\ \A p \in Pid : p # c.pid => task'[p] = task[p]
  BY <1>2, <1>3, <1>4, <1>5
<1>9. /\ task_lists' \in [Level -> Seq(Pid)] /\ task_lists'[c.level] = q
      /\ \A l \in Level : l # c.level => task_lists'[l] = task_lists[l]
  BY <1>2, <1>3, <1>4, <1>7
<1>10. /\ call' \in [Pid -> Call] /\ call'[current_task] = end
       /\ \A p \in Pid : p # current_task => call'[p] = call[p]
  BY <1>1, <1>2, <1>3, <1>6 DEF TypeOK
<1>11. Queued' = Queued \cup {c.pid}
  BY <1>4, <1>7, <1>9 DEF Queued
<1>12. \A p \in Queued : task'[p] = task[p]
  BY <1>3, <1>4, <1>8
<1>13. \A p \in Range(exit_list) : task'[p] = task[p]
  <2>1. Range(exit_list) \subseteq Pid
    BY <1>3, RangeOfSeq
  <2>. QED  BY <2>1, <1>4, <1>8
<1>14. TypeOK'
  BY <1>1, <1>2, <1>8, <1>9, <1>10 DEF TypeOK
<1>15. InOnePlace'
  <2>1. ASSUME NEW l \in Level
        PROVE  /\ IsInjective(task_lists'[l])
               /\ \A p \in Range(task_lists'[l]) :
                     task'[p].level = l /\ task'[p].state \in {"READY", "RUNNING"}
    <3>1. \A p \in Range(task_lists[l]) :
             task'[p].level = l /\ task'[p].state \in {"READY", "RUNNING"}
      BY <1>1, <1>3, <1>12 DEF InOnePlace
    <3>2. CASE l = c.level
      BY <3>1, <3>2, <1>5, <1>7, <1>8, <1>9
    <3>3. CASE l # c.level
      BY <3>1, <3>3, <1>3, <1>9
    <3>. QED  BY <3>2, <3>3
  <2>2. IsInjective(exit_list') /\ \A p \in Range(exit_list') : task'[p].state = "FINISH"
    BY <1>1, <1>2, <1>13 DEF InOnePlace
  <2>. QED  BY <2>1, <2>2 DEF InOnePlace
<1>16. \A l \in Level : Range(task_lists[l]) \subseteq Range(task_lists'[l])
  BY <1>7, <1>9
<1>17. CurrentRuns'
  <2>1. current_task' \in Range(task_lists'[task'[current_task'].level])
    BY <1>1, <1>2, <1>3, <1>12, <1>16 DEF CurrentRuns
  <2>2. \A p \in Queued' : task'[p].state = "RUNNING" => p = current_task'
    BY <1>1, <1>2, <1>5, <1>8, <1>11, <1>12 DEF CurrentRuns
  <2>3. task'[current_task'].state = "RUNNING" \/ current_task' = IDLE_PID
    BY <1>1, <1>2, <1>3, <1>12 DEF CurrentRuns
  <2>. QED  BY <2>1, <2>2, <2>3 DEF CurrentRuns
<1>18. KernelProcessesLive' /\ ShellFixed' /\ NoHalt'
  BY <1>1, <1>2, <1>3, <1>12, <1>16 DEF KernelProcessesLive, ShellFixed, NoHalt
<1>19. PidsOwned'
  <2>1. Queued' \cup Range(exit_list') \subseteq pid_tree'
    BY <1>1, <1>2, <1>4, <1>11 DEF PidsOwned
  <2>2. ASSUME NEW p \in Pid, call'[p].op = "create"
        PROVE  /\ call'[p].pid \in pid_tree'
               /\ call'[p].pid \notin Queued' \cup Range(exit_list')
               /\ \A r \in Pid : call'[r].op = "create" /\ call'[r].pid = call'[p].pid => r = p
    <3>1. p # current_task /\ call'[p] = call[p]
      BY <2>2, <1>6, <1>10
    <3>2. /\ call[p].pid \in pid_tree
          /\ call[p].pid \notin Queued /\ call[p].pid \notin Range(exit_list)
          /\ \A r \in Pid : call[r].op = "create" /\ call[r].pid = call[p].pid => r = p
      BY <2>2, <3>1, CallFacts
    <3>3. call[p].pid # c.pid
      BY <2>2, <3>1, <1>4
    <3>4. \A r \in Pid : call'[r].op = "create" => call'[r] = call[r]
      BY <1>6, <1>10
    <3>. QED  BY <3>1, <3>2, <3>3, <3>4, <1>2, <1>11
  <2>. QED  BY <2>1, <2>2 DEF PidsOwned, Creating
<1>20. MailboxesOwned'
  BY <1>1, <1>2, <1>11 DEF MailboxesOwned
<1>21. KillTargets'
  BY <1>1, <1>2, <1>6, <1>10 DEF KillTargets
<1>. QED  BY <1>11, <1>14, <1>15, <1>17, <1>18, <1>19, <1>20, <1>21 DEF IInv

\* What pc_kill has checked is what its masked section relies on.
LEMMA PcKillCheckStep ==
  ASSUME IInv, NEW pid \in Pid, PcKillCheck(pid)
  PROVE  IInv'
<1>1. /\ TypeOK /\ NoHalt /\ InOnePlace /\ CurrentRuns /\ KernelProcessesLive
      /\ PidsOwned /\ MailboxesOwned /\ ShellFixed /\ KillTargets
  BY DEF IInv
<1>. DEFINE new == [NoCall EXCEPT !.op = "kill", !.pid = pid]
<1>2. /\ call' = [call EXCEPT ![current_task] = new]
      /\ task_lists' = task_lists /\ exit_list' = exit_list /\ task' = task
      /\ current_task' = current_task /\ pid_tree' = pid_tree
      /\ mailbox_tree' = mailbox_tree /\ halted' = halted
      /\ pid \notin {IDLE_PID, ShellPid, current_task}
  BY DEF PcKillCheck, KillAllowed
<1>3. new \in Call /\ new.op = "kill" /\ new.pid = pid
  BY CallFacts DEF Call, NoCall
<1>. HIDE DEF new
<1>4. /\ call' \in [Pid -> Call] /\ call'[current_task] = new
      /\ \A p \in Pid : p # current_task => call'[p] = call[p]
  BY <1>1, <1>2, <1>3 DEF TypeOK
<1>5. Queued' = Queued
  BY <1>2 DEF Queued
<1>6. TypeOK'
  BY <1>1, <1>2, <1>4 DEF TypeOK
<1>7. NoHalt' /\ InOnePlace' /\ CurrentRuns' /\ KernelProcessesLive' /\ ShellFixed' /\ MailboxesOwned'
  BY <1>1, <1>2, <1>5 DEF NoHalt, InOnePlace, CurrentRuns, KernelProcessesLive, ShellFixed,
                          MailboxesOwned
<1>8. KillTargets'
  BY <1>1, <1>2, <1>3, <1>4 DEF KillTargets
<1>9. PidsOwned'
  <2>1. \A p \in Pid : call'[p].op = "create" => call'[p] = call[p]
    BY <1>3, <1>4
  <2>. QED  BY <2>1, <1>1, <1>2, <1>5 DEF PidsOwned, Creating
<1>. QED  BY <1>6, <1>7, <1>8, <1>9 DEF IInv

\* The target of pc_kill moves from its queue to the exit list, if it still lives.
LEMMA PcKillRemoveStep ==
  ASSUME IInv, PcKillRemove
  PROVE  /\ IInv'
         /\ Queued' = Queued \/ Queued' = Queued \ {call[current_task].pid}
<1>1. /\ TypeOK /\ NoHalt /\ InOnePlace /\ CurrentRuns /\ KernelProcessesLive
      /\ PidsOwned /\ MailboxesOwned /\ ShellFixed /\ KillTargets
  BY DEF IInv
<1>. DEFINE pid == call[current_task].pid
<1>2. /\ call[current_task].op = "kill"
      /\ current_task' = current_task /\ pid_tree' = pid_tree
      /\ mailbox_tree' = mailbox_tree /\ halted' = halted
  BY DEF PcKillRemove
<1>3. /\ current_task \in Queued /\ current_task \in Pid /\ Queued \subseteq Pid
      /\ \A p \in Queued : /\ task[p].level \in Level
                           /\ task[p].state \in {"READY", "RUNNING"}
                           /\ p \in Range(task_lists[task[p].level])
      /\ \A l \in Level : /\ task_lists[l] \in Seq(Pid) /\ IsInjective(task_lists[l])
                          /\ Range(task_lists[l]) \subseteq Queued
                          /\ \A p \in Range(task_lists[l]) : task[p].level = l
      /\ Lowest \in Level /\ 0 \in Level
      /\ task_lists \in [Level -> Seq(Pid)] /\ task \in [Pid -> TaskStruct]
      /\ exit_list \in Seq(Pid)
  BY <1>1, QueuedFacts DEF TypeOK
<1>4. pid \notin {IDLE_PID, ShellPid, current_task}
  BY <1>1, <1>2, <1>3 DEF KillTargets
<1>5. CASE pid \notin Queued
  <2>1. /\ call' = [call EXCEPT ![current_task] = NoCall]
        /\ task' = task /\ exit_list' = exit_list /\ task_lists' = task_lists
    BY <1>5 DEF PcKillRemove
  <2>2. /\ call' \in [Pid -> Call]
        /\ \A p \in Pid : call'[p].op # "none" => call'[p] = call[p]
    BY <2>1, <1>3, CallFacts
  <2>3. Queued' = Queued
    BY <2>1 DEF Queued
  <2>4. TypeOK'
    BY <1>1, <1>2, <2>1, <2>2 DEF TypeOK
  <2>5. NoHalt' /\ InOnePlace' /\ CurrentRuns' /\ KernelProcessesLive' /\ ShellFixed' /\ MailboxesOwned'
    BY <1>1, <1>2, <2>1, <2>3 DEF NoHalt, InOnePlace, CurrentRuns, KernelProcessesLive, ShellFixed,
                                  MailboxesOwned
  <2>6. KillTargets' /\ PidsOwned'
    BY <1>1, <1>2, <2>1, <2>2, <2>3 DEF KillTargets, PidsOwned, Creating
  <2>. QED  BY <2>3, <2>4, <2>5, <2>6 DEF IInv
<1>6. CASE pid \in Queued
  <2>. DEFINE lev == task[pid].level
              q   == RemoveFirst(task_lists[lev], pid)
              e   == Append(exit_list, pid)
  <2>1. /\ task' = [task EXCEPT ![pid].state = "FINISH"]
        /\ exit_list' = e
        /\ task_lists' = [task_lists EXCEPT ![lev] = q]
        /\ call' = [call EXCEPT ![pid] = NoCall, ![current_task] = NoCall]
    BY <1>6 DEF PcKillRemove, add_task_to_list, list_delete
  <2>2. pid \in Pid /\ lev \in Level /\ pid \notin Range(exit_list)
    BY <1>1, <1>3, <1>6 DEF InOnePlace
  <2>3. q \in Seq(Pid) /\ IsInjective(q) /\ Range(q) = Range(task_lists[lev]) \ {pid}
    BY <2>2, <1>3, RemoveFirstFacts
  <2>4. e \in Seq(Pid) /\ IsInjective(e) /\ Range(e) = Range(exit_list) \cup {pid}
    BY <2>2, <1>1, <1>3, AppendFacts DEF InOnePlace
  <2>. HIDE DEF q, e
  <2>. HIDE DEF pid, lev
  <2>5. /\ task' \in [Pid -> TaskStruct] /\ task'[pid].state = "FINISH"
        /\ \A p \in Pid : p # pid => task'[p] = task[p]
    <3>1. task[pid] \in TaskStruct /\ task \in [Pid -> TaskStruct]
      BY <2>2, <1>3
    <3>2. /\ [task[pid] EXCEPT !.state = "FINISH"] \in TaskStruct
          /\ [task[pid] EXCEPT !.state = "FINISH"].state = "FINISH"
      BY <3>1 DEF TaskStruct
    <3>3. task' = [task EXCEPT ![pid] = [task[pid] EXCEPT !.state = "FINISH"]]
      BY <2>1
    <3>. QED  BY <3>1, <3>2, <3>3, <2>2
  <2>6. /\ task_lists' \in [Level -> Seq(Pid)]
        /\ \A l \in Level : /\ IsInjective(task_lists'[l])
                            /\ Range(task_lists'[l]) = Range(task_lists[l]) \ {pid}
    <3>1. \A l \in Level : l # lev => pid \notin Range(task_lists[l])
      BY <1>3 DEF lev
    <3>. QED  BY <3>1, <2>1, <2>2, <2>3, <1>3
  <2>7. Queued' = Queued \ {pid}
    BY <2>6 DEF Queued
  <2>8. /\ call' \in [Pid -> Call]
        /\ \A p \in Pid : call'[p].op # "none" => call'[p] = call[p]
    BY <2>1, <2>2, <1>3, CallFacts
  <2>9. TypeOK'
    BY <1>1, <1>2, <2>1, <2>4, <2>5, <2>6, <2>8 DEF TypeOK
  <2>10. Range(exit_list) \subseteq Pid /\ \A p \in Range(exit_list) : task[p].state = "FINISH"
    BY <1>1, <1>3, RangeOfSeq DEF InOnePlace
  <2>11. InOnePlace'
    <3>1. ASSUME NEW l \in Level
          PROVE  /\ IsInjective(task_lists'[l])
                 /\ \A p \in Range(task_lists'[l]) :
                       task'[p].level = l /\ task'[p].state \in {"READY", "RUNNING"}
      BY <2>5, <2>6, <1>3
    <3>2. IsInjective(exit_list') /\ \A p \in Range(exit_list') : task'[p].state = "FINISH"
      BY <2>1, <2>4, <2>5, <2>10
    <3>. QED  BY <3>1, <3>2 DEF InOnePlace
  <2>12. CurrentRuns'
    <3>1. task'[current_task] = task[current_task] /\ task[current_task].level \in Level
      BY <2>5, <1>3, <1>4
    <3>2. current_task \in Range(task_lists'[task[current_task].level])
      BY <3>1, <2>6, <1>3, <1>4
    <3>3. \A p \in Queued' : task'[p] = task[p]
      BY <2>5, <2>7, <1>3
    <3>. QED  BY <3>1, <3>2, <3>3, <2>7, <1>1, <1>2 DEF CurrentRuns
  <2>13. KernelProcessesLive' /\ ShellFixed' /\ NoHalt'
    <3>1. ShellPid \in Pid
      BY <1>1, QueuedFacts
    <3>. QED  BY <3>1, <2>5, <2>6, <1>1, <1>2, <1>3, <1>4
              DEF KernelProcessesLive, ShellFixed, NoHalt
  <2>14. Queued' \cup Range(exit_list') = Queued \cup Range(exit_list)
    BY <2>1, <2>4, <2>7, <1>6
  <2>15. PidsOwned' /\ MailboxesOwned' /\ KillTargets'
    <3>1. ASSUME NEW p \in Pid, call'[p].op = "create"
          PROVE  /\ call'[p].pid \in pid_tree'
                 /\ call'[p].pid \notin Queued' \cup Range(exit_list')
                 /\ \A r \in Pid : call'[r].op = "create" /\ call'[r].pid = call'[p].pid => r = p
      <4>1. /\ call[p].op = "create" /\ call'[p] = call[p]
            /\ \A r \in Pid : call'[r].op = "create" => call'[r] = call[r]
        BY <3>1, <2>8
      <4>. QED  BY <4>1, <2>14, <1>2, CallFacts
    <3>. QED  BY <3>1, <2>8, <2>14, <1>1, <1>2 DEF PidsOwned, Creating, MailboxesOwned, KillTargets
  <2>. QED  BY <2>7, <2>9, <2>11, <2>12, <2>13, <2>15 DEF IInv, pid
<1>. QED  BY <1>5, <1>6

\* Only a queued process registers a mailbox.
LEMMA PcRegisterMailboxStep ==
  ASSUME IInv, PcRegisterMailbox
  PROVE  IInv'
<1>1. /\ TypeOK /\ NoHalt /\ InOnePlace /\ CurrentRuns /\ KernelProcessesLive
      /\ PidsOwned /\ MailboxesOwned /\ ShellFixed /\ KillTargets
  BY DEF IInv
<1>2. /\ mailbox_tree' = mailbox_tree \cup {current_task}
      /\ task_lists' = task_lists /\ exit_list' = exit_list /\ task' = task
      /\ current_task' = current_task /\ pid_tree' = pid_tree
      /\ call' = call /\ halted' = halted
  BY DEF PcRegisterMailbox
<1>3. Queued' = Queued /\ current_task \in Queued /\ current_task \in Pid
  BY <1>1, <1>2, QueuedFacts DEF Queued
<1>4. TypeOK'
  BY <1>1, <1>2, <1>3 DEF TypeOK
<1>5. NoHalt' /\ InOnePlace' /\ CurrentRuns' /\ KernelProcessesLive' /\ ShellFixed' /\ KillTargets'
  BY <1>1, <1>2, <1>3 DEF NoHalt, InOnePlace, CurrentRuns, KernelProcessesLive, ShellFixed, KillTargets
<1>6. PidsOwned' /\ MailboxesOwned'
  BY <1>1, <1>2, <1>3 DEF PidsOwned, Creating, MailboxesOwned
<1>. QED  BY <1>4, <1>5, <1>6 DEF IInv

-----------------------------------------------------------------------------
(* The theorems *)

\* Interrupts are enabled in a state that satisfies the invariant.
LEMMA InitIInv == Init => IInv
<1>. SUFFICES ASSUME Init  PROVE IInv
  OBVIOUS
<1>1. /\ 0 \in Level /\ Lowest \in Level /\ Lowest # 0
      /\ IDLE_PID \in Pid /\ ShellPid \in Pid /\ ClockPid \in Pid
      /\ IDLE_PID # ShellPid /\ ClockPid # ShellPid /\ ClockPid # IDLE_PID
  BY ConstantsAssumption DEF Level, Lowest, Pid, IDLE_PID, ShellPid, ClockPid
<1>. DEFINE idle  == NewTask("idle", Lowest, 1)
            shell == NewTask("powershell", 0, 1)
            clock == NewTask("time", Lowest, 1)
<1>2. /\ idle \in TaskStruct /\ shell \in TaskStruct /\ clock \in TaskStruct
      /\ NoTask \in TaskStruct
      /\ idle.level = Lowest /\ clock.level = Lowest /\ shell.level = 0 /\ shell.fixed = 1
      /\ idle.state = "READY" /\ clock.state = "READY" /\ shell.state = "READY"
  BY <1>1, NewTaskType, NoTaskType DEF Prog, NewTask
<1>. HIDE DEF idle, shell, clock
<1>3. /\ task \in [Pid -> TaskStruct]
      /\ task[IDLE_PID] = idle /\ task[ShellPid] = shell /\ task[ClockPid] = clock
  BY <1>1, <1>2 DEF Init, idle, shell, clock
<1>4. /\ <<>> \in Seq(Pid) /\ <<ShellPid>> \in Seq(Pid) /\ <<IDLE_PID, ClockPid>> \in Seq(Pid)
      /\ Range(<<>>) = {} /\ Range(<<ShellPid>>) = {ShellPid}
      /\ Range(<<IDLE_PID, ClockPid>>) = {IDLE_PID, ClockPid}
      /\ IsInjective(<<>>) /\ IsInjective(<<ShellPid>>)
      /\ IsInjective(<<IDLE_PID, ClockPid>>)
  BY <1>1 DEF Range, IsInjective
<1>5. /\ task_lists \in [Level -> Seq(Pid)]
      /\ task_lists[0] = <<ShellPid>> /\ task_lists[Lowest] = <<IDLE_PID, ClockPid>>
      /\ \A l \in Level : l \notin {0, Lowest} => task_lists[l] = <<>>
  BY <1>1, <1>4 DEF Init
<1>6. Queued = {IDLE_PID, ShellPid, ClockPid}
  <2>1. \A l \in Level : Range(task_lists[l]) = IF l = 0 THEN {ShellPid}
                                              ELSE IF l = Lowest THEN {IDLE_PID, ClockPid} ELSE {}
    <3>. TAKE l \in Level
    <3>. QED  BY <1>1, <1>4, <1>5
  <2>. QED  BY <2>1, <1>1 DEF Queued
<1>7. call = [p \in Pid |-> NoCall] /\ NoCall \in Call /\ NoCall.op = "none"
  BY <1>1 DEF Init, NoCall, Call, Prog
<1>8. /\ exit_list = <<>> /\ current_task = IDLE_PID /\ halted = "no" /\ mailbox_tree = {}
      /\ pid_tree = {IDLE_PID, ShellPid, ClockPid}
  BY DEF Init
<1>9. TypeOK /\ NoHalt
  BY <1>1, <1>3, <1>4, <1>5, <1>7, <1>8 DEF TypeOK, NoHalt
<1>10. InOnePlace
  BY <1>1, <1>2, <1>3, <1>4, <1>5, <1>8 DEF InOnePlace
<1>11. CurrentRuns
  BY <1>2, <1>3, <1>4, <1>5, <1>6, <1>8 DEF CurrentRuns
<1>12. KernelProcessesLive /\ ShellFixed
  BY <1>2, <1>3, <1>4, <1>5 DEF KernelProcessesLive, ShellFixed
<1>13. PidsOwned /\ MailboxesOwned /\ KillTargets
  BY <1>4, <1>6, <1>7, <1>8 DEF PidsOwned, Creating, MailboxesOwned, KillTargets
<1>. QED  BY <1>9, <1>10, <1>11, <1>12, <1>13 DEF IInv

\* Every kernel entry preserves the invariant.
LEMMA NextIInv == IInv /\ [Next]_vars => IInv'
<1>. SUFFICES ASSUME IInv, [Next]_vars  PROVE IInv'
  OBVIOUS
<1>1. CASE UNCHANGED vars
  BY <1>1 DEF vars, IInv, TypeOK, NoHalt, InOnePlace, CurrentRuns, KernelProcessesLive, PidsOwned,
              MailboxesOwned, ShellFixed, KillTargets, Queued, Creating
<1>2. CASE Tick
  BY <1>2, TickStep
<1>3. CASE Exception
  BY <1>3, ExceptionStep
<1>4. CASE \E pid \in Pid, r \in ShellCommands \cup {[prog |-> "Read test", level |-> 0, fixed |-> 0]} :
              PcCreateAlloc(pid, r)
  BY <1>4, PcCreateAllocStep
<1>5. CASE PcCreateQueue
  BY <1>5, PcCreateQueueStep
<1>6. CASE \E pid \in Pid : PcKillCheck(pid)
  BY <1>6, PcKillCheckStep
<1>7. CASE PcKillRemove
  BY <1>7, PcKillRemoveStep
<1>8. CASE PcRegisterMailbox
  BY <1>8, PcRegisterMailboxStep
<1>. QED  BY <1>1, <1>2, <1>3, <1>4, <1>5, <1>6, <1>7, <1>8 DEF Next

\* The invariant holds in every reachable state, whatever the number of queues,
\* the length of the slice and the number of processes.
THEOREM Invariant == Spec => []IInv
<1>1. Init => IInv
  BY InitIInv
<1>2. IInv /\ [Next]_vars => IInv'
  BY NextIInv
<1>. QED  BY <1>1, <1>2, PTL DEF Spec

\* The process table keeps its types.
THEOREM TypesHold == Spec => []TypeOK
<1>1. IInv => TypeOK
  BY DEF IInv
<1>. QED  BY <1>1, Invariant, PTL

\* pc_schedule never reaches one of its error stops.
THEOREM NeverHalts == Spec => []NoHalt
<1>1. IInv => NoHalt
  BY DEF IInv
<1>. QED  BY <1>1, Invariant, PTL

\* The run queues and the exit list hold every process once.
THEOREM OnePlace == Spec => []InOnePlace
<1>1. IInv => InOnePlace
  BY DEF IInv
<1>. QED  BY <1>1, Invariant, PTL

\* One process is RUNNING, and it is current_task.
THEOREM OneRunning == Spec => []CurrentRuns
<1>1. IInv => CurrentRuns
  BY DEF IInv
<1>. QED  BY <1>1, Invariant, PTL

\* Idle and the shell are always queued, whatever is killed or crashes.
THEOREM KernelProcessesStay == Spec => []KernelProcessesLive
<1>1. IInv => KernelProcessesLive
  BY DEF IInv
<1>. QED  BY <1>1, Invariant, PTL

\* No two processes share a pid.
THEOREM PidsUnique == Spec => []PidsOwned
<1>1. IInv => PidsOwned
  BY DEF IInv
<1>. QED  BY <1>1, Invariant, PTL

\* No mailbox outlives its process.
THEOREM MailboxesDie == Spec => []MailboxesOwned
<1>1. IInv => MailboxesOwned
  BY DEF IInv
<1>. QED  BY <1>1, Invariant, PTL

\* A process sinks by one level at most, on its own time, and never if it is fixed.
LEMMA NextFeedback == IInv /\ [Next]_vars => \A p \in Pid : StepsDown(p)
<1>. SUFFICES ASSUME IInv, [Next]_vars, NEW p \in Pid, p \in Queued, p \in Queued',
                     task[p].level # task'[p].level
              PROVE  /\ p = current_task /\ current_task' # p
                     /\ task[p].fixed = 0
                     /\ task'[p].level = task[p].level + 1
                     /\ task'[p].time_cnt = TimeUnit * (task'[p].level + 1)
  BY DEF StepsDown
<1>1. task[p] \in TaskStruct /\ task \in [Pid -> TaskStruct]
  BY DEF IInv, TypeOK
<1>2. ASSUME NEW st, task'[p] = [task[p] EXCEPT !.state = st]  PROVE FALSE
  BY <1>1, <1>2 DEF TaskStruct
<1>3. CASE Tick
  <2>1. p = current_task
    BY <1>2, <1>3, TickStep
  <2>2. current_task' # current_task /\ task'[p] = Preempted(task[p])
    BY <2>1, <1>3, TickStep
  <2>3. Preempted(task[p]).level # task[p].level =>
           task[p].fixed = 0 /\ Preempted(task[p]).level = task[p].level + 1
             /\ Preempted(task[p]).time_cnt = TimeUnit * (Preempted(task[p]).level + 1)
    BY <1>1, PreemptedFacts
  <2>. QED  BY <2>1, <2>2, <2>3
<1>4. CASE Exception
  <2>1. CASE p # current_task
    BY <2>1, <1>2, <1>4, ExceptionStep
  <2>2. CASE p = current_task
    <3>1. p = ShellPid
      BY <2>2, <1>4, ExceptionStep
    <3>2. task[ShellPid].level = 0
      BY QueuedFacts DEF IInv
    <3>3. task'[ShellPid].level = 0
      <4>1. IInv' /\ 0 \in Level
        BY <1>4, ExceptionStep, ConstantsAssumption DEF Level
      <4>. QED  BY <4>1 DEF IInv, InOnePlace, KernelProcessesLive
    <3>. QED  BY <3>1, <3>2, <3>3
  <2>. QED  BY <2>1, <2>2
<1>5. CASE PcCreateQueue
  <2>1. call[current_task].pid \notin Queued
    BY <1>5, CallFacts DEF PcCreateQueue, IInv, TypeOK
  <2>2. task'[p] = task[p]
    BY <2>1, <1>1, <1>5 DEF PcCreateQueue
  <2>. QED  BY <2>2
<1>6. CASE PcKillRemove
  <2>1. task'[p] = task[p] \/ task'[p] = [task[p] EXCEPT !.state = "FINISH"]
    BY <1>1, <1>6 DEF PcKillRemove
  <2>. QED  BY <2>1, <1>2
<1>7. CASE task' = task
  BY <1>7
<1>8. Tick \/ Exception \/ PcCreateQueue \/ PcKillRemove \/ task' = task
  BY DEF Next, vars, PcCreateAlloc, PcKillCheck, PcRegisterMailbox
<1>. QED  BY <1>3, <1>4, <1>5, <1>6, <1>7, <1>8

\* The feedback rule of pc_schedule is kept by every step.
THEOREM FeedbackHolds == Spec => Feedback
<1>1. IInv /\ [Next]_vars => [\A p \in Pid : StepsDown(p)]_vars
  BY NextFeedback
<1>. QED  BY <1>1, Invariant, PTL DEF Spec, Feedback

\* Only the current process or the target of a checked pc_kill finishes.
LEMMA NextKills == IInv /\ [Next]_vars => \A p \in Pid : MayFinish(p)
<1>. SUFFICES ASSUME IInv, [Next]_vars, NEW p \in Pid, p \in Queued,
                     task'[p].state \in {"FINISH", "FREE"}
              PROVE  p # IDLE_PID /\ (p = current_task \/ (p # ShellPid /\ call[current_task].pid = p))
  BY DEF MayFinish
<1>1. p \notin Queued'
  <2>1. IInv'
    BY NextIInv
  <2>2. \A q \in Queued' : \E l \in Level : q \in Range(task_lists'[l])
    BY DEF Queued
  <2>3. \A q \in Queued' : task'[q].state \in {"READY", "RUNNING"}
    BY <2>1, <2>2 DEF IInv, InOnePlace
  <2>. QED  BY <2>3
<1>2. CASE Tick
  BY <1>1, <1>2, TickStep
<1>3. CASE Exception
  <2>1. p = current_task /\ current_task # IDLE_PID
    BY <1>1, <1>3, ExceptionStep
  <2>. QED  BY <2>1
<1>4. CASE PcKillRemove
  <2>1. Queued' = Queued \/ Queued' = Queued \ {call[current_task].pid}
    BY <1>4, PcKillRemoveStep
  <2>2. p = call[current_task].pid
    BY <2>1, <1>1
  <2>3. call[current_task].op = "kill" /\ current_task \in Pid
    BY <1>4 DEF PcKillRemove, IInv, TypeOK
  <2>. QED  BY <2>2, <2>3, CallFacts
<1>5. CASE PcCreateQueue
  <2>1. Queued \subseteq Queued'
    BY <1>5, PcCreateQueueStep
  <2>. QED  BY <2>1, <1>1
<1>6. CASE task_lists' = task_lists
  BY <1>1, <1>6 DEF Queued
<1>7. Tick \/ Exception \/ PcCreateQueue \/ PcKillRemove \/ task_lists' = task_lists
  BY DEF Next, vars, PcCreateAlloc, PcKillCheck, PcRegisterMailbox
<1>. QED  BY <1>2, <1>3, <1>4, <1>5, <1>6, <1>7

\* Nothing but its own exception or a checked pc_kill ends a process; idle never
\* ends and pc_kill never ends the shell.
THEOREM KillsHold == Spec => KillsOnlyAllowed
<1>1. IInv /\ [Next]_vars => [\A p \in Pid : MayFinish(p)]_vars
  BY NextKills
<1>. QED  BY <1>1, Invariant, PTL DEF Spec, KillsOnlyAllowed

-----------------------------------------------------------------------------
(* The nodes of the linked lists *)

\* The run queues and the exit list.
Lists == Level \cup {Exit}

\* The k-th place of list l when it holds the pids q; place 0 is its head.
Spot(l, q, k) == IF k = 0 THEN L!list_head(l) ELSE L!Node(l, q[k])

\* What a node points to.
Fields(next, previous) == [next |-> next, previous |-> previous]

\* What the node at that place points to.
Links(l, q, k) ==
    Fields(IF k = Len(q) THEN L!NULL ELSE Spot(l, q, k + 1),
           IF k = 0 THEN L!NULL ELSE Spot(l, q, k - 1))

\* The nodes m of list l are those of the pids q, linked in their order and back.
Holds(m, l, q) ==
    /\ \A k \in 0 .. Len(q) : Spot(l, q, k) \in DOMAIN m /\ m[Spot(l, q, k)] = Links(l, q, k)
    /\ \A n \in DOMAIN m : n[1] = l => \E k \in 0 .. Len(q) : n = Spot(l, q, k)

IsMap(m) == m = [n \in DOMAIN m |-> m[n]]

\* Nodes are nodes of the lists.
Nodes(m) ==
    /\ IsMap(m)
    /\ \A n \in DOMAIN m : n # L!NULL /\ n[1] \in Lists

\* Every list l holds F[l].
Agree(m, F) ==
    /\ Nodes(m)
    /\ F \in [Lists -> Seq(Pid)]
    /\ \A l \in Lists : IsInjective(F[l]) /\ Holds(m, l, F[l])

\* d is m with the pids q in list l.
Instead(d, m, l, q) ==
    /\ Nodes(d) /\ Holds(d, l, q)
    /\ \A x \in DOMAIN d \cup DOMAIN m : x[1] # l => x \in DOMAIN d /\ x \in DOMAIN m /\ d[x] = m[x]

\* Two nodes are the same if their lists and their pids are.
LEMMA NodeFacts ==
  ASSUME NEW l, NEW p
  PROVE  /\ L!Node(l, p)[1] = l /\ L!Node(l, p)[2] = p /\ L!Node(l, p) # L!NULL
         /\ L!list_head(l) = L!Node(l, NoPid)
<1>1. L!Node(l, p) # L!NULL
  BY DEF L!Node, L!NULL
<1>2. L!Node(l, p)[1] = l /\ L!Node(l, p)[2] = p
  BY DEF L!Node
<1>3. L!list_head(l) = L!Node(l, NoPid)
  BY DEF L!list_head, L!NoPid, NoPid
<1>. QED  BY <1>1, <1>2, <1>3

\* The places of a list are different nodes of that list.
LEMMA SpotFacts ==
  ASSUME NEW l, NEW q \in Seq(Pid), IsInjective(q)
  PROVE  /\ Len(q) \in Nat /\ DOMAIN q = 1 .. Len(q) /\ \A k \in 1 .. Len(q) : q[k] \in Pid
         /\ \A k \in 0 .. Len(q) :
               /\ Spot(l, q, k)[1] = l /\ Spot(l, q, k) # L!NULL
               /\ Spot(l, q, k)[2] = IF k = 0 THEN NoPid ELSE q[k]
         /\ \A j, k \in 0 .. Len(q) : Spot(l, q, j) = Spot(l, q, k) => j = k
<1>1. Len(q) \in Nat /\ DOMAIN q = 1 .. Len(q) /\ \A k \in 1 .. Len(q) : q[k] \in Pid
  BY LenProperties, ElementOfSeq
<1>2. NoPid \notin Pid
  BY DEF NoPid, Pid
<1>3. \A k \in 0 .. Len(q) :
          /\ Spot(l, q, k)[1] = l /\ Spot(l, q, k) # L!NULL
          /\ Spot(l, q, k)[2] = IF k = 0 THEN NoPid ELSE q[k]
  BY NodeFacts DEF Spot
<1>4. ASSUME NEW j \in 0 .. Len(q), NEW k \in 0 .. Len(q), Spot(l, q, j) = Spot(l, q, k)
      PROVE  j = k
  <2>1. (IF j = 0 THEN NoPid ELSE q[j]) = (IF k = 0 THEN NoPid ELSE q[k])
    BY <1>3, <1>4
  <2>2. \A i, h \in 1 .. Len(q) : q[i] = q[h] => i = h
    BY <1>1 DEF IsInjective
  <2>. QED  BY <1>1, <1>2, <2>1, <2>2
<1>. QED  BY <1>1, <1>3, <1>4

-----------------------------------------------------------------------------
(* Walking a list *)

\* The places of a list, its head first.
Path(l, q, n) == [i \in 1 .. n + 1 |-> Spot(l, q, i - 1)]

\* The pids of a list are no more than there are.
LEMMA ListIsShort ==
  ASSUME NEW q \in Seq(Pid), IsInjective(q)
  PROVE  Len(q) \in 0 .. MaxPid + 1
<1>1. /\ Len(q) \in Nat /\ DOMAIN q = 1 .. Len(q) /\ \A k \in 1 .. Len(q) : q[k] \in Pid
      /\ q = [k \in 1 .. Len(q) |-> q[k]]
  BY LenProperties, ElementOfSeq
<1>2. MaxPid \in Nat
  BY ConstantsAssumption
<1>3. IsFiniteSet(Pid) /\ Cardinality(Pid) = MaxPid + 1
  BY <1>2, FS_Interval DEF Pid
<1>4. IsFiniteSet(1 .. Len(q)) /\ Cardinality(1 .. Len(q)) = Len(q)
  BY <1>1, FS_Interval
<1>5. q \in Injection(1 .. Len(q), Pid)
  BY <1>1 DEF IsInjective, Injection, IsInjective
<1>6. Cardinality(1 .. Len(q)) <= Cardinality(Pid)
  BY <1>3, <1>4, <1>5, FS_Injection
<1>. QED  BY <1>1, <1>2, <1>3, <1>4, <1>6

\* The places from the head of a list to its n-th.
LEMMA PathFacts ==
  ASSUME NEW l, NEW q, NEW n \in Nat
  PROVE  /\ Path(l, q, n) \in Seq({Spot(l, q, k) : k \in 0 .. n})
         /\ Len(Path(l, q, n)) = n + 1
         /\ \A i \in 1 .. n + 1 : Path(l, q, n)[i] = Spot(l, q, i - 1)
         /\ L!Last(Path(l, q, n)) = Spot(l, q, n)
         /\ Append(Path(l, q, n), Spot(l, q, n + 1)) = Path(l, q, n + 1)
<1>. DEFINE S == {Spot(l, q, k) : k \in 0 .. n + 1}
<1>1. ASSUME NEW j \in Nat, j <= n + 1
      PROVE  /\ Path(l, q, j) \in Seq(S) /\ Len(Path(l, q, j)) = j + 1
             /\ \A i \in 1 .. j + 1 : Path(l, q, j)[i] = Spot(l, q, i - 1)
  <2>1. \A i \in 1 .. j + 1 : i - 1 \in 0 .. n + 1
    BY <1>1
  <2>2. Path(l, q, j) \in [1 .. j + 1 -> S]
    BY <2>1 DEF Path
  <2>3. \A i \in 1 .. j + 1 : Path(l, q, j)[i] = Spot(l, q, i - 1)
    BY DEF Path
  <2>. HIDE DEF S, Path
  <2>. QED  BY <2>2, <2>3
<1>2. Spot(l, q, n + 1) \in S
  OBVIOUS
<1>. HIDE DEF S
<1>3. /\ Path(l, q, n) \in Seq(S) /\ Len(Path(l, q, n)) = n + 1
      /\ \A i \in 1 .. n + 1 : Path(l, q, n)[i] = Spot(l, q, i - 1)
  BY <1>1
<1>4. /\ Path(l, q, n + 1) \in Seq(S) /\ Len(Path(l, q, n + 1)) = n + 2
      /\ \A i \in 1 .. n + 2 : Path(l, q, n + 1)[i] = Spot(l, q, i - 1)
  BY <1>1
<1>5. L!Last(Path(l, q, n)) = Spot(l, q, n)
  BY <1>3 DEF L!Last
<1>. DEFINE a == Append(Path(l, q, n), Spot(l, q, n + 1))
<1>6. /\ a \in Seq(S) /\ Len(a) = n + 2
      /\ \A i \in 1 .. n + 1 : a[i] = Spot(l, q, i - 1)
      /\ a[n + 2] = Spot(l, q, n + 1)
  BY <1>2, <1>3, AppendProperties
<1>7. \A i \in 1 .. n + 2 : a[i] = Spot(l, q, i - 1)
  BY <1>6
<1>. HIDE DEF a
<1>8. a = Path(l, q, n + 1)
  BY <1>4, <1>6, <1>7, SeqEqual
<1>. QED  BY <1>3, <1>5, <1>8 DEF a

\* Following the pointers leads along the places.
LEMMA WalkFacts ==
  ASSUME NEW m, NEW l, NEW q \in Seq(Pid), IsInjective(q), Holds(m, l, q)
  PROVE  /\ L!Along(m, l) = Path(l, q, Len(q))
         /\ L!TailOf(m, l) = Spot(l, q, Len(q))
<1>. DEFINE n == Len(q)
            e == MaxPid + 2
            step(way) == IF m[L!Last(way)].next = L!NULL THEN way ELSE Append(way, m[L!Last(way)].next)
            upto(k) == IF k <= n THEN k ELSE n
            along == CHOOSE f : f = [k \in 0 .. e |-> IF k = 0 THEN <<L!list_head(l)>> ELSE step(f[k - 1])]
            W == [k \in 0 .. e |-> Path(l, q, upto(k))]
            T == {k \in 0 .. e : along[k] # W[k]}
<1>1. /\ n \in Nat /\ n <= e /\ e \in Nat
      /\ \A k \in 0 .. n : Spot(l, q, k) # L!NULL
  BY SpotFacts, ListIsShort, ConstantsAssumption
<1>2. \A k \in 0 .. n : m[Spot(l, q, k)].next = IF k = n THEN L!NULL ELSE Spot(l, q, k + 1)
  <2>1. ASSUME NEW k \in 0 .. n
        PROVE  m[Spot(l, q, k)].next = IF k = n THEN L!NULL ELSE Spot(l, q, k + 1)
    <3>1. m[Spot(l, q, k)] = Links(l, q, k)
      BY DEF Holds
    <3>2. Links(l, q, k).next = IF k = n THEN L!NULL ELSE Spot(l, q, k + 1)
      BY DEF Links, Fields
    <3>. QED  BY <3>1, <3>2
  <2>. QED  BY <2>1
<1>3. L!Along(m, l) = along[e]
  BY DEF L!Along
<1>4. Path(l, q, 0) = <<L!list_head(l)>>
  <2>1. Path(l, q, 0) = [i \in 1 .. 1 |-> L!list_head(l)]
    BY DEF Path, Spot
  <2>. QED  BY <2>1
<1>5. ASSUME NEW k \in 0 .. n
      PROVE  step(Path(l, q, k)) = IF k = n THEN Path(l, q, k) ELSE Path(l, q, k + 1)
  <2>. HIDE DEF along, W, T
  <2>0. k \in Nat
    BY <1>1
  <2>1. /\ L!Last(Path(l, q, k)) = Spot(l, q, k)
        /\ Append(Path(l, q, k), Spot(l, q, k + 1)) = Path(l, q, k + 1)
    BY <2>0, PathFacts
  <2>2. k # n => Spot(l, q, k + 1) # L!NULL
    BY <1>1
  <2>. QED  BY <1>2, <2>1, <2>2
<1>. HIDE DEF step
<1>6. W[0] = <<L!list_head(l)>> /\ \A k \in 1 .. e : W[k] = step(W[k - 1])
  <2>1. W[0] = <<L!list_head(l)>>
    BY <1>1, <1>4
  <2>2. ASSUME NEW k \in 1 .. e  PROVE W[k] = step(W[k - 1])
    <3>1. W[k] = Path(l, q, upto(k)) /\ W[k - 1] = Path(l, q, upto(k - 1))
      BY <1>1
    <3>2. upto(k - 1) \in 0 .. n
      BY <1>1
    <3>3. upto(k) = IF upto(k - 1) = n THEN upto(k - 1) ELSE upto(k - 1) + 1
      BY <1>1
    <3>. HIDE DEF W, upto
    <3>. QED  BY <1>5, <3>1, <3>2, <3>3
  <2>. QED  BY <2>1, <2>2
<1>7. W = [k \in 0 .. e |-> IF k = 0 THEN <<L!list_head(l)>> ELSE step(W[k - 1])]
  <2>1. \A k \in 0 .. e : W[k] = IF k = 0 THEN <<L!list_head(l)>> ELSE step(W[k - 1])
    <3>. HIDE DEF W
    <3>. QED  BY <1>6
  <2>. QED  BY <2>1
<1>8. along = [k \in 0 .. e |-> IF k = 0 THEN <<L!list_head(l)>> ELSE step(along[k - 1])]
  <2>. HIDE DEF W
  <2>. QED  BY <1>7
<1>. HIDE DEF along
<1>9. along[0] = <<L!list_head(l)>> /\ \A k \in 1 .. e : along[k] = step(along[k - 1])
  <2>1. along[0] = <<L!list_head(l)>>
    BY <1>1, <1>8
  <2>2. ASSUME NEW k \in 1 .. e  PROVE along[k] = step(along[k - 1])
    <3>1. k \in 0 .. e /\ k # 0
      BY <1>1
    <3>. QED  BY <1>8, <3>1
  <2>. QED  BY <2>1, <2>2
<1>. HIDE DEF W
<1>10. T = {}
  <2>1. SUFFICES ASSUME T # {}  PROVE FALSE
    OBVIOUS
  <2>2. PICK k \in T : \A j \in T : k <= j
    <3>1. T \in SUBSET Nat
      BY <1>1
    <3>. HIDE DEF T
    <3>. QED  BY <2>1, <3>1, LeastExists
  <2>3. k \in 1 .. e /\ k - 1 \in 0 .. e /\ k - 1 \notin T
    BY <1>1, <1>6, <1>9, <2>2
  <2>4. along[k - 1] = W[k - 1]
    BY <2>3
  <2>5. along[k] = W[k]
    BY <1>6, <1>9, <2>3, <2>4
  <2>. QED  BY <2>2, <2>5
<1>11. along[e] = Path(l, q, n)
  <2>1. along[e] = W[e]
    BY <1>1, <1>10
  <2>2. W[e] = Path(l, q, upto(e)) /\ upto(e) = n
    BY <1>1 DEF W
  <2>. QED  BY <2>1, <2>2
<1>12. L!Last(Path(l, q, n)) = Spot(l, q, n)
  BY <1>1, PathFacts
<1>. QED  BY <1>3, <1>11, <1>12 DEF L!TailOf

\* The search for a pid finds its node.
LEMMA FindFacts ==
  ASSUME NEW m, NEW l, NEW q \in Seq(Pid), IsInjective(q), Holds(m, l, q), NEW p \in Pid
  PROVE  /\ p \in Range(q) => L!list_find_by_pid(m, l, p) = {L!Node(l, p)}
         /\ p \notin Range(q) => L!list_find_by_pid(m, l, p) = {}
<1>. DEFINE way == Path(l, q, Len(q))
            hits == {k \in 2 .. Len(way) : way[k][2] = p}
            firsts == {i \in hits : \A j \in hits : i <= j}
<1>1. Len(q) \in Nat /\ DOMAIN q = 1 .. Len(q) /\ \A i, j \in 1 .. Len(q) : q[i] = q[j] => i = j
  BY LenProperties DEF IsInjective
<1>2. Len(way) = Len(q) + 1 /\ \A i \in 1 .. Len(q) + 1 : way[i] = Spot(l, q, i - 1)
  BY <1>1, PathFacts
<1>3. L!list_find_by_pid(m, l, p) = {way[k] : k \in firsts}
  BY WalkFacts DEF L!list_find_by_pid
<1>. HIDE DEF way
<1>4. \A k \in 2 .. Len(q) + 1 : way[k][2] = q[k - 1] /\ way[k] = L!Node(l, q[k - 1])
  <2>1. ASSUME NEW k \in 2 .. Len(q) + 1
        PROVE  way[k][2] = q[k - 1] /\ way[k] = L!Node(l, q[k - 1])
    <3>1. way[k] = Spot(l, q, k - 1) /\ k - 1 # 0
      BY <1>1, <1>2
    <3>2. way[k] = L!Node(l, q[k - 1])
      BY <3>1 DEF Spot
    <3>. QED  BY <3>2, NodeFacts
  <2>. QED  BY <2>1
<1>5. hits = {k \in 2 .. Len(q) + 1 : q[k - 1] = p}
  BY <1>2, <1>4
<1>6. CASE p \notin Range(q)
  <2>1. \A k \in 2 .. Len(q) + 1 : q[k - 1] # p
    <3>1. \A k \in 1 .. Len(q) : q[k] # p
      BY <1>1, <1>6 DEF Range
    <3>. QED  BY <1>1, <3>1
  <2>2. hits = {}
    BY <1>5, <2>1
  <2>. QED  BY <1>3, <1>6, <2>2
<1>7. CASE p \in Range(q)
  <2>1. PICK i \in 1 .. Len(q) : q[i] = p
    BY <1>1, <1>7 DEF Range
  <2>2. i + 1 \in 2 .. Len(q) + 1 /\ (i + 1) - 1 = i
    BY <1>1
  <2>3. \A k \in 2 .. Len(q) + 1 : q[k - 1] = p => k = i + 1
    <3>1. ASSUME NEW k \in 2 .. Len(q) + 1, q[k - 1] = p  PROVE k = i + 1
      <4>1. k - 1 \in 1 .. Len(q)
        BY <1>1
      <4>2. k - 1 = i
        BY <1>1, <2>1, <3>1, <4>1
      <4>. QED  BY <1>1, <4>2
    <3>. QED  BY <3>1
  <2>4. hits = {i + 1}
    BY <1>5, <2>1, <2>2, <2>3
  <2>5. firsts = {i + 1}
    BY <1>1, <2>4
  <2>6. way[i + 1] = L!Node(l, p)
    BY <1>4, <2>1, <2>2
  <2>. QED  BY <1>3, <1>7, <2>5, <2>6
<1>. QED  BY <1>6, <1>7

-----------------------------------------------------------------------------
(* Linking and unlinking *)

\* s is m with other fields at t.
Changed(s, m, t, fields) ==
    /\ IsMap(s) /\ DOMAIN s = DOMAIN m /\ s[t] = fields
    /\ \A x \in DOMAIN m : x # t => s[x] = m[x]

\* Setting a field changes that field.
LEMMA SetFacts ==
  ASSUME NEW m, IsMap(m), NEW t \in DOMAIN m, NEW a, NEW b, m[t] = Fields(a, b), NEW v
  PROVE  /\ Changed(L!Set(m, t, "next", v), m, t, Fields(v, b))
         /\ Changed(L!Set(m, t, "previous", v), m, t, Fields(a, v))
<1>. DEFINE N == L!Set(m, t, "next", v)
            P == L!Set(m, t, "previous", v)
<1>1. N = [m EXCEPT ![t] = [m[t] EXCEPT !["next"] = v]]
  BY DEF L!Set
<1>2. P = [m EXCEPT ![t] = [m[t] EXCEPT !["previous"] = v]]
  BY DEF L!Set
<1>3. [m[t] EXCEPT !["next"] = v] = Fields(v, b)
  BY DEF Fields
<1>4. [m[t] EXCEPT !["previous"] = v] = Fields(a, v)
  BY DEF Fields
<1>. HIDE DEF N, P
<1>5. Changed(N, m, t, Fields(v, b))
  BY <1>1, <1>3 DEF IsMap, Changed
<1>6. Changed(P, m, t, Fields(a, v))
  BY <1>2, <1>4 DEF IsMap, Changed
<1>. QED  BY <1>5, <1>6 DEF N, P

\* d is m with node n behind node t.
Linked(d, m, t, n, b) ==
    /\ IsMap(d) /\ DOMAIN d = DOMAIN m \cup {n}
    /\ d[n] = Fields(L!NULL, t) /\ d[t] = Fields(n, b)
    /\ \A x \in DOMAIN m : x # t /\ x # n => d[x] = m[x]

\* What is linked behind t is the last node, and t leads to it.
LEMMA LinkFacts ==
  ASSUME NEW m, IsMap(m), NEW t \in DOMAIN m, NEW a, NEW b,
         m[t] = Fields(a, b), NEW n, n # t, NEW d, d = L!LinkBehind(m, t, n)
  PROVE  Linked(d, m, t, n, b)
<1>1. d = [x \in DOMAIN m \cup {n} |-> IF x = n THEN Fields(L!NULL, t)
                                             ELSE L!Set(m, t, "next", n)[x]]
  BY DEF L!LinkBehind, Fields
<1>2. /\ DOMAIN d = DOMAIN m \cup {n} /\ d[n] = Fields(L!NULL, t)
      /\ \A x \in DOMAIN m : x # n => d[x] = L!Set(m, t, "next", n)[x]
  BY <1>1
<1>3. IsMap(d)
  BY <1>1 DEF IsMap
<1>4. Changed(L!Set(m, t, "next", n), m, t, Fields(n, b))
  BY SetFacts
<1>. QED  BY <1>2, <1>3, <1>4 DEF Changed, Linked

\* A new node at the end of a list.
LEMMA AddFacts ==
  ASSUME NEW m, Nodes(m), NEW l \in Lists, NEW q \in Seq(Pid), IsInjective(q), Holds(m, l, q),
         NEW p \in Pid, p \notin Range(q),
         NEW d, Linked(d, m, Spot(l, q, Len(q)), L!Node(l, p),
                       IF Len(q) = 0 THEN L!NULL ELSE Spot(l, q, Len(q) - 1))
  PROVE  /\ Instead(d, m, l, Append(q, p))
         /\ IsInjective(Append(q, p)) /\ Append(q, p) \in Seq(Pid)
<1>. DEFINE n == Len(q)
            r == Append(q, p)
            new == L!Node(l, p)
            end == Spot(l, q, n)
<1>1. /\ n \in Nat /\ \A k \in 1 .. n : q[k] \in Pid
      /\ \A k \in 0 .. n : Spot(l, q, k)[1] = l /\ Spot(l, q, k) # L!NULL
                            /\ Spot(l, q, k)[2] = IF k = 0 THEN NoPid ELSE q[k]
      /\ \A j, k \in 0 .. n : Spot(l, q, j) = Spot(l, q, k) => j = k
  BY SpotFacts
<1>2. /\ r \in Seq(Pid) /\ IsInjective(r) /\ Len(r) = n + 1 /\ r[n + 1] = p
      /\ \A k \in 1 .. n : r[k] = q[k]
  BY AppendFacts, AppendProperties
<1>3. new[1] = l /\ new[2] = p /\ new # L!NULL
  BY NodeFacts
<1>4. \A k \in 0 .. n : Spot(l, q, k) # new
  <2>1. \A k \in 1 .. n : q[k] # p
    BY LenProperties DEF Range
  <2>2. p # NoPid
    BY DEF Pid, NoPid
  <2>. QED  BY <1>1, <1>3, <2>1, <2>2
<1>5. /\ \A k \in 0 .. n : Spot(l, q, k) \in DOMAIN m /\ m[Spot(l, q, k)] = Links(l, q, k)
      /\ \A x \in DOMAIN m : x[1] = l => \E k \in 0 .. n : x = Spot(l, q, k)
  BY DEF Holds
<1>6. new \notin DOMAIN m
  BY <1>3, <1>4, <1>5
<1>7. \A k \in 0 .. n : Spot(l, r, k) = Spot(l, q, k)
  BY <1>1, <1>2 DEF Spot
<1>8. Spot(l, r, n + 1) = new
  BY <1>1, <1>2 DEF Spot
<1>9. Links(l, q, n) = Fields(L!NULL, IF n = 0 THEN L!NULL ELSE Spot(l, q, n - 1))
  BY DEF Links
<1>10. IsMap(m) /\ \A x \in DOMAIN m : x # L!NULL /\ x[1] \in Lists
  BY DEF Nodes
<1>b. Linked(d, m, end, new, IF n = 0 THEN L!NULL ELSE Spot(l, q, n - 1))
  OBVIOUS
<1>. HIDE DEF end, new, r
<1>11. /\ IsMap(d) /\ DOMAIN d = DOMAIN m \cup {new}
       /\ d[new] = Fields(L!NULL, end)
       /\ d[end] = Fields(new, IF n = 0 THEN L!NULL ELSE Spot(l, q, n - 1))
       /\ \A x \in DOMAIN m : x # end /\ x # new => d[x] = m[x]
  BY <1>b DEF Linked
<1>. HIDE DEF end, n
<1>12. Nodes(d)
  BY <1>3, <1>10, <1>11 DEF Nodes
<1>13. ASSUME NEW k \in 0 .. Len(r)
       PROVE  Spot(l, r, k) \in DOMAIN d /\ d[Spot(l, r, k)] = Links(l, r, k)
  <2>1. k \in 0 .. n \/ k = n + 1
    BY <1>1, <1>2
  <2>2. CASE k = n + 1
    <3>1. Links(l, r, k) = Fields(L!NULL, Spot(l, r, n))
      <4>1. k = Len(r) /\ k # 0 /\ k - 1 = n
        BY <1>1, <1>2, <2>2
      <4>. QED  BY <4>1 DEF Links
    <3>2. Spot(l, r, n) = end
      BY <1>1, <1>7 DEF end
    <3>. QED  BY <1>8, <1>11, <2>2, <3>1, <3>2
  <2>3. CASE k = n
    <3>1. Links(l, r, k) = Fields(Spot(l, r, n + 1), IF n = 0 THEN L!NULL ELSE Spot(l, r, n - 1))
      <4>1. k # Len(r)
        BY <1>1, <1>2, <2>3
      <4>. QED  BY <2>3, <4>1 DEF Links
    <3>2. Spot(l, r, n) = end /\ (n # 0 => Spot(l, r, n - 1) = Spot(l, q, n - 1))
      BY <1>1, <1>7 DEF end
    <3>3. end \in DOMAIN m
      <4>1. n \in 0 .. n
        BY <1>1
      <4>. QED  BY <1>5, <4>1 DEF end
    <3>. QED  BY <1>8, <1>11, <2>3, <3>1, <3>2, <3>3
  <2>4. CASE k \in 0 .. n /\ k # n
    <3>1. Links(l, r, k) = Fields(Spot(l, r, k + 1), IF k = 0 THEN L!NULL ELSE Spot(l, r, k - 1))
      <4>1. k # Len(r)
        BY <1>1, <1>2, <2>4
      <4>. QED  BY <4>1 DEF Links
    <3>2. Links(l, q, k) = Fields(Spot(l, q, k + 1), IF k = 0 THEN L!NULL ELSE Spot(l, q, k - 1))
      BY <2>4 DEF Links, n
    <3>3. /\ Spot(l, r, k) = Spot(l, q, k) /\ Spot(l, r, k + 1) = Spot(l, q, k + 1)
          /\ k # 0 => Spot(l, r, k - 1) = Spot(l, q, k - 1)
      <4>1. k \in 0 .. n /\ k + 1 \in 0 .. n /\ (k # 0 => k - 1 \in 0 .. n)
        BY <1>1, <2>4
      <4>. QED  BY <1>7, <4>1
    <3>4. Spot(l, q, k) # end /\ Spot(l, q, k) # new
      <4>1. n \in 0 .. n
        BY <1>1
      <4>. QED  BY <1>1, <1>4, <2>4, <4>1 DEF end
    <3>5. Spot(l, q, k) \in DOMAIN m /\ d[Spot(l, q, k)] = Links(l, q, k)
      BY <1>5, <1>11, <2>4, <3>4
    <3>6. Links(l, q, k) = Links(l, r, k)
      BY <3>1, <3>2, <3>3
    <3>. QED  BY <1>11, <3>3, <3>5, <3>6
  <2>. QED  BY <2>1, <2>2, <2>3, <2>4
<1>14. ASSUME NEW x \in DOMAIN d, x[1] = l  PROVE \E k \in 0 .. Len(r) : x = Spot(l, r, k)
  <2>1. CASE x = new
    <3>1. n + 1 \in 0 .. Len(r)
      BY <1>1, <1>2
    <3>. QED  BY <1>8, <2>1, <3>1
  <2>2. CASE x # new
    <3>1. PICK k \in 0 .. n : x = Spot(l, q, k)
      BY <1>5, <1>11, <1>14, <2>2
    <3>2. k \in 0 .. Len(r)
      BY <1>1, <1>2
    <3>. QED  BY <1>7, <3>1, <3>2
  <2>. QED  BY <2>1, <2>2
<1>15. \A x \in DOMAIN d \cup DOMAIN m : x[1] # l => x \in DOMAIN d /\ x \in DOMAIN m /\ d[x] = m[x]
  <2>1. end[1] = l
    <3>1. n \in 0 .. n
      BY <1>1
    <3>. QED  BY <1>1, <3>1 DEF end
  <2>. QED  BY <1>3, <1>11, <2>1
<1>. QED  BY <1>2, <1>12, <1>13, <1>14, <1>15 DEF Holds, Instead, r

\* B is m with the neighbours of place i linked with each other.
Joined(B, m, l, q, i) ==
    /\ IsMap(B) /\ DOMAIN B = DOMAIN m
    /\ B[Spot(l, q, i - 1)] = Fields(IF i = Len(q) THEN L!NULL ELSE Spot(l, q, i + 1),
                                     IF i = 1 THEN L!NULL ELSE Spot(l, q, i - 2))
    /\ i # Len(q) => B[Spot(l, q, i + 1)] =
                        Fields(IF i + 1 = Len(q) THEN L!NULL ELSE Spot(l, q, i + 2), Spot(l, q, i - 1))
    /\ \A x \in DOMAIN m :
          x # Spot(l, q, i - 1) /\ (i # Len(q) => x # Spot(l, q, i + 1)) => B[x] = m[x]

\* Linking the neighbours of a node with each other changes only them.
LEMMA BridgedFacts ==
  ASSUME NEW m, Nodes(m), NEW l \in Lists, NEW q \in Seq(Pid), IsInjective(q), Holds(m, l, q),
         NEW i \in 1 .. Len(q)
  PROVE  /\ m[Spot(l, q, i)].next = IF i = Len(q) THEN L!NULL ELSE Spot(l, q, i + 1)
         /\ Joined(L!Bridged(m, Spot(l, q, i)), m, l, q, i)
<1>. DEFINE n == Len(q)
            node == Spot(l, q, i)
            before == Spot(l, q, i - 1)
            after == IF i = n THEN L!NULL ELSE Spot(l, q, i + 1)
            first == IF i = 1 THEN L!NULL ELSE Spot(l, q, i - 2)
            last == IF i + 1 = n THEN L!NULL ELSE Spot(l, q, i + 2)
            A == L!Set(m, after, "previous", before)
            B == L!Set(A, before, "next", after)
<1>1. /\ n \in Nat
      /\ \A k \in 0 .. n : Spot(l, q, k)[1] = l /\ Spot(l, q, k) # L!NULL
      /\ \A j, k \in 0 .. n : Spot(l, q, j) = Spot(l, q, k) => j = k
      /\ \A k \in 0 .. n : Spot(l, q, k) \in DOMAIN m /\ m[Spot(l, q, k)] = Links(l, q, k)
  BY SpotFacts DEF Holds
<1>2. i \in 0 .. n /\ i - 1 \in 0 .. n /\ (i # n => i + 1 \in 0 .. n) /\ i # 0
  BY <1>1
<1>3. /\ node \in DOMAIN m /\ before \in DOMAIN m /\ (i # n => after \in DOMAIN m)
      /\ (i = n => after \notin DOMAIN m) /\ before # after /\ node # before /\ node # after
  <2>1. L!NULL \notin DOMAIN m
    BY DEF Nodes
  <2>2. i - 1 # i /\ i - 1 # i + 1 /\ i # i + 1
    BY <1>2
  <2>. QED  BY <1>1, <1>2, <2>1, <2>2
<1>4. /\ m[node].next = after /\ m[node].previous = before
      /\ m[before] = Fields(node, first)
      /\ i # n => m[after] = Fields(last, node)
  <2>1. Links(l, q, i) = Fields(after, before)
    BY <1>2 DEF Links
  <2>2. Links(l, q, i - 1) = Fields(node, first)
    <3>1. i - 1 # n /\ i - 1 + 1 = i /\ (i - 1 = 0 <=> i = 1) /\ i - 1 - 1 = i - 2
      BY <1>1
    <3>. QED  BY <3>1 DEF Links
  <2>3. i # n => Links(l, q, i + 1) = Fields(last, node)
    <3>1. i + 1 # 0 /\ i + 1 + 1 = i + 2 /\ i + 1 - 1 = i
      BY <1>1
    <3>. QED  BY <3>1 DEF Links
  <2>4. m[node] = Fields(after, before) /\ m[before] = Fields(node, first)
    BY <1>1, <1>2, <2>1, <2>2
  <2>5. i # n => m[after] = Fields(last, node)
    BY <1>1, <1>2, <2>3
  <2>. HIDE DEF node, before, after, first, last
  <2>. QED  BY <2>4, <2>5 DEF Fields
<1>5. L!Bridged(m, node) = B
  <2>. HIDE DEF node, before, after
  <2>. QED  BY <1>4 DEF L!Bridged
<1>6. IsMap(m)
  BY DEF Nodes
<1>7. /\ IsMap(A) /\ DOMAIN A = DOMAIN m /\ (i # n => A[after] = Fields(last, before))
      /\ A[before] = Fields(node, first)
      /\ \A x \in DOMAIN m : x # after => A[x] = m[x]
  <2>1. CASE i = n
    <3>1. A = m
      <4>. HIDE DEF before, after
      <4>. QED  BY <1>3, <2>1 DEF L!Set
    <3>. HIDE DEF A, before, after, node, first
    <3>. QED  BY <1>4, <1>6, <2>1, <3>1
  <2>2. CASE i # n
    <3>. HIDE DEF before, after, node, first, last
    <3>1. after \in DOMAIN m /\ m[after] = Fields(last, node)
      BY <1>3, <1>4, <2>2
    <3>2. Changed(A, m, after, Fields(last, before))
      BY <1>6, <3>1, SetFacts
    <3>. HIDE DEF A
    <3>. QED  BY <1>3, <1>4, <2>2, <3>2 DEF Changed
  <2>. QED  BY <2>1, <2>2
<1>8. Changed(B, A, before, Fields(after, first))
  <2>. HIDE DEF before, after, node, first, last, A
  <2>. QED  BY <1>3, <1>7, SetFacts
<1>9. /\ IsMap(B) /\ DOMAIN B = DOMAIN m /\ B[before] = Fields(after, first)
      /\ i # n => B[after] = Fields(last, before)
      /\ \A x \in DOMAIN m : x # before /\ x # after => B[x] = m[x]
  <2>. HIDE DEF before, after, node, first, last, A, B
  <2>. QED  BY <1>3, <1>7, <1>8 DEF Changed
<1>10. Joined(B, m, l, q, i)
  <2>. HIDE DEF A, B
  <2>1. \A x \in DOMAIN m : i = n => x # after
    BY <1>3
  <2>. QED  BY <1>9, <2>1 DEF Joined
<1>. QED  BY <1>4, <1>5, <1>10

\* r is q without its i-th pid.
Without(r, q, i) ==
    /\ r \in Seq(Pid) /\ IsInjective(r) /\ Len(r) = Len(q) - 1
    /\ \A j \in 1 .. Len(q) - 1 : r[j] = IF j < i THEN q[j] ELSE q[j + 1]

\* Where list_delete takes a pid out.
LEMMA DeletedAt ==
  ASSUME NEW q \in Seq(Pid), IsInjective(q), NEW i \in 1 .. Len(q)
  PROVE  Without(list_delete(q, q[i]), q, i)
<1>1. Len(q) \in Nat /\ DOMAIN q = 1 .. Len(q)
  BY LenProperties
<1>. DEFINE r == list_delete(q, q[i])
<1>3. {j \in 1 .. Len(q) : q[j] = q[i]} = {i}
  BY <1>1 DEF IsInjective
<1>4. Min({i}) = i
  BY <1>1 DEF Min
<1>5. r = RemoveAt(q, i)
  BY <1>3, <1>4 DEF list_delete, RemoveFirst, SelectInSeq
<1>6. r \in Seq(Pid) /\ IsInjective(r)
  <2>1. r = RemoveFirst(q, q[i])
    BY DEF list_delete
  <2>. HIDE DEF r
  <2>. QED  BY <2>1, RemoveFirstFacts
<1>. HIDE DEF r
<1>7. Len(r) = Len(q) - 1 /\ \A j \in 1 .. Len(q) - 1 : r[j] = IF j < i THEN q[j] ELSE q[j + 1]
  BY <1>5, RemoveAtFacts
<1>8. Without(r, q, i)
  BY <1>6, <1>7 DEF Without
<1>. QED  BY <1>8 DEF r

\* A node is taken out of a list.
LEMMA RemovedFacts ==
  ASSUME NEW m, Nodes(m), NEW l \in Lists, NEW q \in Seq(Pid), IsInjective(q), Holds(m, l, q),
         NEW i \in 1 .. Len(q), NEW B, Joined(B, m, l, q, i),
         NEW d, IsMap(d), DOMAIN d = DOMAIN m \ {Spot(l, q, i)}, \A x \in DOMAIN d : d[x] = B[x],
         NEW r, Without(r, q, i)
  PROVE  Instead(d, m, l, r)
<1>. DEFINE n == Len(q)
            S(k) == Spot(l, q, k)
<1>1. /\ n \in Nat
      /\ \A k \in 0 .. n : S(k)[1] = l
      /\ \A j, k \in 0 .. n : S(j) = S(k) => j = k
      /\ \A k \in 0 .. n : S(k) \in DOMAIN m /\ m[S(k)] = Links(l, q, k)
      /\ \A x \in DOMAIN m : x[1] = l => \E k \in 0 .. n : x = S(k)
  BY SpotFacts DEF Holds
<1>2. /\ Len(r) = n - 1 /\ \A j \in 1 .. n - 1 : r[j] = IF j < i THEN q[j] ELSE q[j + 1]
  BY DEF Without
<1>3. /\ B[S(i - 1)] = Fields(IF i = n THEN L!NULL ELSE S(i + 1), IF i = 1 THEN L!NULL ELSE S(i - 2))
      /\ i # n => B[S(i + 1)] = Fields(IF i + 1 = n THEN L!NULL ELSE S(i + 2), S(i - 1))
      /\ \A x \in DOMAIN m : x # S(i - 1) /\ (i # n => x # S(i + 1)) => B[x] = m[x]
  BY DEF Joined
<1>4. \A k \in 0 .. n - 1 : Spot(l, r, k) = IF k < i THEN S(k) ELSE S(k + 1)
  <2>1. ASSUME NEW k \in 0 .. n - 1  PROVE Spot(l, r, k) = IF k < i THEN S(k) ELSE S(k + 1)
    <3>1. CASE k = 0
      BY <1>1, <3>1 DEF Spot
    <3>2. CASE k # 0
      <4>1. k \in 1 .. n - 1 /\ k + 1 # 0
        BY <1>1, <3>2
      <4>. QED  BY <1>2, <4>1 DEF Spot
    <3>. QED  BY <3>1, <3>2
  <2>. QED  BY <2>1
<1>. HIDE DEF n, S
<1>5. \A k \in 0 .. n : Links(l, q, k) = Fields(IF k = n THEN L!NULL ELSE S(k + 1), IF k = 0 THEN L!NULL ELSE S(k - 1))
  BY DEF Links, n, S
<1>6. ASSUME NEW k \in 0 .. Len(r)
      PROVE  /\ Spot(l, r, k) \in DOMAIN d
             /\ d[Spot(l, r, k)] = Links(l, r, k)
  <2>1. k \in 0 .. n - 1 /\ i \in 1 .. n /\ i \in 0 .. n /\ i - 1 \in 0 .. n
    BY <1>1, <1>2 DEF n
  <2>2. Links(l, r, k) = Fields(IF k = n - 1 THEN L!NULL ELSE Spot(l, r, k + 1),
                                IF k = 0 THEN L!NULL ELSE Spot(l, r, k - 1))
    BY <1>2 DEF Links
  <2>3. ASSUME NEW j \in 0 .. n, j # i, Spot(l, r, k) = S(j)
        PROVE  Spot(l, r, k) \in DOMAIN d /\ d[Spot(l, r, k)] = B[S(j)]
    <3>1. S(j) # S(i)
      BY <1>1, <2>1, <2>3
    <3>2. S(j) \in DOMAIN d
      BY <1>1, <3>1 DEF S
    <3>. QED  BY <2>3, <3>2
  <2>4. CASE k < i - 1
    <3>1. k \in 0 .. n /\ k # i /\ k < i /\ k # i - 1 /\ k # i + 1 /\ k # n /\ k # n - 1
      BY <1>1, <2>1, <2>4
    <3>2. Spot(l, r, k) = S(k)
      BY <1>4, <2>1, <3>1
    <3>3. S(k) # S(i - 1) /\ (i # n => S(k) # S(i + 1))
      <4>1. i # n => i + 1 \in 0 .. n
        BY <1>1, <2>1
      <4>. QED  BY <1>1, <2>1, <3>1, <4>1
    <3>4. B[S(k)] = Links(l, q, k)
      BY <1>1, <1>3, <3>1, <3>3
    <3>5. k + 1 \in 0 .. n - 1 /\ k + 1 < i /\ (k # 0 => k - 1 \in 0 .. n - 1 /\ k - 1 < i)
      BY <1>1, <2>1, <2>4
    <3>6. Spot(l, r, k + 1) = S(k + 1) /\ (k # 0 => Spot(l, r, k - 1) = S(k - 1))
      BY <1>4, <3>5
    <3>7. Links(l, r, k) = Links(l, q, k)
      BY <1>5, <2>2, <3>1, <3>6
    <3>. QED  BY <2>3, <3>1, <3>2, <3>4, <3>7
  <2>5. CASE k = i - 1
    <3>1. Spot(l, r, k) = S(i - 1)
      <4>1. k < i
        BY <1>1, <2>1, <2>5
      <4>. QED  BY <1>4, <2>1, <2>5, <4>1
    <3>2. i # n => Spot(l, r, k + 1) = S(i + 1)
      <4>1. ASSUME i # n  PROVE k + 1 \in 0 .. n - 1 /\ ~(k + 1 < i) /\ k + 1 = i
        BY <1>1, <2>1, <2>5, <4>1
      <4>. QED  BY <1>4, <4>1
    <3>3. k # 0 => Spot(l, r, k - 1) = S(i - 2)
      <4>1. ASSUME k # 0  PROVE k - 1 \in 0 .. n - 1 /\ k - 1 < i /\ k - 1 = i - 2
        BY <1>1, <2>1, <2>5, <4>1
      <4>. QED  BY <1>4, <4>1
    <3>4. (k = n - 1 <=> i = n) /\ (k = 0 <=> i = 1) /\ i - 1 # i
      BY <1>1, <2>1, <2>5
    <3>5. Links(l, r, k) = B[S(i - 1)]
      BY <1>3, <2>2, <3>2, <3>3, <3>4
    <3>. QED  BY <2>1, <2>3, <3>1, <3>4, <3>5
  <2>6. CASE k = i
    <3>1. i # n /\ i + 1 \in 0 .. n /\ i + 1 # i /\ ~(i < i) /\ k # 0 /\ (k = n - 1 <=> i + 1 = n)
      BY <1>1, <2>1, <2>6
    <3>2. Spot(l, r, k) = S(i + 1)
      BY <1>4, <2>1, <2>6, <3>1
    <3>3. i + 1 # n => Spot(l, r, k + 1) = S(i + 2)
      <4>1. ASSUME i + 1 # n
            PROVE  k + 1 \in 0 .. n - 1 /\ ~(k + 1 < i) /\ (k + 1) + 1 = i + 2
        BY <1>1, <2>1, <2>6, <4>1
      <4>. QED  BY <1>4, <4>1
    <3>4. Spot(l, r, k - 1) = S(i - 1)
      <4>1. k - 1 \in 0 .. n - 1 /\ k - 1 < i /\ k - 1 = i - 1
        BY <1>1, <2>1, <2>6
      <4>. QED  BY <1>4, <4>1
    <3>5. Links(l, r, k) = B[S(i + 1)]
      BY <1>3, <2>2, <3>1, <3>3, <3>4
    <3>. QED  BY <2>3, <3>1, <3>2, <3>5
  <2>7. CASE k > i
    <3>1. /\ k + 1 \in 0 .. n /\ k + 1 # i /\ ~(k < i) /\ k + 1 # i - 1 /\ k + 1 # i + 1
          /\ k # 0 /\ k + 1 # 0 /\ (k = n - 1 <=> k + 1 = n) /\ i # n /\ i + 1 \in 0 .. n
          /\ (k + 1) - 1 = k
      BY <1>1, <2>1, <2>7
    <3>2. Spot(l, r, k) = S(k + 1)
      BY <1>4, <2>1, <3>1
    <3>3. S(k + 1) # S(i - 1) /\ S(k + 1) # S(i + 1)
      BY <1>1, <2>1, <3>1
    <3>4. B[S(k + 1)] = Links(l, q, k + 1)
      BY <1>1, <1>3, <3>1, <3>3
    <3>5. k # n - 1 => Spot(l, r, k + 1) = S((k + 1) + 1)
      <4>1. ASSUME k # n - 1  PROVE k + 1 \in 0 .. n - 1 /\ ~(k + 1 < i)
        BY <1>1, <2>1, <2>7, <4>1
      <4>. QED  BY <1>4, <4>1
    <3>6. Spot(l, r, k - 1) = S(k)
      <4>1. k - 1 \in 0 .. n - 1 /\ ~(k - 1 < i) /\ (k - 1) + 1 = k
        BY <1>1, <2>1, <2>7
      <4>. QED  BY <1>4, <4>1
    <3>7. Links(l, q, k + 1) = Fields(IF k + 1 = n THEN L!NULL ELSE S((k + 1) + 1), S(k))
      BY <1>5, <3>1
    <3>8. Links(l, r, k) = Links(l, q, k + 1)
      BY <2>2, <3>1, <3>5, <3>6, <3>7
    <3>. QED  BY <2>3, <3>1, <3>2, <3>4, <3>8
  <2>8. k < i - 1 \/ k = i - 1 \/ k = i \/ k > i
    BY <2>1
  <2>. QED  BY <2>4, <2>5, <2>6, <2>7, <2>8
<1>7. ASSUME NEW x \in DOMAIN d, x[1] = l  PROVE \E k \in 0 .. Len(r) : x = Spot(l, r, k)
  <2>1. x \in DOMAIN m /\ x # S(i)
    BY DEF S
  <2>2. PICK k \in 0 .. n : x = S(k)
    BY <1>1, <1>7, <2>1
  <2>3. k # i /\ i \in 1 .. n
    BY <2>1, <2>2 DEF n
  <2>4. CASE k < i
    <3>1. k \in 0 .. n - 1 /\ k \in 0 .. Len(r)
      BY <1>1, <1>2, <2>3, <2>4
    <3>. QED  BY <1>4, <2>2, <2>4, <3>1
  <2>5. CASE k > i
    <3>1. k - 1 \in 0 .. n - 1 /\ k - 1 \in 0 .. Len(r) /\ ~(k - 1 < i) /\ (k - 1) + 1 = k
      BY <1>1, <1>2, <2>3, <2>5
    <3>2. Spot(l, r, k - 1) = S(k)
      BY <1>4, <3>1
    <3>. QED  BY <2>2, <3>1, <3>2
  <2>6. k < i \/ k > i
    BY <2>3
  <2>. QED  BY <2>4, <2>5, <2>6
<1>8. Nodes(d)
  BY DEF Nodes
<1>9. ASSUME NEW x \in DOMAIN d \cup DOMAIN m, x[1] # l
      PROVE  x \in DOMAIN d /\ x \in DOMAIN m /\ d[x] = m[x]
  <2>1. i \in 0 .. n /\ i - 1 \in 0 .. n /\ (i # n => i + 1 \in 0 .. n)
    BY <1>1 DEF n
  <2>2. x # S(i) /\ x # S(i - 1) /\ (i # n => x # S(i + 1))
    BY <1>1, <1>9, <2>1
  <2>3. x \in DOMAIN m /\ x \in DOMAIN d
    BY <2>2 DEF S
  <2>. QED  BY <1>3, <2>2, <2>3
<1>. QED  BY <1>6, <1>7, <1>8, <1>9 DEF Holds, Instead

\* The end of a list, and what list_insert makes of it.
LEMMA EndFacts ==
  ASSUME NEW m, Nodes(m), NEW l \in Lists, NEW q \in Seq(Pid), IsInjective(q), Holds(m, l, q),
         NEW p \in Pid, p \notin Range(q)
  PROVE  Linked(L!add_task_to_list(m, l, p), m, Spot(l, q, Len(q)), L!Node(l, p),
                IF Len(q) = 0 THEN L!NULL ELSE Spot(l, q, Len(q) - 1))
<1>. DEFINE n == Len(q)
            end == Spot(l, q, n)
            new == L!Node(l, p)
            b == IF n = 0 THEN L!NULL ELSE Spot(l, q, n - 1)
<1>1. n \in 0 .. n
  BY SpotFacts
<1>2. end \in DOMAIN m /\ m[end] = Links(l, q, n)
  BY <1>1 DEF Holds
<1>3. Links(l, q, n) = Fields(L!NULL, b)
  BY DEF Links
<1>4. end # new
  <2>1. end[2] = IF n = 0 THEN NoPid ELSE q[n]
    <3>1. \A k \in 0 .. Len(q) : Spot(l, q, k)[2] = IF k = 0 THEN NoPid ELSE q[k]
      BY SpotFacts
    <3>. QED  BY <1>1, <3>1
  <2>2. new[2] = p
    BY NodeFacts
  <2>3. p # NoPid
    BY DEF Pid, NoPid
  <2>4. n # 0 => q[n] \in Range(q)
    BY <1>1, LenProperties DEF Range
  <2>. HIDE DEF end, new, n
  <2>. QED  BY <2>1, <2>2, <2>3, <2>4
<1>5. L!add_task_to_list(m, l, p) = L!LinkBehind(m, end, new)
  BY WalkFacts DEF L!add_task_to_list, L!list_insert
<1>6. IsMap(m) /\ m[end] = Fields(L!NULL, b)
  BY <1>2, <1>3 DEF Nodes
<1>. HIDE DEF end, new, b
<1>7. Linked(L!LinkBehind(m, end, new), m, end, new, b)
  BY <1>2, <1>4, <1>6, LinkFacts
<1>. QED  BY <1>5, <1>7 DEF end, new, b

-----------------------------------------------------------------------------
(* All the lists *)

\* A change of one list leaves the others.
LEMMA OneList ==
  ASSUME NEW m, NEW F, Agree(m, F), NEW l \in Lists, NEW q \in Seq(Pid), IsInjective(q),
         NEW d, Instead(d, m, l, q)
  PROVE  Agree(d, [F EXCEPT ![l] = q])
<1>. DEFINE G == [F EXCEPT ![l] = q]
<1>1. F \in [Lists -> Seq(Pid)] /\ \A k \in Lists : IsInjective(F[k]) /\ Holds(m, k, F[k])
  BY DEF Agree
<1>2. G \in [Lists -> Seq(Pid)] /\ G[l] = q /\ \A k \in Lists : k # l => G[k] = F[k]
  BY <1>1
<1>. HIDE DEF G
<1>a. /\ Nodes(d) /\ Holds(d, l, q)
      /\ \A x \in DOMAIN d \cup DOMAIN m : x[1] # l => x \in DOMAIN d /\ x \in DOMAIN m /\ d[x] = m[x]
  BY DEF Instead
<1>3. ASSUME NEW k \in Lists  PROVE IsInjective(G[k]) /\ Holds(d, k, G[k])
  <2>1. CASE k = l
    BY <1>2, <1>a, <2>1
  <2>2. CASE k # l
    <3>1. G[k] = F[k] /\ F[k] \in Seq(Pid) /\ IsInjective(F[k]) /\ Holds(m, k, F[k])
      BY <1>1, <1>2, <2>2
    <3>2. \A j \in 0 .. Len(F[k]) : Spot(k, F[k], j)[1] = k
      BY <3>1, SpotFacts
    <3>3. \A j \in 0 .. Len(F[k]) : /\ Spot(k, F[k], j) \in DOMAIN d
                                    /\ d[Spot(k, F[k], j)] = Links(k, F[k], j)
      BY <1>a, <2>2, <3>1, <3>2 DEF Holds
    <3>4. \A x \in DOMAIN d : x[1] = k => \E j \in 0 .. Len(F[k]) : x = Spot(k, F[k], j)
      BY <1>a, <2>2, <3>1 DEF Holds
    <3>. QED  BY <3>1, <3>3, <3>4 DEF Holds
  <2>. QED  BY <2>1, <2>2
<1>. QED  BY <1>2, <1>3, <1>a DEF Agree, G

\* add_task_to_list appends the pid to that list.
LEMMA AddAgrees ==
  ASSUME NEW m, NEW F, Agree(m, F), NEW l \in Lists, NEW p \in Pid, p \notin Range(F[l])
  PROVE  Agree(L!add_task_to_list(m, l, p), [F EXCEPT ![l] = Append(F[l], p)])
<1>. DEFINE q == F[l]
            d == L!add_task_to_list(m, l, p)
<1>1. Nodes(m) /\ q \in Seq(Pid) /\ IsInjective(q) /\ Holds(m, l, q)
  BY DEF Agree
<1>. HIDE DEF d, q
<1>2. Linked(d, m, Spot(l, q, Len(q)), L!Node(l, p),
             IF Len(q) = 0 THEN L!NULL ELSE Spot(l, q, Len(q) - 1))
  BY <1>1, EndFacts DEF d, q
<1>3. p \notin Range(q)
  BY DEF q
<1>4. Instead(d, m, l, Append(q, p)) /\ IsInjective(Append(q, p)) /\ Append(q, p) \in Seq(Pid)
  BY <1>1, <1>2, <1>3, AddFacts
<1>5. Agree(d, [F EXCEPT ![l] = Append(q, p)])
  BY <1>4, OneList
<1>. QED  BY <1>5 DEF d, q

\* A list without the pid is left alone.
LEMMA AbsentFacts ==
  ASSUME NEW F \in [Lists -> Seq(Pid)], NEW l \in Lists, NEW p, p \notin Range(F[l])
  PROVE  [F EXCEPT ![l] = list_delete(F[l], p)] = F
<1>1. F[l] \in Seq(Pid)
  OBVIOUS
<1>2. DOMAIN F[l] = 1 .. Len(F[l])
  BY <1>1, LenProperties
<1>3. list_delete(F[l], p) = F[l]
  BY <1>2 DEF list_delete, RemoveFirst, Range
<1>. QED  BY <1>3

\* list_delete removes the pid from that list, or does nothing if it is not there.
LEMMA DeleteAgrees ==
  ASSUME NEW m, NEW F, Agree(m, F), NEW l \in Lists, NEW p \in Pid, NEW d \in L!list_delete(m, l, p)
  PROVE  Agree(d, [F EXCEPT ![l] = list_delete(F[l], p)])
<1>. DEFINE q == F[l]
<1>1. /\ Nodes(m) /\ q \in Seq(Pid) /\ IsInjective(q) /\ Holds(m, l, q)
      /\ F \in [Lists -> Seq(Pid)]
  BY DEF Agree
<1>2. CASE p \notin Range(q)
  <2>1. L!list_find_by_pid(m, l, p) = {}
    BY <1>1, <1>2, FindFacts
  <2>2. d = m
    BY <2>1 DEF L!list_delete, L!On
  <2>. QED  BY <1>1, <1>2, <2>2, AbsentFacts
<1>3. CASE p \in Range(q)
  <2>1. PICK i \in 1 .. Len(q) : q[i] = p
    BY <1>1, <1>3, LenProperties DEF Range
  <2>. DEFINE node == L!Node(l, p)
              B == L!Bridged(m, node)
              r == list_delete(q, p)
  <2>2. L!list_find_by_pid(m, l, p) = {node}
    BY <1>1, <1>3, FindFacts
  <2>3. d = L!Unlinked(m, node)
    BY <2>2 DEF L!list_delete, L!On
  <2>4. node = Spot(l, q, i)
    BY <2>1 DEF Spot
  <2>5. Joined(B, m, l, q, i)
    BY <1>1, <2>4, BridgedFacts
  <2>6. Without(r, q, i)
    BY <1>1, <2>1, DeletedAt
  <2>7. IsMap(d) /\ DOMAIN d = DOMAIN m \ {node} /\ \A x \in DOMAIN d : d[x] = B[x]
    BY <2>3 DEF L!Unlinked, L!Restrict, IsMap
  <2>. HIDE DEF q, r, B, node
  <2>8. r \in Seq(Pid) /\ IsInjective(r)
    BY <2>6 DEF Without
  <2>9. DOMAIN d = DOMAIN m \ {Spot(l, q, i)}
    BY <2>4, <2>7
  <2>10. Instead(d, m, l, r)
    BY <1>1, <2>5, <2>6, <2>7, <2>9, RemovedFacts
  <2>11. Agree(d, [F EXCEPT ![l] = r])
    BY <2>8, <2>10, OneList
  <2>. QED  BY <2>11 DEF r, q
<1>. QED  BY <1>2, <1>3

\* list_move_to_end moves the pid to the end of its list.
LEMMA MoveAgrees ==
  ASSUME NEW m, NEW F, Agree(m, F), NEW l \in Lists, NEW p \in Pid, p \in Range(F[l]),
         NEW d \in L!list_move_to_end(m, l, p)
  PROVE  Agree(d, [F EXCEPT ![l] = list_move_to_end(F[l], p)])
<1>. DEFINE q == F[l]
            n == Len(q)
            node == L!Node(l, p)
            B == L!Bridged(m, node)
            r == list_delete(q, p)
            end == Spot(l, q, n)
<1>1. /\ Nodes(m) /\ q \in Seq(Pid) /\ IsInjective(q) /\ Holds(m, l, q)
      /\ F \in [Lists -> Seq(Pid)]
  BY DEF Agree
<1>2. n \in Nat /\ DOMAIN q = 1 .. n
  BY <1>1, LenProperties
<1>3. PICK i \in 1 .. n : q[i] = p
  BY <1>2 DEF Range
<1>4. L!list_find_by_pid(m, l, p) = {node}
  BY <1>1, FindFacts
<1>5. d = L!Moved(m, node)
  BY <1>4 DEF L!list_move_to_end, L!On
<1>6. node = Spot(l, q, i) /\ node[1] = l
  BY <1>2, <1>3, NodeFacts DEF Spot
<1>7. Without(r, q, i)
  BY <1>1, <1>3, DeletedAt
<1>8. /\ r \in Seq(Pid) /\ IsInjective(r) /\ Len(r) = n - 1
      /\ \A j \in 1 .. n - 1 : r[j] = IF j < i THEN q[j] ELSE q[j + 1]
  BY <1>7 DEF Without
<1>9. p \notin Range(r)
  <2>1. r = RemoveFirst(q, p)
    BY DEF list_delete
  <2>. HIDE DEF r, q
  <2>. QED  BY <1>1, <2>1, RemoveFirstFacts
<1>10. list_move_to_end(q, p) = Append(r, p)
  BY DEF list_move_to_end
<1>11. Joined(B, m, l, q, i) /\ m[node].next = IF i = n THEN L!NULL ELSE Spot(l, q, i + 1)
  BY <1>1, <1>6, BridgedFacts
<1>12. CASE i = n
  <2>1. d = m
    BY <1>5, <1>11, <1>12 DEF L!Moved
  <2>2. Append(r, p) = q
    <3>. DEFINE a == Append(r, p)
    <3>. HIDE DEF r, q, n
    <3>1. n = Len(q)
      BY DEF n
    <3>2. a \in Seq(Pid) /\ Len(a) = n /\ a[n] = p /\ \A j \in 1 .. n - 1 : a[j] = r[j]
      BY <1>2, <1>8, AppendProperties
    <3>. HIDE DEF a
    <3>3. \A j \in 1 .. n : a[j] = q[j]
      BY <1>2, <1>3, <1>8, <1>12, <3>2
    <3>4. a = q
      BY <1>1, <3>1, <3>2, <3>3, SeqEqual
    <3>. QED  BY <3>4 DEF a
  <2>3. [F EXCEPT ![l] = q] = F
    BY <1>1
  <2>. HIDE DEF q, r
  <2>. QED  BY <1>10, <2>1, <2>2, <2>3 DEF q
<1>13. CASE i # n
  <2>1. i + 1 \in 0 .. n /\ n \in 0 .. n /\ i \in 0 .. n /\ n - 1 # 0 /\ n # 0 /\ n - 1 \in 1 .. n - 1
        /\ i - 1 \in 0 .. n
    <3>. HIDE DEF n
    <3>. QED  BY <1>2, <1>3, <1>13
  <2>2. /\ \A k \in 0 .. n : Spot(l, q, k) # L!NULL /\ Spot(l, q, k) \in DOMAIN m
        /\ \A j, k \in 0 .. n : Spot(l, q, j) = Spot(l, q, k) => j = k
    BY <1>1, SpotFacts DEF Holds
  <2>3. L!TailOf(m, l) = end
    BY <1>1, WalkFacts
  <2>4. d = L!LinkBehind(B, end, node)
    <3>1. m[node].next # L!NULL
      BY <1>11, <1>13, <2>1, <2>2
    <3>. HIDE DEF B, end, node
    <3>2. L!Bridged(m, node) = B
      BY DEF B
    <3>. QED  BY <1>5, <1>6, <2>3, <3>1, <3>2 DEF L!Moved
  <2>. DEFINE c == [x \in DOMAIN m \ {node} |-> B[x]]
  <2>5. IsMap(c) /\ DOMAIN c = DOMAIN m \ {Spot(l, q, i)} /\ \A x \in DOMAIN c : c[x] = B[x]
    BY <1>6 DEF IsMap
  <2>6. Instead(c, m, l, r)
    <3>. HIDE DEF c, B, r, q, node
    <3>. QED  BY <1>1, <1>3, <1>7, <1>11, <2>5, RemovedFacts DEF n
  <2>7. Agree(c, [F EXCEPT ![l] = r])
    <3>. HIDE DEF c, r
    <3>. QED  BY <1>8, <2>6, OneList
  <2>8. end = Spot(l, r, Len(r))
    <3>1. r[n - 1] = q[n]
      <4>1. ~(n - 1 < i) /\ (n - 1) + 1 = n
        BY <1>2, <1>3, <1>13
      <4>. QED  BY <1>8, <2>1, <4>1
    <3>. QED  BY <1>8, <2>1, <3>1 DEF Spot
  <2>9. Len(r) \in 0 .. Len(r) /\ Len(r) # 0
    BY <1>2, <1>8, <2>1
  <2>. DEFINE b == Spot(l, r, Len(r) - 1)
  <2>10. end \in DOMAIN c /\ c[end] = Fields(L!NULL, b)
    <3>1. Holds(c, l, r)
      BY <2>6 DEF Instead
    <3>2. end \in DOMAIN c /\ c[end] = Links(l, r, Len(r))
      BY <2>8, <2>9, <3>1 DEF Holds
    <3>3. Links(l, r, Len(r)) = Fields(L!NULL, b)
      BY <2>9 DEF Links
    <3>. QED  BY <3>2, <3>3
  <2>11. end # node /\ end \in DOMAIN B /\ node \in DOMAIN B /\ DOMAIN B = DOMAIN m /\ IsMap(B)
    <3>1. DOMAIN B = DOMAIN m /\ IsMap(B)
      BY <1>11 DEF Joined
    <3>. HIDE DEF B
    <3>. QED  BY <1>6, <1>13, <2>1, <2>2, <3>1
  <2>12. B[end] = Fields(L!NULL, b)
    BY <2>5, <2>10
  <2>. HIDE DEF B, b, end, node
  <2>13. Linked(d, B, end, node, b)
    BY <2>4, <2>11, <2>12, LinkFacts
  <2>14. Linked(d, c, end, node, b)
    <3>1. DOMAIN c = DOMAIN B \ {node} /\ \A x \in DOMAIN c : c[x] = B[x]
      BY <2>11
    <3>. HIDE DEF c
    <3>. QED  BY <2>11, <2>13, <3>1 DEF Linked
  <2>. HIDE DEF c
  <2>15. Linked(d, c, Spot(l, r, Len(r)), L!Node(l, p),
                IF Len(r) = 0 THEN L!NULL ELSE Spot(l, r, Len(r) - 1))
    BY <2>8, <2>9, <2>14 DEF b, node
  <2>16. Nodes(c) /\ Holds(c, l, r)
    BY <2>6 DEF Instead
  <2>. HIDE DEF r
  <2>17. /\ Instead(d, c, l, Append(r, p))
         /\ IsInjective(Append(r, p)) /\ Append(r, p) \in Seq(Pid)
    BY <1>8, <1>9, <2>15, <2>16, AddFacts
  <2>18. Agree(d, [[F EXCEPT ![l] = r] EXCEPT ![l] = Append(r, p)])
    BY <2>7, <2>17, OneList
  <2>19. [[F EXCEPT ![l] = r] EXCEPT ![l] = Append(r, p)] = [F EXCEPT ![l] = Append(r, p)]
    BY <1>1
  <2>. QED  BY <1>10, <2>18, <2>19 DEF q
<1>. QED  BY <1>12, <1>13

-----------------------------------------------------------------------------
(* pc_clear_exit *)

\* The exit list loses its first task until there is none.
LEMMA ClearAgrees ==
  ASSUME NEW m, NEW F, Agree(m, F), NEW d \in Cleared(m)
  PROVE  Agree(d, [F EXCEPT ![Exit] = <<>>])
<1>. DEFINE n == Len(F[Exit])
            e == MaxPid + 1
            step(c) == IF c[L!list_head(Exit)].next = L!NULL THEN {c}
                       ELSE L!list_delete(c, Exit, c[L!list_head(Exit)].next[2])
            go(X) == UNION {step(c) : c \in X}
            left == CHOOSE f : f = [k \in 0 .. e |-> IF k = 0 THEN {m} ELSE go(f[k - 1])]
            Upto(k) == \E f : f[0] = {m} /\ \A j \in 1 .. k : f[j] = go(f[j - 1])
            bad == {k \in 0 .. e : ~Upto(k)}
            rest(k) == IF k <= n THEN n - k ELSE 0
            Short(c, k) == \E s \in Seq(Pid) : Len(s) = rest(k) /\ Agree(c, [F EXCEPT ![Exit] = s])
            T == {k \in 0 .. e : ~ \A c \in left[k] : Short(c, k)}
<1>1. Exit \in Lists /\ F \in [Lists -> Seq(Pid)] /\ F[Exit] \in Seq(Pid) /\ IsInjective(F[Exit])
  BY DEF Lists, Agree
<1>2. n \in Nat /\ n <= e /\ e \in Nat
  BY <1>1, ListIsShort, ConstantsAssumption
<1>3. Cleared(m) = left[e]
  BY DEF Cleared
<1>4. ASSUME NEW s \in Seq(Pid), NEW c, Agree(c, [F EXCEPT ![Exit] = s]), NEW x \in step(c)
      PROVE  \E r \in Seq(Pid) : /\ Len(r) = IF Len(s) = 0 THEN 0 ELSE Len(s) - 1
                                 /\ Agree(x, [F EXCEPT ![Exit] = r])
  <2>. DEFINE G == [F EXCEPT ![Exit] = s]
  <2>1. G[Exit] = s /\ Len(s) \in Nat
    BY <1>1
  <2>2. IsInjective(s) /\ Holds(c, Exit, s)
    BY <1>1, <1>4, <2>1 DEF Agree
  <2>3. c[L!list_head(Exit)].next = IF Len(s) = 0 THEN L!NULL ELSE Spot(Exit, s, 1)
    <3>1. 0 \in 0 .. Len(s) /\ 0 + 1 = 1
      BY <2>1
    <3>2. c[Spot(Exit, s, 0)] = Links(Exit, s, 0) /\ Spot(Exit, s, 0) = L!list_head(Exit)
      BY <2>2, <3>1 DEF Holds, Spot
    <3>3. Links(Exit, s, 0).next = IF Len(s) = 0 THEN L!NULL ELSE Spot(Exit, s, 1)
      BY <3>1 DEF Links, Fields
    <3>. QED  BY <3>2, <3>3
  <2>4. CASE Len(s) = 0
    <3>1. x = c
      BY <1>4, <2>3, <2>4
    <3>. QED  BY <1>4, <2>4, <3>1
  <2>5. CASE Len(s) # 0
    <3>1. 1 \in 1 .. Len(s) /\ 1 \in 0 .. Len(s)
      BY <2>1, <2>5
    <3>2. Spot(Exit, s, 1) # L!NULL /\ Spot(Exit, s, 1)[2] = s[1] /\ s[1] \in Pid
      <4>1. \A k \in 0 .. Len(s) : Spot(Exit, s, k) # L!NULL /\ Spot(Exit, s, k)[2] = IF k = 0 THEN NoPid ELSE s[k]
        <5>. HIDE DEF left, bad, T, Upto, Short, rest, go, step, G
        <5>1. \A k \in 0 .. Len(s) : Spot(Exit, s, k) # L!NULL
          BY <2>2, SpotFacts
        <5>2. \A k \in 0 .. Len(s) : Spot(Exit, s, k)[2] = IF k = 0 THEN NoPid ELSE s[k]
          BY <2>2, SpotFacts
        <5>. QED  BY <5>1, <5>2
      <4>2. s[1] \in Pid
        BY <3>1
      <4>. QED  BY <3>1, <4>1, <4>2
    <3>3. x \in L!list_delete(c, Exit, s[1])
      BY <1>4, <2>3, <2>5, <3>2
    <3>. DEFINE r == list_delete(s, s[1])
    <3>4. Without(r, s, 1)
      BY <2>2, <3>1, DeletedAt
    <3>. HIDE DEF G
    <3>5. Agree(x, [G EXCEPT ![Exit] = list_delete(G[Exit], s[1])])
      <4>1. Agree(c, G)
        BY <1>4 DEF G
      <4>. QED  BY <1>1, <3>2, <3>3, <4>1, DeleteAgrees
    <3>6. [G EXCEPT ![Exit] = list_delete(G[Exit], s[1])] = [F EXCEPT ![Exit] = r]
      BY <1>1, <2>1 DEF G
    <3>7. Agree(x, [F EXCEPT ![Exit] = r])
      BY <3>5, <3>6
    <3>. HIDE DEF r
    <3>8. r \in Seq(Pid) /\ Len(r) = Len(s) - 1
      BY <3>4 DEF Without
    <3>. QED  BY <2>5, <3>7, <3>8
  <2>. QED  BY <2>4, <2>5
<1>. HIDE DEF step
<1>5. bad = {}
  <2>1. SUFFICES ASSUME bad # {}  PROVE FALSE
    OBVIOUS
  <2>2. PICK k \in bad : \A j \in bad : k <= j
    <3>1. bad \in SUBSET Nat
      BY <1>2
    <3>. HIDE DEF bad
    <3>. QED  BY <2>1, <3>1, LeastExists
  <2>. HIDE DEF go
  <2>3. Upto(0)
    <3>. DEFINE f == [j \in 0 .. 0 |-> {m}]
    <3>1. f[0] = {m} /\ \A j \in 1 .. 0 : f[j] = go(f[j - 1])
      OBVIOUS
    <3>. HIDE DEF f
    <3>. QED  BY <3>1
  <2>4. k \in 1 .. e /\ k - 1 \in 0 .. e /\ k - 1 \notin bad
    <3>1. k \in 0 .. e /\ k # 0
      <4>. HIDE DEF Upto
      <4>. QED  BY <2>2, <2>3
    <3>2. k - 1 \notin bad
      <4>. HIDE DEF bad
      <4>. QED  BY <1>2, <2>2, <3>1
    <3>. QED  BY <1>2, <3>1, <3>2
  <2>5. Upto(k - 1)
    BY <2>4
  <2>6. PICK f : f[0] = {m} /\ \A j \in 1 .. k - 1 : f[j] = go(f[j - 1])
    BY <2>5
  <2>. DEFINE g == [j \in 0 .. k |-> IF j = k THEN go(f[k - 1]) ELSE f[j]]
  <2>7. g[0] = {m}
    BY <2>4, <2>6
  <2>8. \A j \in 1 .. k : g[j] = go(g[j - 1])
    <3>1. ASSUME NEW j \in 1 .. k  PROVE g[j] = go(g[j - 1])
      <4>1. j - 1 \in 0 .. k /\ j - 1 # k /\ j \in 0 .. k
        BY <2>4
      <4>2. g[j - 1] = f[j - 1]
        BY <4>1
      <4>3. g[j] = IF j = k THEN go(f[k - 1]) ELSE f[j]
        BY <4>1
      <4>4. j # k => j \in 1 .. k - 1
        BY <2>4
      <4>. HIDE DEF g
      <4>. QED  BY <2>6, <4>2, <4>3, <4>4
    <3>. QED  BY <3>1
  <2>9. Upto(k)
    <3>. HIDE DEF g
    <3>. QED  BY <2>7, <2>8
  <2>. QED  BY <2>2, <2>9
<1>. HIDE DEF go
<1>6. left = [k \in 0 .. e |-> IF k = 0 THEN {m} ELSE go(left[k - 1])]
  <2>1. Upto(e)
    <3>1. e \in 0 .. e
      BY <1>2
    <3>. HIDE DEF Upto, left, T, e
    <3>. QED  BY <1>5, <3>1
  <2>2. PICK f : f[0] = {m} /\ \A j \in 1 .. e : f[j] = go(f[j - 1])
    BY <2>1
  <2>. DEFINE g == [k \in 0 .. e |-> f[k]]
  <2>3. \A k \in 0 .. e : g[k] = IF k = 0 THEN {m} ELSE go(g[k - 1])
    <3>1. ASSUME NEW k \in 0 .. e  PROVE g[k] = IF k = 0 THEN {m} ELSE go(g[k - 1])
      <4>1. k # 0 => k \in 1 .. e /\ k - 1 \in 0 .. e
        BY <1>2
      <4>2. g[k] = f[k] /\ (k # 0 => g[k - 1] = f[k - 1])
        BY <4>1
      <4>. HIDE DEF g
      <4>. QED  BY <2>2, <4>1, <4>2
    <3>. QED  BY <3>1
  <2>4. g = [k \in 0 .. e |-> IF k = 0 THEN {m} ELSE go(g[k - 1])]
    BY <2>3
  <2>. HIDE DEF g
  <2>. QED  BY <2>4
<1>. HIDE DEF left
<1>7. left[0] = {m} /\ \A k \in 1 .. e : left[k] = go(left[k - 1])
  <2>1. left[0] = {m}
    BY <1>2, <1>6
  <2>2. ASSUME NEW k \in 1 .. e  PROVE left[k] = go(left[k - 1])
    <3>1. k \in 0 .. e /\ k # 0
      BY <1>2
    <3>. QED  BY <1>6, <3>1
  <2>. QED  BY <2>1, <2>2
<1>8. \A c \in left[0] : Short(c, 0)
  <2>1. [F EXCEPT ![Exit] = F[Exit]] = F /\ rest(0) = n
    BY <1>1, <1>2
  <2>. QED  BY <1>1, <1>7, <2>1
<1>9. T = {}
  <2>1. SUFFICES ASSUME T # {}  PROVE FALSE
    OBVIOUS
  <2>. HIDE DEF Short
  <2>2. PICK k \in T : \A j \in T : k <= j
    <3>1. T \in SUBSET Nat
      BY <1>2
    <3>. HIDE DEF T
    <3>. QED  BY <2>1, <3>1, LeastExists
  <2>3. k \in 1 .. e /\ k - 1 \in 0 .. e /\ k - 1 \notin T
    BY <1>2, <1>8, <2>2
  <2>4. \A c \in left[k - 1] : Short(c, k - 1)
    BY <2>3
  <2>5. ASSUME NEW x \in left[k]  PROVE Short(x, k)
    <3>1. PICK c \in left[k - 1] : x \in step(c)
      BY <1>7, <2>3 DEF go
    <3>2. PICK s \in Seq(Pid) : Len(s) = rest(k - 1) /\ Agree(c, [F EXCEPT ![Exit] = s])
      BY <2>4, <3>1 DEF Short
    <3>3. PICK r \in Seq(Pid) : /\ Len(r) = IF Len(s) = 0 THEN 0 ELSE Len(s) - 1
                                /\ Agree(x, [F EXCEPT ![Exit] = r])
      BY <1>4, <3>1, <3>2
    <3>4. Len(r) = rest(k)
      BY <1>2, <2>3, <3>2, <3>3
    <3>. QED  BY <3>3, <3>4 DEF Short
  <2>. QED  BY <2>2, <2>5
<1>10. PICK s \in Seq(Pid) : Len(s) = 0 /\ Agree(d, [F EXCEPT ![Exit] = s])
  <2>1. e \in 0 .. e /\ e \notin T /\ rest(e) = 0
    BY <1>2, <1>9
  <2>2. Short(d, e)
    <3>. HIDE DEF Short, rest
    <3>. QED  BY <1>3, <2>1
  <2>. QED  BY <2>1, <2>2
<1>11. s = <<>>
  BY <1>10, EmptySeq
<1>. QED  BY <1>10, <1>11

-----------------------------------------------------------------------------
(* What the steps do to the lists *)

\* The run queues and the exit list as one function.
AllLists(lists, exits) == [l \in Lists |-> IF l = Exit THEN exits ELSE lists[l]]

\* The exit list is none of the run queues.
LEMMA AllListsFacts ==
  ASSUME NEW lists \in [Level -> Seq(Pid)], NEW exits
  PROVE  /\ Exit \in Lists /\ Exit \notin Level /\ Level \subseteq Lists
         /\ AllLists(lists, exits)[Exit] = exits
         /\ \A l \in Level : AllLists(lists, exits)[l] = lists[l]
<1>1. Exit \in Lists /\ Exit \notin Level /\ Level \subseteq Lists
  BY ConstantsAssumption DEF Lists, Exit, Level
<1>. QED  BY <1>1 DEF AllLists

\* A change of one queue, and of the exit list, changes just that one of them all.
LEMMA LevelChange ==
  ASSUME NEW lists \in [Level -> Seq(Pid)], NEW exits, NEW l \in Level, NEW q,
         NEW m, Agree(m, [AllLists(lists, exits) EXCEPT ![l] = q])
  PROVE  Agree(m, AllLists([lists EXCEPT ![l] = q], exits))
<1>1. Exit \in Lists /\ Exit \notin Level /\ Level \subseteq Lists
  BY AllListsFacts
<1>2. [AllLists(lists, exits) EXCEPT ![l] = q] = AllLists([lists EXCEPT ![l] = q], exits)
  BY <1>1 DEF AllLists, Lists
<1>. QED  BY <1>2

LEMMA ExitChange ==
  ASSUME NEW lists \in [Level -> Seq(Pid)], NEW exits, NEW q,
         NEW m, Agree(m, [AllLists(lists, exits) EXCEPT ![Exit] = q])
  PROVE  Agree(m, AllLists(lists, q))
<1>1. [AllLists(lists, exits) EXCEPT ![Exit] = q] = AllLists(lists, q)
  BY AllListsFacts DEF AllLists
<1>. QED  BY <1>1

\* The queues after list_delete and add_task_to_list.
Less(lists, l, p) == [lists EXCEPT ![l] = list_delete(lists[l], p)]
More(lists, l, p) == [lists EXCEPT ![l] = Append(lists[l], p)]

\* The three operations on one list, for the queues and for the exit list.
LEMMA QueueAgrees ==
  ASSUME NEW lists \in [Level -> Seq(Pid)], NEW exits, NEW m, Agree(m, AllLists(lists, exits)),
         NEW l \in Level, NEW p \in Pid
  PROVE  /\ p \notin Range(lists[l]) =>
               Agree(L!add_task_to_list(m, l, p), AllLists(More(lists, l, p), exits))
         /\ \A d \in L!list_delete(m, l, p) :
               Agree(d, AllLists(Less(lists, l, p), exits))
         /\ p \in Range(lists[l]) => \A d \in L!list_move_to_end(m, l, p) :
               Agree(d, AllLists([lists EXCEPT ![l] = list_move_to_end(lists[l], p)], exits))
         /\ p \notin Range(exits) =>
               Agree(L!add_task_to_list(m, Exit, p), AllLists(lists, Append(exits, p)))
<1>. DEFINE F == AllLists(lists, exits)
<1>1. Exit \in Lists /\ l \in Lists /\ F[Exit] = exits /\ F[l] = lists[l]
  BY AllListsFacts
<1>2. Agree(m, F)
  OBVIOUS
<1>. HIDE DEF F
<1>3. ASSUME p \notin Range(lists[l])
      PROVE  Agree(L!add_task_to_list(m, l, p), AllLists(More(lists, l, p), exits))
  <2>1. Agree(L!add_task_to_list(m, l, p), [F EXCEPT ![l] = Append(F[l], p)])
    BY <1>1, <1>2, <1>3, AddAgrees
  <2>2. Agree(L!add_task_to_list(m, l, p), [F EXCEPT ![l] = Append(lists[l], p)])
    BY <1>1, <2>1
  <2>. QED  BY <2>2, LevelChange DEF F, More
<1>4. ASSUME NEW d \in L!list_delete(m, l, p)
      PROVE  Agree(d, AllLists(Less(lists, l, p), exits))
  <2>1. Agree(d, [F EXCEPT ![l] = list_delete(F[l], p)])
    BY <1>1, <1>2, DeleteAgrees
  <2>2. Agree(d, [F EXCEPT ![l] = list_delete(lists[l], p)])
    BY <1>1, <2>1
  <2>. QED  BY <2>2, LevelChange DEF F, Less
<1>5. ASSUME p \in Range(lists[l]), NEW d \in L!list_move_to_end(m, l, p)
      PROVE  Agree(d, AllLists([lists EXCEPT ![l] = list_move_to_end(lists[l], p)], exits))
  <2>1. Agree(d, [F EXCEPT ![l] = list_move_to_end(F[l], p)])
    BY <1>1, <1>2, <1>5, MoveAgrees
  <2>2. Agree(d, [F EXCEPT ![l] = list_move_to_end(lists[l], p)])
    BY <1>1, <2>1
  <2>. QED  BY <2>2, LevelChange DEF F
<1>6. ASSUME p \notin Range(exits)
      PROVE  Agree(L!add_task_to_list(m, Exit, p), AllLists(lists, Append(exits, p)))
  <2>1. Agree(L!add_task_to_list(m, Exit, p), [F EXCEPT ![Exit] = Append(F[Exit], p)])
    BY <1>1, <1>2, <1>6, AddAgrees
  <2>2. Agree(L!add_task_to_list(m, Exit, p), [F EXCEPT ![Exit] = Append(exits, p)])
    BY <1>1, <2>1
  <2>. QED  BY <2>2, ExitChange DEF F
<1>. QED  BY <1>3, <1>4, <1>5, <1>6

\* A set of integers has at most one least element.
LEMMA LeastUnique ==
  ASSUME NEW S, S \subseteq Int, NEW i \in Least(S), NEW j \in Least(S)
  PROVE  i = j
BY DEF Least

\* pc_find_available finds one task, and one of the list.
LEMMA AvailableFacts ==
  ASSUME NEW t, NEW list \in Seq(Pid),
         NEW p \in pc_find_available(t, list), NEW q \in pc_find_available(t, list)
  PROVE  p = q /\ p \in Range(list)
<1>1. DOMAIN list = 1 .. Len(list) /\ Len(list) \in Nat
  BY LenProperties
<1>2. Ready(t, list) \subseteq DOMAIN list /\ Ready(t, list) \subseteq Int
  BY <1>1 DEF Ready
<1>3. PICK i \in Least(Ready(t, list)) : p = list[i]
  BY DEF pc_find_available
<1>4. PICK j \in Least(Ready(t, list)) : q = list[j]
  BY DEF pc_find_available
<1>5. i = j
  BY <1>2, LeastUnique
<1>6. i \in DOMAIN list
  BY <1>2 DEF Least
<1>. QED  BY <1>3, <1>4, <1>5, <1>6 DEF Range

\* What pc_find_next does to the queues: it moves a task of a lower one to its end.
Picked(t, found) ==
    \/ /\ found.lists = task_lists
       /\ t[found.next].level <= t[current_task].level
    \/ \E k \in Level : /\ k > t[current_task].level /\ t[found.next].level = k
                        /\ found.next \in Range(task_lists[k])
                        /\ found.lists = [task_lists EXCEPT ![k] = list_move_to_end(task_lists[k], found.next)]

\* pc_find_next has one outcome, and of the queues it changes at most one.
LEMMA PickedFacts ==
  ASSUME TypeOK, InOnePlace, CurrentRuns, KernelProcessesLive,
         NEW t, Entry(t), NEW found \in pc_find_next(t), NEW g \in pc_find_next(t)
  PROVE  Picked(t, found) /\ g = found
<1>. DEFINE level  == t[current_task].level
            list   == task_lists[level]
            pos    == CHOOSE i \in DOMAIN list : list[i] = current_task
            lower  == WithReady(t, level + 1 .. Lowest)
            higher == WithReady(t, 0 .. level - 1)
            Stay(pid) == [next |-> pid, lists |-> task_lists]
            Move(k, pid) ==
              [next |-> pid, lists |-> [task_lists EXCEPT ![k] = list_move_to_end(@, pid)]]
<1>1. /\ \A l \in Level : task_lists[l] \in Seq(Pid)
      /\ \A l \in Level : \A p \in Range(task_lists[l]) : p \in Pid /\ task[p].level = l
      /\ \A l \in Level : Range(task_lists[l]) \subseteq Queued
      /\ task[current_task].level \in Level /\ current_task \in Range(task_lists[task[current_task].level])
      /\ NoPid \notin Pid
  BY QueuedFacts
<1>2. level \in Level /\ level = task[current_task].level /\ current_task \in Range(list)
  BY <1>1 DEF Entry
<1>3. Level \subseteq Nat /\ level + 1 .. Lowest \subseteq Level /\ 0 .. level - 1 \subseteq Level
  BY <1>2, ConstantsAssumption DEF Level, Lowest
<1>4. \A l \in Level : \A p \in Range(task_lists[l]) : t[p].level = l
  BY <1>1, <1>2 DEF Entry
<1>5. \A l \in Level : \A p, q \in pc_find_available(t, task_lists[l]) : p = q /\ p \in Range(task_lists[l])
  BY <1>1, AvailableFacts
<1>6. lower \subseteq level + 1 .. Lowest /\ higher \subseteq 0 .. level - 1
  BY DEF WithReady
<1>7. DOMAIN list = 1 .. Len(list) /\ Len(list) \in Nat /\ pos \in 1 .. Len(list)
  <2>1. DOMAIN list = 1 .. Len(list) /\ Len(list) \in Nat
    BY <1>1, <1>2, LenProperties
  <2>2. \E i \in DOMAIN list : list[i] = current_task
    BY <1>2 DEF Range
  <2>. QED  BY <2>1, <2>2
<1>. HIDE DEF level, list, pos, lower, higher
<1>8. pc_find_next(t) =
        IF current_task \notin Range(list) THEN {Stay(NoPid)}
        ELSE IF pos = Len(list) /\ lower # {} THEN
            UNION {{Move(k, pid) : pid \in pc_find_available(t, task_lists[k])} : k \in Least(lower)}
        ELSE IF higher # {} THEN
            UNION {{Stay(pid) : pid \in pc_find_available(t, task_lists[k])} : k \in Least(higher)}
        ELSE IF pos # Len(list) /\ t[list[pos + 1]].state = "READY" THEN {Stay(list[pos + 1])}
        ELSE IF Ready(t, list) # {} THEN {Stay(pid) : pid \in pc_find_available(t, list)}
        ELSE {Stay(current_task)}
  BY DEF pc_find_next, level, list, pos, lower, higher
<1>9. ASSUME NEW l \in Level, l <= level, NEW p \in Range(task_lists[l])
      PROVE  Picked(t, Stay(p))
  <2>1. t[p].level = l
    BY <1>4
  <2>. QED  BY <1>9, <2>1 DEF Picked, level
<1>10. CASE pos = Len(list) /\ lower # {}
  <2>a. PICK k \in Least(lower) : \E pid \in pc_find_available(t, task_lists[k]) : found = Move(k, pid)
    BY <1>2, <1>8, <1>10
  <2>1. PICK pid \in pc_find_available(t, task_lists[k]) : found = Move(k, pid)
    BY <2>a
  <2>b. PICK h \in Least(lower) : \E p \in pc_find_available(t, task_lists[h]) : g = Move(h, p)
    BY <1>2, <1>8, <1>10
  <2>2. PICK p \in pc_find_available(t, task_lists[h]) : g = Move(h, p)
    BY <2>b
  <2>3. k = h /\ k \in level + 1 .. Lowest
    <3>1. lower \subseteq Int
      BY <1>3, <1>6
    <3>2. k = h
      BY <3>1, LeastUnique
    <3>. QED  BY <1>6, <3>2 DEF Least
  <2>c. k \in Level /\ k > level
    BY <1>2, <1>3, <2>3
  <2>4. k \in Level /\ k > level /\ p = pid /\ pid \in Range(task_lists[k])
    BY <1>5, <2>3, <2>c
  <2>5. Picked(t, found)
    <3>1. found.next = pid /\ found.lists = [task_lists EXCEPT ![k] = list_move_to_end(task_lists[k], pid)]
      BY <2>1
    <3>2. t[pid].level = k
      BY <1>4, <2>4
    <3>. QED  BY <2>4, <3>1, <3>2 DEF Picked, level
  <2>. QED  BY <2>1, <2>2, <2>3, <2>4, <2>5
<1>11. CASE ~(pos = Len(list) /\ lower # {}) /\ higher # {}
  <2>a. PICK k \in Least(higher) : \E pid \in pc_find_available(t, task_lists[k]) : found = Stay(pid)
    BY <1>2, <1>8, <1>11
  <2>1. PICK pid \in pc_find_available(t, task_lists[k]) : found = Stay(pid)
    BY <2>a
  <2>b. PICK h \in Least(higher) : \E p \in pc_find_available(t, task_lists[h]) : g = Stay(p)
    BY <1>2, <1>8, <1>11
  <2>2. PICK p \in pc_find_available(t, task_lists[h]) : g = Stay(p)
    BY <2>b
  <2>3. k = h /\ k \in 0 .. level - 1
    <3>1. higher \subseteq Int
      BY <1>3, <1>6
    <3>2. k = h
      BY <3>1, LeastUnique
    <3>. QED  BY <1>6, <3>2 DEF Least
  <2>c. k \in Level /\ k <= level
    BY <1>2, <1>3, <2>3
  <2>4. k \in Level /\ k <= level /\ p = pid /\ pid \in Range(task_lists[k])
    BY <1>5, <2>3, <2>c
  <2>. QED  BY <1>9, <2>1, <2>2, <2>4
<1>12. CASE ~(pos = Len(list) /\ lower # {}) /\ higher = {}
  <2>0. level <= level
    BY <1>2, <1>3
  <2>1. CASE pos # Len(list) /\ t[list[pos + 1]].state = "READY"
    <3>1. found = Stay(list[pos + 1]) /\ g = Stay(list[pos + 1])
      BY <1>2, <1>8, <1>12, <2>1
    <3>2. list[pos + 1] \in Range(list)
      <4>0. pos # Len(list)
        BY <2>1
      <4>1. pos + 1 \in 1 .. Len(list)
        BY <1>2, <1>3, <1>7, <4>0 DEF list
      <4>. QED  BY <1>7, <4>1 DEF Range
    <3>3. list[pos + 1] \in Range(task_lists[level])
      BY <3>2 DEF list
    <3>. QED  BY <1>2, <1>9, <2>0, <3>1, <3>3
  <2>2. CASE ~(pos # Len(list) /\ t[list[pos + 1]].state = "READY") /\ Ready(t, list) # {}
    <3>1. found \in {Stay(pid) : pid \in pc_find_available(t, list)}
          /\ g \in {Stay(pid) : pid \in pc_find_available(t, list)}
      BY <1>2, <1>8, <1>12, <2>2
    <3>2. PICK pid \in pc_find_available(t, task_lists[level]) : found = Stay(pid)
      BY <3>1 DEF list
    <3>3. PICK p \in pc_find_available(t, task_lists[level]) : g = Stay(p)
      BY <3>1 DEF list
    <3>4. p = pid /\ pid \in Range(task_lists[level])
      BY <1>2, <1>5
    <3>. QED  BY <1>2, <1>9, <2>0, <3>2, <3>3, <3>4
  <2>3. CASE ~(pos # Len(list) /\ t[list[pos + 1]].state = "READY") /\ Ready(t, list) = {}
    <3>1. found = Stay(current_task) /\ g = Stay(current_task)
      BY <1>2, <1>8, <1>12, <2>3
    <3>2. current_task \in Range(task_lists[level])
      BY <1>2 DEF list
    <3>. QED  BY <1>2, <1>9, <2>0, <3>1, <3>2
  <2>. QED  BY <2>1, <2>2, <2>3
<1>. QED  BY <1>10, <1>11, <1>12

\* The nodes agree with the queues pc_find_next leaves.
LEMMA FoundAgrees ==
  ASSUME TypeOK, InOnePlace, CurrentRuns, KernelProcessesLive,
         Agree(nodes, AllLists(task_lists, exit_list)),
         NEW t, Entry(t), NEW found, Picked(t, found), Choice(t, found),
         NEW m \in Found(t, found.next)
  PROVE  Agree(m, AllLists(found.lists, exit_list))
<1>0. Level \subseteq Nat
  BY ConstantsAssumption DEF Level
<1>1. /\ task_lists \in [Level -> Seq(Pid)] /\ Level \subseteq Nat
      /\ Queued \subseteq Pid
      /\ \A l \in Level : Range(task_lists[l]) \subseteq Queued
  BY <1>0, QueuedFacts DEF TypeOK
<1>2. t[found.next].level \in Nat /\ t[current_task].level \in Nat
  <2>1. found.next \in Pid /\ current_task \in Pid /\ t \in [Pid -> TaskStruct]
    BY <1>1 DEF Choice, Entry, TypeOK
  <2>. QED  BY <1>1, <2>1 DEF TaskStruct
<1>3. CASE found.lists = task_lists /\ t[found.next].level <= t[current_task].level
  <2>1. ~(t[found.next].level > t[current_task].level)
    BY <1>2, <1>3
  <2>2. m = nodes
    BY <2>1 DEF Found
  <2>. QED  BY <1>3, <2>2
<1>4. CASE \E k \in Level :
              /\ k > t[current_task].level /\ t[found.next].level = k
              /\ found.next \in Range(task_lists[k])
              /\ found.lists = [task_lists EXCEPT ![k] = list_move_to_end(task_lists[k], found.next)]
  <2>1. PICK k \in Level :
              /\ k > t[current_task].level /\ t[found.next].level = k
              /\ found.next \in Range(task_lists[k])
              /\ found.lists = [task_lists EXCEPT ![k] = list_move_to_end(task_lists[k], found.next)]
    BY <1>4
  <2>2. m \in L!list_move_to_end(nodes, k, found.next)
    BY <2>1 DEF Found
  <2>3. found.next \in Pid
    BY <1>1, <2>1
  <2>4. Agree(m, AllLists([task_lists EXCEPT ![k] = list_move_to_end(task_lists[k], found.next)], exit_list))
    BY <1>1, <2>1, <2>2, <2>3, QueueAgrees
  <2>. QED  BY <2>1, <2>4
<1>. QED  BY <1>3, <1>4 DEF Picked

\* What pc_schedule does to the queue of the current task.
LEMMA SwitchedLists ==
  ASSUME IInv, NEW t, Entry(t), NEW found, Choice(t, found), NEW s, s = Switched(t, found)
  PROVE  /\ t[current_task].state = "FINISH" =>
               /\ s.task_lists = Less(found.lists, t[current_task].level, current_task)
               /\ s.exit_list = Append(exit_list, current_task)
         /\ t[current_task].state # "FINISH" /\ Preempted(t[current_task]).level # t[current_task].level =>
               /\ s.task_lists = More(Less(found.lists, t[current_task].level, current_task),
                                      Preempted(t[current_task]).level, current_task)
               /\ s.exit_list = exit_list
         /\ t[current_task].state # "FINISH" /\ Preempted(t[current_task]).level = t[current_task].level =>
               s.task_lists = found.lists /\ s.exit_list = exit_list
<1>. DEFINE c     == current_task
            next  == found.next
            new   == Preempted(t[c])
            left  == [found.lists EXCEPT ![t[c].level] = list_delete(@, c)]
            lists == IF t[c].state = "FINISH" THEN left
                     ELSE IF new.level # t[c].level
                     THEN [left EXCEPT ![new.level] = add_task_to_list(@, c)]
                     ELSE found.lists
            exits == IF t[c].state = "FINISH" THEN add_task_to_list(exit_list, c)
                     ELSE exit_list
            tasks == [t EXCEPT ![c] = new, ![next].state = "RUNNING"]
<1>1. next # NoPid /\ next # c
  <2>1. NoPid \notin Pid /\ Queued \subseteq Pid
    BY QueuedFacts DEF IInv
  <2>. QED  BY <2>1 DEF Choice
<1>2. s = Table(lists, exits, tasks, next, pid_tree, mailbox_tree, "no")
  BY <1>1 DEF Switched
<1>3. s.task_lists = lists /\ s.exit_list = exits
  BY <1>2, TableFields
<1>4. left = Less(found.lists, t[c].level, c)
  BY DEF Less
<1>. HIDE DEF left, new
<1>5. [left EXCEPT ![new.level] = add_task_to_list(@, c)] = More(left, new.level, c)
  BY DEF More, add_task_to_list
<1>6. t[c].state = "FINISH" => lists = left /\ exits = Append(exit_list, c)
  BY DEF add_task_to_list
<1>7. t[c].state # "FINISH" /\ new.level # t[c].level => lists = More(left, new.level, c) /\ exits = exit_list
  BY <1>5
<1>8. t[c].state # "FINISH" /\ new.level = t[c].level => lists = found.lists /\ exits = exit_list
  OBVIOUS
<1>. HIDE DEF lists, exits
<1>. QED  BY <1>3, <1>4, <1>6, <1>7, <1>8 DEF new

\* The current task leaves its list for the exit list or for the next queue.
LEMMA RequeuedAgrees ==
  ASSUME IInv, NEW t, Entry(t), NEW found, Choice(t, found), NEW s, s = Switched(t, found),
         NEW m1, Agree(m1, AllLists(found.lists, exit_list)),
         \/ t[current_task].state = "FINISH"
         \/ current_task' # current_task /\ task'[current_task].level = Preempted(t[current_task]).level,
         NEW m2 \in Requeued(t, m1)
  PROVE  Agree(m2, AllLists(s.task_lists, s.exit_list))
<1>. DEFINE c    == current_task
            l    == t[c].level
            new  == Preempted(t[c])
            left == Less(found.lists, l, c)
<1>1. TypeOK /\ InOnePlace /\ CurrentRuns /\ KernelProcessesLive
  BY DEF IInv
<1>2. /\ c \in Pid /\ l \in Level /\ t[c] \in TaskStruct /\ l = task[c].level
      /\ c \notin Range(exit_list)
  <2>1. c \in Queued /\ Queued \subseteq Pid /\ task[c].state \in {"READY", "RUNNING"}
    BY <1>1, QueuedFacts
  <2>2. c \notin Range(exit_list)
    BY <1>1, <2>1 DEF InOnePlace
  <2>. QED  BY <2>1, <2>2 DEF Entry, TaskStruct
<1>3. found.lists \in [Level -> Seq(Pid)] /\ \A k \in Level : k # l => c \notin Range(found.lists[k])
  <2>1. \A k \in Level : \A p \in Range(task_lists[k]) : task[p].level = k
    BY <1>1, QueuedFacts
  <2>. QED  BY <1>2, <2>1 DEF Choice
<1>4. left \in [Level -> Seq(Pid)] /\ \A k \in Level : k # l => left[k] = found.lists[k]
  <2>1. list_delete(found.lists[l], c) \in Seq(Pid)
    BY <1>2, <1>3, RemoveFirstFacts DEF list_delete, Choice
  <2>. QED  BY <1>2, <1>3, <2>1 DEF Less
<1>5. /\ t[c].state = "FINISH" => s.task_lists = left /\ s.exit_list = Append(exit_list, c)
      /\ t[c].state # "FINISH" /\ new.level # l => s.task_lists = More(left, new.level, c) /\ s.exit_list = exit_list
      /\ t[c].state # "FINISH" /\ new.level = l => s.task_lists = found.lists /\ s.exit_list = exit_list
  BY SwitchedLists
<1>6. /\ t[c].state = "FINISH" => new = t[c]
      /\ new.level # l => new.level = l + 1
      /\ new \in TaskStruct /\ new.level \in Level
  <2>1. new \in TaskStruct /\ (t[c].state = "FINISH" => new = t[c]) /\ (new.level # l => new.level = l + 1)
    BY <1>2, PreemptedFacts
  <2>. QED  BY <2>1 DEF TaskStruct
<1>7. \A d \in L!list_delete(m1, l, c) : Agree(d, AllLists(left, exit_list))
  BY <1>2, <1>3, QueueAgrees
<1>. HIDE DEF left, new
<1>8. CASE t[c].state = "FINISH"
  <2>1. m2 \in {L!add_task_to_list(d, Exit, c) : d \in L!list_delete(m1, l, c)}
    BY <1>8 DEF Requeued
  <2>2. PICK d \in L!list_delete(m1, l, c) : m2 = L!add_task_to_list(d, Exit, c)
    BY <2>1
  <2>3. Agree(d, AllLists(left, exit_list))
    BY <1>7
  <2>4. Agree(m2, AllLists(left, Append(exit_list, c)))
    BY <1>2, <1>4, <2>2, <2>3, QueueAgrees
  <2>. QED  BY <1>5, <1>8, <2>4
<1>9. CASE t[c].state # "FINISH" /\ new.level # l
  <2>1. current_task' # c /\ task'[c].level = new.level
    BY <1>9 DEF new
  <2>2. m2 \in {L!add_task_to_list(d, l + 1, c) : d \in L!list_delete(m1, l, c)}
    BY <1>9, <2>1 DEF Requeued
  <2>3. PICK d \in L!list_delete(m1, l, c) : m2 = L!add_task_to_list(d, l + 1, c)
    BY <2>2
  <2>4. Agree(d, AllLists(left, exit_list))
    BY <1>7
  <2>5. c \notin Range(left[new.level])
    BY <1>3, <1>4, <1>6, <1>9
  <2>6. Agree(L!add_task_to_list(d, new.level, c), AllLists(More(left, new.level, c), exit_list))
    BY <1>2, <1>4, <1>6, <2>4, <2>5, QueueAgrees
  <2>. QED  BY <1>5, <1>6, <1>9, <2>3, <2>6
<1>10. CASE t[c].state # "FINISH" /\ new.level = l
  <2>1. current_task' # c /\ task'[c].level = new.level
    BY <1>10 DEF new
  <2>2. m2 = m1
    BY <1>10, <2>1 DEF Requeued
  <2>. QED  BY <1>5, <1>10, <2>2
<1>. QED  BY <1>8, <1>9, <1>10

\* The whole of pc_schedule.
LEMMA ScheduledAgrees ==
  ASSUME IInv, Agree(nodes, AllLists(task_lists, exit_list)),
         NEW t, Entry(t), NEW found \in pc_find_next(t), NEW c, c = pc_clear_exit(Switched(t, found)),
         \/ t[current_task].state = "FINISH"
         \/ current_task' # current_task /\ task'[current_task].level = Preempted(t[current_task]).level,
         NEW m \in Scheduled(t)
  PROVE  Agree(m, AllLists(c.task_lists, <<>>))
<1>. DEFINE s == Switched(t, found)
<1>1. TypeOK /\ InOnePlace /\ CurrentRuns /\ KernelProcessesLive
  BY DEF IInv
<1>2. Choice(t, found) /\ Picked(t, found) /\ \A g \in pc_find_next(t) : g = found
  BY <1>1, FindNext, PickedFacts
<1>3. m \in UNION {UNION {Cleared(m2) : m2 \in Requeued(t, m1)} : m1 \in Found(t, found.next)}
  BY <1>2 DEF Scheduled
<1>4. PICK m1 \in Found(t, found.next) : m \in UNION {Cleared(m2) : m2 \in Requeued(t, m1)}
  BY <1>3
<1>5. PICK m2 \in Requeued(t, m1) : m \in Cleared(m2)
  BY <1>4
<1>6. Agree(m1, AllLists(found.lists, exit_list))
  BY <1>1, <1>2, FoundAgrees
<1>7. Agree(m2, AllLists(s.task_lists, s.exit_list))
  BY <1>2, <1>6, RequeuedAgrees
<1>8. Sound(s)
  BY <1>2, SwitchFacts
<1>. HIDE DEF s
<1>9. Agree(m, [AllLists(s.task_lists, s.exit_list) EXCEPT ![Exit] = <<>>])
  BY <1>5, <1>7, ClearAgrees
<1>10. Agree(m, AllLists(s.task_lists, <<>>))
  BY <1>8, <1>9, ExitChange DEF Sound
<1>11. c.task_lists = s.task_lists
  BY <1>8, ClearFacts DEF s
<1>. QED  BY <1>10, <1>11

-----------------------------------------------------------------------------
(* One lemma per step *)

\* The nodes hold the run queues and the exit list.
ListsHold == Agree(nodes, AllLists(task_lists, exit_list))

\* The timer: pc_find_next's move, the current task's and the reaping, in that order.
LEMMA TickKeepsLists ==
  ASSUME IInv, ListsHold, TickLists
  PROVE  ListsHold'
<1>1. /\ TypeOK /\ InOnePlace /\ CurrentRuns /\ KernelProcessesLive
  BY DEF IInv
<1>2. /\ current_task \in Queued
      /\ task[current_task].state \in {"READY", "RUNNING"}
      /\ current_task \in Pid
  BY <1>1, QueuedFacts
<1>3. Entry(task)
  BY <1>1, <1>2 DEF Entry, TypeOK, CurrentRuns
<1>4. Tick /\ nodes' \in Scheduled(task)
  BY DEF TickLists
<1>5. PICK found \in pc_find_next(task) : Commit(pc_clear_exit(Switched(task, found)))
  BY <1>4 DEF Tick
<1>. DEFINE c == pc_clear_exit(Switched(task, found))
<1>6. current_task' # current_task /\ task'[current_task] = Preempted(task[current_task])
  BY <1>2, <1>4, TickStep
<1>7. Agree(nodes', AllLists(c.task_lists, <<>>))
  BY <1>3, <1>4, <1>6, ScheduledAgrees DEF ListsHold
<1>8. c.exit_list = <<>>
  BY <1>3, ScheduleFacts
<1>. HIDE DEF c
<1>9. task_lists' = c.task_lists /\ exit_list' = <<>>
  BY <1>5, <1>8 DEF Commit, c
<1>. QED  BY <1>7, <1>9 DEF ListsHold

\* An exception: as the timer on the finished task, and a new shell is queued.
LEMMA ExceptionKeepsLists ==
  ASSUME IInv, ListsHold, ExceptionLists
  PROVE  ListsHold'
<1>. DEFINE t == Finished
<1>1. /\ TypeOK /\ InOnePlace /\ CurrentRuns /\ KernelProcessesLive
  BY DEF IInv
<1>2. /\ 0 \in Level /\ ShellPid \in Queued /\ ShellPid \in Pid
      /\ current_task \in Queued /\ current_task \in Pid
  BY <1>1, QueuedFacts
<1>a. current_task # IDLE_PID /\ Exception
  BY DEF ExceptionLists, Exception
<1>3. Entry(t) /\ t[current_task].state = "FINISH"
  <2>1. task \in [Pid -> TaskStruct] /\ current_task \in Pid
    BY <1>1, <1>2 DEF TypeOK
  <2>2. /\ t \in [Pid -> TaskStruct] /\ t[current_task].state = "FINISH"
        /\ \A p \in Pid : p # current_task => t[p] = task[p]
        /\ t[current_task].level = task[current_task].level
        /\ t[current_task].fixed = task[current_task].fixed
    BY <2>1 DEF Finished, TaskStruct
  <2>. HIDE DEF t
  <2>. QED  BY <2>2, <1>a DEF Entry
<1>4. PICK m \in Scheduled(t) :
         nodes' = IF current_task = ShellPid
                  THEN L!add_task_to_list(m, 0, Last(task_lists'[0])) ELSE m
  BY DEF ExceptionLists
<1>5. PICK found \in pc_find_next(t) :
         Commit(IF current_task = ShellPid /\ pc_clear_exit(Switched(t, found)).halted = "no"
                THEN RecreateShell(pc_clear_exit(Switched(t, found)))
                ELSE pc_clear_exit(Switched(t, found)))
  BY <1>a DEF Exception
<1>. DEFINE c == pc_clear_exit(Switched(t, found))
            dead == IF t[current_task].state = "FINISH" THEN {current_task} ELSE {}
            lost == Range(exit_list) \cup dead
<1>. HIDE DEF t
<1>6. Agree(m, AllLists(c.task_lists, <<>>))
  BY <1>3, ScheduledAgrees DEF ListsHold
<1>7. /\ Sound(c)
      /\ c = Table(c.task_lists, c.exit_list, c.task, c.current_task, c.pid_tree,
                   c.mailbox_tree, c.halted)
      /\ c.exit_list = <<>> /\ c.pid_tree = pid_tree \ lost
      /\ Waiting(c.task_lists) = Queued \ dead
  BY <1>3, ScheduleFacts
<1>8. dead = {current_task} /\ current_task \in lost
  BY <1>3
<1>. HIDE DEF c, dead, lost
<1>9. Commit(IF current_task = ShellPid THEN RecreateShell(c) ELSE c)
  BY <1>5, <1>7 DEF c, Sound
<1>10. CASE current_task # ShellPid
  <2>1. task_lists' = c.task_lists /\ exit_list' = <<>> /\ nodes' = m
    BY <1>4, <1>7, <1>9, <1>10 DEF Commit
  <2>. QED  BY <1>6, <2>1 DEF ListsHold
<1>11. CASE current_task = ShellPid
  <2>. DEFINE r == RecreateShell(c)
              q == Append(c.task_lists[0], ShellPid)
  <2>1. ShellPid \notin c.pid_tree /\ ShellPid \notin Waiting(c.task_lists)
    BY <1>7, <1>8, <1>11
  <2>2. ShellPidIn(c.pid_tree) = ShellPid
    BY <2>1 DEF ShellPidIn, Check_pid
  <2>3. r.task_lists = [c.task_lists EXCEPT ![0] = q] /\ r.exit_list = <<>>
    BY <1>7, <2>2 DEF RecreateShell, Table, add_task_to_list
  <2>4. c.task_lists \in [Level -> Seq(Pid)] /\ c.task_lists[0] \in Seq(Pid)
    BY <1>2, <1>7 DEF Sound
  <2>. HIDE DEF r
  <2>5. task_lists' = r.task_lists /\ exit_list' = <<>>
    BY <1>9, <1>11, <2>3 DEF Commit, r
  <2>6. task_lists'[0] = q
    BY <1>2, <2>3, <2>4, <2>5
  <2>7. Last(q) = ShellPid
    BY <1>2, <2>4, AppendFacts DEF Last
  <2>8. task_lists' = More(c.task_lists, 0, ShellPid)
    BY <2>3, <2>5 DEF More
  <2>. HIDE DEF q
  <2>9. nodes' = L!add_task_to_list(m, 0, ShellPid)
    BY <1>4, <1>11, <2>6, <2>7
  <2>10. ShellPid \notin Range(c.task_lists[0])
    BY <1>2, <2>1 DEF Waiting
  <2>11. Agree(nodes', AllLists(More(c.task_lists, 0, ShellPid), <<>>))
    BY <1>2, <1>6, <2>4, <2>9, <2>10, QueueAgrees
  <2>. QED  BY <2>5, <2>8, <2>11 DEF ListsHold
<1>. QED  BY <1>10, <1>11

\* pc_kill: the target is in both lists for a moment, and then in the exit list.
LEMMA PcKillKeepsLists ==
  ASSUME IInv, ListsHold, PcKillRemoveLists
  PROVE  ListsHold'
<1>. DEFINE pid == call[current_task].pid
            l == task[pid].level
<1>1. /\ TypeOK /\ InOnePlace /\ CurrentRuns /\ KernelProcessesLive
  BY DEF IInv
<1>2. /\ task_lists \in [Level -> Seq(Pid)]
      /\ \A p \in Queued : /\ p \in Pid /\ task[p].level \in Level
                           /\ task[p].state \in {"READY", "RUNNING"}
      /\ \A p \in Range(exit_list) : task[p].state = "FINISH"
  BY <1>1, QueuedFacts DEF TypeOK, InOnePlace
<1>3. PcKillRemove
  BY DEF PcKillRemoveLists
<1>4. CASE pid \notin Queued
  <2>1. exit_list' = exit_list /\ task_lists' = task_lists
    BY <1>3, <1>4 DEF PcKillRemove
  <2>2. nodes' = nodes
    BY <1>4 DEF PcKillRemoveLists
  <2>. QED  BY <2>1, <2>2 DEF ListsHold
<1>5. CASE pid \in Queued
  <2>1. /\ exit_list' = Append(exit_list, pid)
        /\ task_lists' = [task_lists EXCEPT ![l] = list_delete(@, pid)]
    BY <1>3, <1>5 DEF PcKillRemove, add_task_to_list
  <2>2. nodes' \in UNION {L!list_delete(m, l, pid) : m \in {L!add_task_to_list(nodes, Exit, pid)}}
    BY <1>5 DEF PcKillRemoveLists
  <2>3. pid \in Pid /\ l \in Level /\ pid \notin Range(exit_list)
    BY <1>2, <1>5
  <2>4. task_lists' = Less(task_lists, l, pid)
    BY <2>1 DEF Less
  <2>. HIDE DEF pid, l
  <2>5. nodes' \in L!list_delete(L!add_task_to_list(nodes, Exit, pid), l, pid)
    BY <2>2
  <2>6. Agree(L!add_task_to_list(nodes, Exit, pid), AllLists(task_lists, Append(exit_list, pid)))
    BY <1>2, <2>3, QueueAgrees DEF ListsHold
  <2>7. Agree(nodes', AllLists(Less(task_lists, l, pid), Append(exit_list, pid)))
    BY <1>2, <2>3, <2>5, <2>6, QueueAgrees
  <2>. QED  BY <2>1, <2>4, <2>7 DEF ListsHold
<1>. QED  BY <1>4, <1>5

\* The end of pc_create queues a pid that no list holds.
LEMMA PcCreateKeepsLists ==
  ASSUME IInv, ListsHold, PcCreateLists
  PROVE  ListsHold'
<1>. DEFINE c == call[current_task]
<1>1. /\ TypeOK /\ InOnePlace /\ CurrentRuns /\ KernelProcessesLive
  BY DEF IInv
<1>2. /\ c.op = "create"
      /\ task_lists' = [task_lists EXCEPT ![c.level] = Append(task_lists[c.level], c.pid)]
      /\ exit_list' = exit_list
      /\ nodes' = L!add_task_to_list(nodes, c.level, c.pid)
  BY DEF PcCreateLists, PcCreateQueue, add_task_to_list
<1>3. /\ task_lists \in [Level -> Seq(Pid)] /\ current_task \in Pid /\ pid_tree \subseteq Pid
      /\ \A l \in Level : Range(task_lists[l]) \subseteq Queued
  BY <1>1, QueuedFacts DEF TypeOK
<1>4. c.level \in Level /\ c.pid \in Pid /\ c.pid \notin Queued
  BY <1>2, <1>3, CallFacts DEF Call
<1>5. task_lists' = More(task_lists, c.level, c.pid) /\ c.pid \notin Range(task_lists[c.level])
  BY <1>2, <1>3, <1>4 DEF More
<1>. HIDE DEF c
<1>6. Agree(nodes', AllLists(More(task_lists, c.level, c.pid), exit_list))
  BY <1>2, <1>3, <1>4, <1>5, QueueAgrees DEF ListsHold
<1>. QED  BY <1>2, <1>5, <1>6 DEF ListsHold

\* The other steps leave queues and nodes alone.
LEMMA OtherKeepsLists ==
  ASSUME ListsHold, OtherLists
  PROVE  ListsHold'
<1>1. task_lists' = task_lists /\ exit_list' = exit_list /\ nodes' = nodes
  BY DEF OtherLists, PcCreateAlloc, PcKillCheck, PcRegisterMailbox
<1>. QED  BY <1>1 DEF ListsHold

\* Every step keeps the nodes and the queues in agreement.
LEMMA ListSteps ==
  ASSUME IInv, ListsHold, [ListNext]_list_vars
  PROVE  ListsHold'
<1>1. CASE UNCHANGED list_vars
  BY <1>1 DEF list_vars, vars, ListsHold
<1>. QED  BY <1>1, TickKeepsLists, ExceptionKeepsLists, PcKillKeepsLists, PcCreateKeepsLists, OtherKeepsLists
          DEF ListNext, Always

\* The linked lists do nothing that the process control does not do.
LEMMA ListsStep == [ListNext]_list_vars => [Next]_vars
<1>. SUFFICES ASSUME [ListNext]_list_vars  PROVE [Next]_vars
  OBVIOUS
<1>1. CASE UNCHANGED list_vars
  BY <1>1 DEF list_vars
<1>2. CASE TickLists \/ ExceptionLists \/ PcKillRemoveLists \/ PcCreateLists
  BY <1>2 DEF TickLists, ExceptionLists, PcKillRemoveLists, PcCreateLists, Next
<1>3. CASE OtherLists
  BY <1>3 DEF OtherLists, Next
<1>. QED  BY <1>1, <1>2, <1>3 DEF ListNext, Always

\* The heads of the lists before anything is queued.
NoneQueued == [l \in Level |-> <<>>]

\* list_init makes empty lists.
LEMMA EmptyLists == Agree(L!list_init(Level \cup {Exit}), AllLists(NoneQueued, <<>>))
<1>. DEFINE m == L!list_init(Level \cup {Exit})
            F == AllLists(NoneQueued, <<>>)
<1>1. <<>> \in Seq(Pid) /\ IsInjective(<<>>) /\ Len(<<>>) = 0
  BY DEF IsInjective
<1>2. \A l \in Lists : F[l] = <<>>
  BY AllListsFacts DEF AllLists, Lists, NoneQueued
<1>3. F \in [Lists -> Seq(Pid)]
  BY <1>1, <1>2 DEF AllLists
<1>4. /\ m = [n \in {L!list_head(l) : l \in Lists} |-> L!EmptyHead]
      /\ DOMAIN m = {L!list_head(l) : l \in Lists}
      /\ IsMap(m)
      /\ \A l \in Lists : m[L!list_head(l)] = Fields(L!NULL, L!NULL)
  BY DEF Lists, L!list_init, L!EmptyHead, Fields, IsMap
<1>. HIDE DEF m, F
<1>5. \A l \in Lists : L!list_head(l)[1] = l /\ L!list_head(l) # L!NULL
  BY NodeFacts
<1>6. Nodes(m)
  BY <1>4, <1>5 DEF Nodes
<1>7. ASSUME NEW l \in Lists  PROVE Holds(m, l, <<>>)
  <2>1. Spot(l, <<>>, 0) = L!list_head(l) /\ Links(l, <<>>, 0) = Fields(L!NULL, L!NULL)
    BY <1>1 DEF Spot, Links
  <2>2. 0 .. Len(<<>>) = {0}
    BY <1>1
  <2>3. \A n \in DOMAIN m : n[1] = l => n = L!list_head(l)
    BY <1>4, <1>5
  <2>. QED  BY <1>4, <2>1, <2>2, <2>3 DEF Holds
<1>8. Agree(m, F)
  BY <1>1, <1>2, <1>3, <1>6, <1>7 DEF Agree
<1>. QED  BY <1>8 DEF m, F

\* The lists after init_pc and create_startup_process.
LEMMA ListInitHolds == ListInit => ListsHold
<1>. SUFFICES ASSUME ListInit  PROVE ListsHold
  OBVIOUS
<1>. DEFINE m0 == L!list_init(Level \cup {Exit})
            m1 == L!add_task_to_list(m0, Lowest, IDLE_PID)
            m2 == L!add_task_to_list(m1, 0, ShellPid)
            m3 == L!add_task_to_list(m2, Lowest, ClockPid)
            q1 == More(NoneQueued, Lowest, IDLE_PID)
            q2 == More(q1, 0, ShellPid)
            q3 == More(q2, Lowest, ClockPid)
<1>1. /\ 0 \in Level /\ Lowest \in Level /\ Lowest # 0
      /\ IDLE_PID \in Pid /\ ShellPid \in Pid /\ ClockPid \in Pid
      /\ ClockPid # IDLE_PID
  BY ConstantsAssumption DEF Level, Lowest, Pid, IDLE_PID, ShellPid, ClockPid
<1>2. Init /\ nodes = m3
  BY DEF ListInit
<1>3. <<>> \in Seq(Pid) /\ Range(<<>>) = {}
  BY DEF Range
<1>4. NoneQueued \in [Level -> Seq(Pid)] /\ \A l \in Level : NoneQueued[l] = <<>>
  BY <1>3 DEF NoneQueued
<1>5. /\ q1 \in [Level -> Seq(Pid)] /\ q1[Lowest] = <<IDLE_PID>>
      /\ \A l \in Level : l # Lowest => q1[l] = <<>>
  <2>1. Append(NoneQueued[Lowest], IDLE_PID) = <<IDLE_PID>> /\ <<IDLE_PID>> \in Seq(Pid)
    BY <1>1, <1>4
  <2>. QED  BY <1>1, <1>4, <2>1 DEF More
<1>. HIDE DEF q1
<1>6. /\ q2 \in [Level -> Seq(Pid)] /\ q2[Lowest] = <<IDLE_PID>> /\ q2[0] = <<ShellPid>>
      /\ \A l \in Level : l \notin {0, Lowest} => q2[l] = <<>>
  <2>1. Append(q1[0], ShellPid) = <<ShellPid>> /\ <<ShellPid>> \in Seq(Pid)
    BY <1>1, <1>5
  <2>. QED  BY <1>1, <1>5, <2>1 DEF More
<1>. HIDE DEF q2
<1>7. q3 = task_lists
  <2>b. <<IDLE_PID, ClockPid>> \in Seq(Pid) /\ <<IDLE_PID>> \in Seq(Pid)
    BY <1>1
  <2>a. Append(<<IDLE_PID>>, ClockPid) = <<IDLE_PID, ClockPid>>
    <3>. DEFINE a == Append(<<IDLE_PID>>, ClockPid)
                b == <<IDLE_PID, ClockPid>>
    <3>1. Len(<<IDLE_PID>>) = 1 /\ <<IDLE_PID>>[1] = IDLE_PID
      OBVIOUS
    <3>2. a \in Seq(Pid) /\ Len(a) = 2 /\ a[1] = IDLE_PID /\ a[2] = ClockPid
      BY <1>1, <2>b, <3>1, AppendProperties
    <3>3. b \in Seq(Pid) /\ Len(b) = 2 /\ b[1] = IDLE_PID /\ b[2] = ClockPid
      BY <2>b
    <3>. HIDE DEF a, b
    <3>4. \A i \in 1 .. 2 : a[i] = b[i]
      <4>1. \A i \in 1 .. 2 : i = 1 \/ i = 2
        OBVIOUS
      <4>. QED  BY <3>2, <3>3, <4>1
    <3>5. a = [i \in 1 .. 2 |-> a[i]] /\ b = [i \in 1 .. 2 |-> b[i]]
      BY <3>2, <3>3, LenProperties
    <3>. QED  BY <3>4, <3>5 DEF a, b
  <2>0. /\ Append(q2[Lowest], ClockPid) = <<IDLE_PID, ClockPid>>
        /\ <<IDLE_PID, ClockPid>> \in Seq(Pid)
    BY <1>6, <2>a, <2>b
  <2>1. /\ q3 \in [Level -> Seq(Pid)] /\ q3[Lowest] = <<IDLE_PID, ClockPid>> /\ q3[0] = <<ShellPid>>
        /\ \A l \in Level : l \notin {0, Lowest} => q3[l] = <<>>
    <3>. DEFINE q == Append(q2[Lowest], ClockPid)
    <3>1. q3 = [q2 EXCEPT ![Lowest] = q]
      BY DEF More
    <3>2. q = <<IDLE_PID, ClockPid>> /\ q \in Seq(Pid)
      BY <2>0
    <3>. HIDE DEF q, q3
    <3>. QED  BY <1>1, <1>6, <3>1, <3>2
  <2>2. task_lists = [l \in Level |-> CASE l = 0 -> <<ShellPid>>
                                       [] l = Lowest -> <<IDLE_PID, ClockPid>>
                                       [] OTHER -> <<>>]
    BY <1>2 DEF Init
  <2>. HIDE DEF q3
  <2>3. \A l \in Level : q3[l] = task_lists[l]
    BY <1>1, <2>1, <2>2
  <2>. QED  BY <2>1, <2>2, <2>3
<1>8. Agree(m0, AllLists(NoneQueued, <<>>))
  BY EmptyLists
<1>. HIDE DEF m0, q3
<1>9. Agree(m1, AllLists(q1, <<>>))
  BY <1>1, <1>3, <1>4, <1>8, QueueAgrees DEF q1
<1>. HIDE DEF m1
<1>10. Agree(m2, AllLists(q2, <<>>))
  BY <1>1, <1>3, <1>5, <1>9, QueueAgrees DEF q2
<1>. HIDE DEF m2
<1>11. ClockPid \notin Range(q2[Lowest])
  BY <1>1, <1>6 DEF Range
<1>12. Agree(m3, AllLists(q3, <<>>))
  BY <1>1, <1>6, <1>10, <1>11, QueueAgrees DEF q3
<1>13. exit_list = <<>>
  BY <1>2 DEF Init
<1>. QED  BY <1>2, <1>7, <1>12, <1>13 DEF ListsHold

-----------------------------------------------------------------------------
(* The pointers lead to the queues *)

\* Walking along a list gives its pids.
LEMMA TasksFacts ==
  ASSUME NEW l, NEW q \in Seq(Pid), IsInjective(q), Holds(nodes, l, q)
  PROVE  Tasks(l) = q
<1>. DEFINE n == Len(q)
            a == Tail(L!Along(nodes, l))
<1>1. n \in Nat /\ DOMAIN q = 1 .. n /\ q = [k \in 1 .. n |-> q[k]]
  BY LenProperties
<1>2. L!Along(nodes, l) = Path(l, q, n)
  BY WalkFacts
<1>3. a = [k \in 1 .. n |-> Spot(l, q, k)]
  <2>. DEFINE way == Path(l, q, n)
              S == {Spot(l, q, k) : k \in 0 .. n}
  <2>1. Len(way) = n + 1 /\ way \in Seq(S)
    BY <1>1, PathFacts
  <2>2. \A k \in 1 .. n : way[k + 1] = Spot(l, q, k)
    BY <1>1 DEF Path
  <2>. HIDE DEF way, S
  <2>3. /\ Tail(way) \in Seq(S) /\ Len(Tail(way)) = n
        /\ \A k \in 1 .. n : Tail(way)[k] = way[k + 1]
    BY <1>1, <2>1
  <2>4. Tail(way) = [k \in 1 .. n |-> Tail(way)[k]]
    BY <2>3, LenProperties
  <2>5. a = Tail(way)
    BY <1>2 DEF way
  <2>. QED  BY <2>2, <2>3, <2>4, <2>5
<1>4. \A k \in 1 .. n : Spot(l, q, k)[2] = q[k]
  BY <1>1, NodeFacts DEF Spot
<1>. HIDE DEF a
<1>5. Tasks(l) = [k \in DOMAIN a |-> a[k][2]]
  BY DEF Tasks, a
<1>. QED  BY <1>1, <1>3, <1>4, <1>5

\* The pointers of lists that hold the queues lead to the queues' tasks, and back.
LEMMA ListsHoldAgree == IInv /\ ListsHold => ListsAgree
<1>. SUFFICES ASSUME IInv, ListsHold  PROVE ListsAgree
  OBVIOUS
<1>. DEFINE F == AllLists(task_lists, exit_list)
<1>1. task_lists \in [Level -> Seq(Pid)]
  BY DEF IInv, TypeOK
<1>2. /\ Exit \in Lists /\ Level \subseteq Lists /\ F[Exit] = exit_list
      /\ \A l \in Level : F[l] = task_lists[l]
  BY <1>1, AllListsFacts
<1>3. /\ Nodes(nodes) /\ \A l \in Lists : F[l] \in Seq(Pid) /\ IsInjective(F[l]) /\ Holds(nodes, l, F[l])
  BY DEF ListsHold, Agree
<1>. HIDE DEF F
<1>4. \A l \in Lists : Tasks(l) = F[l]
  BY <1>3, TasksFacts
<1>5. ASSUME NEW n \in DOMAIN nodes
      PROVE  /\ nodes[n].next # L!NULL => nodes[nodes[n].next].previous = n
             /\ nodes[n].previous # L!NULL => nodes[nodes[n].previous].next = n
  <2>. DEFINE l == n[1]
              q == F[l]
  <2>1. l \in Lists /\ q \in Seq(Pid) /\ Holds(nodes, l, q) /\ Len(q) \in Nat
    BY <1>3, LenProperties DEF Nodes
  <2>2. PICK k \in 0 .. Len(q) : n = Spot(l, q, k)
    BY <2>1 DEF Holds
  <2>3. \A j \in 0 .. Len(q) :
          /\ nodes[Spot(l, q, j)].next = IF j = Len(q) THEN L!NULL ELSE Spot(l, q, j + 1)
          /\ nodes[Spot(l, q, j)].previous = IF j = 0 THEN L!NULL ELSE Spot(l, q, j - 1)
    <3>. HIDE DEF l, q
    <3>1. \A j \in 0 .. Len(q) : nodes[Spot(l, q, j)] = Links(l, q, j)
      BY <2>1 DEF Holds
    <3>2. \A j \in 0 .. Len(q) :
            /\ Links(l, q, j).next = IF j = Len(q) THEN L!NULL ELSE Spot(l, q, j + 1)
            /\ Links(l, q, j).previous = IF j = 0 THEN L!NULL ELSE Spot(l, q, j - 1)
      BY DEF Links, Fields
    <3>. QED  BY <3>1, <3>2
  <2>. HIDE DEF l, q
  <2>4. ASSUME nodes[n].next # L!NULL  PROVE nodes[nodes[n].next].previous = n
    <3>1. k # Len(q) /\ nodes[n].next = Spot(l, q, k + 1)
      BY <2>2, <2>3, <2>4
    <3>2. k + 1 \in 0 .. Len(q) /\ k + 1 # 0 /\ k + 1 - 1 = k
      BY <2>1, <3>1
    <3>. QED  BY <2>2, <2>3, <3>1, <3>2
  <2>5. ASSUME nodes[n].previous # L!NULL  PROVE nodes[nodes[n].previous].next = n
    <3>1. k # 0 /\ nodes[n].previous = Spot(l, q, k - 1)
      BY <2>2, <2>3, <2>5
    <3>2. k - 1 \in 0 .. Len(q) /\ k - 1 # Len(q) /\ k - 1 + 1 = k
      BY <2>1, <3>1
    <3>. QED  BY <2>2, <2>3, <3>1, <3>2
  <2>. QED  BY <2>4, <2>5
<1>. QED  BY <1>2, <1>4, <1>5 DEF ListsAgree

\* The linked lists implement the process control, with the fairness of its timer:
\* what is proved or checked of FairSpec holds with the lists.
THEOREM ListsRunSched == ListSpec => FairSpec
<1>1. ListInit => Init
  BY DEF ListInit
<1>. QED  BY <1>1, ListsStep, PTL DEF ListSpec, FairSpec, Spec

\* No insertion, deletion or move of a node (list_insert, list_delete and
\* list_move_to_end, in whatever order ticks, kills, exceptions and creations come)
\* loses a task, leaves one in two lists or cuts a list off.
THEOREM ListsAgreeHolds == ListSpec => []ListsAgree
<1>1. ListInit => IInv /\ ListsHold
  BY InitIInv, ListInitHolds DEF ListInit
<1>2. IInv /\ ListsHold /\ [ListNext]_list_vars => (IInv /\ ListsHold)'
  BY NextIInv, ListsStep, ListSteps
<1>3. IInv /\ ListsHold => ListsAgree
  BY ListsHoldAgree
<1>. QED  BY <1>1, <1>2, <1>3, PTL DEF ListSpec
=============================================================================
