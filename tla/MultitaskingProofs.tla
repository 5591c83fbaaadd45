--------------------------- MODULE MultitaskingProofs ---------------------------
(***************************************************************************)
(* Proofs about Multitasking, for every set of tasks, every table size and *)
(* every number of program positions.                                      *)
(*                                                                         *)
(* The inductive invariant is TypeOK together with IndexNamesRunning and   *)
(* SavedStateIntact.  SavedStateIntact alone is not inductive: Schedule    *)
(* stores the interrupted state by currentTask, so the step needs to know  *)
(* that this index names the task that was running.                        *)
(***************************************************************************)
EXTENDS Multitasking, TLAPS

IInv == TypeOK /\ IndexNamesRunning /\ SavedStateIntact

(* The index Schedule advances to is the index of a task in the table. *)
LEMMA NextTaskInTable ==
  ASSUME numTasks \in Nat, numTasks > 0, currentTask \in -1 .. numTasks - 1
  PROVE  NextTask \in 0 .. numTasks - 1
BY DEF NextTask

(* NextTask is the successor of currentTask, cyclically. *)
LEMMA NextTaskIsSuccessor ==
  ASSUME numTasks \in Nat, numTasks > 0, currentTask \in -1 .. numTasks - 1
  PROVE  NextTask = IF currentTask + 1 = numTasks THEN 0 ELSE currentTask + 1
BY DEF NextTask

LEMMA InitInv == Init => IInv
<1> SUFFICES ASSUME Init PROVE IInv
  OBVIOUS
<1> USE MaxTasksAssumption, MaxPosAssumption, BootAssumption
<1> USE DEF Init, ConstructTaskManager, EntryState, Context, CPUState
<1>1. TypeOK
  <2>1. tasks \in [Slots -> Task \cup {NoTask}]
    OBVIOUS
  <2>2. cpustate \in [Task -> CPUState]
    OBVIOUS
  <2>3. numTasks \in 0 .. MaxTasks /\ currentTask \in -1 .. numTasks - 1
    OBVIOUS
  <2>4. \A i \in 0 .. numTasks - 1 : tasks[i] \in Task
    OBVIOUS
  <2>5. cpu \in CPUState
    OBVIOUS
  <2>6. left \in [Context -> 0 .. MaxPos]
    OBVIOUS
  <2>7. activated \in BOOLEAN
    BY Zenon
  <2> QED BY <2>1, <2>2, <2>3, <2>4, <2>5, <2>6, <2>7 DEF TypeOK, TaskTableOK
<1>2. IndexNamesRunning
  BY DEF IndexNamesRunning
<1>3. SavedStateIntact
  BY DEF SavedStateIntact
<1> QED BY <1>1, <1>2, <1>3 DEF IInv

(* What a timer interrupt does to the processor when the table is not      *)
(* empty: the task at the next index continues where it was taken off.     *)
LEMMA SwitchStates ==
  ASSUME IInv, TimerInterrupt, numTasks > 0
  PROVE  /\ cpustate' = Saved(cpu) /\ cpustate' \in [Task -> CPUState]
         /\ left' \in [Context -> 0 .. MaxPos]
         /\ \A t \in Task : cpustate'[t] = [ctx |-> t, pos |-> left'[t]]
         /\ NextTask \in 0 .. numTasks - 1 /\ tasks[NextTask] \in Task
         /\ cpu' = [ctx |-> tasks[NextTask], pos |-> left'[tasks[NextTask]]]
         /\ currentTask' = NextTask
         /\ UNCHANGED <<tasks, numTasks, activated>>
<1> DEFINE next == tasks[NextTask]
<1> USE MaxTasksAssumption, MaxPosAssumption, BootAssumption
<1>1. /\ cpustate' = Saved(cpu)
      /\ currentTask' = NextTask
      /\ tasks' = tasks /\ numTasks' = numTasks
      /\ cpu' = Saved(cpu)[next]
      /\ left' = [left EXCEPT ![cpu.ctx] = cpu.pos]
      /\ activated' = activated
  <2>1. Schedule(cpu) /\ cpu' = Resumed(cpu)
    BY DEF TimerInterrupt
  <2>2. numTasks \in Nat
    BY DEF IInv, TypeOK, TaskTableOK
  <2> QED BY <2>1, <2>2 DEF TimerInterrupt, Schedule, Resumed
<1>2. NextTask \in 0 .. numTasks - 1 /\ next \in Task
  <2>1. NextTask \in 0 .. numTasks - 1
    BY NextTaskInTable DEF IInv, TypeOK, TaskTableOK
  <2> QED BY <2>1 DEF IInv, TypeOK, TaskTableOK
<1>3. /\ cpu \in CPUState /\ left \in [Context -> 0 .. MaxPos]
      /\ cpustate \in [Task -> CPUState]
  BY DEF IInv, TypeOK, TaskTableOK
<1>4. cpu.ctx \in Context /\ cpu.pos \in 0 .. MaxPos
      /\ cpu = [ctx |-> cpu.ctx, pos |-> cpu.pos]
  BY <1>3 DEF CPUState
<1>5. /\ cpu.ctx \in Task => Saved(cpu) = [cpustate EXCEPT ![cpu.ctx] = cpu]
      /\ cpu.ctx = Boot => Saved(cpu) = cpustate
  <2>1. CASE currentTask >= 0
    <3>1. cpu.ctx = tasks[currentTask]
      BY <2>1 DEF IInv, IndexNamesRunning
    <3>2. tasks[currentTask] \in Task
      BY <2>1 DEF IInv, TypeOK, TaskTableOK
    <3> QED BY <2>1, <3>1, <3>2 DEF Saved
  <2>2. CASE currentTask < 0
    <3>1. cpu.ctx = Boot
      BY <2>2 DEF IInv, IndexNamesRunning
    <3>2. ~(currentTask >= 0)
      BY <2>2 DEF IInv, TypeOK, TaskTableOK
    <3> QED BY <3>1, <3>2 DEF Saved
  <2> QED BY <2>1, <2>2 DEF IInv, TypeOK, TaskTableOK
<1>6. \A t \in Task : Saved(cpu)[t] = [ctx |-> t, pos |-> left'[t]]
  <2> SUFFICES ASSUME NEW t \in Task
               PROVE  Saved(cpu)[t] = [ctx |-> t, pos |-> left'[t]]
    OBVIOUS
  <2>1. CASE t = cpu.ctx
    <3>1. Saved(cpu)[t] = cpu
      BY <2>1, <1>3, <1>5
    <3>2. left'[t] = cpu.pos
      BY <2>1, <1>1, <1>3, <1>4 DEF Context
    <3> QED BY <2>1, <3>1, <3>2, <1>4
  <2>2. CASE t # cpu.ctx
    <3>1. Saved(cpu)[t] = cpustate[t]
      BY <2>2, <1>3, <1>4, <1>5 DEF Context
    <3>2. left'[t] = left[t]
      BY <2>2, <1>1, <1>3 DEF Context
    <3> QED BY <2>2, <3>1, <3>2 DEF IInv, SavedStateIntact
  <2> QED BY <2>1, <2>2
<1>7. left' \in [Context -> 0 .. MaxPos]
  BY <1>1, <1>3, <1>4
<1>8. cpustate' \in [Task -> CPUState]
  BY <1>1, <1>3, <1>4, <1>5 DEF Context
<1>9. cpu' = [ctx |-> next, pos |-> left'[next]]
  BY <1>1, <1>2, <1>6
<1> QED BY <1>1, <1>2, <1>6, <1>7, <1>8, <1>9

(* A timer interrupt with a task in the table: the one step in which the   *)
(* parts of the invariant need each other.                                 *)
LEMMA SwitchInv ==
  ASSUME IInv, TimerInterrupt, numTasks > 0
  PROVE  IInv'
<1> USE SwitchStates
<1>1. TypeOK'
  <2>1. cpu' \in CPUState
    BY DEF CPUState, Context
  <2>2. numTasks \in 0 .. MaxTasks /\ TaskTableOK(CPUState)
    BY DEF IInv, TypeOK, TaskTableOK
  <2>3. currentTask' \in -1 .. numTasks' - 1
    BY <2>2
  <2>4. TaskTableOK(CPUState)'
    BY <2>2, <2>3 DEF TaskTableOK, Slots, CPUState, Context
  <2>5. activated' \in BOOLEAN
    BY Zenon DEF IInv, TypeOK
  <2> QED BY <2>1, <2>4, <2>5 DEF TypeOK
<1>2. IndexNamesRunning'
  BY DEF IndexNamesRunning
<1>3. SavedStateIntact'
  BY DEF SavedStateIntact
<1> QED BY <1>1, <1>2, <1>3 DEF IInv

LEMMA StepInv == IInv /\ [Next]_vars => IInv'
<1> SUFFICES ASSUME IInv, [Next]_vars PROVE IInv'
  OBVIOUS
<1> USE MaxTasksAssumption, MaxPosAssumption, BootAssumption
<1> USE DEF IInv, TypeOK, TaskTableOK, IndexNamesRunning, SavedStateIntact
<1>1. ASSUME NEW t \in Task, AddTaskAtBoot(t) PROVE IInv'
  <2>1. CASE numTasks >= MaxTasks
    BY <1>1, <2>1 DEF AddTaskAtBoot, AddTask, taskVars, Slots
  <2>2. CASE numTasks < MaxTasks
    <3>1. /\ tasks' = [tasks EXCEPT ![numTasks] = t]
          /\ numTasks' = numTasks + 1
          /\ UNCHANGED <<currentTask, cpustate, cpu, left, activated>>
      BY <1>1, <2>2 DEF AddTaskAtBoot, AddTask
    <3>2. numTasks \in Slots /\ numTasks' \in 0 .. MaxTasks
      BY <2>2, <3>1 DEF Slots
    <3>3. tasks' \in [Slots -> Task \cup {NoTask}]
      BY <3>1
    <3>4. \A i \in 0 .. numTasks' - 1 : tasks'[i] \in Task
      BY <3>1, <3>2 DEF Slots
    <3>5. currentTask' \in -1 .. numTasks' - 1
      BY <3>1, <3>2
    <3>6. TypeOK'
      BY <3>1, <3>2, <3>3, <3>4, <3>5 DEF Context, CPUState
    <3>7. IndexNamesRunning'
      BY <3>1, <3>2 DEF Slots
    <3>8. SavedStateIntact'
      BY <3>1
    <3> QED BY <3>6, <3>7, <3>8
  <2> QED BY <2>1, <2>2
<1>2. CASE Activate
  BY <1>2 DEF Activate, taskVars, Slots, Context, CPUState
<1>3. CASE Execute
  <2>1. cpu' = [cpu EXCEPT !.pos = (cpu.pos + 1) % (MaxPos + 1)]
        /\ UNCHANGED <<taskVars, left, activated>>
    BY <1>3 DEF Execute
  <2>2. cpu'.ctx = cpu.ctx /\ cpu' \in CPUState
    BY <2>1 DEF CPUState
  <2> QED BY <2>1, <2>2 DEF taskVars, Slots, Context, CPUState
<1>4. CASE TimerInterrupt
  <2>1. CASE numTasks > 0
    BY <1>4, <2>1, SwitchInv
  <2>2. CASE ~(numTasks > 0)
    <3>1. cpu' = cpu /\ UNCHANGED <<taskVars, activated>>
      BY <1>4, <2>2 DEF TimerInterrupt, Schedule, Resumed
    <3>2. currentTask = -1 /\ cpu.ctx = Boot
      BY <2>2
    <3>3. left' = [left EXCEPT ![Boot] = cpu.pos]
      BY <1>4, <3>2 DEF TimerInterrupt
    <3>4. \A t \in Task : left'[t] = left[t]
      BY <3>3 DEF Context
    <3>5. left' \in [Context -> 0 .. MaxPos]
      BY <3>3 DEF CPUState, Context
    <3> QED BY <3>1, <3>4, <3>5 DEF taskVars, Slots, Context, CPUState
  <2> QED BY <2>1, <2>2
<1>5. CASE UNCHANGED vars
  BY <1>5 DEF vars, taskVars, Slots, Context, CPUState
<1> QED BY <1>1, <1>2, <1>3, <1>4, <1>5 DEF Next

(* The index never goes back below zero. *)
LEMMA StepIndex ==
  ASSUME IInv, [Next]_vars, currentTask >= 0
  PROVE  currentTask' >= 0
<1> USE DEF IInv, TypeOK, TaskTableOK
<1>1. CASE \E t \in Task : AddTaskAtBoot(t)
  BY <1>1 DEF AddTaskAtBoot, AddTask, taskVars
<1>2. CASE Activate \/ Execute \/ UNCHANGED vars
  BY <1>2 DEF Activate, Execute, vars, taskVars
<1>3. CASE TimerInterrupt
  BY <1>3, NextTaskInTable DEF TimerInterrupt, Schedule
<1> QED BY <1>1, <1>2, <1>3 DEF Next

(* The task at currentTask is a task. *)
LEMMA RunningInTable == IInv /\ currentTask >= 0 => tasks[currentTask] \in Task
<1> SUFFICES ASSUME IInv, currentTask >= 0 PROVE tasks[currentTask] \in Task
  OBVIOUS
<1>1. numTasks \in Nat /\ currentTask \in -1 .. numTasks - 1
  BY MaxTasksAssumption DEF IInv, TypeOK, TaskTableOK
<1>2. currentTask \in 0 .. numTasks - 1
  BY <1>1
<1> QED BY <1>2 DEF IInv, TypeOK, TaskTableOK

(* The inductive invariant holds in every reachable state. *)
THEOREM Invariance == Spec => []IInv
<1> QED BY InitInv, StepInv, PTL DEF Spec

(* The indices of the task table stay within the slots AddTask wrote, in   *)
(* particular numTasks never passes the capacity of tasks[].               *)
THEOREM TypeCorrect == Spec => []TypeOK
<1>1. IInv => TypeOK
  BY DEF IInv
<1> QED BY <1>1, Invariance, PTL

(* No sequence of switches loses, swaps or overwrites a task's state.      *)
THEOREM StatesIntact == Spec => []SavedStateIntact
<1>1. IInv => SavedStateIntact
  BY DEF IInv
<1> QED BY <1>1, Invariance, PTL

(* currentTask always names the task that is executing.                    *)
THEOREM IndexCorrect == Spec => []IndexNamesRunning
<1>1. IInv => IndexNamesRunning
  BY DEF IInv
<1> QED BY <1>1, Invariance, PTL

(* Every context a timer interrupt resumes continues where it left.        *)
THEOREM Resumption == Spec => ResumesWhereItLeft
<1>1. IInv /\ TimerInterrupt => cpu'.pos = left'[cpu'.ctx]
  <2> SUFFICES ASSUME IInv, TimerInterrupt PROVE cpu'.pos = left'[cpu'.ctx]
    OBVIOUS
  <2>1. CASE numTasks > 0
    BY <2>1, SwitchStates
  <2>2. CASE ~(numTasks > 0)
    <3>1. cpu' = cpu /\ left' = [left EXCEPT ![cpu.ctx] = cpu.pos]
      BY <2>2 DEF TimerInterrupt, Resumed, IInv, TypeOK, TaskTableOK
    <3> QED BY <3>1 DEF IInv, TypeOK, CPUState
  <2> QED BY <2>1, <2>2
<1>2. IInv /\ [Next]_vars => [TimerInterrupt => cpu'.pos = left'[cpu'.ctx]]_vars
  BY <1>1
<1> QED BY <1>2, Invariance, PTL DEF Spec, ResumesWhereItLeft

(* Once a task has run, the boot context never runs again.                 *)
THEOREM BootLeavesForGood == Spec => BootNeverResumes
<1>1. IInv /\ [Next]_vars => (cpu.ctx # Boot => cpu'.ctx # Boot)
  <2> SUFFICES ASSUME IInv, [Next]_vars, cpu.ctx # Boot PROVE cpu'.ctx # Boot
    OBVIOUS
  <2>1. IInv'
    BY StepInv
  <2>2. currentTask >= 0 /\ currentTask' >= 0
    BY StepIndex DEF IInv, IndexNamesRunning, TypeOK, TaskTableOK
  <2>3. cpu'.ctx = tasks'[currentTask']
    BY <2>1, <2>2 DEF IInv, IndexNamesRunning
  <2>4. tasks'[currentTask'] \in Task
    <3>1. (IInv /\ currentTask >= 0 => tasks[currentTask] \in Task)'
      BY RunningInTable, PTL
    <3> QED BY <2>1, <2>2, <3>1
  <2> QED BY <2>3, <2>4, BootAssumption
<1>2. IInv /\ [Next]_vars => [cpu.ctx # Boot => cpu'.ctx # Boot]_vars
  BY <1>1
<1> QED BY <1>2, Invariance, PTL DEF Spec, BootNeverResumes

-----------------------------------------------------------------------------
(***************************************************************************)
(* The table implements the abstract queue: the safety part of             *)
(* ImplementsRoundRobin.  Its fairness stays with TLC.                     *)
(***************************************************************************)

RRSafety == RR!Init /\ [][RR!Next]_(RR!vars)

(* Nothing is scheduled before kernelMain enables interrupts. *)
IdleAtBoot == ~activated => currentTask = -1

LEMMA StepIdleAtBoot ==
  ASSUME IdleAtBoot, [Next]_vars
  PROVE  IdleAtBoot'
<1>1. CASE \E t \in Task : AddTaskAtBoot(t)
  BY <1>1 DEF AddTaskAtBoot, AddTask, taskVars, IdleAtBoot
<1>2. CASE Activate
  BY <1>2 DEF Activate, IdleAtBoot
<1>3. CASE Execute \/ UNCHANGED vars
  BY <1>3 DEF Execute, vars, taskVars, IdleAtBoot
<1>4. CASE TimerInterrupt
  BY <1>4 DEF TimerInterrupt, IdleAtBoot
<1> QED BY <1>1, <1>2, <1>3, <1>4 DEF Next

(* AddTask appends to the queue, or is refused by a full table.            *)
LEMMA AddRefines ==
  ASSUME IInv, IdleAtBoot, NEW t \in Task, AddTaskAtBoot(t)
  PROVE  [RR!Next]_(RR!vars)
<1> USE MaxTasksAssumption
<1>1. CASE numTasks >= MaxTasks
  <2>1. UNCHANGED <<taskVars, cpu, activated>>
    BY <1>1 DEF AddTaskAtBoot, AddTask, IInv, TypeOK, TaskTableOK
  <2> QED BY <2>1 DEF RR!vars, ReadyQueue, taskVars
<1>2. CASE numTasks < MaxTasks
  <2>1. /\ tasks' = [tasks EXCEPT ![numTasks] = t]
        /\ numTasks' = numTasks + 1
        /\ UNCHANGED <<currentTask, cpu, activated>>
    <3>1. numTasks \in Nat /\ ~(numTasks >= MaxTasks)
      BY <1>2 DEF IInv, TypeOK, TaskTableOK
    <3> QED BY <3>1 DEF AddTaskAtBoot, AddTask
  <2>2. currentTask = -1 /\ numTasks \in Nat /\ numTasks \in Slots
        /\ tasks \in [Slots -> Task \cup {NoTask}]
    BY <1>2 DEF IInv, TypeOK, TaskTableOK, IdleAtBoot, AddTaskAtBoot, Slots
  <2>3. /\ ReadyQueue = [i \in 1 .. numTasks |-> tasks[i - 1]]
        /\ ReadyQueue' = [i \in 1 .. numTasks + 1 |-> tasks'[i - 1]]
    BY <2>1, <2>2 DEF ReadyQueue
  <2>4. \A i \in 1 .. numTasks : tasks'[i - 1] = tasks[i - 1]
    BY <2>1, <2>2 DEF Slots
  <2>5. tasks'[numTasks] = t
    BY <2>1, <2>2
  <2>6. Len(ReadyQueue) = numTasks /\ ReadyQueue \in Seq(Task)
    BY <2>2, <2>3 DEF IInv, TypeOK, TaskTableOK
  <2>7. ReadyQueue' = Append(ReadyQueue, t)
    BY <2>2, <2>3, <2>4, <2>5, <2>6
  <2>8. RR!Admit(t)
    BY <1>2, <2>1, <2>6, <2>7 DEF RR!Admit, AddTaskAtBoot
  <2> QED BY <2>8 DEF RR!Next
<1> QED BY <1>1, <1>2 DEF IInv, TypeOK, TaskTableOK

(* A timer interrupt rotates the queue: the table's next index names its   *)
(* head, and the interrupted task is the last one behind it.               *)
LEMMA SwitchRefines ==
  ASSUME IInv, TimerInterrupt, numTasks > 0
  PROVE  [RR!Next]_(RR!vars)
<1> DEFINE n == numTasks
           c == currentTask
<1>1. /\ n \in Nat /\ n > 0 /\ c \in -1 .. n - 1
      /\ \A i \in 0 .. n - 1 : tasks[i] \in Task
  BY MaxTasksAssumption DEF IInv, TypeOK, TaskTableOK
<1>2. NextTask = IF c + 1 = n THEN 0 ELSE c + 1
  BY <1>1, NextTaskIsSuccessor
<1>3. /\ c' = NextTask /\ tasks' = tasks /\ n' = n /\ activated' = activated
      /\ cpu'.ctx = tasks[NextTask]
  BY SwitchStates
<1>4. activated
  BY DEF TimerInterrupt
<1>5. CASE c = -1
  <2>1. cpu.ctx = Boot
    BY <1>5 DEF IInv, IndexNamesRunning
  <2>2. /\ ReadyQueue = [i \in 1 .. n |-> tasks[i - 1]]
        /\ ReadyQueue' = [i \in 1 .. n - 1 |-> tasks[i]]
    <3>1. NextTask = 0
      BY <1>1, <1>2, <1>5
    <3>2. \A i \in 1 .. n - 1 : 0 + i < n /\ 0 + i = i
      BY <1>1
    <3> HIDE DEF n
    <3> QED BY <1>3, <1>5, <3>1, <3>2 DEF ReadyQueue, n
  <2>3. ReadyQueue # <<>> /\ Head(ReadyQueue) = tasks[0]
    BY <1>1, <2>2
  <2>4. ReadyQueue' = Tail(ReadyQueue)
    BY <1>1, <2>2
  <2>5. ReadyQueue' \in Seq(Task)
    BY <1>1, <2>2
  <2>6. RR!Rotate
    BY <1>1, <1>2, <1>3, <1>4, <1>5, <2>1, <2>3, <2>4, <2>5 DEF RR!Rotate
  <2> QED BY <2>6 DEF RR!Next
<1>6. CASE c # -1
  <2>1. c \in 0 .. n - 1 /\ cpu.ctx = tasks[c] /\ cpu.ctx # Boot
    BY <1>1, <1>6, BootAssumption DEF IInv, IndexNamesRunning
  <2>2. ReadyQueue = [i \in 1 .. n - 1 |-> tasks[IF c + i < n THEN c + i ELSE c + i - n]]
    BY <2>1 DEF ReadyQueue
  <2>3. ReadyQueue' = [i \in 1 .. n - 1 |->
                         tasks[IF NextTask + i < n THEN NextTask + i ELSE NextTask + i - n]]
    BY <1>1, <1>2, <1>3 DEF ReadyQueue
  <2>4. CASE n = 1
    BY <1>2, <1>3, <2>1, <2>2, <2>3, <2>4 DEF RR!vars
  <2>5. CASE n # 1
    <3>1. /\ ReadyQueue \in Seq(Task) /\ Len(ReadyQueue) = n - 1
          /\ ReadyQueue # <<>> /\ Head(ReadyQueue) = tasks[NextTask]
      <4>1. n - 1 \in Nat /\ 1 \in 1 .. n - 1
        BY <1>1, <2>5
      <4>2. \A i \in 1 .. n - 1 :
              (IF c + i < n THEN c + i ELSE c + i - n) \in 0 .. n - 1
        BY <1>1, <2>1
      <4>3. ReadyQueue \in Seq(Task) /\ Len(ReadyQueue) = n - 1
        BY <1>1, <2>2, <4>1, <4>2
      <4>4. NextTask = IF c + 1 < n THEN c + 1 ELSE c + 1 - n
        BY <1>1, <1>2, <2>1
      <4>5. ReadyQueue[1] = tasks[NextTask]
        BY <2>2, <4>1, <4>4
      <4> QED BY <4>1, <4>3, <4>5
    <3>2. \A i \in 1 .. n - 2 : ReadyQueue'[i] = ReadyQueue[i + 1]
      <4> SUFFICES ASSUME NEW i \in 1 .. n - 2
                   PROVE  ReadyQueue'[i] = ReadyQueue[i + 1]
        OBVIOUS
      <4> DEFINE old == IF c + (i + 1) < n THEN c + (i + 1) ELSE c + (i + 1) - n
                 new == IF NextTask + i < n THEN NextTask + i ELSE NextTask + i - n
      <4>1. old = new
        BY <1>1, <1>2, <2>1
      <4>2. i \in 1 .. n - 1 /\ i + 1 \in 1 .. n - 1
        BY <1>1
      <4>3. ReadyQueue[i + 1] = tasks[old] /\ ReadyQueue'[i] = tasks[new]
        BY <2>2, <2>3, <4>2
      <4> QED BY <4>1, <4>3
    <3>3. ReadyQueue'[n - 1] = tasks[c]
      <4>1. n - 1 \in 1 .. n - 1
        BY <1>1, <2>5
      <4>2. c = IF NextTask + (n - 1) < n THEN NextTask + (n - 1) ELSE NextTask + (n - 1) - n
        BY <1>1, <1>2, <2>1, <2>5
      <4> QED BY <2>3, <4>1, <4>2
    <3>4. ReadyQueue' \in Seq(Task) /\ Len(ReadyQueue') = n - 1
      BY <1>1, <1>2, <2>1, <2>3, <2>5
    <3>5. ReadyQueue' = Tail(ReadyQueue) \o <<cpu.ctx>>
      BY <1>1, <2>1, <2>5, <3>1, <3>2, <3>3, <3>4
    <3>6. RR!Rotate
      BY <1>3, <1>4, <2>1, <3>1, <3>5 DEF RR!Rotate
    <3> QED BY <3>6 DEF RR!Next
  <2> QED BY <2>4, <2>5
<1> QED BY <1>5, <1>6

(* Every step of the kernel is a step of the abstract queue or leaves it   *)
(* alone.                                                                  *)
THEOREM RoundRobinSafety == Spec => RRSafety
<1>1. Init => RR!Init /\ IdleAtBoot
  BY DEF Init, ConstructTaskManager, RR!Init, ReadyQueue, IdleAtBoot
<1>2. IInv /\ IdleAtBoot /\ [Next]_vars => [RR!Next]_(RR!vars)
  <2> SUFFICES ASSUME IInv, IdleAtBoot, [Next]_vars PROVE [RR!Next]_(RR!vars)
    OBVIOUS
  <2>1. CASE \E t \in Task : AddTaskAtBoot(t)
    BY <2>1, AddRefines
  <2>2. CASE Activate
    BY <2>2 DEF Activate, taskVars, ReadyQueue, RR!Next, RR!Start
  <2>3. CASE Execute
    BY <2>3 DEF Execute, taskVars, ReadyQueue, RR!vars, IInv, TypeOK, CPUState
  <2>4. CASE TimerInterrupt
    <3>1. CASE numTasks > 0
      BY <2>4, <3>1, SwitchRefines
    <3>2. CASE ~(numTasks > 0)
      BY <2>4, <3>2, MaxTasksAssumption
         DEF TimerInterrupt, Schedule, Resumed, taskVars, ReadyQueue, RR!vars,
             IInv, TypeOK, TaskTableOK
    <3> QED BY <3>1, <3>2
  <2>5. CASE UNCHANGED vars
    BY <2>5 DEF vars, taskVars, ReadyQueue, RR!vars
  <2> QED BY <2>1, <2>2, <2>3, <2>4, <2>5 DEF Next
<1>3. IdleAtBoot /\ [Next]_vars => IdleAtBoot'
  BY StepIdleAtBoot
<1> QED BY <1>1, <1>2, <1>3, Invariance, PTL DEF Spec, RRSafety
=============================================================================
