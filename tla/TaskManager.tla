------------------------------ MODULE TaskManager ------------------------------
(***************************************************************************)
(* The task table of src/src/multitasking.cpp: class TaskManager and the   *)
(* saved processor state (cpustate) each Task object carries.              *)
(*                                                                         *)
(* This module holds the two operations only.  Who calls them, and what a  *)
(* processor state looks like, is left to the modules that extend this     *)
(* one: Multitasking takes a processor state to be a context and a program *)
(* position, Interrupts takes it to be a pointer into a stack, as the code *)
(* does.                                                                   *)
(***************************************************************************)
EXTENDS Integers

CONSTANTS
  Task,       \* the Task objects
  MaxTasks,   \* the capacity of tasks[]: 256 in multitasking.h
  NoTask      \* what a slot of tasks[] holds before AddTask writes it

ASSUME MaxTasksAssumption == MaxTasks \in Nat \ {0}
ASSUME NoTaskAssumption   == NoTask \notin Task

VARIABLES
  tasks,        \* Task* tasks[256]
  numTasks,     \* int numTasks
  currentTask,  \* int currentTask, -1 until the first switch
  cpustate      \* Task::cpustate of every Task object

taskVars == <<tasks, numTasks, currentTask, cpustate>>

Slots == 0 .. MaxTasks - 1

(* The constructors: an empty table, and every Task object with the frame  *)
(* entry[t] its constructor builds at the top of its own stack.            *)
ConstructTaskManager(entry) ==
  /\ tasks = [i \in Slots |-> NoTask]
  /\ numTasks = 0
  /\ currentTask = -1
  /\ cpustate = entry

-----------------------------------------------------------------------------

(* Mutant: the capacity check is missing. *)
AddTaskUnchecked(t) ==
  /\ tasks' = [i \in Slots |-> IF i = numTasks THEN t ELSE tasks[i]]
  /\ numTasks' = numTasks + 1
  /\ UNCHANGED <<currentTask, cpustate>>

(* TaskManager::AddTask: false and no effect on a full table. *)
AddTask(t) ==
  \/ /\ numTasks >= MaxTasks
     /\ UNCHANGED taskVars
  \/ /\ numTasks < MaxTasks
     /\ tasks' = [tasks EXCEPT ![numTasks] = t]
     /\ numTasks' = numTasks + 1
     /\ UNCHANGED <<currentTask, cpustate>>

-----------------------------------------------------------------------------

(* Mutant: Schedule stores the interrupted state into the task it is about *)
(* to resume instead of the one that was interrupted.                      *)
SavedIntoNext(cs) ==
  [cpustate EXCEPT ![tasks[(currentTask + 1) % numTasks]] = cs]

(* Mutant: the test currentTask >= 0 is missing, and the state that was    *)
(* running before the first switch lands in the first task.                *)
SavedWithoutTest(cs) ==
  [cpustate EXCEPT ![tasks[IF currentTask < 0 THEN 0 ELSE currentTask]] = cs]

(* The cpustate fields after Schedule's save: the state that was running   *)
(* before the first switch belongs to no task and is dropped.              *)
Saved(cs) ==
  IF currentTask >= 0
  THEN [cpustate EXCEPT ![tasks[currentTask]] = cs]
  ELSE cpustate

(* Mutant: the index runs down instead of up. *)
NextTaskBackwards ==
  IF currentTask <= 0 THEN numTasks - 1 ELSE currentTask - 1

(* Mutant: the wrap restarts at the second task. *)
NextTaskSkipsFirst ==
  IF currentTask + 1 >= numTasks
  THEN IF numTasks > 1 THEN 1 ELSE 0
  ELSE currentTask + 1

(* ++currentTask, wrapped. *)
NextTask ==
  IF currentTask + 1 >= numTasks
  THEN (currentTask + 1) % numTasks
  ELSE currentTask + 1

(* Mutant: the next state is fetched before the running one is saved. *)
ResumedBeforeSave(cs) ==
  IF numTasks <= 0 THEN cs ELSE cpustate[tasks[NextTask]]

(* The processor state Schedule(cs) returns. *)
Resumed(cs) ==
  IF numTasks <= 0 THEN cs ELSE Saved(cs)[tasks[NextTask]]

(* Mutant: the advanced index is used for the return value only. *)
ScheduleKeepsIndex(cs) ==
  /\ cpustate' = IF numTasks <= 0 THEN cpustate ELSE Saved(cs)
  /\ UNCHANGED <<tasks, numTasks, currentTask>>

(* TaskManager::Schedule's effect on the table. *)
Schedule(cs) ==
  \/ /\ numTasks <= 0
     /\ UNCHANGED taskVars
  \/ /\ numTasks > 0
     /\ cpustate' = Saved(cs)
     /\ currentTask' = NextTask
     /\ UNCHANGED <<tasks, numTasks>>

-----------------------------------------------------------------------------

(* The tasks in the order in which Schedule will take them: the abstract   *)
(* queue of RoundRobin.                                                    *)
ReadyQueue ==
  IF currentTask < 0
  THEN [i \in 1 .. numTasks |-> tasks[i - 1]]
  ELSE [i \in 1 .. numTasks - 1 |->
          tasks[IF currentTask + i < numTasks THEN currentTask + i
                ELSE currentTask + i - numTasks]]

InTable(t) == \E i \in 0 .. numTasks - 1 : tasks[i] = t

TaskTableOK(CPUState) ==
  /\ tasks \in [Slots -> Task \cup {NoTask}]
  /\ numTasks \in 0 .. MaxTasks
  /\ currentTask \in -1 .. numTasks - 1
  /\ \A i \in 0 .. numTasks - 1 : tasks[i] \in Task
  /\ cpustate \in [Task -> CPUState]
=============================================================================
