------------------------------ MODULE Multitasking ------------------------------
(***************************************************************************)
(* Preemptive multitasking as kernelMain and the timer interrupt drive it: *)
(* kernelMain fills the task table with interrupts off, activates them,    *)
(* and from then on every timer interrupt passes the interrupted           *)
(* processor state to TaskManager::Schedule and continues with the state   *)
(* it returns.                                                             *)
(*                                                                         *)
(* A processor state is a context (a task, or Boot for kernelMain itself)  *)
(* and a position in its program.  left is a history variable: the         *)
(* position at which each context was last taken off the processor.        *)
(***************************************************************************)
EXTENDS TaskManager, Sequences

CONSTANTS
  Boot,    \* the context of kernelMain
  MaxPos   \* bound: positions are counted modulo MaxPos + 1

ASSUME BootAssumption   == Boot \notin Task
ASSUME MaxPosAssumption == MaxPos \in Nat

VARIABLES
  cpu,        \* the state the processor is in
  left,       \* history: where each context was last preempted
  activated   \* whether kernelMain has enabled interrupts

vars == <<taskVars, cpu, left, activated>>

Context  == Task \cup {Boot}
CPUState == [ctx : Context, pos : 0 .. MaxPos]

(* The frame Task::Task builds: the entry point, with cleared registers. *)
EntryState == [t \in Task |-> [ctx |-> t, pos |-> 0]]

Init ==
  /\ ConstructTaskManager(EntryState)
  /\ cpu = [ctx |-> Boot, pos |-> 0]
  /\ left = [c \in Context |-> 0]
  /\ activated = FALSE

(* kernelMain adds its tasks before it activates interrupts. *)
AddTaskAtBoot(t) ==
  /\ ~activated
  /\ AddTask(t)
  /\ UNCHANGED <<cpu, left, activated>>

Activate ==
  /\ ~activated
  /\ activated' = TRUE
  /\ UNCHANGED <<taskVars, cpu, left>>

(* The running context executes some instructions of its own. *)
Execute ==
  /\ cpu' = [cpu EXCEPT !.pos = (cpu.pos + 1) % (MaxPos + 1)]
  /\ UNCHANGED <<taskVars, left, activated>>

(* Interrupt 0x20: DoHandleInterrupt calls Schedule and the stub switches  *)
(* to the stack it returns.                                                *)
TimerInterrupt ==
  /\ activated
  /\ Schedule(cpu)
  /\ cpu' = Resumed(cpu)
  /\ left' = [left EXCEPT ![cpu.ctx] = cpu.pos]
  /\ UNCHANGED activated

Next ==
  \/ \E t \in Task : AddTaskAtBoot(t)
  \/ Activate
  \/ Execute
  \/ TimerInterrupt

(* The timer chip never stops and no code in the kernel disables           *)
(* interrupts again once kernelMain has enabled them.                      *)
Spec == Init /\ [][Next]_vars /\ WF_vars(TimerInterrupt)

-----------------------------------------------------------------------------

(* Every variable has its type; the indices into the table stay within the *)
(* slots AddTask has written.                                              *)
TypeOK ==
  /\ TaskTableOK(CPUState)
  /\ cpu \in CPUState
  /\ left \in [Context -> 0 .. MaxPos]
  /\ activated \in BOOLEAN

(* The table's index and the processor agree: the task at currentTask is   *)
(* the one executing, and kernelMain executes only while nothing has been  *)
(* scheduled.  Schedule stores the interrupted state by that index.        *)
IndexNamesRunning ==
  /\ currentTask < 0 => cpu.ctx = Boot
  /\ currentTask >= 0 => cpu.ctx = tasks[currentTask]

(* Every task that is off the processor holds in its cpustate exactly the  *)
(* state it was preempted in (or its entry point if it never ran): no      *)
(* sequence of switches loses, swaps or overwrites a task's state.         *)
SavedStateIntact ==
  \A t \in Task : cpu.ctx # t => cpustate[t] = [ctx |-> t, pos |-> left[t]]

(* What every switch does: whichever context a timer interrupt resumes     *)
(* continues at the position it was taken off the processor at.            *)
ResumesWhereItLeft == [][TimerInterrupt => cpu'.pos = left'[cpu'.ctx]]_vars

(* Schedule keeps no state for kernelMain: once a task has run, the boot   *)
(* context (and the drawing loop at its end) never runs again.             *)
BootNeverResumes == [][cpu.ctx # Boot => cpu'.ctx # Boot]_vars

(* Every task in the table gets the processor again and again.             *)
EveryTaskRuns ==
  \A t \in Task : (activated /\ InTable(t)) ~> (cpu.ctx = t)

(* The table, its index and its wrap-around implement the abstract queue.  *)
RR == INSTANCE RoundRobin
        WITH Job <- Task, Idle <- Boot, Capacity <- MaxTasks,
             running <- cpu.ctx, queue <- ReadyQueue, started <- activated

ImplementsRoundRobin == RR!Spec
=============================================================================
