------------------------------- MODULE Interrupts -------------------------------
(***************************************************************************)
(* Interrupt delivery: src/src/hardwarecommunication/interrupts.cpp and    *)
(* interruptstubs.s, the Task frames of multitasking.cpp, and, external to *)
(* the repository, the pair of 8259 controllers and what the processor     *)
(* does on an interrupt and on iret.                                       *)
(*                                                                         *)
(* Stacks are sequences of machine words, pushed at the end.  A word says  *)
(* what it is: the value register reg of context of has at position pos of *)
(* its program.  While the kernel handles an interrupt, eip is a label of  *)
(* the kernel instead; labels carry the interrupt number as their pos.     *)
(***************************************************************************)
EXTENDS TaskManager, SequencesExt

CONSTANTS
  Boot,       \* the context of kernelMain
  Kernel,     \* owner of every word that belongs to no context
  MaxPos,     \* bound: positions are counted modulo MaxPos + 1
  Line,       \* the request lines that have a device: a subset of 0 .. 15
  Glitch,     \* the lines whose request may vanish before it is acknowledged
  Exception   \* the exceptions a context may raise

ASSUME ContextAssumption == Boot \notin Task /\ Kernel \notin Task \cup {Boot}
ASSUME LineAssumption    == Glitch \subseteq Line /\ Line \subseteq 0 .. 15 \ {2}
ASSUME PosAssumption     == MaxPos \in Nat

VARIABLES
  reg,      \* the register file
  esp,      \* the stack pointer: a stack and a depth
  stack,    \* the words on the stack of every context
  calls,    \* HandleInterrupt's activation records on each stack
  active,   \* ActiveInterruptManager # 0
  irr, isr, \* requests latched by, and in service at, the controllers
  left      \* history: where each context was when a timer interrupted it

intVars == <<reg, esp, stack, calls, active, irr, isr, left>>
vars    == <<taskVars, intVars>>

IRQ_BASE                == 32    \* interruptstubs.s
hardwareInterruptOffset == 32    \* the argument kernelMain passes
IRQs     == hardwareInterruptOffset .. hardwareInterruptOffset + 15
Timer    == hardwareInterruptOffset
HasErrorCode == {8, 10, 11, 12, 13, 14, 17}

Context  == Task \cup {Boot}
PushOrder == <<"ebp", "edi", "esi", "edx", "ecx", "ebx", "eax">>
General   == {PushOrder[i] : i \in 1 .. 7}
Register  == General \cup {"eip", "cs", "eflags"}

Word(c, r, p)   == [of |-> c, reg |-> r, pos |-> p]
Label(l, n)     == Word(Kernel, l, n)
Flags(c, p, on) == [of |-> c, reg |-> "eflags", pos |-> p, on |-> on]
Regs(c, p, on)  == [r \in Register |->
                      IF r = "eflags" THEN Flags(c, p, on) ELSE Word(c, r, p)]

Executing == reg["eip"].of # Kernel
At(l)     == reg["eip"].of = Kernel /\ reg["eip"].reg = l
Vector    == reg["eip"].pos
IF_flag   == reg["eflags"].on

(* The CPUState Task::Task leaves at the top of its stack: entry point,    *)
(* selector, eflags 0x202; error, esp and ss are not written.              *)
TaskFrame(t) ==
  <<Label("ss", 0), Label("esp", 0), Flags(t, 0, TRUE), Word(t, "cs", 0),
    Word(t, "eip", 0), Label("error", 0)>>
  \o [i \in 1 .. 7 |-> Word(t, PushOrder[i], 0)]

(* What is left on its stack once a context runs its own code: iret does   *)
(* not pop the ss and esp slots.                                           *)
Base(c) == IF c = Boot THEN 0 ELSE 2

EntryPointer == [t \in Task |-> [stack |-> t, depth |-> Len(TaskFrame(t))]]

Init ==
  /\ ConstructTaskManager(EntryPointer)
  /\ reg = Regs(Boot, 0, FALSE)
  /\ esp = [stack |-> Boot, depth |-> 0]
  /\ stack = [c \in Context |-> IF c = Boot THEN <<>> ELSE TaskFrame(c)]
  /\ calls = [c \in Context |-> <<>>]
  /\ active = FALSE
  /\ irr = {} /\ isr = {}
  /\ left = [c \in Context |-> 0]

-----------------------------------------------------------------------------
(* The controllers: request r is acceptable when nothing of its or of a    *)
(* higher priority is in service.  The slave's requests reach the master   *)
(* on its line 2.                                                          *)

SlaveRequests == {r \in irr : r >= 8 /\ \A s \in isr : s >= 8 => r < s}
MasterRequests ==
  {r \in {l \in irr : l < 8} \cup (IF SlaveRequests = {} THEN {} ELSE {2}) :
     \A s \in isr : s < 8 => r < s}
Granted == LET m == Min(MasterRequests)
           IN  IF m = 2 THEN Min(SlaveRequests) ELSE m

(* A non-specific end of interrupt clears the highest request in service.  *)
EndOfInterrupt(chip) == LET s == isr \cap chip
                        IN  IF s = {} THEN isr ELSE isr \ {Min(s)}

RaiseLine(l) ==
  /\ l \notin irr
  /\ irr' = irr \cup {l}
  /\ UNCHANGED <<taskVars, reg, esp, stack, calls, active, isr, left>>

(* Mutant: the gates are trap gates (0xF), which leave the flag set. *)
EnterByTrapGate(v, error) ==
  /\ stack' = [stack EXCEPT ![esp.stack] = SubSeq(@, 1, esp.depth)
                 \o <<reg["eflags"], reg["cs"], reg["eip"]>> \o error]
  /\ esp' = [esp EXCEPT !.depth = @ + 3 + Len(error)]
  /\ reg' = [reg EXCEPT !["eip"] = Label("stub", v)]

(* The processor enters gate v of the table the constructor filled: every  *)
(* gate is an interrupt gate (0xE), so the flag is cleared.                *)
Enter(v, error) ==
  /\ stack' = [stack EXCEPT ![esp.stack] = SubSeq(@, 1, esp.depth)
                 \o <<reg["eflags"], reg["cs"], reg["eip"]>> \o error]
  /\ esp' = [esp EXCEPT !.depth = @ + 3 + Len(error)]
  /\ reg' = [reg EXCEPT !["eip"] = Label("stub", v), !["eflags"].on = FALSE]

Deliver ==
  /\ IF_flag
  /\ MasterRequests # {}
  /\ Enter(hardwareInterruptOffset + Granted, <<>>)
  /\ irr' = irr \ {Granted}
  /\ isr' = isr \cup {Granted} \cup (IF Granted >= 8 THEN {2} ELSE {})
  /\ UNCHANGED <<taskVars, calls, active, left>>

(* The granted request vanished before the processor acknowledged it: the  *)
(* chip it came from answers with its line 7 and puts nothing in service   *)
(* (the master still has its line 2 in service for the slave).             *)
DeliverSpurious ==
  /\ IF_flag
  /\ MasterRequests # {}
  /\ Granted \in Glitch
  /\ Enter(hardwareInterruptOffset + (IF Granted >= 8 THEN 15 ELSE 7), <<>>)
  /\ irr' = irr \ {Granted}
  /\ isr' = isr \cup (IF Granted >= 8 THEN {2} ELSE {})
  /\ UNCHANGED <<taskVars, calls, active, left>>

(* A context's instruction faults; the processor would have taken a        *)
(* pending request before executing it.                                    *)
RaiseException(e) ==
  /\ Executing
  /\ ~(IF_flag /\ MasterRequests # {})
  /\ Enter(e, IF e \in HasErrorCode THEN <<Label("error", 0)>> ELSE <<>>)
  /\ UNCHANGED <<taskVars, calls, active, irr, isr, left>>

-----------------------------------------------------------------------------
(* interruptstubs.s and DoHandleInterrupt. *)

(* Mutant: the request stubs push no error word either. *)
StubWordsBare(v) == [i \in 1 .. 7 |-> reg[PushOrder[i]]]

(* What the stubs push: IRQ stubs a zero in place of the error code, the   *)
(* exception stubs nothing in its place; then both the registers.          *)
StubWords(v) ==
  (IF v \in IRQs THEN <<Label("error", 0)>> ELSE <<>>)
    \o [i \in 1 .. 7 |-> reg[PushOrder[i]]]

(* From the gate to the call of HandleInterrupt(interruptnumber, esp).     *)
Stub ==
  /\ At("stub")
  /\ LET pushed == StubWords(Vector)
         top    == [esp EXCEPT !.depth = @ + Len(pushed)]
     IN  /\ stack' = [stack EXCEPT ![esp.stack] = SubSeq(@, 1, esp.depth) \o pushed]
         /\ esp' = top
         /\ calls' = [calls EXCEPT ![esp.stack] =
                        Append(@, [interrupt |-> Vector, esp |-> top])]
         /\ reg' = [r \in Register |->
                      IF r \in General THEN Label("clobbered", 0)
                      ELSE IF r = "eip" THEN Label("dispatch", Vector) ELSE reg[r]]
  /\ UNCHANGED <<taskVars, active, irr, isr, left>>

Call    == Last(calls[esp.stack])
Goto(l) == reg' = [reg EXCEPT !["eip"] = Label(l, Vector)]

(* Where the stub's pops and iret find each register below the pointer     *)
(* HandleInterrupt returned: the layout of struct CPUState.  The word at 7 *)
(* (error) is skipped.                                                     *)
Offset == [eax |-> 0, ebx |-> 1, ecx |-> 2, edx |-> 3, esi |-> 4, edi |-> 5,
           ebp |-> 6, eip |-> 8, cs |-> 9, eflags |-> 10]

WordAt(p, i) == IF p.depth - i \in DOMAIN stack[p.stack]
                THEN stack[p.stack][p.depth - i]
                ELSE Label("below", 0)

(* What register r will hold once the running handler, if any, returns. *)
Interrupted(r) ==
  IF Executing THEN reg[r]
  ELSE IF At("stub")
       THEN WordAt(esp, Offset[r] - 8 + (IF Vector \in HasErrorCode THEN 1 ELSE 0))
       ELSE WordAt(Call.esp, Offset[r])

(* No manager is active: nothing is done, nothing is acknowledged. *)
HandleInactive ==
  /\ At("dispatch")
  /\ ~active
  /\ Goto("return")
  /\ UNCHANGED <<taskVars, esp, stack, calls, active, irr, isr, left>>

(* Mutant: the pointer Schedule returns is not assigned to esp. *)
HandleTimerOnSameStack ==
  /\ At("dispatch") /\ active /\ Vector = Timer
  /\ Schedule(Call.esp)
  /\ left' = [left EXCEPT ![Interrupted("eip").of] = Interrupted("eip").pos]
  /\ Goto("acknowledge")
  /\ UNCHANGED <<esp, stack, calls, active, irr, isr>>

(* Vector hardwareInterruptOffset: esp = taskManager->Schedule(esp). *)
HandleTimer ==
  /\ At("dispatch") /\ active /\ Vector = Timer
  /\ Schedule(Call.esp)
  /\ calls' = [calls EXCEPT ![esp.stack] =
                 Append(Front(@), [Last(@) EXCEPT !.esp = Resumed(Call.esp)])]
  /\ left' = [left EXCEPT ![Interrupted("eip").of] = Interrupted("eip").pos]
  /\ Goto("acknowledge")
  /\ UNCHANGED <<esp, stack, active, irr, isr>>

(* Every other vector: the drivers' handlers return the esp they are       *)
(* given, and a vector without a handler is only reported.                 *)
HandleOther ==
  /\ At("dispatch") /\ active /\ Vector # Timer
  /\ Goto(IF Vector \in IRQs THEN "acknowledge" ELSE "return")
  /\ UNCHANGED <<taskVars, esp, stack, calls, active, irr, isr, left>>

(* Mutant: the slave is acknowledged instead of both chips. *)
AcknowledgeOne ==
  /\ At("acknowledge")
  /\ isr' = EndOfInterrupt(IF Vector >= hardwareInterruptOffset + 8 THEN 8 .. 15 ELSE 0 .. 7)
  /\ Goto("return")
  /\ UNCHANGED <<taskVars, esp, stack, calls, active, irr, left>>

AcknowledgeMaster ==
  /\ At("acknowledge")
  /\ isr' = EndOfInterrupt(0 .. 7)
  /\ Goto(IF Vector >= hardwareInterruptOffset + 8 THEN "acknowledgeSlave" ELSE "return")
  /\ UNCHANGED <<taskVars, esp, stack, calls, active, irr, left>>

AcknowledgeSlave ==
  /\ At("acknowledgeSlave")
  /\ isr' = EndOfInterrupt(8 .. 15)
  /\ Goto("return")
  /\ UNCHANGED <<taskVars, esp, stack, calls, active, irr, left>>

(* mov %eax, %esp; the pops; add $4, %esp; iret. *)
Return ==
  /\ At("return")
  /\ LET p == Call.esp
     IN  /\ reg' = [r \in Register |-> WordAt(p, Offset[r])]
         /\ esp' = [p EXCEPT !.depth = @ - 11]
         /\ stack' = [stack EXCEPT ![p.stack] = SubSeq(@, 1, p.depth - 11)]
  /\ calls' = [calls EXCEPT ![esp.stack] = Front(@)]
  /\ UNCHANGED <<taskVars, active, irr, isr, left>>

-----------------------------------------------------------------------------
(* The contexts. *)

Execute ==
  /\ Executing
  /\ reg' = Regs(reg["eip"].of, (reg["eip"].pos + 1) % (MaxPos + 1), IF_flag)
  /\ UNCHANGED <<taskVars, esp, stack, calls, active, irr, isr, left>>

(* kernelMain: AddTask, later interrupts.Activate(), whose two statements  *)
(* are two actions.                                                        *)
InKernelMain == Executing /\ reg["eip"].of = Boot /\ ~IF_flag

AddTaskAtBoot(t) ==
  /\ InKernelMain /\ ~active
  /\ AddTask(t)
  /\ UNCHANGED intVars

SetActiveManager ==
  /\ InKernelMain /\ ~active
  /\ active' = TRUE
  /\ UNCHANGED <<taskVars, reg, esp, stack, calls, irr, isr, left>>

Sti ==
  /\ InKernelMain /\ active
  /\ reg' = [reg EXCEPT !["eflags"].on = TRUE]
  /\ UNCHANGED <<taskVars, esp, stack, calls, active, irr, isr, left>>

HandlerStep ==
  \/ Stub
  \/ HandleInactive
  \/ HandleTimer
  \/ HandleOther
  \/ AcknowledgeMaster
  \/ AcknowledgeSlave
  \/ Return

Next ==
  \/ \E l \in Line : RaiseLine(l)
  \/ Deliver
  \/ DeliverSpurious
  \/ \E e \in Exception : RaiseException(e)
  \/ HandlerStep
  \/ Execute
  \/ \E t \in Task : AddTaskAtBoot(t)
  \/ SetActiveManager
  \/ Sti

(* The processor takes an accepted request and runs handlers to their end; *)
(* the timer chip raises line 0 forever.  Nothing is assumed of the other  *)
(* devices or of the contexts.                                             *)
Spec == /\ Init /\ [][Next]_vars
        /\ WF_vars(RaiseLine(0)) /\ WF_vars(Deliver) /\ WF_vars(HandlerStep)

-----------------------------------------------------------------------------

Pointer == [stack : Context, depth : 0 .. 13]

TypeOK ==
  /\ TaskTableOK(Pointer)
  /\ DOMAIN reg = Register
  /\ esp \in Pointer
  /\ DOMAIN stack = Context /\ \A c \in Context : Len(stack[c]) <= 13
  /\ DOMAIN calls = Context /\ \A c \in Context : Len(calls[c]) <= 1
  /\ active \in BOOLEAN
  /\ irr \subseteq Line /\ isr \subseteq Line \cup {2}
  /\ left \in [Context -> 0 .. MaxPos]

(* Whenever a context runs its own code, every register the processor      *)
(* holds is that context's own, all from one position of its program, its  *)
(* stack pointer is where it was, and interrupts are on once kernelMain    *)
(* has activated them: the frames the stubs push, the ones Task::Task      *)
(* builds and the pops at the end of int_bottom agree word by word.        *)
ContextIntact ==
  Executing =>
    LET c == reg["eip"].of
        p == reg["eip"].pos
    IN  /\ c \in Context
        /\ \E on \in BOOLEAN : reg = Regs(c, p, on) /\ (c # Boot => on)
        /\ esp = [stack |-> c, depth |-> Base(c)]

(* With interrupts on, no request is in service: every one that was taken  *)
(* has been acknowledged at each controller involved, in time for the next *)
(* request of any priority to be accepted.                                 *)
NothingLeftInService == Executing /\ IF_flag => isr = {}

(* An acknowledgement never ends the service of a request other than the   *)
(* one the handler was entered for, although the commands the kernel sends *)
(* do not name a request.                                                  *)
AcknowledgesItsOwn ==
  [][isr' \subseteq isr =>
       isr \ isr' \subseteq {Vector - hardwareInterruptOffset}
                            \cup (IF Vector - hardwareInterruptOffset >= 8 THEN {2} ELSE {})]_vars

Abstract(w) == [ctx |-> w.of, pos |-> w.pos]

(* The state a task's cpustate points at.  The frame of the task that runs *)
(* is off its stack, and what it held is in left.                          *)
AbstractState(t) ==
  IF Interrupted("eip").of = t THEN [ctx |-> t, pos |-> left[t]]
  ELSE Abstract(WordAt(cpustate[t], Offset["eip"]))

(* Stubs, frames and pointers implement the switch of whole processor      *)
(* states that Multitasking describes, and the timer is always answered.   *)
M == INSTANCE Multitasking
       WITH cpu       <- Abstract(Interrupted("eip")),
            cpustate  <- [t \in Task |-> AbstractState(t)],
            activated <- Interrupted("eflags").on

ImplementsMultitasking == M!Spec
=============================================================================
