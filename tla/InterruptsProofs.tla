---------------------------- MODULE InterruptsProofs ----------------------------
(***************************************************************************)
(* Proofs about Interrupts, for every set of tasks, every table size, any  *)
(* number of program positions, every set of lines that have a device and  *)
(* every set of them that glitch.                                          *)
(*                                                                         *)
(* The theorems are about contexts that raise only exceptions for which    *)
(* the processor pushes an error code (ErrorCodes).  For the others the    *)
(* frame the stubs leave is a word short: the run exceptions shows what    *)
(* they do to ContextIntact.                                               *)
(***************************************************************************)
EXTENDS Interrupts, SequenceTheorems, TLAPS

ErrorCodes == Exception \subseteq HasErrorCode

Labels == {"stub", "dispatch", "acknowledge", "acknowledgeSlave", "return",
           "ss", "esp", "error", "clobbered"}
Words == [of : Context \cup {Kernel}, reg : Register \cup Labels, pos : Nat]
           \cup [of : Context \cup {Kernel}, reg : {"eflags"}, pos : Nat, on : BOOLEAN]

(* The depth at which the frame of an interrupted context ends. *)
Top(c) == Base(c) + 11

(* On the stack of c lies the frame from which c continues at position p.  *)
FrameOn(c, p, on) ==
  \A r \in Register : /\ Top(c) - Offset[r] \in 1 .. Len(stack[c])
                      /\ stack[c][Top(c) - Offset[r]] = Regs(c, p, on)[r]

(* A task off the processor: its cpustate points at its frame. *)
Parked(t) ==
  /\ cpustate[t] = [stack |-> t, depth |-> 13]
  /\ Len(stack[t]) = 13 /\ FrameOn(t, left[t], TRUE)

(* The table, when c is the context on the processor or interrupted. *)
Tables(c) ==
  /\ TaskTableOK(Pointer)
  /\ currentTask < 0 => c = Boot
  /\ currentTask >= 0 => c = tasks[currentTask]
  /\ \A t \in Task \ {c} : Parked(t)
  /\ left \in [Context -> 0 .. MaxPos]

(* Registers and stacks. *)
Storage ==
  /\ reg \in [Register -> Words]
  /\ stack \in [Context -> Seq(Words)] /\ \A x \in Context : Len(stack[x]) <= 13
  /\ esp \in Pointer /\ Len(stack[esp.stack]) = esp.depth

Signals ==
  active \in BOOLEAN /\ irr \subseteq Line /\ isr \subseteq Line \cup {2}

NoCalls == calls = [x \in Context |-> <<>>]

(* What is in service before the first acknowledgement: the request the    *)
(* handler was entered for, unless it was spurious, and line 2 for those   *)
(* of the slave.                                                           *)
Served(v) ==
  \/ v \notin IRQs /\ isr = {}
  \/ v \in 32 .. 39 /\ (isr = {v - 32} \/ isr = {})
  \/ v \in 40 .. 47 /\ (isr = {2, v - 32} \/ isr = {2})

(* c runs its own code. *)
Own(c, p, on) ==
  reg = Regs(c, p, on) /\ esp = [stack |-> c, depth |-> Base(c)] /\ NoCalls /\ isr = {}

(* The processor has entered gate v: three words or four are pushed. *)
InStub(c, p, on, v) ==
  /\ reg = [Regs(c, p, FALSE) EXCEPT !["eip"] = Label("stub", v)]
  /\ esp = [stack |-> c, depth |-> Base(c) + (IF v \in IRQs THEN 3 ELSE 4)]
  /\ stack[c][Base(c) + 1] = Flags(c, p, on)
  /\ stack[c][Base(c) + 2] = Word(c, "cs", p)
  /\ stack[c][Base(c) + 3] = Word(c, "eip", p)
  /\ NoCalls
  /\ v \in IRQs => on
  /\ Served(v)

(* The handler of v runs on the stack of e, and will return to c. *)
InHandler(c, p, on, v, e) ==
  /\ ~IF_flag
  /\ esp = [stack |-> e, depth |-> Top(e)]
  /\ calls = [x \in Context |->
       IF x = e THEN <<[interrupt |-> v, esp |-> [stack |-> c, depth |-> Top(c)]]>> ELSE <<>>]
  /\ FrameOn(c, p, on) /\ Len(stack[c]) = Top(c)
  /\ v \in IRQs => on
  /\ \/ reg["eip"] = Label("dispatch", v) /\ e = c /\ Served(v)
     \/ reg["eip"] = Label("acknowledge", v) /\ v \in IRQs /\ Served(v)
     \/ reg["eip"] = Label("acknowledgeSlave", v) /\ v \in 40 .. 47 /\ isr \subseteq {v - 32}
     \/ reg["eip"] = Label("return", v) /\ isr = {}

Phase(c, p, on) ==
  \/ Own(c, p, on)
  \/ \E v \in Exception \cup IRQs : InStub(c, p, on, v)
  \/ \E v \in Exception \cup IRQs, e \in Context : InHandler(c, p, on, v, e)

(* c at position p is what runs, or will when the handler returns, with    *)
(* interrupts on or off.                                                   *)
Inv(c, p, on) ==
  /\ Tables(c) /\ Storage /\ Signals
  /\ c # Boot => on
  /\ on => active
  /\ Phase(c, p, on)

IInv == \E c \in Context, p \in 0 .. MaxPos, on \in BOOLEAN : Inv(c, p, on)

-----------------------------------------------------------------------------
(* Registers, words and frames.                                            *)

LEMMA GeneralIs == General = {"ebp", "edi", "esi", "edx", "ecx", "ebx", "eax"}
<1>1. General = {PushOrder[1], PushOrder[2], PushOrder[3], PushOrder[4], PushOrder[5],
                 PushOrder[6], PushOrder[7]}
  BY DEF General
<1> QED BY <1>1 DEF PushOrder

LEMMA RegisterIs ==
  Register = {"ebp", "edi", "esi", "edx", "ecx", "ebx", "eax", "eip", "cs", "eflags"}
BY GeneralIs DEF Register

LEMMA OffsetIs ==
  /\ Offset["eax"] = 0 /\ Offset["ebx"] = 1 /\ Offset["ecx"] = 2 /\ Offset["edx"] = 3
  /\ Offset["esi"] = 4 /\ Offset["edi"] = 5 /\ Offset["ebp"] = 6
  /\ Offset["eip"] = 8 /\ Offset["cs"] = 9 /\ Offset["eflags"] = 10
BY DEF Offset

LEMMA BaseIs == \A c \in Context : Base(c) \in {0, 2} /\ (c \in Task => Base(c) = 2)
BY ContextAssumption DEF Context, Base

LEMMA RegsAre ==
  ASSUME NEW c \in Context, NEW p \in 0 .. MaxPos, NEW on \in BOOLEAN
  PROVE  /\ Regs(c, p, on) \in [Register -> Words]
         /\ \A r \in Register : r # "eflags" => Regs(c, p, on)[r] = Word(c, r, p)
         /\ Regs(c, p, on)["eflags"] = Flags(c, p, on)
         /\ Flags(c, p, on).on = on
         /\ Regs(c, p, on)["eip"].of = c /\ Regs(c, p, on)["eip"].pos = p /\ c # Kernel
<1>1. p \in Nat
  BY PosAssumption
<1>2. Flags(c, p, on) \in Words /\ Flags(c, p, on).on = on
  BY <1>1 DEF Flags, Words
<1>3. \A r \in Register : Word(c, r, p) \in Words
  BY <1>1 DEF Word, Words
<1>4. \A r \in Register : r # "eflags" => Regs(c, p, on)[r] = Word(c, r, p)
  BY DEF Regs
<1>5. Regs(c, p, on)["eflags"] = Flags(c, p, on)
  BY RegisterIs DEF Regs
<1>6. Regs(c, p, on) \in [Register -> Words]
  BY <1>2, <1>3 DEF Regs
<1>7. Regs(c, p, on)["eip"] = Word(c, "eip", p)
  BY <1>4, RegisterIs
<1> QED BY <1>2, <1>4, <1>5, <1>6, <1>7, ContextAssumption DEF Word, Context

LEMMA LabelWord ==
  ASSUME NEW l \in Labels, NEW n \in Nat
  PROVE  Label(l, n) \in Words /\ Label(l, n).of = Kernel /\ Label(l, n).reg = l /\ Label(l, n).pos = n
BY DEF Label, Word, Words

(* The frame word by word. *)
LEMMA FrameWords ==
  ASSUME NEW c \in Context, NEW p \in 0 .. MaxPos, NEW on \in BOOLEAN,
         Len(stack[c]) = Top(c),
         stack[c][Base(c) + 1] = Flags(c, p, on),
         stack[c][Base(c) + 2] = Word(c, "cs", p),
         stack[c][Base(c) + 3] = Word(c, "eip", p),
         \A i \in 1 .. 7 : stack[c][Base(c) + 4 + i] = Word(c, PushOrder[i], p)
  PROVE  FrameOn(c, p, on)
<1> SUFFICES ASSUME NEW r \in Register
             PROVE  /\ Top(c) - Offset[r] \in 1 .. Len(stack[c])
                    /\ stack[c][Top(c) - Offset[r]] = Regs(c, p, on)[r]
  BY DEF FrameOn
<1>0. Base(c) \in {0, 2} /\ Top(c) = Base(c) + 11 /\ Len(stack[c]) = Base(c) + 11
  BY BaseIs DEF Top
<1>1. /\ r # "eflags" => Regs(c, p, on)[r] = Word(c, r, p)
      /\ r = "eflags" => Regs(c, p, on)[r] = Flags(c, p, on)
  BY RegsAre
<1>2. ASSUME NEW i \in 1 .. 7, r = PushOrder[i], Offset[r] = 7 - i, r # "eflags"
      PROVE  /\ Top(c) - Offset[r] \in 1 .. Len(stack[c])
             /\ stack[c][Top(c) - Offset[r]] = Regs(c, p, on)[r]
  <2>1. Top(c) - Offset[r] = Base(c) + 4 + i
    BY <1>0, <1>2
  <2>2. Base(c) + 4 + i \in 1 .. Base(c) + 11
    BY <1>0
  <2> QED BY <1>0, <1>1, <1>2, <2>1, <2>2
<1>3. CASE r = "eip"
  <2>1. Top(c) - Offset[r] = Base(c) + 3
    BY <1>0, <1>3, OffsetIs
  <2>2. Base(c) + 3 \in 1 .. Base(c) + 11
    BY <1>0
  <2> QED BY <1>0, <1>1, <1>3, <2>1, <2>2
<1>4. CASE r = "cs"
  <2>1. Top(c) - Offset[r] = Base(c) + 2
    BY <1>0, <1>4, OffsetIs
  <2>2. Base(c) + 2 \in 1 .. Base(c) + 11
    BY <1>0
  <2> QED BY <1>0, <1>1, <1>4, <2>1, <2>2
<1>5. CASE r = "eflags"
  <2>1. Top(c) - Offset[r] = Base(c) + 1
    BY <1>0, <1>5, OffsetIs
  <2>2. Base(c) + 1 \in 1 .. Base(c) + 11
    BY <1>0
  <2> QED BY <1>0, <1>1, <1>5, <2>1, <2>2
<1>6. CASE r \in General
  <2>1. PICK i \in 1 .. 7 : r = PushOrder[i]
    BY <1>6 DEF General
  <2>2. Offset[r] = 7 - i /\ r # "eflags"
    BY <2>1, OffsetIs DEF PushOrder
  <2> QED BY <1>2, <2>1, <2>2
<1> QED BY <1>3, <1>4, <1>5, <1>6 DEF Register

WordsMakeFrames ==
  \A x \in Context, q \in 0 .. MaxPos, o \in BOOLEAN :
    ( /\ Len(stack[x]) = Top(x)
      /\ stack[x][Base(x) + 1] = Flags(x, q, o)
      /\ stack[x][Base(x) + 2] = Word(x, "cs", q)
      /\ stack[x][Base(x) + 3] = Word(x, "eip", q)
      /\ \A i \in 1 .. 7 : stack[x][Base(x) + 4 + i] = Word(x, PushOrder[i], q) )
    => FrameOn(x, q, o)

LEMMA FramesAre == WordsMakeFrames
BY FrameWords DEF WordsMakeFrames

(* Pushing words u at depth d. *)
LEMMA Push ==
  ASSUME NEW W, NEW s \in Seq(W), NEW d \in 0 .. Len(s), NEW u \in Seq(W)
  PROVE  /\ SubSeq(s, 1, d) \o u \in Seq(W)
         /\ Len(SubSeq(s, 1, d) \o u) = d + Len(u)
         /\ \A i \in 1 .. d : (SubSeq(s, 1, d) \o u)[i] = s[i]
         /\ \A i \in 1 .. Len(u) : (SubSeq(s, 1, d) \o u)[d + i] = u[i]
OBVIOUS

LEMMA LastCall ==
  ASSUME NEW x
  PROVE  Last(<<x>>) = x /\ Front(<<x>>) = <<>> /\ Append(<<>>, x) = <<x>>
BY DEF Last, Front

LEMMA MinSingle == ASSUME NEW x \in Int PROVE Min({x}) = x
BY DEF Min

LEMMA MinIn ==
  ASSUME NEW S \in SUBSET (0 .. 15), S # {}
  PROVE  Min(S) \in S
<1> SUFFICES \E x \in S : \A y \in S : x <= y
  BY DEF Min
<1> SUFFICES ASSUME \A x \in S : \E y \in S : y < x PROVE FALSE
  OBVIOUS
<1>1. 0 \notin S /\ 1 \notin S /\ 2 \notin S /\ 3 \notin S
  OBVIOUS
<1>2. 4 \notin S /\ 5 \notin S /\ 6 \notin S /\ 7 \notin S
  BY <1>1
<1>3. 8 \notin S /\ 9 \notin S /\ 10 \notin S /\ 11 \notin S
  BY <1>1, <1>2
<1>4. 12 \notin S /\ 13 \notin S /\ 14 \notin S /\ 15 \notin S
  BY <1>1, <1>2, <1>3
<1>5. PICK x \in S : x \in 0 .. 15
  OBVIOUS
<1> QED BY <1>1, <1>2, <1>3, <1>4, <1>5

-----------------------------------------------------------------------------
(* What each phase shows of the interrupted context.                       *)

LEMMA VectorIs ==
  ASSUME ErrorCodes, NEW v \in Exception \cup IRQs
  PROVE  v \in Nat /\ (v \in HasErrorCode <=> v \notin IRQs)
BY DEF ErrorCodes, HasErrorCode, IRQs, hardwareInterruptOffset

LEMMA OwnIs ==
  ASSUME NEW c \in Context, NEW p \in 0 .. MaxPos, NEW on \in BOOLEAN, Own(c, p, on)
  PROVE  /\ Executing /\ \A l \in Labels : ~At(l)
         /\ reg["eip"] = Word(c, "eip", p) /\ reg["cs"] = Word(c, "cs", p)
         /\ reg["eflags"] = Flags(c, p, on) /\ IF_flag = on
         /\ reg["eip"].of = c /\ reg["eip"].pos = p
BY RegsAre, RegisterIs DEF Own, Executing, At, IF_flag

LEMMA StubIs ==
  ASSUME ErrorCodes, NEW c \in Context, NEW p \in 0 .. MaxPos, NEW on \in BOOLEAN,
         NEW v \in Exception \cup IRQs, InStub(c, p, on, v)
  PROVE  /\ ~Executing /\ Vector = v /\ IF_flag = FALSE
         /\ \A l \in Labels : At(l) <=> l = "stub"
         /\ \A i \in 1 .. 7 : reg[PushOrder[i]] = Word(c, PushOrder[i], p)
<1>1. v \in Nat
  BY VectorIs
<1>2. reg["eip"] = Label("stub", v)
  BY RegsAre, RegisterIs DEF InStub
<1>3. /\ Label("stub", v).of = Kernel /\ Label("stub", v).reg = "stub"
      /\ Label("stub", v).pos = v
  BY DEF Label, Word
<1>4. reg["eflags"] = Flags(c, p, FALSE) /\ Flags(c, p, FALSE).on = FALSE
  <2>1. Regs(c, p, FALSE)["eflags"] = Flags(c, p, FALSE) /\ "eflags" \in Register
    BY RegisterIs DEF Regs
  <2>2. DOMAIN Regs(c, p, FALSE) = Register
    BY DEF Regs
  <2>3. Flags(c, p, FALSE).on = FALSE
    BY DEF Flags
  <2> QED BY <2>1, <2>2, <2>3 DEF InStub
<1>5. ASSUME NEW i \in 1 .. 7 PROVE reg[PushOrder[i]] = Word(c, PushOrder[i], p)
  <2>1. PushOrder[i] \in Register /\ PushOrder[i] # "eip" /\ PushOrder[i] # "eflags"
    BY GeneralIs DEF General, Register
  <2>2. Regs(c, p, FALSE)[PushOrder[i]] = Word(c, PushOrder[i], p)
    BY <2>1 DEF Regs
  <2> QED BY <2>1, <2>2 DEF InStub, Regs
<1> QED BY <1>2, <1>3, <1>4, <1>5 DEF Executing, Vector, IF_flag, At

LEMMA HandlerIs ==
  ASSUME NEW c \in Context, NEW p \in 0 .. MaxPos, NEW on \in BOOLEAN,
         NEW v \in Nat, NEW e \in Context, InHandler(c, p, on, v, e)
  PROVE  /\ ~Executing /\ Vector = v /\ ~IF_flag /\ ~At("stub")
         /\ At("dispatch") => e = c /\ Served(v)
         /\ At("acknowledge") => v \in IRQs /\ Served(v)
         /\ At("acknowledgeSlave") => v \in 40 .. 47 /\ isr \subseteq {v - 32}
         /\ At("return") => isr = {}
<1>1. /\ reg["eip"].of = Kernel /\ reg["eip"].pos = v /\ reg["eip"].reg # "stub"
      /\ reg["eip"].reg = "dispatch" => e = c /\ Served(v)
      /\ reg["eip"].reg = "acknowledge" => v \in IRQs /\ Served(v)
      /\ reg["eip"].reg = "acknowledgeSlave" => v \in 40 .. 47 /\ isr \subseteq {v - 32}
      /\ reg["eip"].reg = "return" => isr = {}
  BY DEF InHandler, Label, Word
<1> QED BY <1>1 DEF Executing, At, Vector, InHandler

LEMMA HandlerCall ==
  ASSUME NEW c \in Context, NEW p, NEW on, NEW v, NEW e \in Context, InHandler(c, p, on, v, e)
  PROVE  /\ calls[e] = <<[interrupt |-> v, esp |-> [stack |-> c, depth |-> Top(c)]]>>
         /\ Call = [interrupt |-> v, esp |-> [stack |-> c, depth |-> Top(c)]]
         /\ Call.esp = [stack |-> c, depth |-> Top(c)]
<1>1. calls[e] = <<[interrupt |-> v, esp |-> [stack |-> c, depth |-> Top(c)]]>> /\ esp.stack = e
  BY DEF InHandler
<1>2. Call = [interrupt |-> v, esp |-> [stack |-> c, depth |-> Top(c)]]
  BY <1>1, LastCall DEF Call
<1> QED BY <1>1, <1>2

LEMMA FrameSeen ==
  ASSUME NEW c \in Context, NEW p, NEW on, FrameOn(c, p, on),
         stack \in [Context -> Seq(Words)]
  PROVE  \A r \in Register :
           WordAt([stack |-> c, depth |-> Top(c)], Offset[r]) = Regs(c, p, on)[r]
<1>1. DOMAIN stack[c] = 1 .. Len(stack[c])
  BY LenProperties
<1> QED BY <1>1 DEF FrameOn, WordAt

(* The two registers the refinement looks at. *)
LEMMA Sees ==
  ASSUME ErrorCodes
  PROVE  \A c \in Context, p \in 0 .. MaxPos, on \in BOOLEAN :
           Inv(c, p, on) => /\ Interrupted("eip") = Word(c, "eip", p)
                            /\ Interrupted("eflags") = Flags(c, p, on)
<1> SUFFICES ASSUME NEW c \in Context, NEW p \in 0 .. MaxPos, NEW on \in BOOLEAN, Inv(c, p, on)
             PROVE  /\ Interrupted("eip") = Word(c, "eip", p)
                    /\ Interrupted("eflags") = Flags(c, p, on)
  OBVIOUS
<1>1. CASE Own(c, p, on)
  BY <1>1, OwnIs DEF Interrupted
<1>2. ASSUME NEW v \in Exception \cup IRQs, InStub(c, p, on, v)
      PROVE  /\ Interrupted("eip") = Word(c, "eip", p)
             /\ Interrupted("eflags") = Flags(c, p, on)
  <2> DEFINE x == IF Vector \in HasErrorCode THEN 1 ELSE 0
  <2>1. ~Executing /\ At("stub") /\ Vector = v
    BY <1>2, StubIs DEF Labels
  <2>2. x = IF v \in IRQs THEN 0 ELSE 1
    BY <2>1, VectorIs
  <2>3. esp.stack = c /\ esp.depth = Base(c) + 3 + x /\ x \in {0, 1}
    BY <1>2, <2>2, BaseIs DEF InStub
  <2> HIDE DEF x
  <2>4. Base(c) \in {0, 2} /\ Len(stack[c]) = Base(c) + 3 + x
    BY <2>3, BaseIs DEF Inv, Storage
  <2>5. DOMAIN stack[c] = 1 .. Base(c) + 3 + x
    BY <2>4, LenProperties DEF Inv, Storage
  <2>6. WordAt(esp, 0 + x) = stack[c][Base(c) + 3] /\ WordAt(esp, 2 + x) = stack[c][Base(c) + 1]
    <3>1. /\ esp.depth - (0 + x) = Base(c) + 3 /\ esp.depth - (2 + x) = Base(c) + 1
          /\ Base(c) + 3 \in 1 .. Base(c) + 3 + x /\ Base(c) + 1 \in 1 .. Base(c) + 3 + x
      <4>1. PICK b \in {0, 2} : Base(c) = b
        BY <2>4
      <4>2. PICK y \in {0, 1} : x = y
        BY <2>3
      <4> QED BY <2>3, <4>1, <4>2
    <3> QED BY <2>3, <2>5, <3>1 DEF WordAt
  <2>7. Offset["eip"] - 8 + x = 0 + x /\ Offset["eflags"] - 8 + x = 2 + x
    BY <2>3, OffsetIs
  <2> QED BY <1>2, <2>1, <2>6, <2>7 DEF Interrupted, InStub, x
<1>3. ASSUME NEW v \in Exception \cup IRQs, NEW e \in Context, InHandler(c, p, on, v, e)
      PROVE  /\ Interrupted("eip") = Word(c, "eip", p)
             /\ Interrupted("eflags") = Flags(c, p, on)
  <2>1. v \in Nat
    BY VectorIs
  <2>2. ~Executing /\ ~At("stub") /\ Call.esp = [stack |-> c, depth |-> Top(c)]
    BY <1>3, <2>1, HandlerIs, HandlerCall
  <2>3. \A r \in Register : WordAt(Call.esp, Offset[r]) = Regs(c, p, on)[r]
    BY <1>3, <2>2, FrameSeen DEF InHandler, Inv, Storage
  <2> QED BY <2>2, <2>3, RegsAre, RegisterIs DEF Interrupted
<1> QED BY <1>1, <1>2, <1>3 DEF Inv, Phase

-----------------------------------------------------------------------------
(* Entering a handler. *)

LEMMA TablesKept ==
  ASSUME NEW c \in Context, Tables(c), UNCHANGED <<taskVars, left>>,
         \A x \in Context \ {c} : stack'[x] = stack[x]
  PROVE  Tables(c)'
<1>1. \A t \in Task \ {c} : stack'[t] = stack[t]
  BY DEF Context
<1> QED BY <1>1 DEF Tables, TaskTableOK, Parked, FrameOn, taskVars

LEMMA Concat ==
  ASSUME NEW W, NEW s \in Seq(W), NEW u \in Seq(W)
  PROVE  /\ s \o u \in Seq(W) /\ Len(s \o u) = Len(s) + Len(u)
         /\ \A i \in 1 .. Len(s) : (s \o u)[i] = s[i]
         /\ \A i \in 1 .. Len(u) : (s \o u)[Len(s) + i] = u[i]
OBVIOUS

LEMMA PushThree ==
  ASSUME NEW W, NEW s \in Seq(W), NEW d \in 0 .. Len(s), NEW a \in W, NEW b \in W, NEW e \in W
  PROVE  /\ SubSeq(s, 1, d) \o <<a, b, e>> \in Seq(W)
         /\ Len(SubSeq(s, 1, d) \o <<a, b, e>>) = d + 3
         /\ (SubSeq(s, 1, d) \o <<a, b, e>>)[d + 1] = a
         /\ (SubSeq(s, 1, d) \o <<a, b, e>>)[d + 2] = b
         /\ (SubSeq(s, 1, d) \o <<a, b, e>>)[d + 3] = e
OBVIOUS

LEMMA FlagsSet ==
  ASSUME NEW c, NEW p, NEW on
  PROVE  \A off \in BOOLEAN : [Flags(c, p, on) EXCEPT !.on = off] = Flags(c, p, off)
BY DEF Flags

(* What entering gate v pushes: three words of the context, and an error   *)
(* code when k is 4.                                                       *)
Pushed(c, p, on, v, k) ==
  /\ reg' = [Regs(c, p, FALSE) EXCEPT !["eip"] = Label("stub", v)]
  /\ esp' = [stack |-> c, depth |-> Base(c) + k]
  /\ stack'[c][Base(c) + 1] = Flags(c, p, on)
  /\ stack'[c][Base(c) + 2] = Word(c, "cs", p)
  /\ stack'[c][Base(c) + 3] = Word(c, "eip", p)
  /\ \A x \in Context \ {c} : stack'[x] = stack[x]

LEMMA Entered ==
  ASSUME NEW c \in Context, NEW p \in 0 .. MaxPos, NEW on \in BOOLEAN, NEW v \in Nat,
         NEW k \in {3, 4}, NEW error \in Seq(Words), Len(error) = k - 3,
         Own(c, p, on), Storage, Enter(v, error)
  PROVE  Storage' /\ Pushed(c, p, on, v, k)
<1> DEFINE s1 == SubSeq(stack[c], 1, Base(c)) \o <<reg["eflags"], reg["cs"], reg["eip"]>>
<1>1. /\ reg["eflags"] = Flags(c, p, on) /\ reg["cs"] = Word(c, "cs", p)
      /\ reg["eip"] = Word(c, "eip", p) /\ esp = [stack |-> c, depth |-> Base(c)]
  BY OwnIs DEF Own
<1>2. reg["eflags"] \in Words /\ reg["cs"] \in Words /\ reg["eip"] \in Words
  BY RegisterIs DEF Storage
<1>4. stack[c] \in Seq(Words) /\ Len(stack[c]) = Base(c) /\ Base(c) \in {0, 2} /\ Base(c) \in 0 .. Len(stack[c])
  BY <1>1, BaseIs DEF Storage
<1>5. /\ s1 \in Seq(Words) /\ Len(s1) = Base(c) + 3
      /\ s1[Base(c) + 1] = Flags(c, p, on) /\ s1[Base(c) + 2] = Word(c, "cs", p)
      /\ s1[Base(c) + 3] = Word(c, "eip", p)
  <2>1. /\ s1 \in Seq(Words) /\ Len(s1) = Base(c) + 3
        /\ s1[Base(c) + 1] = reg["eflags"] /\ s1[Base(c) + 2] = reg["cs"]
        /\ s1[Base(c) + 3] = reg["eip"]
    <3>1. PICK s \in Seq(Words) : s = stack[c]
      BY <1>4
    <3>2. PICK d \in 0 .. Len(s) : d = Base(c)
      BY <1>4, <3>1
    <3>3. PICK a \in Words, b \in Words, e \in Words :
            a = reg["eflags"] /\ b = reg["cs"] /\ e = reg["eip"]
      BY <1>2
    <3>4. /\ SubSeq(s, 1, d) \o <<a, b, e>> \in Seq(Words)
          /\ Len(SubSeq(s, 1, d) \o <<a, b, e>>) = d + 3
          /\ (SubSeq(s, 1, d) \o <<a, b, e>>)[d + 1] = a
          /\ (SubSeq(s, 1, d) \o <<a, b, e>>)[d + 2] = b
          /\ (SubSeq(s, 1, d) \o <<a, b, e>>)[d + 3] = e
      BY PushThree
    <3> QED BY <3>1, <3>2, <3>3, <3>4
  <2> HIDE DEF s1
  <2> QED BY <1>1, <2>1
<1> HIDE DEF s1
<1> DEFINE s2 == s1 \o error
<1>6. /\ s2 \in Seq(Words) /\ Len(s2) = Base(c) + k
      /\ s2[Base(c) + 1] = Flags(c, p, on) /\ s2[Base(c) + 2] = Word(c, "cs", p)
      /\ s2[Base(c) + 3] = Word(c, "eip", p)
  <2>1. /\ s2 \in Seq(Words) /\ Len(s2) = Len(s1) + Len(error)
        /\ \A i \in 1 .. Len(s1) : s2[i] = s1[i]
    BY <1>5, Concat
  <2> HIDE DEF s2
  <2>2. /\ Base(c) + 1 \in 1 .. Base(c) + 3 /\ Base(c) + 2 \in 1 .. Base(c) + 3
        /\ Base(c) + 3 \in 1 .. Base(c) + 3
    BY <1>4
  <2>3. Len(s2) = Base(c) + k
    BY <1>4, <1>5, <2>1
  <2> QED BY <1>5, <2>1, <2>2, <2>3
<1>7. stack' = [stack EXCEPT ![c] = s2] /\ esp' = [esp EXCEPT !.depth = esp.depth + 3 + Len(error)]
  BY <1>1 DEF Enter, s2, s1
<1> HIDE DEF s2
<1>8. esp' = [stack |-> c, depth |-> Base(c) + k]
  <2>1. Base(c) + 3 + Len(error) = Base(c) + k
    BY <1>4
  <2> QED BY <1>1, <1>7, <2>1
<1>9. reg' = [Regs(c, p, FALSE) EXCEPT !["eip"] = Label("stub", v)]
  <2>1. reg = Regs(c, p, on)
    BY DEF Own
  <2>2. reg' = [reg EXCEPT !["eip"] = Label("stub", v), !["eflags"].on = FALSE]
    BY DEF Enter
  <2>3. /\ DOMAIN reg' = Register /\ reg'["eip"] = Label("stub", v)
        /\ reg'["eflags"] = [Flags(c, p, on) EXCEPT !.on = FALSE]
        /\ \A r \in Register : r # "eip" /\ r # "eflags" => reg'[r] = Word(c, r, p)
    BY <1>1, <2>1, <2>2, RegisterIs DEF Regs
  <2>4. [Flags(c, p, on) EXCEPT !.on = FALSE] = Flags(c, p, FALSE)
    BY FlagsSet, Zenon
  <2>5. \A r \in Register : reg'[r] = [Regs(c, p, FALSE) EXCEPT !["eip"] = Label("stub", v)][r]
    BY <2>3, <2>4, RegisterIs DEF Regs
  <2>6. reg' = [r \in Register |-> reg'[r]]
    BY <2>2, <2>1 DEF Regs
  <2>7. DOMAIN [Regs(c, p, FALSE) EXCEPT !["eip"] = Label("stub", v)] = Register
    BY DEF Regs
  <2> QED BY <2>3, <2>5, <2>6, <2>7 DEF Regs
<1>10. Storage'
  <2>1. reg' \in [Register -> Words]
    <3>1. FALSE \in BOOLEAN /\ "stub" \in Labels
      BY DEF Labels
    <3>2. Regs(c, p, FALSE) \in [Register -> Words] /\ Label("stub", v) \in Words
      BY <3>1, RegsAre, LabelWord
    <3> QED BY <1>9, <3>2
  <2>2. stack' \in [Context -> Seq(Words)] /\ \A x \in Context : Len(stack'[x]) <= 13
    BY <1>4, <1>6, <1>7 DEF Storage
  <2>3. esp' \in Pointer /\ esp'.stack = c /\ esp'.depth = Base(c) + k
    BY <1>4, <1>8 DEF Pointer
  <2>4. Len(stack'[c]) = Base(c) + k
    BY <1>6, <1>7 DEF Storage
  <2> QED BY <2>1, <2>2, <2>3, <2>4 DEF Storage
<1> QED BY <1>6, <1>7, <1>8, <1>9, <1>10 DEF Storage, Pushed

LEMMA GrantedIs ==
  ASSUME irr \subseteq Line, MasterRequests # {}
  PROVE  Granted \in irr /\ Granted \in Line /\ Granted \in 0 .. 15
<1> DEFINE m == Min(MasterRequests)
<1>1. irr \subseteq 0 .. 15 /\ 2 \notin irr
  BY LineAssumption
<1>2. MasterRequests \in SUBSET (0 .. 15)
  <2>1. {l \in irr : l < 8} \subseteq 0 .. 15
    BY <1>1
  <2>2. (IF SlaveRequests = {} THEN {} ELSE {2}) \subseteq 0 .. 15
    OBVIOUS
  <2> QED BY <2>1, <2>2 DEF MasterRequests
<1>3. m \in MasterRequests
  BY <1>2, MinIn
<1>4. CASE m # 2
  <2>1. Granted = m
    BY <1>4 DEF Granted
  <2>2. m \in irr
    BY <1>3, <1>4 DEF MasterRequests
  <2> QED BY <1>1, <2>1, <2>2
<1>5. CASE m = 2
  <2>1. SlaveRequests # {} /\ SlaveRequests \subseteq irr
    BY <1>1, <1>3, <1>5 DEF MasterRequests, SlaveRequests
  <2>2. SlaveRequests \in SUBSET (0 .. 15)
    BY <1>1, <2>1
  <2>3. Min(SlaveRequests) \in irr
    BY <2>1, <2>2, MinIn
  <2>4. Granted = Min(SlaveRequests)
    BY <1>5 DEF Granted
  <2> QED BY <1>1, <2>3, <2>4
<1> QED BY <1>4, <1>5, LineAssumption

LEMMA EnterStep ==
  ASSUME NEW c \in Context, NEW p \in 0 .. MaxPos, NEW on \in BOOLEAN,
         Inv(c, p, on), Own(c, p, on), NEW v \in Nat, v \in Exception \cup IRQs,
         NEW k \in {3, 4}, k = (IF v \in IRQs THEN 3 ELSE 4),
         NEW error \in Seq(Words), Len(error) = k - 3, Enter(v, error),
         UNCHANGED <<taskVars, calls, active, left>>,
         Signals', Served(v)', v \in IRQs => on
  PROVE  Inv(c, p, on)'
<1>1. Storage /\ Own(c, p, on) /\ Enter(v, error) /\ Len(error) = k - 3
  BY DEF Inv
<1>2. Storage' /\ Pushed(c, p, on, v, k)
  BY <1>1, Entered
<1>3. Tables(c)'
  BY <1>2, TablesKept DEF Inv, Pushed
<1>4. NoCalls'
  BY DEF Own, NoCalls
<1>5. InStub(c, p, on, v)'
  BY <1>2, <1>4 DEF InStub, Pushed
<1> QED BY <1>2, <1>3, <1>5 DEF Inv, Phase

LEMMA ErrorWord == <<>> \in Seq(Words) /\ <<Label("error", 0)>> \in Seq(Words)
<1>1. Label("error", 0) \in Words
  BY LabelWord DEF Labels
<1> QED BY <1>1

LEMMA Taken ==
  ASSUME ErrorCodes, NEW c \in Context, NEW p \in 0 .. MaxPos, NEW on \in BOOLEAN,
         Inv(c, p, on),
         Deliver \/ DeliverSpurious \/ \E e \in Exception : RaiseException(e)
  PROVE  Inv(c, p, on)'
<1>0. Own(c, p, on)
  <2>1. Executing \/ IF_flag
    BY DEF Deliver, DeliverSpurious, RaiseException
  <2>2. ASSUME NEW v \in Exception \cup IRQs, InStub(c, p, on, v) PROVE FALSE
    BY <2>1, <2>2, StubIs
  <2>3. ASSUME NEW v \in Exception \cup IRQs, NEW e \in Context, InHandler(c, p, on, v, e) PROVE FALSE
    BY <2>1, <2>3, HandlerIs, VectorIs
  <2> QED BY <2>2, <2>3 DEF Inv, Phase
<1>1. /\ IF_flag = on /\ isr = {} /\ Signals /\ irr \subseteq Line /\ active \in BOOLEAN
      /\ Executing
  BY <1>0, OwnIs DEF Own, Inv, Signals
<1>2. ASSUME NEW v \in IRQs, Enter(v, <<>>), on, Served(v)', Signals',
             UNCHANGED <<taskVars, calls, active, left>>
      PROVE  Inv(c, p, on)'
  <2>1. v \in Nat /\ v \in Exception \cup IRQs /\ 3 = (IF v \in IRQs THEN 3 ELSE 4)
        /\ Len(<<>>) = 3 - 3
    BY DEF IRQs, hardwareInterruptOffset
  <2> QED BY <1>0, <1>2, <2>1, EnterStep, ErrorWord
<1>3. CASE Deliver
  <2>1. PICK g \in 0 .. 15 : g = Granted /\ g \in Line
    BY <1>1, <1>3, GrantedIs DEF Deliver
  <2>2. /\ 32 + g \in IRQs /\ Enter(32 + g, <<>>) /\ on
        /\ isr' = {g} \cup (IF g >= 8 THEN {2} ELSE {})
        /\ irr' \subseteq irr
    BY <1>1, <1>3, <2>1 DEF Deliver, IRQs, hardwareInterruptOffset
  <2>3. Served(32 + g)'
    <3>1. CASE g >= 8
      <4>1. 32 + g \in 40 .. 47 /\ (32 + g) - 32 = g
        BY <2>1, <3>1
      <4> QED BY <2>2, <3>1, <4>1 DEF Served
    <3>2. CASE g < 8
      <4>1. 32 + g \in 32 .. 39 /\ (32 + g) - 32 = g /\ ~(g >= 8)
        BY <2>1, <3>2
      <4> QED BY <2>2, <4>1 DEF Served
    <3> QED BY <2>1, <3>1, <3>2
  <2>4. Signals' /\ UNCHANGED <<taskVars, calls, active, left>>
    BY <1>1, <1>3, <2>1, <2>2 DEF Signals, Deliver
  <2> QED BY <1>2, <2>2, <2>3, <2>4
<1>4. CASE DeliverSpurious
  <2>1. PICK g \in 0 .. 15 : g = Granted
    BY <1>1, <1>4, GrantedIs DEF DeliverSpurious
  <2>2. PICK v : v = 32 + (IF g >= 8 THEN 15 ELSE 7)
    OBVIOUS
  <2>3. /\ v \in IRQs /\ Enter(v, <<>>) /\ on
        /\ isr' = IF g >= 8 THEN {2} ELSE {}
        /\ irr' \subseteq irr
    BY <1>1, <1>4, <2>1, <2>2 DEF DeliverSpurious, IRQs, hardwareInterruptOffset
  <2>4. Served(v)'
    BY <2>1, <2>2, <2>3 DEF Served
  <2>5. Signals' /\ UNCHANGED <<taskVars, calls, active, left>>
    BY <1>1, <1>4, <2>1, <2>3 DEF Signals, DeliverSpurious
  <2> QED BY <1>2, <2>3, <2>4, <2>5
<1>5. ASSUME NEW v \in Exception, RaiseException(v) PROVE Inv(c, p, on)'
  <2>1. v \in HasErrorCode /\ v \notin IRQs /\ v \in Exception \cup IRQs /\ v \in Nat
        /\ 4 = (IF v \in IRQs THEN 3 ELSE 4)
    BY VectorIs DEF ErrorCodes
  <2>2. /\ Enter(v, <<Label("error", 0)>>)
        /\ UNCHANGED <<taskVars, calls, active, irr, isr, left>>
    BY <1>5, <2>1 DEF RaiseException
  <2>3. Served(v)' /\ Signals'
    BY <1>1, <2>1, <2>2 DEF Served, Signals
  <2>4. Len(<<Label("error", 0)>>) = 4 - 3 /\ (v \in IRQs => on)
    BY <2>1
  <2> QED BY <1>0, <2>1, <2>2, <2>3, <2>4, EnterStep, ErrorWord
<1> QED BY <1>3, <1>4, <1>5

-----------------------------------------------------------------------------
(* The stub. *)

LEMMA StubWordsAre ==
  ASSUME Storage, NEW v, NEW k \in {3, 4}, k = (IF v \in IRQs THEN 3 ELSE 4)
  PROVE  /\ StubWords(v) \in Seq(Words) /\ Len(StubWords(v)) = 11 - k
         /\ \A i \in 1 .. 7 : StubWords(v)[4 - k + i] = reg[PushOrder[i]]
<1> DEFINE w == [i \in 1 .. 7 |-> reg[PushOrder[i]]]
           z == IF v \in IRQs THEN <<Label("error", 0)>> ELSE <<>>
<1>1. \A i \in 1 .. 7 : reg[PushOrder[i]] \in Words
  BY DEF Storage, Register, General
<1>2. w \in Seq(Words) /\ Len(w) = 7 /\ \A i \in 1 .. 7 : w[i] = reg[PushOrder[i]]
  <2>1. w \in [1 .. 7 -> Words]
    BY <1>1
  <2>2. w \in Seq(Words)
    BY <2>1
  <2>3. Len(w) = 7
    BY <2>2, LenProperties
  <2> QED BY <2>2, <2>3
<1>3. z \in Seq(Words) /\ Len(z) = 4 - k
  BY ErrorWord
<1>4. StubWords(v) = z \o w
  BY DEF StubWords
<1> HIDE DEF w, z
<1>5. /\ z \o w \in Seq(Words) /\ Len(z \o w) = Len(z) + Len(w)
      /\ \A i \in 1 .. Len(w) : (z \o w)[Len(z) + i] = w[i]
  <2>1. z \in Seq(Words) /\ w \in Seq(Words)
    BY <1>2, <1>3
  <2> QED BY ONLY <2>1, Concat
<1>6. (4 - k) + 7 = 11 - k
  OBVIOUS
<1> QED BY <1>2, <1>3, <1>4, <1>5, <1>6

LEMMA StubStep ==
  ASSUME ErrorCodes, NEW c \in Context, NEW p \in 0 .. MaxPos, NEW on \in BOOLEAN,
         Inv(c, p, on), Stub
  PROVE  Inv(c, p, on)'
<1>1. PICK v \in Exception \cup IRQs : InStub(c, p, on, v)
  <2>1. At("stub") /\ "stub" \in Labels
    BY DEF Stub, Labels
  <2>2. ~Own(c, p, on)
    BY <2>1, OwnIs
  <2>3. ASSUME NEW v \in Exception \cup IRQs, NEW e \in Context, InHandler(c, p, on, v, e) PROVE FALSE
    BY <2>1, <2>3, HandlerIs, VectorIs
  <2> QED BY <2>2, <2>3 DEF Inv, Phase
<1> DEFINE w == StubWords(v)
           s == SubSeq(stack[c], 1, Len(stack[c])) \o w
<1>2. /\ Vector = v /\ v \in Nat
      /\ \A i \in 1 .. 7 : reg[PushOrder[i]] = Word(c, PushOrder[i], p)
  BY <1>1, StubIs, VectorIs
<1>3. PICK k \in {3, 4} : k = (IF v \in IRQs THEN 3 ELSE 4)
  OBVIOUS
<1>4. /\ esp = [stack |-> c, depth |-> Base(c) + k] /\ Base(c) \in {0, 2}
      /\ Len(stack[c]) = Base(c) + k /\ stack[c] \in Seq(Words) /\ Storage
  BY <1>1, <1>3, BaseIs DEF InStub, Inv, Storage
<1>5. /\ w \in Seq(Words) /\ Len(w) = 11 - k
      /\ \A i \in 1 .. 7 : w[4 - k + i] = Word(c, PushOrder[i], p)
  BY <1>2, <1>3, <1>4, StubWordsAre
<1>6. /\ stack' = [stack EXCEPT ![c] = s]
      /\ esp' = [esp EXCEPT !.depth = esp.depth + Len(w)]
      /\ calls' = [calls EXCEPT ![c] = Append(calls[c], [interrupt |-> v, esp |-> esp'])]
      /\ reg' = [r \in Register |->
                   IF r \in General THEN Label("clobbered", 0)
                   ELSE IF r = "eip" THEN Label("dispatch", v) ELSE reg[r]]
      /\ UNCHANGED <<taskVars, active, irr, isr, left>>
  BY <1>2, <1>4 DEF Stub
<1> HIDE DEF w
<1>7. /\ s \in Seq(Words) /\ Len(s) = Top(c)
      /\ \A i \in 1 .. Base(c) + k : s[i] = stack[c][i]
      /\ \A i \in 1 .. 7 : s[Base(c) + 4 + i] = Word(c, PushOrder[i], p)
  <2>1. PICK b \in {0, 2} : Base(c) = b
    BY <1>4
  <2>2. PICK t \in Seq(Words) : t = stack[c] /\ Len(t) = b + k
    BY <1>4, <2>1
  <2>3. PICK u \in Seq(Words) : u = w /\ Len(u) = 11 - k
    BY <1>5
  <2>4. (b + k) + (11 - k) = b + 11
    OBVIOUS
  <2>0. PICK d \in 0 .. Len(t) : d = b + k
    BY <2>2
  <2>5. /\ SubSeq(t, 1, d) \o u \in Seq(Words)
        /\ Len(SubSeq(t, 1, d) \o u) = d + Len(u)
        /\ \A i \in 1 .. d : (SubSeq(t, 1, d) \o u)[i] = t[i]
        /\ \A i \in 1 .. Len(u) : (SubSeq(t, 1, d) \o u)[d + i] = u[i]
    BY Push
  <2>6. s = SubSeq(t, 1, d) \o u
    BY <2>2, <2>3, <2>0
  <2> HIDE DEF s
  <2>7. ASSUME NEW i \in 1 .. 7 PROVE s[b + 4 + i] = Word(c, PushOrder[i], p)
    <3>1. 4 - k + i \in 1 .. 11 - k /\ b + k + (4 - k + i) = b + 4 + i
      OBVIOUS
    <3>2. s[b + k + (4 - k + i)] = u[4 - k + i]
      BY <2>0, <2>3, <2>5, <2>6, <3>1
    <3> QED BY <1>5, <2>3, <3>1, <3>2
  <2>8. Len(s) = b + 11
    BY <2>0, <2>3, <2>4, <2>5, <2>6
  <2> QED BY <2>0, <2>1, <2>2, <2>5, <2>6, <2>7, <2>8 DEF Top
<1> HIDE DEF s
<1>8. /\ stack'[c] = s /\ \A x \in Context \ {c} : stack'[x] = stack[x]
      /\ stack' \in [Context -> Seq(Words)]
      /\ \A x \in Context : Len(stack'[x]) <= 13
  <2>1. Top(c) <= 13
    BY <1>4 DEF Top
  <2> QED BY <1>4, <1>6, <1>7, <2>1 DEF Storage
<1>9. esp' = [stack |-> c, depth |-> Top(c)] /\ esp' \in Pointer
  <2>1. (Base(c) + k) + Len(w) = Top(c) /\ Top(c) \in 0 .. 13
    <3>1. PICK b \in {0, 2} : Base(c) = b
      BY <1>4
    <3> QED BY <1>5, <3>1 DEF Top
  <2>2. esp' = [stack |-> c, depth |-> (Base(c) + k) + Len(w)]
    BY <1>4, <1>6
  <2> QED BY <2>1, <2>2 DEF Pointer
<1>10. FrameOn(c, p, on)'
  <2>1. /\ s[Base(c) + 1] = Flags(c, p, on) /\ s[Base(c) + 2] = Word(c, "cs", p)
        /\ s[Base(c) + 3] = Word(c, "eip", p)
    <3>1. /\ Base(c) + 1 \in 1 .. Base(c) + k /\ Base(c) + 2 \in 1 .. Base(c) + k
          /\ Base(c) + 3 \in 1 .. Base(c) + k
      BY <1>4
    <3> QED BY <1>1, <1>7, <3>1 DEF InStub
  <2>2. WordsMakeFrames'
    BY FramesAre, PTL
  <2> QED BY <1>7, <1>8, <2>1, <2>2 DEF WordsMakeFrames
<1>11. calls' = [x \in Context |->
         IF x = c THEN <<[interrupt |-> v, esp |-> [stack |-> c, depth |-> Top(c)]]>> ELSE <<>>]
  <2>1. calls[c] = <<>> /\ calls = [x \in Context |-> <<>>]
    BY <1>1 DEF InStub, NoCalls
  <2>2. Append(<<>>, [interrupt |-> v, esp |-> esp']) = <<[interrupt |-> v, esp |-> esp']>>
    BY LastCall
  <2> QED BY <1>6, <1>9, <2>1, <2>2
<1>12. reg' \in [Register -> Words] /\ reg'["eip"] = Label("dispatch", v) /\ ~IF_flag'
  <2>1. Label("dispatch", v) \in Words /\ Label("clobbered", 0) \in Words
    BY <1>2, LabelWord DEF Labels
  <2>2. "eip" \notin General /\ "eflags" \notin General
    BY GeneralIs
  <2>3. reg'["eflags"] = reg["eflags"] /\ ~IF_flag
    BY <1>1, <1>6, <2>2, RegisterIs, StubIs
  <2> QED BY <1>4, <1>6, <2>1, <2>2, <2>3, RegisterIs DEF Storage, IF_flag
<1>13. Tables(c)' /\ Storage' /\ Signals'
  <2>1. Tables(c)'
    BY <1>6, <1>8, TablesKept DEF Inv
  <2>2. Storage'
    BY <1>7, <1>8, <1>9, <1>12 DEF Storage
  <2> QED BY <1>6, <2>1, <2>2 DEF Inv, Signals
<1>14. InHandler(c, p, on, v, c)'
  <2>1. Served(v)' /\ (v \in IRQs => on)
    BY <1>1, <1>6 DEF InStub, Served
  <2> QED BY <1>7, <1>8, <1>9, <1>10, <1>11, <1>12, <2>1 DEF InHandler
<1> QED BY <1>6, <1>13, <1>14 DEF Inv, Phase

-----------------------------------------------------------------------------
(* HandleInterrupt and its acknowledgements. *)

LEMMA HandlerRuns ==
  ASSUME ErrorCodes, NEW c \in Context, NEW p \in 0 .. MaxPos, NEW on \in BOOLEAN,
         Inv(c, p, on), NEW l \in Labels \ {"stub"}, At(l)
  PROVE  \E v \in Exception \cup IRQs, e \in Context : v \in Nat /\ InHandler(c, p, on, v, e)
<1>1. ~Own(c, p, on)
  BY OwnIs
<1>2. ASSUME NEW v \in Exception \cup IRQs, InStub(c, p, on, v) PROVE FALSE
  BY <1>2, StubIs
<1> QED BY <1>1, <1>2, VectorIs DEF Inv, Phase

(* A step of the handler that neither switches nor returns. *)
LEMMA HandlerMoves ==
  ASSUME NEW c \in Context, NEW p \in 0 .. MaxPos, NEW on \in BOOLEAN, Inv(c, p, on),
         NEW v \in Nat, v \in Exception \cup IRQs, NEW e \in Context,
         InHandler(c, p, on, v, e),
         NEW l \in Labels, Goto(l), isr' \subseteq isr,
         UNCHANGED <<taskVars, esp, stack, calls, active, irr, left>>,
         \/ l = "acknowledge" /\ v \in IRQs /\ Served(v)'
         \/ l = "acknowledgeSlave" /\ v \in 40 .. 47 /\ isr' \subseteq {v - 32}
         \/ l = "return" /\ isr' = {}
  PROVE  Inv(c, p, on)'
<1>1. Vector = v /\ ~IF_flag
  BY HandlerIs
<1>2. reg' = [reg EXCEPT !["eip"] = Label(l, v)] /\ Label(l, v) \in Words
  BY <1>1, LabelWord DEF Goto
<1>3. reg' \in [Register -> Words] /\ reg'["eip"] = Label(l, v) /\ ~IF_flag'
  BY <1>1, <1>2, RegisterIs DEF Inv, Storage, IF_flag
<1>4. Tables(c)'
  BY TablesKept DEF Inv
<1>5. Storage' /\ Signals'
  BY <1>3 DEF Inv, Storage, Signals
<1>6. FrameOn(c, p, on)'
  BY DEF InHandler, FrameOn
<1>7. InHandler(c, p, on, v, e)'
  BY <1>3, <1>6 DEF InHandler
<1> QED BY <1>4, <1>5, <1>7 DEF Inv, Phase

(* The first acknowledgement ends the service of the request itself, or of *)
(* line 2, and leaves nothing else in service at the master.               *)
LEMMA MasterEnds ==
  ASSUME NEW v \in Nat, v \in IRQs, Served(v)
  PROVE  /\ EndOfInterrupt(0 .. 7) \subseteq isr
         /\ v \in 32 .. 39 => EndOfInterrupt(0 .. 7) = {} /\ isr \subseteq {v - 32}
         /\ v \in 40 .. 47 => EndOfInterrupt(0 .. 7) = isr \ {2} /\ isr \subseteq {2, v - 32}
<1>1. CASE v \in 32 .. 39 /\ isr = {v - 32}
  <2>1. isr \cap (0 .. 7) = {v - 32} /\ v - 32 \in Int
    <3>1. PICK g \in 0 .. 7 : g = v - 32
      BY <1>1
    <3>2. isr = {g}
      BY <1>1, <3>1
    <3>3. {g} \cap (0 .. 7) = {g}
      OBVIOUS
    <3>4. g \in Int
      OBVIOUS
    <3> QED BY ONLY <3>1, <3>2, <3>3, <3>4
  <2>2. Min({v - 32}) = v - 32
    BY <2>1, MinSingle
  <2>3. EndOfInterrupt(0 .. 7) = isr \ {v - 32}
    BY <2>1, <2>2 DEF EndOfInterrupt
  <2> QED BY <1>1, <2>3
<1>2. CASE isr = {}
  <2>1. EndOfInterrupt(0 .. 7) = {}
    BY <1>2 DEF EndOfInterrupt
  <2> QED BY <1>2, <2>1
<1>3. CASE v \in 40 .. 47 /\ (isr = {2, v - 32} \/ isr = {2})
  <2>1. isr \cap (0 .. 7) = {2}
    BY <1>3
  <2>2. Min({2}) = 2
    BY MinSingle
  <2>3. EndOfInterrupt(0 .. 7) = isr \ {2}
    BY <2>1, <2>2 DEF EndOfInterrupt
  <2> QED BY <1>3, <2>3
<1> QED BY <1>1, <1>2, <1>3 DEF Served

LEMMA SlaveEnds ==
  ASSUME NEW v \in 40 .. 47, isr \subseteq {v - 32}
  PROVE  EndOfInterrupt(8 .. 15) = {}
<1>1. CASE isr = {v - 32}
  <2>1. isr \cap (8 .. 15) = {v - 32} /\ v - 32 \in Int
    <3>1. PICK g \in 8 .. 15 : g = v - 32
      OBVIOUS
    <3>2. isr = {g}
      BY <1>1, <3>1
    <3>3. {g} \cap (8 .. 15) = {g}
      OBVIOUS
    <3>4. g \in Int
      OBVIOUS
    <3> QED BY ONLY <3>1, <3>2, <3>3, <3>4
  <2>2. Min({v - 32}) = v - 32
    BY <2>1, MinSingle
  <2> QED BY <1>1, <2>1, <2>2 DEF EndOfInterrupt
<1>2. CASE isr = {}
  BY <1>2 DEF EndOfInterrupt
<1> QED BY <1>1, <1>2

LEMMA HandleStep ==
  ASSUME ErrorCodes, NEW c \in Context, NEW p \in 0 .. MaxPos, NEW on \in BOOLEAN,
         Inv(c, p, on),
         HandleInactive \/ HandleOther \/ AcknowledgeMaster \/ AcknowledgeSlave
  PROVE  Inv(c, p, on)'
<1>1. PICK v \in Exception \cup IRQs, e \in Context : v \in Nat /\ InHandler(c, p, on, v, e)
  <2>1. At("dispatch") \/ At("acknowledge") \/ At("acknowledgeSlave")
    BY DEF HandleInactive, HandleOther, AcknowledgeMaster, AcknowledgeSlave
  <2> QED BY <2>1, HandlerRuns DEF Labels
<1>2. /\ Vector = v
      /\ At("dispatch") => e = c /\ Served(v)
      /\ At("acknowledge") => v \in IRQs /\ Served(v)
      /\ At("acknowledgeSlave") => v \in 40 .. 47 /\ isr \subseteq {v - 32}
  BY <1>1, HandlerIs
<1>3. "acknowledge" \in Labels /\ "acknowledgeSlave" \in Labels /\ "return" \in Labels
  BY DEF Labels
<1>4. CASE HandleInactive
  <2>1. v \notin IRQs
    BY <1>1, <1>4 DEF HandleInactive, Inv, InHandler
  <2>2. isr = {}
    BY <1>2, <1>4, <2>1 DEF HandleInactive, Served, IRQs, hardwareInterruptOffset
  <2>3. /\ Goto("return") /\ isr' = {} /\ isr' \subseteq isr
        /\ UNCHANGED <<taskVars, esp, stack, calls, active, irr, left>>
    BY <1>4, <2>2 DEF HandleInactive
  <2> QED BY <1>1, <1>3, <2>3, HandlerMoves
<1>5. CASE HandleOther
  <2>1. /\ Served(v) /\ isr' = isr
        /\ UNCHANGED <<taskVars, esp, stack, calls, active, irr, left>>
    BY <1>2, <1>5 DEF HandleOther
  <2>2. CASE v \in IRQs
    <3>1. Goto("acknowledge") /\ Served(v)'
      BY <1>2, <1>5, <2>1, <2>2 DEF HandleOther, Served
    <3> QED BY <1>1, <1>3, <2>1, <2>2, <3>1, HandlerMoves
  <2>3. CASE v \notin IRQs
    <3>1. Goto("return") /\ isr = {}
      BY <1>2, <1>5, <2>1, <2>3 DEF HandleOther, Served, IRQs, hardwareInterruptOffset
    <3> QED BY <1>1, <1>3, <2>1, <3>1, HandlerMoves
  <2> QED BY <2>2, <2>3
<1>6. CASE AcknowledgeMaster
  <2>1. /\ Served(v) /\ v \in IRQs /\ isr' = EndOfInterrupt(0 .. 7)
        /\ UNCHANGED <<taskVars, esp, stack, calls, active, irr, left>>
    BY <1>2, <1>6 DEF AcknowledgeMaster
  <2>2. CASE v \in 40 .. 47
    <3>1. Goto("acknowledgeSlave") /\ isr' \subseteq isr /\ isr' \subseteq {v - 32}
      BY <1>1, <1>2, <1>6, <2>1, <2>2, MasterEnds DEF AcknowledgeMaster, hardwareInterruptOffset
    <3> QED BY <1>1, <1>3, <2>1, <2>2, <3>1, HandlerMoves
  <2>3. CASE v \in 32 .. 39
    <3>1. Goto("return") /\ isr' \subseteq isr /\ isr' = {}
      BY <1>1, <1>2, <1>6, <2>1, <2>3, MasterEnds DEF AcknowledgeMaster, hardwareInterruptOffset
    <3> QED BY <1>1, <1>3, <2>1, <3>1, HandlerMoves
  <2> QED BY <2>1, <2>2, <2>3 DEF IRQs, hardwareInterruptOffset
<1>7. CASE AcknowledgeSlave
  <2>1. /\ v \in 40 .. 47 /\ isr' = {} /\ Goto("return") /\ isr' \subseteq isr
        /\ UNCHANGED <<taskVars, esp, stack, calls, active, irr, left>>
    BY <1>2, <1>7, SlaveEnds DEF AcknowledgeSlave
  <2> QED BY <1>1, <1>3, <2>1, HandlerMoves
<1> QED BY <1>4, <1>5, <1>6, <1>7

-----------------------------------------------------------------------------
(* The timer. *)

(* What a timer interrupt finds and, whatever Schedule does, changes.      *)
LEMMA TimerFinds ==
  ASSUME ErrorCodes, NEW c \in Context, NEW p \in 0 .. MaxPos, NEW on \in BOOLEAN,
         Inv(c, p, on), HandleTimer
  PROVE  /\ on = TRUE /\ active = TRUE /\ InHandler(c, p, TRUE, 32, c) /\ Served(32)
         /\ Call.esp = [stack |-> c, depth |-> Top(c)] /\ esp.stack = c
         /\ left' = [left EXCEPT ![c] = p]
         /\ reg' \in [Register -> Words] /\ reg'["eip"] = Label("acknowledge", 32) /\ ~IF_flag'
         /\ UNCHANGED <<esp, stack, active, irr, isr>>
<1>1. PICK v \in Exception \cup IRQs, e \in Context : v \in Nat /\ InHandler(c, p, on, v, e)
  <2>1. At("dispatch")
    BY DEF HandleTimer
  <2> QED BY <2>1, HandlerRuns DEF Labels
<1>2. Vector = v /\ v = 32 /\ 32 \in IRQs /\ e = c /\ Served(v) /\ ~IF_flag
  BY <1>1, HandlerIs DEF HandleTimer, Timer, IRQs, hardwareInterruptOffset
<1>3. on = TRUE /\ active = TRUE
  BY <1>1, <1>2 DEF InHandler, Inv, HandleTimer
<1>4. Call.esp = [stack |-> c, depth |-> Top(c)] /\ esp.stack = c
  <2>1. InHandler(c, p, on, v, c)
    BY <1>1, <1>2
  <2>2. Call.esp = [stack |-> c, depth |-> Top(c)]
    BY <2>1, HandlerCall
  <2> QED BY <2>1, <2>2 DEF InHandler
<1>5. left' = [left EXCEPT ![c] = p]
  <2>1. Interrupted("eip") = Word(c, "eip", p)
    BY Sees
  <2>2. Word(c, "eip", p).of = c /\ Word(c, "eip", p).pos = p
    BY DEF Word
  <2> QED BY <2>1, <2>2 DEF HandleTimer
<1>6. reg' = [reg EXCEPT !["eip"] = Label("acknowledge", 32)] /\ Label("acknowledge", 32) \in Words
  BY <1>2, LabelWord DEF HandleTimer, Goto, Labels
<1>7. reg' \in [Register -> Words] /\ reg'["eip"] = Label("acknowledge", 32) /\ ~IF_flag'
  BY <1>2, <1>6, RegisterIs DEF Inv, Storage, IF_flag
<1>8. UNCHANGED <<esp, stack, active, irr, isr>>
  BY DEF HandleTimer
<1> QED BY <1>1, <1>2, <1>3, <1>4, <1>5, <1>7, <1>8

(* The frame of every task lies on its stack while another context has the *)
(* processor, and while the handler runs it does for every task.           *)
LEMMA TimerFrames ==
  ASSUME NEW c \in Context, NEW p \in 0 .. MaxPos, Tables(c), Len(stack[c]) = Top(c),
         FrameOn(c, p, TRUE), left' = [left EXCEPT ![c] = p], UNCHANGED stack
  PROVE  /\ left' \in [Context -> 0 .. MaxPos]
         /\ \A t \in Task : Len(stack'[t]) = 13 /\ FrameOn(t, left[t], TRUE)'
<1>1. left' \in [Context -> 0 .. MaxPos]
  BY DEF Tables
<1>2. ASSUME NEW t \in Task PROVE Len(stack'[t]) = 13 /\ FrameOn(t, left[t], TRUE)'
  <2>1. CASE t = c
    <3>1. Top(c) = 13 /\ left'[t] = p
      BY <2>1, BaseIs DEF Top, Tables
    <3> QED BY <2>1, <3>1 DEF FrameOn
  <2>2. CASE t # c
    <3>1. Parked(t) /\ left'[t] = left[t]
      BY <2>2 DEF Tables, Context
    <3> QED BY <3>1 DEF FrameOn, Parked
  <2> QED BY <2>1, <2>2
<1> QED BY <1>1, <1>2

(* No task in the table: the interrupted context continues. *)
LEMMA TimerAlone ==
  ASSUME ErrorCodes, NEW c \in Context, NEW p \in 0 .. MaxPos, NEW on \in BOOLEAN,
         Inv(c, p, on), HandleTimer, numTasks <= 0
  PROVE  Inv(c, p, on)' /\ UNCHANGED taskVars /\ c = Boot
<1>1. /\ on = TRUE /\ active = TRUE /\ InHandler(c, p, TRUE, 32, c) /\ Served(32)
      /\ Call.esp = [stack |-> c, depth |-> Top(c)] /\ esp.stack = c
      /\ left' = [left EXCEPT ![c] = p]
      /\ reg' \in [Register -> Words] /\ reg'["eip"] = Label("acknowledge", 32) /\ ~IF_flag'
      /\ UNCHANGED <<esp, stack, active, irr, isr>>
  BY TimerFinds
<1>2. TaskTableOK(Pointer) /\ ~(numTasks > 0) /\ currentTask < 0
  BY MaxTasksAssumption DEF Inv, Tables, TaskTableOK
<1>3. UNCHANGED taskVars /\ c = Boot
  BY <1>2 DEF HandleTimer, Schedule, Inv, Tables
<1>4. Resumed(Call.esp) = [stack |-> c, depth |-> Top(c)]
  BY <1>1 DEF Resumed
<1>5. calls' = calls
  <2> DEFINE r == [interrupt |-> 32, esp |-> [stack |-> c, depth |-> Top(c)]]
  <2>1. calls = [x \in Context |-> IF x = c THEN <<r>> ELSE <<>>]
    BY <1>1 DEF InHandler
  <2>2. Append(Front(<<r>>), [Last(<<r>>) EXCEPT !.esp = Resumed(Call.esp)]) = <<r>>
    <3>1. Last(<<r>>) = r /\ Front(<<r>>) = <<>>
      BY LastCall
    <3>2. [r EXCEPT !.esp = Resumed(Call.esp)] = r
      BY <1>4
    <3> HIDE DEF r
    <3>3. Append(<<>>, r) = <<r>>
      BY LastCall
    <3> QED BY <3>1, <3>2, <3>3
  <2>3. calls' = [calls EXCEPT ![c] = Append(Front(calls[c]), [Last(calls[c]) EXCEPT !.esp = Resumed(Call.esp)])]
    BY <1>1 DEF HandleTimer
  <2> HIDE DEF r
  <2> QED BY <2>1, <2>2, <2>3
<1>6. left' \in [Context -> 0 .. MaxPos] /\ \A t \in Task : left'[t] = left[t]
  BY <1>1, <1>3, ContextAssumption DEF Inv, Tables, Context
<1>7. Tables(c)'
  <2>1. ASSUME NEW t \in Task \ {c} PROVE Parked(t)'
    <3>1. Parked(t) /\ left'[t] = left[t] /\ stack' = stack /\ cpustate' = cpustate
      BY <1>1, <1>3, <1>6 DEF Inv, Tables, taskVars
    <3> QED BY <3>1 DEF Parked, FrameOn
  <2>2. TaskTableOK(Pointer)'
    BY <1>2, <1>3 DEF TaskTableOK, taskVars
  <2> QED BY <1>3, <1>6, <2>1, <2>2 DEF Inv, Tables, taskVars
<1>8. Storage' /\ Signals'
  BY <1>1 DEF Inv, Storage, Signals
<1>9. FrameOn(c, p, TRUE)' /\ Served(32)'
  BY <1>1 DEF InHandler, FrameOn, Served
<1>10. InHandler(c, p, TRUE, 32, c)'
  <2>1. Len(stack'[c]) = Top(c) /\ esp' = [stack |-> c, depth |-> Top(c)]
    BY <1>1 DEF InHandler
  <2>2. calls' = [x \in Context |->
          IF x = c THEN <<[interrupt |-> 32, esp |-> [stack |-> c, depth |-> Top(c)]]>> ELSE <<>>]
    BY <1>1, <1>5 DEF InHandler
  <2>3. 32 \in IRQs
    BY DEF IRQs, hardwareInterruptOffset
  <2> QED BY <1>1, <1>9, <2>1, <2>2, <2>3 DEF InHandler
<1>11. 32 \in Exception \cup IRQs
  BY DEF IRQs, hardwareInterruptOffset
<1> QED BY <1>1, <1>3, <1>7, <1>8, <1>10, <1>11 DEF Inv, Phase

(* What Schedule leaves in the cpustate of every task. *)
LEMMA AllParked ==
  ASSUME NEW c \in Context, Tables(c), NEW cs, cs = [stack |-> c, depth |-> Top(c)]
  PROVE  \A t \in Task : Saved(cs)[t] = [stack |-> t, depth |-> 13]
<1> SUFFICES ASSUME NEW t \in Task PROVE Saved(cs)[t] = [stack |-> t, depth |-> 13]
  OBVIOUS
<1>1. /\ cpustate \in [Task -> Pointer] /\ currentTask \in Int
      /\ t # c => cpustate[t] = [stack |-> t, depth |-> 13]
  <2>1. cpustate \in [Task -> Pointer] /\ numTasks \in Int /\ currentTask \in -1 .. numTasks - 1
    BY MaxTasksAssumption DEF Tables, TaskTableOK
  <2>2. t # c => cpustate[t] = [stack |-> t, depth |-> 13]
    BY DEF Tables, Parked
  <2> QED BY <2>1, <2>2
<1>2. CASE currentTask >= 0
  <2>1. Saved(cs) = [cpustate EXCEPT ![c] = cs]
    BY <1>2 DEF Saved, Tables
  <2>2. t = c => Top(c) = 13
    BY BaseIs DEF Top
  <2> QED BY <1>1, <2>1, <2>2
<1>3. CASE currentTask < 0
  <2>1. Saved(cs) = cpustate /\ t # c
    BY <1>1, <1>3, ContextAssumption DEF Saved, Tables
  <2> QED BY <1>1, <2>1
<1> QED BY <1>1, <1>2, <1>3

LEMMA NextTaskInTable ==
  ASSUME numTasks \in Nat, numTasks > 0, currentTask \in -1 .. numTasks - 1
  PROVE  NextTask \in 0 .. numTasks - 1
BY DEF NextTask

(* With a task in the table, the timer hands the processor to the next:    *)
(* from where it left, with interrupts on.                                 *)
LEMMA TimerSwitch ==
  ASSUME ErrorCodes, NEW c \in Context, NEW p \in 0 .. MaxPos, NEW on \in BOOLEAN,
         Inv(c, p, on), HandleTimer, numTasks > 0
  PROVE  \E n \in Task, q \in 0 .. MaxPos :
           n = tasks[NextTask] /\ q = left'[n] /\ Inv(n, q, TRUE)'
<1>1. /\ on = TRUE /\ active = TRUE /\ InHandler(c, p, TRUE, 32, c) /\ Served(32)
      /\ Call.esp = [stack |-> c, depth |-> Top(c)] /\ esp.stack = c
      /\ left' = [left EXCEPT ![c] = p]
      /\ reg' \in [Register -> Words] /\ reg'["eip"] = Label("acknowledge", 32) /\ ~IF_flag'
      /\ UNCHANGED <<esp, stack, active, irr, isr>>
  BY TimerFinds
<1> DEFINE cs == [stack |-> c, depth |-> Top(c)]
<1>2. TaskTableOK(Pointer) /\ numTasks \in Nat /\ Tables(c)
  BY MaxTasksAssumption DEF Inv, Tables, TaskTableOK
<1>3. /\ cpustate' = Saved(cs) /\ currentTask' = NextTask /\ UNCHANGED <<tasks, numTasks>>
  BY <1>1, <1>2 DEF HandleTimer, Schedule
<1>4. NextTask \in 0 .. numTasks - 1 /\ tasks[NextTask] \in Task
  <2>1. NextTask \in 0 .. numTasks - 1
    BY <1>2, NextTaskInTable DEF TaskTableOK
  <2> QED BY <1>2, <2>1 DEF TaskTableOK
<1>5. PICK n \in Task : n = tasks[NextTask]
  BY <1>4
<1>6. /\ left' \in [Context -> 0 .. MaxPos]
      /\ \A t \in Task : Len(stack'[t]) = 13 /\ FrameOn(t, left[t], TRUE)'
  BY <1>1, <1>2, TimerFrames DEF InHandler
<1>7. PICK q \in 0 .. MaxPos : q = left'[n]
  BY <1>6 DEF Context
<1>8. \A t \in Task : cpustate'[t] = [stack |-> t, depth |-> 13]
  BY <1>2, <1>3, AllParked
<1>9. Tables(n)'
  <2>1. ASSUME NEW t \in Task PROVE Parked(t)'
    BY <1>6, <1>8 DEF Parked
  <2>2. cpustate' \in [Task -> Pointer]
    <3>1. DOMAIN cpustate' = Task /\ cpustate' = [t \in DOMAIN cpustate' |-> cpustate'[t]]
      BY <1>2, <1>3 DEF TaskTableOK, Saved
    <3>2. \A t \in Task : cpustate'[t] \in Pointer
      <4>1. \A t \in Task : [stack |-> t, depth |-> 13] \in Pointer
        BY DEF Pointer, Context
      <4> QED BY <1>8, <4>1
    <3> QED BY <3>1, <3>2
  <2>3. TaskTableOK(Pointer)'
    <3>1. currentTask' \in -1 .. numTasks' - 1
      BY <1>2, <1>3, <1>4
    <3> QED BY <1>2, <1>3, <2>2, <3>1 DEF TaskTableOK
  <2>4. currentTask' >= 0 /\ ~(currentTask' < 0) /\ n = tasks'[currentTask']
    BY <1>2, <1>3, <1>4, <1>5
  <2> QED BY <1>6, <2>1, <2>3, <2>4 DEF Tables
<1>10. Storage' /\ Signals'
  BY <1>1 DEF Inv, Storage, Signals
<1>11. Top(n) = 13 /\ n \in Context
  BY BaseIs DEF Top, Context
<1>12. calls' = [x \in Context |->
         IF x = c THEN <<[interrupt |-> 32, esp |-> [stack |-> n, depth |-> Top(n)]]>> ELSE <<>>]
  <2> DEFINE r == [interrupt |-> 32, esp |-> cs]
             z == [interrupt |-> 32, esp |-> [stack |-> n, depth |-> Top(n)]]
  <2>1. calls = [x \in Context |-> IF x = c THEN <<r>> ELSE <<>>]
    BY <1>1 DEF InHandler
  <2>2. Resumed(Call.esp) = [stack |-> n, depth |-> Top(n)]
    <3>1. Saved(cs)[n] = [stack |-> n, depth |-> 13] /\ ~(numTasks <= 0)
      BY <1>2, <1>3, <1>8
    <3> QED BY <1>1, <1>5, <1>11, <3>1 DEF Resumed
  <2>3. Append(Front(<<r>>), [Last(<<r>>) EXCEPT !.esp = Resumed(Call.esp)]) = <<z>>
    <3>1. Last(<<r>>) = r /\ Front(<<r>>) = <<>>
      BY LastCall
    <3>2. [r EXCEPT !.esp = Resumed(Call.esp)] = z
      BY <2>2
    <3> HIDE DEF r, z
    <3>3. Append(<<>>, z) = <<z>>
      BY LastCall
    <3> QED BY <3>1, <3>2, <3>3
  <2>4. calls' = [calls EXCEPT ![c] = Append(Front(calls[c]), [Last(calls[c]) EXCEPT !.esp = Resumed(Call.esp)])]
    BY <1>1 DEF HandleTimer
  <2> HIDE DEF r
  <2> QED BY <2>1, <2>3, <2>4
<1>13. InHandler(n, q, TRUE, 32, c)'
  <2>1. FrameOn(n, q, TRUE)' /\ Len(stack'[n]) = Top(n)
    BY <1>6, <1>7, <1>11 DEF FrameOn
  <2>2. esp' = [stack |-> c, depth |-> Top(c)] /\ Served(32)'
    BY <1>1 DEF InHandler, Served
  <2>3. 32 \in IRQs
    BY DEF IRQs, hardwareInterruptOffset
  <2> QED BY <1>1, <1>12, <2>1, <2>2, <2>3 DEF InHandler
<1>14. Phase(n, q, TRUE)'
  <2>1. 32 \in Exception \cup IRQs
    BY DEF IRQs, hardwareInterruptOffset
  <2> QED BY <1>13, <2>1 DEF Phase
<1>15. Inv(n, q, TRUE)'
  BY <1>1, <1>9, <1>10, <1>14 DEF Inv
<1> QED BY <1>5, <1>7, <1>15

-----------------------------------------------------------------------------
(* The end of the stub. *)

LEMMA ReturnStep ==
  ASSUME ErrorCodes, NEW c \in Context, NEW p \in 0 .. MaxPos, NEW on \in BOOLEAN,
         Inv(c, p, on), Return
  PROVE  Inv(c, p, on)' /\ Own(c, p, on)'
<1>1. PICK v \in Exception \cup IRQs, e \in Context : v \in Nat /\ InHandler(c, p, on, v, e)
  <2>1. At("return")
    BY DEF Return
  <2> QED BY <2>1, HandlerRuns DEF Labels
<1>2. isr = {} /\ Call.esp = [stack |-> c, depth |-> Top(c)]
  BY <1>1, HandlerIs, HandlerCall DEF Return
<1>3. /\ reg' = [r \in Register |-> WordAt([stack |-> c, depth |-> Top(c)], Offset[r])]
      /\ esp' = [[stack |-> c, depth |-> Top(c)] EXCEPT !.depth = Top(c) - 11]
      /\ stack' = [stack EXCEPT ![c] = SubSeq(stack[c], 1, Top(c) - 11)]
      /\ calls' = [calls EXCEPT ![e] = Front(calls[e])]
      /\ UNCHANGED <<taskVars, active, irr, isr, left>>
  BY <1>1, <1>2 DEF Return, InHandler
<1>4. reg' = Regs(c, p, on) /\ reg' \in [Register -> Words]
  <2>1. \A r \in Register : WordAt([stack |-> c, depth |-> Top(c)], Offset[r]) = Regs(c, p, on)[r]
    BY <1>1, FrameSeen DEF InHandler, Inv, Storage
  <2>2. Regs(c, p, on) \in [Register -> Words]
    BY RegsAre
  <2> QED BY <1>3, <2>1, <2>2
<1>5. PICK b \in {0, 2} : b = Base(c) /\ Top(c) - 11 = b /\ Top(c) = b + 11
  BY BaseIs DEF Top
<1>6. /\ stack[c] \in Seq(Words) /\ Len(stack[c]) = b + 11
      /\ SubSeq(stack[c], 1, b) \in Seq(Words) /\ Len(SubSeq(stack[c], 1, b)) = b
  <2>1. PICK s \in Seq(Words) : s = stack[c] /\ Len(s) = b + 11
    BY <1>1, <1>5 DEF InHandler, Inv, Storage
  <2>2. SubSeq(s, 1, b) \in Seq(Words) /\ Len(SubSeq(s, 1, b)) = b
    BY <2>1
  <2> QED BY <2>1, <2>2
<1>7. esp' = [stack |-> c, depth |-> Base(c)]
  BY <1>3, <1>5
<1>8. NoCalls'
  <2> DEFINE r == [interrupt |-> v, esp |-> [stack |-> c, depth |-> Top(c)]]
  <2>1. calls = [x \in Context |-> IF x = e THEN <<r>> ELSE <<>>]
    BY <1>1 DEF InHandler
  <2>2. Front(<<r>>) = <<>>
    BY LastCall
  <2> HIDE DEF r
  <2> QED BY <1>3, <2>1, <2>2 DEF NoCalls
<1>9. Own(c, p, on)'
  BY <1>2, <1>3, <1>4, <1>7, <1>8 DEF Own
<1>10. Tables(c)'
  BY <1>3, TablesKept DEF Inv, Storage
<1>11. Storage' /\ Signals'
  <2>1. /\ stack' \in [Context -> Seq(Words)] /\ \A x \in Context : Len(stack'[x]) <= 13
        /\ Len(stack'[c]) = b
    BY <1>3, <1>5, <1>6 DEF Inv, Storage
  <2>2. esp' \in Pointer /\ esp'.stack = c /\ esp'.depth = b
    BY <1>5, <1>7 DEF Pointer
  <2> QED BY <1>3, <1>4, <2>1, <2>2 DEF Inv, Storage, Signals
<1> QED BY <1>3, <1>9, <1>10, <1>11 DEF Inv, Phase

-----------------------------------------------------------------------------
(* The contexts, the lines and the initial state. *)

LEMMA OwnRuns ==
  ASSUME ErrorCodes, NEW c \in Context, NEW p \in 0 .. MaxPos, NEW on \in BOOLEAN,
         Inv(c, p, on), Executing
  PROVE  Own(c, p, on)
<1>1. ASSUME NEW v \in Exception \cup IRQs, InStub(c, p, on, v) PROVE FALSE
  BY <1>1, StubIs
<1>2. ASSUME NEW v \in Exception \cup IRQs, NEW e \in Context, InHandler(c, p, on, v, e) PROVE FALSE
  BY <1>2, HandlerIs, VectorIs
<1> QED BY <1>1, <1>2 DEF Inv, Phase

(* Nothing that Inv speaks of has changed, except perhaps irr. *)
LEMMA Kept ==
  ASSUME NEW c \in Context, NEW p \in 0 .. MaxPos, NEW on \in BOOLEAN, Inv(c, p, on),
         UNCHANGED <<taskVars, reg, esp, stack, calls, active, isr, left>>,
         irr' \subseteq Line
  PROVE  Inv(c, p, on)'
<1>1. Tables(c)' /\ Storage' /\ Signals'
  BY TablesKept DEF Inv, Storage, Signals
<1>2. ASSUME Own(c, p, on) PROVE Own(c, p, on)'
  BY <1>2 DEF Own, NoCalls
<1>3. ASSUME NEW v \in Exception \cup IRQs, InStub(c, p, on, v) PROVE InStub(c, p, on, v)'
  BY <1>3 DEF InStub, NoCalls, Served
<1>4. ASSUME NEW v \in Exception \cup IRQs, NEW e \in Context, InHandler(c, p, on, v, e)
      PROVE  InHandler(c, p, on, v, e)'
  BY <1>4 DEF InHandler, FrameOn, Served, IF_flag
<1>5. Phase(c, p, on)'
  BY <1>2, <1>3, <1>4 DEF Inv, Phase
<1> QED BY <1>1, <1>5 DEF Inv

LEMMA ExecuteStep ==
  ASSUME ErrorCodes, NEW c \in Context, NEW p \in 0 .. MaxPos, NEW on \in BOOLEAN,
         Inv(c, p, on), Execute
  PROVE  (p + 1) % (MaxPos + 1) \in 0 .. MaxPos /\ Inv(c, (p + 1) % (MaxPos + 1), on)'
<1>1. Own(c, p, on)
  BY OwnRuns DEF Execute
<1>2. PICK q \in 0 .. MaxPos : q = (p + 1) % (MaxPos + 1)
  <2>1. MaxPos + 1 \in Nat \ {0} /\ p + 1 \in Nat
    BY PosAssumption
  <2> QED BY <2>1, PosAssumption
<1>3. reg' = Regs(c, q, on) /\ UNCHANGED <<taskVars, esp, stack, calls, active, irr, isr, left>>
  BY <1>1, <1>2, OwnIs DEF Execute
<1>4. Own(c, q, on)'
  BY <1>1, <1>3 DEF Own, NoCalls
<1>5. Tables(c)'
  BY <1>3, TablesKept DEF Inv
<1>6. Storage' /\ Signals'
  <2>1. Regs(c, q, on) \in [Register -> Words]
    BY RegsAre
  <2> QED BY <1>3, <2>1 DEF Inv, Storage, Signals
<1>7. Inv(c, q, on)'
  BY <1>3, <1>4, <1>5, <1>6 DEF Inv, Phase
<1> QED BY <1>2, <1>7

LEMMA StiStep ==
  ASSUME ErrorCodes, NEW c \in Context, NEW p \in 0 .. MaxPos, NEW on \in BOOLEAN,
         Inv(c, p, on), Sti
  PROVE  c = Boot /\ on = FALSE /\ Inv(c, p, TRUE)'
<1>1. Own(c, p, on)
  BY OwnRuns DEF Sti, InKernelMain
<1>2. c = Boot /\ on = FALSE /\ active
  BY <1>1, OwnIs DEF Sti, InKernelMain
<1>3. reg' = Regs(c, p, TRUE)
  <2>1. reg = Regs(c, p, on) /\ reg' = [reg EXCEPT !["eflags"].on = TRUE]
    BY <1>1 DEF Own, Sti
  <2>2. /\ DOMAIN reg' = Register /\ reg' = [r \in Register |-> reg'[r]]
        /\ reg'["eflags"] = [Flags(c, p, on) EXCEPT !.on = TRUE]
        /\ \A r \in Register : r # "eflags" => reg'[r] = Word(c, r, p)
    BY <2>1, RegisterIs DEF Regs
  <2>3. [Flags(c, p, on) EXCEPT !.on = TRUE] = Flags(c, p, TRUE)
    BY FlagsSet, Zenon
  <2>4. \A r \in Register : reg'[r] = Regs(c, p, TRUE)[r]
    BY <2>2, <2>3, RegisterIs DEF Regs
  <2> QED BY <2>2, <2>4 DEF Regs
<1>4. UNCHANGED <<taskVars, esp, stack, calls, active, irr, isr, left>>
  BY DEF Sti
<1>5. Own(c, p, TRUE)'
  BY <1>1, <1>3, <1>4 DEF Own, NoCalls
<1>6. Tables(c)'
  BY <1>4, TablesKept DEF Inv
<1>7. Storage' /\ Signals'
  <2>1. Regs(c, p, TRUE) \in [Register -> Words]
    BY RegsAre, Zenon
  <2> QED BY <1>3, <1>4, <2>1 DEF Inv, Storage, Signals
<1> QED BY <1>2, <1>4, <1>5, <1>6, <1>7 DEF Inv, Phase

LEMMA SetActiveStep ==
  ASSUME ErrorCodes, NEW c \in Context, NEW p \in 0 .. MaxPos, NEW on \in BOOLEAN,
         Inv(c, p, on), SetActiveManager
  PROVE  Inv(c, p, on)'
<1>1. Own(c, p, on)
  BY OwnRuns DEF SetActiveManager, InKernelMain
<1>2. active' = TRUE /\ UNCHANGED <<taskVars, reg, esp, stack, calls, irr, isr, left>>
  BY DEF SetActiveManager
<1>3. Own(c, p, on)'
  BY <1>1, <1>2 DEF Own, NoCalls
<1>4. Tables(c)'
  BY <1>2, TablesKept DEF Inv
<1> QED BY <1>2, <1>3, <1>4 DEF Inv, Phase, Storage, Signals

LEMMA AddStep ==
  ASSUME ErrorCodes, NEW c \in Context, NEW p \in 0 .. MaxPos, NEW on \in BOOLEAN,
         Inv(c, p, on), NEW t \in Task, AddTaskAtBoot(t)
  PROVE  Inv(c, p, on)' /\ c = Boot /\ on = FALSE
<1>1. Own(c, p, on)
  BY OwnRuns DEF AddTaskAtBoot, InKernelMain
<1>2. c = Boot /\ on = FALSE
  BY <1>1, OwnIs DEF AddTaskAtBoot, InKernelMain
<1>3. AddTask(t) /\ UNCHANGED <<reg, esp, stack, calls, active, irr, isr, left>>
  BY DEF AddTaskAtBoot, intVars
<1>4. TaskTableOK(Pointer) /\ numTasks \in 0 .. MaxTasks /\ MaxTasks \in Nat
      /\ currentTask \in -1 .. numTasks - 1
  BY MaxTasksAssumption DEF Inv, Tables, TaskTableOK
<1>5. currentTask' = currentTask /\ cpustate' = cpustate
  BY <1>3 DEF AddTask, taskVars
<1>6. TaskTableOK(Pointer)' /\ (currentTask >= 0 => tasks'[currentTask] = tasks[currentTask])
  <2>1. CASE numTasks >= MaxTasks
    <3>1. UNCHANGED taskVars
      BY <1>3, <1>4, <2>1 DEF AddTask
    <3> QED BY <1>4, <3>1 DEF TaskTableOK, taskVars
  <2>2. CASE numTasks < MaxTasks
    <3>1. tasks' = [tasks EXCEPT ![numTasks] = t] /\ numTasks' = numTasks + 1
      BY <1>3, <1>4, <2>2 DEF AddTask
    <3>2. numTasks \in Slots /\ numTasks' \in 0 .. MaxTasks
      BY <1>4, <2>2, <3>1 DEF Slots
    <3>3. tasks' \in [Slots -> Task \cup {NoTask}]
      BY <1>4, <3>1 DEF TaskTableOK
    <3>4. \A i \in 0 .. numTasks' - 1 : tasks'[i] \in Task
      BY <1>4, <3>1, <3>2 DEF Slots, TaskTableOK
    <3>5. currentTask' \in -1 .. numTasks' - 1
      BY <1>4, <1>5, <3>1
    <3>6. currentTask >= 0 => tasks'[currentTask] = tasks[currentTask]
      BY <1>4, <3>1, <3>2 DEF TaskTableOK, Slots
    <3>7. cpustate' \in [Task -> Pointer]
      BY <1>4, <1>5 DEF TaskTableOK
    <3> QED BY <3>2, <3>3, <3>4, <3>5, <3>6, <3>7 DEF TaskTableOK
  <2> QED BY <1>4, <2>1, <2>2
<1>7. Tables(c)'
  BY <1>3, <1>5, <1>6 DEF Inv, Tables, Parked, FrameOn
<1>8. Storage' /\ Signals'
  BY <1>3 DEF Inv, Storage, Signals
<1>9. Own(c, p, on)'
  BY <1>1, <1>3 DEF Own, NoCalls
<1> QED BY <1>2, <1>3, <1>7, <1>8, <1>9 DEF Inv, Phase

LEMMA SixWords ==
  ASSUME NEW W, NEW a \in W, NEW b \in W, NEW c \in W, NEW d \in W, NEW e \in W, NEW f \in W
  PROVE  /\ <<a, b, c, d, e, f>> \in Seq(W) /\ Len(<<a, b, c, d, e, f>>) = 6
         /\ <<a, b, c, d, e, f>>[3] = c /\ <<a, b, c, d, e, f>>[4] = d
         /\ <<a, b, c, d, e, f>>[5] = e
OBVIOUS

LEMMA PointerIs == \A x \in Context : \A d \in 0 .. 13 : [stack |-> x, depth |-> d] \in Pointer
BY DEF Pointer

(* The frame Task::Task builds is one an interrupt could have left.        *)
LEMMA TaskFrameIs ==
  ASSUME NEW t \in Task
  PROVE  /\ TaskFrame(t) \in Seq(Words) /\ Len(TaskFrame(t)) = 13
         /\ TaskFrame(t)[3] = Flags(t, 0, TRUE) /\ TaskFrame(t)[4] = Word(t, "cs", 0)
         /\ TaskFrame(t)[5] = Word(t, "eip", 0)
         /\ \A i \in 1 .. 7 : TaskFrame(t)[6 + i] = Word(t, PushOrder[i], 0)
<1> DEFINE z == <<Label("ss", 0), Label("esp", 0), Flags(t, 0, TRUE), Word(t, "cs", 0),
                  Word(t, "eip", 0), Label("error", 0)>>
           w == [i \in 1 .. 7 |-> Word(t, PushOrder[i], 0)]
<1>1. t \in Context /\ 0 \in Nat
  BY DEF Context
<1>2. Label("ss", 0) \in Words /\ Label("esp", 0) \in Words /\ Label("error", 0) \in Words
  BY LabelWord DEF Labels
<1>3. Flags(t, 0, TRUE) \in Words
  <2>1. TRUE \in BOOLEAN
    OBVIOUS
  <2> QED BY <1>1, <2>1 DEF Flags, Words
<1>4. \A r \in Register : Word(t, r, 0) \in Words
  BY <1>1 DEF Word, Words
<1>5. \A i \in 1 .. 7 : PushOrder[i] \in Register
  BY DEF Register, General
<1>6. /\ z \in Seq(Words) /\ Len(z) = 6
      /\ z[3] = Flags(t, 0, TRUE) /\ z[4] = Word(t, "cs", 0) /\ z[5] = Word(t, "eip", 0)
  <2>1. Word(t, "cs", 0) \in Words /\ Word(t, "eip", 0) \in Words
    BY <1>4, RegisterIs
  <2> QED BY ONLY <1>2, <1>3, <2>1, SixWords DEF z
<1>7. w \in Seq(Words) /\ Len(w) = 7 /\ \A i \in 1 .. 7 : w[i] = Word(t, PushOrder[i], 0)
  <2>1. w \in [1 .. 7 -> Words]
    BY <1>4, <1>5
  <2>2. w \in Seq(Words)
    BY <2>1
  <2>3. Len(w) = 7
    BY <2>2, LenProperties
  <2> QED BY <2>2, <2>3
<1>8. TaskFrame(t) = z \o w
  BY DEF TaskFrame
<1> HIDE DEF z, w
<1>9. /\ z \o w \in Seq(Words) /\ Len(z \o w) = Len(z) + Len(w)
      /\ \A i \in 1 .. Len(z) : (z \o w)[i] = z[i]
      /\ \A i \in 1 .. Len(w) : (z \o w)[Len(z) + i] = w[i]
  <2>1. z \in Seq(Words) /\ w \in Seq(Words)
    BY <1>6, <1>7
  <2> QED BY ONLY <2>1, Concat
<1> HIDE DEF TaskFrame
<1>10. TaskFrame(t) \in Seq(Words) /\ Len(TaskFrame(t)) = 13
  BY <1>6, <1>7, <1>8, <1>9
<1>11. ASSUME NEW i \in {3, 4, 5} PROVE TaskFrame(t)[i] = z[i]
  <2>1. i \in 1 .. 6
    OBVIOUS
  <2> QED BY <1>6, <1>8, <1>9, <2>1
<1>12. ASSUME NEW i \in 1 .. 7 PROVE TaskFrame(t)[6 + i] = Word(t, PushOrder[i], 0)
  BY <1>6, <1>7, <1>8, <1>9
<1> QED BY <1>6, <1>10, <1>11, <1>12

LEMMA InitInv == Init => IInv
<1> SUFFICES ASSUME Init PROVE IInv
  OBVIOUS
<1>1. Boot \in Context /\ 0 \in 0 .. MaxPos /\ FALSE \in BOOLEAN /\ Base(Boot) = 0
  BY PosAssumption DEF Context, Base
<1>2. \A t \in Task : t \in Context /\ t # Boot /\ stack[t] = TaskFrame(t)
  BY ContextAssumption DEF Init, Context
<1>3. Own(Boot, 0, FALSE)
  BY <1>1 DEF Init, Own, NoCalls
<1>4. Storage
  <2>1. reg \in [Register -> Words]
    <3>1. Regs(Boot, 0, FALSE) \in [Register -> Words]
      BY <1>1, RegsAre
    <3> QED BY <3>1 DEF Init
  <2>2. ASSUME NEW x \in Context PROVE stack[x] \in Seq(Words) /\ Len(stack[x]) <= 13
    <3>1. stack[Boot] \in Seq(Words) /\ Len(stack[Boot]) = 0
      <4>1. stack[Boot] = <<>>
        BY <1>1 DEF Init
      <4>2. <<>> \in Seq(Words) /\ Len(<<>>) = 0
        OBVIOUS
      <4> QED BY ONLY <4>1, <4>2
    <3>2. \A t \in Task : stack[t] \in Seq(Words) /\ Len(stack[t]) = 13
      BY <1>2, TaskFrameIs
    <3>3. CASE x = Boot
      BY <3>1, <3>3
    <3>4. CASE x \in Task
      <4>1. Len(stack[x]) = 13 /\ stack[x] \in Seq(Words)
        BY <3>2, <3>4
      <4> QED BY <4>1
    <3> QED BY <3>3, <3>4 DEF Context
  <2>3. stack \in [Context -> Seq(Words)]
    BY <2>2 DEF Init
  <2>4. esp \in Pointer /\ Len(stack[esp.stack]) = esp.depth
    BY <1>1 DEF Init, Pointer
  <2> QED BY <2>1, <2>2, <2>3, <2>4 DEF Storage
<1>5. Signals
  <2>1. active \in BOOLEAN
    BY Zenon DEF Init
  <2> QED BY <2>1 DEF Init, Signals
<1>6. ASSUME NEW t \in Task PROVE Parked(t)
  <2>1. Len(stack[t]) = 13
    BY <1>2, TaskFrameIs
  <2>2. cpustate[t] = [stack |-> t, depth |-> 13]
    BY TaskFrameIs DEF Init, ConstructTaskManager, EntryPointer
  <2>3. left[t] = 0
    BY <1>2 DEF Init
  <2>4. FrameOn(t, 0, TRUE)
    <3>1. Base(t) = 2 /\ Top(t) = 13 /\ t \in Context /\ TRUE \in BOOLEAN
      BY <1>2, BaseIs DEF Top
    <3>2. /\ stack[t][3] = Flags(t, 0, TRUE) /\ stack[t][4] = Word(t, "cs", 0)
          /\ stack[t][5] = Word(t, "eip", 0)
          /\ \A i \in 1 .. 7 : stack[t][6 + i] = Word(t, PushOrder[i], 0)
      BY <1>2, TaskFrameIs
    <3>3. Base(t) + 1 = 3 /\ Base(t) + 2 = 4 /\ Base(t) + 3 = 5 /\ Base(t) + 4 = 6
      BY <3>1
    <3>4. /\ Len(stack[t]) = Top(t)
          /\ stack[t][Base(t) + 1] = Flags(t, 0, TRUE)
          /\ stack[t][Base(t) + 2] = Word(t, "cs", 0)
          /\ stack[t][Base(t) + 3] = Word(t, "eip", 0)
          /\ \A i \in 1 .. 7 : stack[t][Base(t) + 4 + i] = Word(t, PushOrder[i], 0)
      BY <2>1, <3>1, <3>2, <3>3
    <3>5. t \in Context /\ 0 \in 0 .. MaxPos /\ TRUE \in BOOLEAN
      BY <1>1, <3>1
    <3> QED BY ONLY <3>4, <3>5, FramesAre DEF WordsMakeFrames
  <2> QED BY <2>1, <2>2, <2>3, <2>4 DEF Parked
<1>7. Tables(Boot)
  <2>1. left \in [Context -> 0 .. MaxPos]
    BY <1>1 DEF Init
  <2>2. cpustate \in [Task -> Pointer]
    <3>1. \A t \in Task : [stack |-> t, depth |-> 13] \in Pointer
      <4>1. 13 \in 0 .. 13
        OBVIOUS
      <4> QED BY <1>2, <4>1, PointerIs
    <3> QED BY <3>1, TaskFrameIs DEF Init, ConstructTaskManager, EntryPointer
  <2>3. TaskTableOK(Pointer)
    BY <2>2, MaxTasksAssumption DEF Init, ConstructTaskManager, TaskTableOK
  <2> QED BY <1>6, <2>1, <2>3 DEF Init, ConstructTaskManager, Tables
<1>8. Inv(Boot, 0, FALSE)
  BY <1>3, <1>4, <1>5, <1>7 DEF Inv, Phase
<1> QED BY <1>1, <1>8 DEF IInv

-----------------------------------------------------------------------------
(* Every step keeps the invariant.                                         *)

LEMMA QuietStep ==
  ASSUME ErrorCodes, NEW c \in Context, NEW p \in 0 .. MaxPos, NEW on \in BOOLEAN,
         Inv(c, p, on),
         \/ \E l \in Line : RaiseLine(l)
         \/ Deliver \/ DeliverSpurious \/ \E e \in Exception : RaiseException(e)
         \/ Stub \/ HandleInactive \/ HandleOther \/ AcknowledgeMaster \/ AcknowledgeSlave
         \/ Return \/ SetActiveManager \/ UNCHANGED vars
  PROVE  Inv(c, p, on)' /\ UNCHANGED <<taskVars, left>>
<1>0. UNCHANGED <<taskVars, left>>
  BY DEF RaiseLine, Deliver, DeliverSpurious, RaiseException, Stub, HandleInactive, HandleOther,
         AcknowledgeMaster, AcknowledgeSlave, Return, SetActiveManager, vars, intVars
<1>1. ASSUME NEW l \in Line, RaiseLine(l) PROVE Inv(c, p, on)' /\ UNCHANGED <<taskVars, left>>
  <2>1. irr \subseteq Line
    BY DEF Inv, Signals
  <2>2. /\ UNCHANGED <<taskVars, reg, esp, stack, calls, active, isr, left>>
        /\ irr' \subseteq Line
    BY <1>1, <2>1 DEF RaiseLine
  <2> QED BY <1>0, <2>2, Kept
<1>2. CASE Deliver \/ DeliverSpurious \/ \E e \in Exception : RaiseException(e)
  BY <1>0, <1>2, Taken
<1>3. CASE Stub
  BY <1>0, <1>3, StubStep
<1>4. CASE HandleInactive \/ HandleOther \/ AcknowledgeMaster \/ AcknowledgeSlave
  BY <1>0, <1>4, HandleStep
<1>5. CASE Return
  BY <1>0, <1>5, ReturnStep
<1>6. CASE SetActiveManager
  BY <1>0, <1>6, SetActiveStep
<1>7. CASE UNCHANGED vars
  <2>1. irr \subseteq Line
    BY DEF Inv, Signals
  <2>2. /\ UNCHANGED <<taskVars, reg, esp, stack, calls, active, isr, left>>
        /\ irr' \subseteq Line
    BY <1>7, <2>1 DEF vars, intVars
  <2> QED BY <1>0, <2>2, Kept
<1> QED BY <1>1, <1>2, <1>3, <1>4, <1>5, <1>6, <1>7, <1>0

LEMMA StepInv ==
  ASSUME ErrorCodes, IInv, [Next]_vars
  PROVE  IInv'
<1>1. PICK c \in Context, p \in 0 .. MaxPos, on \in BOOLEAN : Inv(c, p, on)
  BY DEF IInv
<1>2. CASE \/ \E l \in Line : RaiseLine(l)
           \/ Deliver \/ DeliverSpurious \/ \E e \in Exception : RaiseException(e)
           \/ Stub \/ HandleInactive \/ HandleOther \/ AcknowledgeMaster \/ AcknowledgeSlave
           \/ Return \/ SetActiveManager \/ UNCHANGED vars
  BY <1>1, <1>2, QuietStep DEF IInv
<1>3. CASE Execute
  BY <1>1, <1>3, ExecuteStep DEF IInv
<1>4. CASE Sti
  <2>1. Inv(c, p, TRUE)' /\ TRUE \in BOOLEAN
    BY <1>1, <1>4, StiStep
  <2> QED BY <2>1, Zenon DEF IInv
<1>5. ASSUME NEW t \in Task, AddTaskAtBoot(t) PROVE IInv'
  BY <1>1, <1>5, AddStep DEF IInv
<1>6. CASE HandleTimer
  <2>1. CASE numTasks > 0
    <3>1. PICK n \in Task, q \in 0 .. MaxPos : Inv(n, q, TRUE)'
      BY <1>1, <1>6, <2>1, TimerSwitch
    <3>2. n \in Context /\ TRUE \in BOOLEAN
      BY DEF Context
    <3> QED BY <3>1, <3>2, Zenon DEF IInv
  <2>2. CASE ~(numTasks > 0)
    <3>1. numTasks <= 0
      BY <1>1, <2>2, MaxTasksAssumption DEF Inv, Tables, TaskTableOK
    <3> QED BY <1>1, <1>6, <3>1, TimerAlone DEF IInv
  <2> QED BY <2>1, <2>2
<1> QED BY <1>2, <1>3, <1>4, <1>5, <1>6 DEF Next, HandlerStep

(* The inductive invariant holds in every reachable state.                 *)
THEOREM Invariance == ASSUME ErrorCodes PROVE Spec => []IInv
<1>1. IInv /\ [Next]_vars => IInv'
  BY StepInv
<1> QED BY <1>1, InitInv, PTL DEF Spec

(* Every variable has its type; in particular no stack holds more than one *)
(* task frame and no handler is ever entered while another runs.           *)
THEOREM TypeCorrect == ASSUME ErrorCodes PROVE Spec => []TypeOK
<1>1. IInv => TypeOK
  <2> SUFFICES ASSUME NEW c \in Context, NEW p \in 0 .. MaxPos, NEW on \in BOOLEAN,
                      Inv(c, p, on)
               PROVE  TypeOK
    BY DEF IInv
  <2>1. DOMAIN reg = Register /\ DOMAIN stack = Context
    BY DEF Inv, Storage
  <2>2. DOMAIN calls = Context /\ \A x \in Context : Len(calls[x]) <= 1
    <3>1. CASE NoCalls
      BY <3>1 DEF NoCalls
    <3>2. ASSUME NEW v \in Exception \cup IRQs, NEW e \in Context, InHandler(c, p, on, v, e)
          PROVE  DOMAIN calls = Context /\ \A x \in Context : Len(calls[x]) <= 1
      BY <3>2 DEF InHandler
    <3> QED BY <3>1, <3>2 DEF Inv, Phase, Own, InStub
  <2>3. active \in BOOLEAN
    BY Zenon DEF Inv, Signals
  <2> QED BY <2>1, <2>2, <2>3 DEF TypeOK, Inv, Tables, Storage, Signals
<1> QED BY <1>1, Invariance, PTL

(* A context that runs its own code has its own registers, all from one    *)
(* position, its own stack pointer, and its interrupts on unless it is     *)
(* kernelMain: no interrupt, switch or return ever mixes two frames.       *)
THEOREM ContextsIntact == ASSUME ErrorCodes PROVE Spec => []ContextIntact
<1>1. IInv => ContextIntact
  <2> SUFFICES ASSUME NEW c \in Context, NEW p \in 0 .. MaxPos, NEW on \in BOOLEAN,
                      Inv(c, p, on), Executing
               PROVE  ContextIntact
    BY DEF IInv, ContextIntact
  <2>1. Own(c, p, on)
    BY OwnRuns
  <2>2. reg["eip"].of = c /\ reg["eip"].pos = p
    BY <2>1, OwnIs
  <2> QED BY <2>1, <2>2 DEF ContextIntact, Own, Inv
<1> QED BY <1>1, Invariance, PTL

(* With interrupts on nothing is in service: no request is ever left       *)
(* unacknowledged at either controller.                                    *)
THEOREM AllAcknowledged == ASSUME ErrorCodes PROVE Spec => []NothingLeftInService
<1>1. IInv => NothingLeftInService
  <2> SUFFICES ASSUME NEW c \in Context, NEW p \in 0 .. MaxPos, NEW on \in BOOLEAN,
                      Inv(c, p, on), Executing
               PROVE  isr = {}
    BY DEF IInv, NothingLeftInService
  <2> QED BY OwnRuns DEF Own
<1> QED BY <1>1, Invariance, PTL

(* An acknowledgement ends the service of the handler's own request only,  *)
(* although the command the kernel sends does not name one.                *)
THEOREM AcknowledgementsMatch == ASSUME ErrorCodes PROVE Spec => AcknowledgesItsOwn
<1> DEFINE own == {Vector - hardwareInterruptOffset}
                    \cup (IF Vector - hardwareInterruptOffset >= 8 THEN {2} ELSE {})
<1>1. IInv /\ [Next]_vars => (isr' \subseteq isr => isr \ isr' \subseteq own)
  <2> SUFFICES ASSUME NEW c \in Context, NEW p \in 0 .. MaxPos, NEW on \in BOOLEAN,
                      Inv(c, p, on), [Next]_vars, isr' \subseteq isr
               PROVE  isr \ isr' \subseteq own
    BY DEF IInv
  <2>1. CASE AcknowledgeMaster \/ AcknowledgeSlave
    <3>1. PICK v \in Exception \cup IRQs, e \in Context : v \in Nat /\ InHandler(c, p, on, v, e)
      <4>1. At("acknowledge") \/ At("acknowledgeSlave")
        BY <2>1 DEF AcknowledgeMaster, AcknowledgeSlave
      <4> QED BY <4>1, HandlerRuns DEF Labels
    <3>2. /\ Vector = v
          /\ AcknowledgeMaster => v \in IRQs /\ Served(v)
          /\ AcknowledgeSlave => v \in 40 .. 47 /\ isr \subseteq {v - 32}
      BY <3>1, HandlerIs DEF AcknowledgeMaster, AcknowledgeSlave
    <3>3. isr \subseteq {v - 32} \/ (isr \subseteq {2, v - 32} /\ v \in 40 .. 47)
      BY <2>1, <3>2 DEF Served
    <3> QED BY <3>1, <3>2, <3>3 DEF hardwareInterruptOffset
  <2>2. CASE ~(AcknowledgeMaster \/ AcknowledgeSlave)
    <3>1. isr \subseteq isr'
      BY <2>2 DEF Next, HandlerStep, RaiseLine, Deliver, DeliverSpurious, RaiseException, Stub,
           HandleInactive, HandleTimer, HandleOther, Return, Execute, AddTaskAtBoot,
           SetActiveManager, Sti, vars, intVars
    <3> QED BY <3>1
  <2> QED BY <2>1, <2>2
<1>2. IInv /\ [Next]_vars => [isr' \subseteq isr => isr \ isr' \subseteq own]_vars
  BY <1>1
<1> QED BY <1>2, Invariance, PTL DEF Spec, AcknowledgesItsOwn

-----------------------------------------------------------------------------
(***************************************************************************)
(* Stubs, frames and pointers implement the switch of whole processor      *)
(* states: the safety part of ImplementsMultitasking.  Its fairness stays  *)
(* with TLC.                                                               *)
(***************************************************************************)

MSafety == M!Init /\ [][M!Next]_(M!vars)

SavedStates == [t \in Task |-> AbstractState(t)]

(* The abstract state: c at p on the processor, and every task where it    *)
(* was last taken off it.                                                  *)
Mapped(c, p, on) ==
  /\ Abstract(Interrupted("eip")) = [ctx |-> c, pos |-> p]
  /\ Interrupted("eflags").on = on
  /\ SavedStates = [t \in Task |-> [ctx |-> t, pos |-> left[t]]]

InvMaps == \A c \in Context, p \in 0 .. MaxPos, on \in BOOLEAN : Inv(c, p, on) => Mapped(c, p, on)

LEMMA Mapping == ASSUME ErrorCodes PROVE InvMaps
<1> SUFFICES ASSUME NEW c \in Context, NEW p \in 0 .. MaxPos, NEW on \in BOOLEAN, Inv(c, p, on)
             PROVE  Mapped(c, p, on)
  BY DEF InvMaps
<1>1. Interrupted("eip") = Word(c, "eip", p) /\ Interrupted("eflags") = Flags(c, p, on)
  BY Sees
<1>2. Word(c, "eip", p).of = c /\ Word(c, "eip", p).pos = p /\ Flags(c, p, on).on = on
  BY DEF Word, Flags
<1>3. ASSUME NEW t \in Task PROVE AbstractState(t) = [ctx |-> t, pos |-> left[t]]
  <2>1. CASE t = c
    BY <1>1, <1>2, <2>1 DEF AbstractState
  <2>2. CASE t # c
    <3>1. Parked(t) /\ stack \in [Context -> Seq(Words)]
      BY <2>2 DEF Inv, Tables, Storage
    <3>2. t \in Context /\ Top(t) = 13 /\ left[t] \in 0 .. MaxPos
      BY BaseIs DEF Context, Top, Inv, Tables
    <3>3. \A r \in Register :
            WordAt([stack |-> t, depth |-> Top(t)], Offset[r]) = Regs(t, left[t], TRUE)[r]
      <4>1. PICK q \in 0 .. MaxPos : q = left[t]
        BY <3>2
      <4>2. FrameOn(t, q, TRUE)
        BY <3>1, <4>1 DEF Parked
      <4>3. \A r \in Register :
              WordAt([stack |-> t, depth |-> Top(t)], Offset[r]) = Regs(t, q, TRUE)[r]
        <5>1. ASSUME NEW o \in BOOLEAN, FrameOn(t, q, o)
              PROVE  \A r \in Register :
                       WordAt([stack |-> t, depth |-> Top(t)], Offset[r]) = Regs(t, q, o)[r]
          BY <3>1, <3>2, <5>1, FrameSeen
        <5>2. TRUE \in BOOLEAN
          OBVIOUS
        <5> QED BY <4>2, <5>1, <5>2, Zenon
      <4> QED BY <4>1, <4>3
    <3>4. WordAt(cpustate[t], Offset["eip"]) = Word(t, "eip", left[t])
      <4>1. Regs(t, left[t], TRUE)["eip"] = Word(t, "eip", left[t])
        BY RegisterIs DEF Regs
      <4> QED BY <3>1, <3>2, <3>3, <4>1, RegisterIs DEF Parked
    <3> QED BY <1>1, <1>2, <2>2, <3>4 DEF AbstractState, Abstract, Word
  <2> QED BY <2>1, <2>2
<1> QED BY <1>1, <1>2, <1>3 DEF Mapped, Abstract, SavedStates

LEMMA InitMapped == ASSUME ErrorCodes PROVE Init => M!Init
<1> SUFFICES ASSUME Init PROVE M!Init
  OBVIOUS
<1>1. PICK c \in Context, p \in 0 .. MaxPos, on \in BOOLEAN : Inv(c, p, on)
  BY InitInv DEF IInv
<1>2. Mapped(c, p, on)
  BY <1>1, Mapping DEF InvMaps
<1>3. c = Boot /\ p = 0 /\ on = FALSE
  <2>1. Executing /\ reg["eip"].of = Boot /\ reg["eip"].pos = 0 /\ IF_flag = FALSE
    <3>1. Boot \in Context /\ 0 \in 0 .. MaxPos /\ FALSE \in BOOLEAN
      BY PosAssumption DEF Context
    <3>2. /\ Regs(Boot, 0, FALSE)["eip"].of = Boot /\ Regs(Boot, 0, FALSE)["eip"].pos = 0
          /\ Regs(Boot, 0, FALSE)["eflags"].on = FALSE /\ Boot # Kernel
      BY RegisterIs, ContextAssumption DEF Regs, Word, Flags
    <3> QED BY <3>2 DEF Init, Executing, IF_flag
  <2>2. Own(c, p, on)
    BY <1>1, <2>1, OwnRuns
  <2> QED BY <2>1, <2>2, OwnIs
<1>4. SavedStates = M!EntryState
  <2>1. \A t \in Task : left[t] = 0
    BY DEF Init, Context
  <2> QED BY <1>2, <2>1 DEF Mapped, M!EntryState
<1>5. left = [x \in M!Context |-> 0]
  BY DEF Init, Context, M!Context
<1> QED BY <1>2, <1>3, <1>4, <1>5
        DEF Init, ConstructTaskManager, M!Init, M!ConstructTaskManager, M!Slots, Slots, Mapped, SavedStates

LEMMA StepMapped ==
  ASSUME ErrorCodes, IInv, [Next]_vars
  PROVE  [M!Next]_(M!vars)
<1>1. PICK c \in Context, p \in 0 .. MaxPos, on \in BOOLEAN : Inv(c, p, on)
  BY DEF IInv
<1>2. Mapped(c, p, on) /\ InvMaps'
  <2>1. InvMaps
    BY Mapping
  <2>2. InvMaps'
    BY Mapping, PTL
  <2> QED BY <1>1, <2>1, <2>2 DEF InvMaps
<1>3. CASE \/ \E l \in Line : RaiseLine(l)
           \/ Deliver \/ DeliverSpurious \/ \E e \in Exception : RaiseException(e)
           \/ Stub \/ HandleInactive \/ HandleOther \/ AcknowledgeMaster \/ AcknowledgeSlave
           \/ Return \/ SetActiveManager \/ UNCHANGED vars
  <2>1. Inv(c, p, on)' /\ UNCHANGED <<taskVars, left>>
    BY <1>1, <1>3, QuietStep
  <2>2. Mapped(c, p, on)'
    BY <1>2, <2>1 DEF InvMaps
  <2> QED BY <1>2, <2>1, <2>2 DEF Mapped, SavedStates, M!vars, M!taskVars, taskVars
<1>4. CASE Execute
  <2>1. PICK q \in 0 .. MaxPos : q = (p + 1) % (MaxPos + 1) /\ Inv(c, q, on)'
    BY <1>1, <1>4, ExecuteStep
  <2>2. Mapped(c, q, on)' /\ UNCHANGED <<taskVars, left>>
    BY <1>2, <1>4, <2>1 DEF InvMaps, Execute
  <2>3. M!Execute
    BY <1>2, <2>1, <2>2 DEF Mapped, SavedStates, M!Execute, M!taskVars, taskVars
  <2> QED BY <2>3 DEF M!Next
<1>5. ASSUME NEW t \in Task, AddTaskAtBoot(t) PROVE [M!Next]_(M!vars)
  <2>1. Inv(c, p, on)' /\ on = FALSE
    BY <1>1, <1>5, AddStep
  <2>2. Mapped(c, p, on)' /\ UNCHANGED left /\ AddTask(t)
    BY <1>2, <1>5, <2>1 DEF InvMaps, AddTaskAtBoot, intVars
  <2>3. M!AddTaskAtBoot(t)
    BY <1>2, <2>1, <2>2
       DEF Mapped, SavedStates, M!AddTaskAtBoot, M!AddTask, AddTask, M!taskVars, taskVars
  <2> QED BY <2>3 DEF M!Next
<1>6. CASE Sti
  <2>1. Inv(c, p, TRUE)' /\ on = FALSE /\ UNCHANGED <<taskVars, left>>
    BY <1>1, <1>6, StiStep DEF Sti
  <2>2. Mapped(c, p, TRUE)'
    <3>1. TRUE \in BOOLEAN
      OBVIOUS
    <3> QED BY <1>2, <2>1, <3>1, Zenon DEF InvMaps
  <2>3. M!Activate
    BY <1>2, <2>1, <2>2 DEF Mapped, SavedStates, M!Activate, M!taskVars, taskVars
  <2> QED BY <2>3 DEF M!Next
<1>7. CASE HandleTimer
  <2>1. on = TRUE /\ left' = [left EXCEPT ![c] = p]
    BY <1>1, <1>7, TimerFinds
  <2>2. CASE ~(numTasks > 0)
    <3>1. numTasks <= 0
      BY <1>1, <2>2, MaxTasksAssumption DEF Inv, Tables, TaskTableOK
    <3>2. Inv(c, p, on)' /\ UNCHANGED taskVars /\ c = Boot
      BY <1>1, <1>7, <3>1, TimerAlone
    <3>3. Mapped(c, p, on)'
      BY <1>2, <3>2 DEF InvMaps
    <3>4. \A t \in Task : left'[t] = left[t]
      BY <1>1, <2>1, <3>2, ContextAssumption DEF Inv, Tables, Context
    <3>5. SavedStates' = SavedStates
      BY <1>2, <3>3, <3>4 DEF Mapped
    <3>6. M!Schedule([ctx |-> c, pos |-> p]) /\ M!Resumed([ctx |-> c, pos |-> p]) = [ctx |-> c, pos |-> p]
      BY <3>1, <3>2, <3>5 DEF SavedStates, M!Schedule, M!Resumed, M!taskVars, taskVars
    <3>7. /\ Abstract(Interrupted("eip")) = [ctx |-> c, pos |-> p]
          /\ Abstract(Interrupted("eip"))' = [ctx |-> c, pos |-> p]
      BY <1>2, <3>3 DEF Mapped
    <3>8. Interrupted("eflags").on /\ Interrupted("eflags").on' = Interrupted("eflags").on
      BY <1>2, <2>1, <3>3, Zenon DEF Mapped
    <3>9. left' = [left EXCEPT ![Abstract(Interrupted("eip")).ctx] = Abstract(Interrupted("eip")).pos]
      <4>1. Abstract(Interrupted("eip")).ctx = c /\ Abstract(Interrupted("eip")).pos = p
        BY <3>7
      <4> QED BY ONLY <2>1, <4>1
    <3>10. M!TimerInterrupt
      BY <3>6, <3>7, <3>8, <3>9, Zenon DEF M!TimerInterrupt
    <3> QED BY <3>10 DEF M!Next
  <2>3. CASE numTasks > 0
    <3>1. PICK n \in Task, q \in 0 .. MaxPos :
            n = tasks[NextTask] /\ q = left'[n] /\ Inv(n, q, TRUE)'
      BY <1>1, <1>7, <2>3, TimerSwitch
    <3>2. Mapped(n, q, TRUE)'
      <4>1. n \in Context /\ TRUE \in BOOLEAN
        BY DEF Context
      <4> QED BY <1>2, <3>1, <4>1, Zenon DEF InvMaps
    <3>3. numTasks \in Nat /\ Tables(c) /\ ~(numTasks <= 0) /\ currentTask \in Int
      BY <1>1, <2>3, MaxTasksAssumption DEF Inv, Tables, TaskTableOK
    <3>4. currentTask' = NextTask /\ UNCHANGED <<tasks, numTasks>>
      BY <1>7, <3>3 DEF HandleTimer, Schedule
    <3>5. M!Saved([ctx |-> c, pos |-> p]) = [t \in Task |-> [ctx |-> t, pos |-> left'[t]]]
      <4>1. CASE currentTask >= 0
        <5>1. M!Saved([ctx |-> c, pos |-> p]) = [SavedStates EXCEPT ![c] = [ctx |-> c, pos |-> p]]
          BY <3>3, <4>1 DEF M!Saved, Tables, SavedStates
        <5>2. \A t \in Task : left'[t] = IF t = c THEN p ELSE left[t]
          BY <2>1, <3>3 DEF Tables, Context
        <5> QED BY <1>2, <5>1, <5>2 DEF Mapped
      <4>2. CASE currentTask < 0
        <5>1. M!Saved([ctx |-> c, pos |-> p]) = SavedStates /\ c = Boot
          BY <3>3, <4>2 DEF M!Saved, Tables, SavedStates
        <5>2. \A t \in Task : left'[t] = left[t]
          BY <2>1, <3>3, <5>1, ContextAssumption DEF Tables, Context
        <5> QED BY <1>2, <5>1, <5>2 DEF Mapped
      <4> QED BY <3>3, <4>1, <4>2
    <3>6. M!Saved([ctx |-> c, pos |-> p]) = SavedStates'
      BY <3>2, <3>5 DEF Mapped
    <3>7. M!NextTask = NextTask
      BY DEF M!NextTask, NextTask
    <3>8. M!Schedule([ctx |-> c, pos |-> p])
      BY <2>3, <3>4, <3>6, <3>7 DEF M!Schedule, SavedStates
    <3>9. M!Resumed([ctx |-> c, pos |-> p]) = [ctx |-> n, pos |-> q]
      BY <3>1, <3>3, <3>5, <3>7 DEF M!Resumed
    <3>10. /\ Abstract(Interrupted("eip")) = [ctx |-> c, pos |-> p]
           /\ Abstract(Interrupted("eip"))' = [ctx |-> n, pos |-> q]
      BY <1>2, <3>2 DEF Mapped
    <3>11. Interrupted("eflags").on /\ Interrupted("eflags").on' = Interrupted("eflags").on
      BY <1>2, <2>1, <3>2, Zenon DEF Mapped
    <3>12. left' = [left EXCEPT ![Abstract(Interrupted("eip")).ctx] = Abstract(Interrupted("eip")).pos]
      <4>1. Abstract(Interrupted("eip")).ctx = c /\ Abstract(Interrupted("eip")).pos = p
        BY <3>10
      <4> QED BY ONLY <2>1, <4>1
    <3>13. M!TimerInterrupt
      BY <3>8, <3>9, <3>10, <3>11, <3>12, Zenon DEF M!TimerInterrupt
    <3> QED BY <3>13 DEF M!Next
  <2> QED BY <2>2, <2>3
<1> QED BY <1>3, <1>4, <1>5, <1>6, <1>7 DEF Next, HandlerStep

(* Interrupt delivery refines Multitasking: what the stubs do word by word *)
(* is, seen from the contexts, the switch of whole states proved there.    *)
THEOREM MultitaskingSafety == ASSUME ErrorCodes PROVE Spec => MSafety
<1>1. Init => M!Init
  BY InitMapped
<1>2. IInv /\ [Next]_vars => [M!Next]_(M!vars)
  BY StepMapped
<1> QED BY <1>1, <1>2, Invariance, PTL DEF Spec, MSafety
=============================================================================
