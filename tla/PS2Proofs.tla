-------------------------------- MODULE PS2Proofs -------------------------------
(***************************************************************************)
(* Proofs about PS2, for every set of keys, buttons and movements, every   *)
(* command byte the firmware may leave and any number of waiting bytes.    *)
(***************************************************************************)
EXTENDS PS2, SequenceTheorems, TLAPS

Starting == {"kbdDrain", "kbdEnable", "kbdAsk", "kbdRead", "kbdSet", "kbdStart",
             "mouseEnable", "mouseAsk", "mouseRead", "mouseSet", "mouseStart", "mouseAck"}

(* The places in Activate after the driver's offset and buttons are set. *)
Reset == {"mouseAsk", "mouseRead", "mouseSet", "mouseStart", "mouseAck"}

Owned(src) == {b \in AByte : b.src = src}

(* Types, and who puts which bytes where. *)
PortOK ==
  /\ cfg \in Bits /\ out \in AByte /\ last \in AByte
  /\ out.src = "none" => out = NoByte
  /\ answer \in Owned("ctrl") \cup {NoByte}
  /\ irq \subseteq {1, 12}

DeviceOK ==
  /\ owes \subseteq {"kbd", "aux"}
  /\ kbdQ \in Seq(Owned("kbd")) /\ auxQ \in Seq(Owned("aux"))
  /\ down \subseteq Key /\ pressed \subseteq Button

DriverOK ==
  /\ at \in Starting \cup {"on"} /\ status \in Bits
  /\ second \in BOOLEAN /\ (second => at = "on") /\ shift \in BOOLEAN
  /\ offset \in 0 .. 255 /\ (at \in Reset \cup {"on"} => offset \in 0 .. 2)
  /\ buffer \in [0 .. 2 -> AByte] /\ buttons \in Bits

HistoryOK ==
  /\ typed \in [code : Bits, shift : BOOLEAN, held : BOOLEAN, fresh : BOOLEAN]
  /\ held \subseteq 0 .. 2 /\ crossed \in BOOLEAN

Typed == PortOK /\ DeviceOK /\ DriverOK /\ HistoryOK

LEMMA ByteTyped ==
  ASSUME NEW bits \in Bits, NEW src \in {"none", "ctrl", "kbd", "aux"}, NEW tag \in 0 .. 3
  PROVE  /\ Byte(bits, src, tag) \in AByte
         /\ Byte(bits, src, tag) \in Owned(src)
BY DEF Byte, AByte, Owned

LEMMA NoByteTyped == NoByte \in AByte /\ NoByte.src = "none"
BY DEF NoByte, Byte, AByte, Bits

(* Only a byte in the buffer raises a request, and only that of its device. *)
LEMMA RaisedBy ==
  ASSUME NEW b \in AByte, NEW c
  PROVE  /\ Raised(b, c) \subseteq {1, 12}
         /\ b.src = "none" => Raised(b, c) = {}
         /\ b.src = "aux" => 1 \notin Raised(b, c)
         /\ b.src \in {"kbd", "ctrl"} => 12 \notin Raised(b, c)
BY DEF Raised, AByte

LEMMA DataTyped == ASSUME PortOK PROVE Data \in AByte
BY DEF Data, PortOK

(* What a read of the data port does, whoever makes it. *)
LEMMA ReadTyped ==
  ASSUME PortOK, NEW served, ReadData(served)
  PROVE  PortOK'
<1>1. answer \in AByte /\ (answer.src = "none" => answer = NoByte)
  BY NoByteTyped DEF PortOK, Owned
<1>2. Raised(answer, cfg) \subseteq {1, 12}
  BY <1>1, RaisedBy
<1> QED BY <1>1, <1>2, DataTyped, NoByteTyped DEF PortOK, ReadData

LEMMA AskTyped ==
  ASSUME PortOK, AskConfig
  PROVE  PortOK'
<1> DEFINE b == Byte(cfg, "ctrl", 0)
<1>1. b \in AByte /\ b \in Owned("ctrl") /\ b.src = "ctrl"
  <2>1. cfg \in Bits /\ "ctrl" \in {"none", "ctrl", "kbd", "aux"} /\ 0 \in 0 .. 3
    BY DEF PortOK
  <2>2. b \in AByte /\ b \in Owned("ctrl")
    BY <2>1, ByteTyped
  <2> QED BY <2>2 DEF Owned
<1>2. CASE out = NoByte
  <2>1. out' = b /\ answer' = answer /\ irq' = irq \cup Raised(b, cfg) /\ cfg' = cfg /\ last' = last
    BY <1>2 DEF AskConfig
  <2>2. Raised(b, cfg) \subseteq {1, 12}
    BY <1>1, RaisedBy
  <2> HIDE DEF b
  <2> QED BY <1>1, <2>1, <2>2 DEF PortOK
<1>3. CASE out # NoByte
  <2>1. out' = out /\ answer' = b /\ irq' = irq /\ cfg' = cfg /\ last' = last
    BY <1>3 DEF AskConfig
  <2> HIDE DEF b
  <2> QED BY <1>1, <2>1 DEF PortOK
<1> QED BY <1>2, <1>3

LEMMA SetTyped ==
  ASSUME PortOK, NEW c \in Bits, SetConfig(c)
  PROVE  PortOK'
<1>1. Raised(out, c) \subseteq {1, 12}
  BY RaisedBy DEF PortOK
<1> QED BY <1>1 DEF PortOK, SetConfig

LEMMA LoadTyped ==
  ASSUME PortOK, NEW b \in AByte, b.src # "none",
         out' = b, irq' = irq \cup Raised(b, cfg), UNCHANGED <<cfg, answer, last>>
  PROVE  PortOK'
<1>1. Raised(b, cfg) \subseteq {1, 12}
  BY RaisedBy
<1> QED BY <1>1 DEF PortOK

LEMMA TypedInit == Init => Typed
<1> SUFFICES ASSUME Init PROVE Typed
  OBVIOUS
<1>1. PortOK
  BY NoByteTyped, FirmwareAssumption DEF Init, PortOK, Bits
<1>2. DeviceOK
  BY DEF Init, DeviceOK
<1>3. DriverOK
  <2>1. PICK g \in Garbage : offset = g.offset /\ buttons = g.buttons
    BY DEF Init
  <2>2. offset \in 0 .. 255 /\ buttons \in Bits
    BY <2>1, GarbageAssumption DEF Bits
  <2> QED BY <2>2, NoByteTyped DEF Init, DriverOK, Starting, Reset, EmptyBuffer, Bits
<1>4. HistoryOK
  BY DEF Init, HistoryOK, NoKey, Bits
<1> QED BY <1>1, <1>2, <1>3, <1>4 DEF Typed

LEMMA TripleTyped ==
  ASSUME NEW S, NEW a \in S, NEW b \in S, NEW c \in S
  PROVE  <<a, b, c>> \in Seq(S)
OBVIOUS

(* The devices put bytes of their own at the ends of their queues. *)
LEMMA DeviceTyped ==
  ASSUME Typed,
         \/ \E k \in Key : Press(k) \/ LetGo(k)
         \/ \E b \in SUBSET Button, dx \in Motion : MousePacket(b, dx)
         \/ \E d \in {"kbd", "aux"} : Acknowledge(d)
  PROVE  Typed'
<1>1. ASSUME NEW k \in Key, Press(k) PROVE Typed'
  <2>1. k \in Bits
    BY KeyAssumption DEF Bits
  <2>2. ShiftTag \in 0 .. 3
    BY DEF ShiftTag
  <2>3. Byte(k, "kbd", ShiftTag) \in Owned("kbd")
    BY <2>1, <2>2, ByteTyped
  <2>4. DeviceOK'
    BY <1>1, <2>3, AppendProperties DEF Press, Typed, DeviceOK
  <2>5. PortOK' /\ DriverOK'
    BY <1>1 DEF Press, Typed, PortOK, DriverOK, port, driver
  <2>6. HistoryOK'
    BY <1>1 DEF Press, Typed, HistoryOK, Quiet, NoKey, Bits
  <2> QED BY <2>4, <2>5, <2>6 DEF Typed
<1>2. ASSUME NEW k \in Key, LetGo(k) PROVE Typed'
  <2>1. k \cup {Release} \in Bits
    BY KeyAssumption DEF Bits, Release
  <2>2. Byte(k \cup {Release}, "kbd", 0) \in Owned("kbd")
    BY <2>1, ByteTyped
  <2>3. DeviceOK'
    BY <1>2, <2>2, AppendProperties DEF LetGo, Typed, DeviceOK
  <2>4. PortOK' /\ DriverOK'
    BY <1>2 DEF LetGo, Typed, PortOK, DriverOK, port, driver
  <2>5. HistoryOK'
    BY <1>2 DEF LetGo, Typed, HistoryOK, Quiet, NoKey, Bits
  <2> QED BY <2>3, <2>4, <2>5 DEF Typed
<1>3. ASSUME NEW b \in SUBSET Button, NEW dx \in Motion, MousePacket(b, dx) PROVE Typed'
  <2>1. {3} \cup b \in Bits /\ dx \in Bits /\ {} \in Bits
    BY ButtonAssumption, MotionAssumption DEF Bits
  <2>2. /\ Byte({3} \cup b, "aux", 0) \in Owned("aux")
        /\ Byte(dx, "aux", 1) \in Owned("aux")
        /\ Byte({}, "aux", 2) \in Owned("aux")
    BY <2>1, ByteTyped
  <2>3. DeviceOK'
    BY <1>3, <2>2, TripleTyped DEF MousePacket, Typed, DeviceOK
  <2>4. PortOK' /\ DriverOK'
    BY <1>3 DEF MousePacket, Typed, PortOK, DriverOK, port, driver
  <2>5. HistoryOK'
    BY <1>3 DEF MousePacket, Typed, HistoryOK, Quiet, NoKey, Bits
  <2> QED BY <2>3, <2>4, <2>5 DEF Typed
<1>4. ASSUME NEW d \in {"kbd", "aux"}, Acknowledge(d) PROVE Typed'
  <2>1. ACK \in Bits
    BY DEF ACK, Bits
  <2>2. Byte(ACK, "kbd", 3) \in Owned("kbd") /\ Byte(ACK, "aux", 3) \in Owned("aux")
    BY <2>1, ByteTyped
  <2>3. DeviceOK'
    <3>1. CASE d = "kbd"
      BY <1>4, <2>2, <3>1, AppendProperties DEF Acknowledge, Typed, DeviceOK
    <3>2. CASE d = "aux"
      BY <1>4, <2>2, <3>2, AppendProperties DEF Acknowledge, Typed, DeviceOK
    <3> QED BY <3>1, <3>2
  <2>4. PortOK' /\ DriverOK'
    BY <1>4 DEF Acknowledge, Typed, PortOK, DriverOK, port, driver
  <2>5. HistoryOK'
    BY <1>4 DEF Acknowledge, Typed, HistoryOK, Quiet, NoKey, Bits
  <2> QED BY <2>3, <2>4, <2>5 DEF Typed
<1> QED BY <1>1, <1>2, <1>3, <1>4

(* The controller takes the first byte of a queue. *)
LEMMA ControllerTyped ==
  ASSUME Typed, LoadFromKeyboard \/ LoadFromMouse
  PROVE  Typed'
<1>1. CASE LoadFromKeyboard
  <2>1. Head(kbdQ) \in Owned("kbd") /\ Tail(kbdQ) \in Seq(Owned("kbd"))
    BY <1>1, HeadTailProperties DEF LoadFromKeyboard, Typed, DeviceOK
  <2>2. Head(kbdQ) \in AByte /\ Head(kbdQ).src # "none"
    BY <2>1 DEF Owned
  <2>3. PortOK'
    BY <1>1, <2>2, LoadTyped DEF LoadFromKeyboard, Typed
  <2>4. DeviceOK' /\ DriverOK'
    BY <1>1, <2>1 DEF LoadFromKeyboard, Typed, DeviceOK, DriverOK, driver
  <2>5. HistoryOK'
    BY <1>1 DEF LoadFromKeyboard, Typed, HistoryOK, Quiet, NoKey, Bits
  <2> QED BY <2>3, <2>4, <2>5 DEF Typed
<1>2. CASE LoadFromMouse
  <2>1. Head(auxQ) \in Owned("aux") /\ Tail(auxQ) \in Seq(Owned("aux"))
    BY <1>2, HeadTailProperties DEF LoadFromMouse, Typed, DeviceOK
  <2>2. Head(auxQ) \in AByte /\ Head(auxQ).src # "none"
    BY <2>1 DEF Owned
  <2>3. PortOK'
    BY <1>2, <2>2, LoadTyped DEF LoadFromMouse, Typed
  <2>4. DeviceOK' /\ DriverOK'
    BY <1>2, <2>1 DEF LoadFromMouse, Typed, DeviceOK, DriverOK, driver
  <2>5. HistoryOK'
    BY <1>2 DEF LoadFromMouse, Typed, HistoryOK, Quiet, NoKey, Bits
  <2> QED BY <2>3, <2>4, <2>5 DEF Typed
<1> QED BY <1>1, <1>2

(* The steps of the Activate functions, of which each keeps the handlers'  *)
(* variables: `second' is not set before the kernel is on.                 *)
LEMMA CommandTyped ==
  ASSUME Typed, NEW from \in Starting, NEW to \in Starting, NEW c \in Bits,
         to \in Reset => from \in Reset,
         NEW debtors \in SUBSET {"kbd", "aux"}, Command(from, to, c, debtors)
  PROVE  Typed'
<1>1. PortOK'
  <2>1. PortOK /\ SetConfig(c)
    BY DEF Command, Typed
  <2> QED BY <2>1, SetTyped
<1>2. DeviceOK' /\ HistoryOK'
  BY DEF Command, Typed, DeviceOK, HistoryOK, KeepDriver
<1>3. DriverOK'
  BY DEF Command, Typed, DriverOK, KeepDriver, Step, Bits, Starting
<1> QED BY <1>1, <1>2, <1>3 DEF Typed

LEMMA AskStepTyped ==
  ASSUME Typed, NEW from \in Starting, NEW to \in Starting,
         to \in Reset => from \in Reset, Ask(from, to)
  PROVE  Typed'
<1>1. PortOK'
  <2>1. PortOK /\ AskConfig
    BY DEF Ask, Typed
  <2> QED BY <2>1, AskTyped
<1>2. DeviceOK' /\ HistoryOK'
  BY DEF Ask, Typed, DeviceOK, HistoryOK, KeepDriver, device
<1>3. DriverOK'
  BY DEF Ask, Typed, DriverOK, KeepDriver, Step, Starting
<1> QED BY <1>1, <1>2, <1>3 DEF Typed

LEMMA ReadStatusTyped ==
  ASSUME Typed, NEW from \in Starting, NEW to \in Starting, NEW c \in Bits,
         to \in Reset => from \in Reset, ReadStatus(from, to, c)
  PROVE  Typed'
<1>1. PortOK'
  <2>1. PortOK /\ ReadData({})
    BY DEF ReadStatus, Typed
  <2> QED BY <2>1, ReadTyped
<1>2. crossed' \in BOOLEAN
  BY Zenon DEF ReadStatus
<1>3. DeviceOK' /\ HistoryOK'
  BY <1>2 DEF ReadStatus, Typed, DeviceOK, HistoryOK, KeepDriver, device
<1>4. DriverOK'
  BY DEF ReadStatus, Typed, DriverOK, KeepDriver, Step, Starting
<1> QED BY <1>1, <1>3, <1>4 DEF Typed

LEMMA ActivationTyped ==
  ASSUME Typed, Activation
  PROVE  Typed'
<1> USE DEF Starting, Reset
<1>1. cfg \in Bits /\ status \in Bits /\ Data.bits \in Bits /\ 0 .. 7 \in SUBSET Int
  BY DataTyped DEF Typed, PortOK, DriverOK, AByte
<1>2. CASE KbdDrain
  <2>1. CASE ReadData({}) /\ UNCHANGED <<device, status, crossed>> /\ KeepDriver /\ at' = at
    <3>1. PortOK /\ ReadData({})
      BY <2>1 DEF Typed
    <3>2. PortOK'
      BY <3>1, ReadTyped
    <3>3. DeviceOK' /\ DriverOK' /\ HistoryOK'
      BY <2>1 DEF Typed, DeviceOK, DriverOK, HistoryOK, KeepDriver, device
    <3> QED BY <3>2, <3>3 DEF Typed
  <2>2. CASE Step("kbdDrain", "kbdEnable") /\ UNCHANGED <<device, port, status, crossed>> /\ KeepDriver
    BY <2>2 DEF Typed, PortOK, DeviceOK, DriverOK, HistoryOK, KeepDriver, device, port, Step
  <2> QED BY <1>2, <2>1, <2>2 DEF KbdDrain
<1>3. CASE KbdEnable \/ KbdStart \/ MouseStart
  <2>1. cfg \ {4} \in Bits /\ cfg \ {5} \in Bits
    BY <1>1 DEF Bits
  <2> QED BY <1>3, <2>1, CommandTyped DEF KbdEnable, KbdStart, MouseStart
<1>4. CASE KbdSet \/ MouseSet
  BY <1>1, <1>4, CommandTyped DEF KbdSet, MouseSet
<1>5. CASE KbdAsk \/ MouseAsk
  BY <1>5, AskStepTyped DEF KbdAsk, MouseAsk
<1>6. CASE KbdRead \/ MouseRead
  <2>1. (Data.bits \cup {0}) \ {4} \in Bits /\ Data.bits \cup {1} \in Bits
    BY <1>1 DEF Bits
  <2> QED BY <1>6, <2>1, ReadStatusTyped DEF KbdRead, MouseRead
<1>7. CASE MouseEnable
  <2>1. cfg \ {5} \in Bits /\ SetConfig(cfg \ {5}) /\ PortOK
    BY <1>1, <1>7 DEF Bits, MouseEnable, Typed
  <2>2. PortOK'
    BY <2>1, SetTyped
  <2>3. DeviceOK' /\ HistoryOK'
    BY <1>7 DEF MouseEnable, Typed, DeviceOK, HistoryOK, device
  <2>4. DriverOK'
    BY <1>7 DEF MouseEnable, Typed, DriverOK, Step, Bits
  <2> QED BY <2>2, <2>3, <2>4 DEF Typed
<1>8. CASE MouseAck
  <2>1. PortOK /\ ReadData({})
    BY <1>8 DEF MouseAck, Typed
  <2>2. PortOK'
    BY <2>1, ReadTyped
  <2>3. crossed' \in BOOLEAN
    BY <1>8, Zenon DEF MouseAck
  <2>4. DeviceOK' /\ HistoryOK'
    BY <1>8, <2>3 DEF MouseAck, Typed, DeviceOK, HistoryOK, KeepDriver, device
  <2>5. DriverOK'
    BY <1>8 DEF MouseAck, Typed, DriverOK, KeepDriver, Step
  <2> QED BY <2>2, <2>4, <2>5 DEF Typed
<1> QED BY <1>2, <1>3, <1>4, <1>5, <1>6, <1>7, <1>8 DEF Activation

(* The handlers run with the kernel on and put bytes into their places. *)
LEMMA KeyboardTyped ==
  ASSUME Typed, KeyboardInterrupt
  PROVE  Typed'
<1>1. Data \in AByte /\ Data.bits \in Bits
  BY DataTyped DEF Typed, AByte
<1>2. PortOK'
  <2>1. PortOK /\ ReadData({1})
    BY DEF KeyboardInterrupt, Typed
  <2> QED BY <2>1, ReadTyped
<1>3. shift' \in BOOLEAN /\ crossed' \in BOOLEAN /\ second' \in BOOLEAN /\ at = "on"
  BY Zenon DEF KeyboardInterrupt, Typed, DriverOK
<1>4. (out # NoByte) \in BOOLEAN /\ (Data.tag = 1) \in BOOLEAN
  BY Zenon
<1>5. typed' \in [code : Bits, shift : BOOLEAN, held : BOOLEAN, fresh : BOOLEAN]
  <2>1. NoKey \in [code : Bits, shift : BOOLEAN, held : BOOLEAN, fresh : BOOLEAN]
    BY DEF NoKey, Bits
  <2>2. ASSUME Report(Data.bits, shift)
        PROVE typed' \in [code : Bits, shift : BOOLEAN, held : BOOLEAN, fresh : BOOLEAN]
    BY <1>1, <1>4, <2>2 DEF Report, Typed, DriverOK
  <2>3. typed' = NoKey \/ Report(Data.bits, shift)
    BY Zenon DEF KeyboardInterrupt
  <2> QED BY <2>1, <2>2, <2>3
<1>6. DeviceOK'
  BY DEF KeyboardInterrupt, Typed, DeviceOK, device
<1>7. DriverOK'
  BY <1>3 DEF KeyboardInterrupt, Typed, DriverOK
<1>8. HistoryOK'
  BY <1>3, <1>5 DEF KeyboardInterrupt, Typed, HistoryOK
<1> QED BY <1>2, <1>6, <1>7, <1>8 DEF Typed

LEMMA SecondReadTyped ==
  ASSUME Typed, KeyboardSecondRead
  PROVE  Typed'
<1>1. PortOK'
  <2>1. PortOK /\ ReadData({})
    BY DEF KeyboardSecondRead, Typed
  <2> QED BY <2>1, ReadTyped
<1>2. crossed' \in BOOLEAN
  BY Zenon DEF KeyboardSecondRead
<1>3. Backspace \in Bits
  BY DEF Backspace, Bits
<1>4. DeviceOK' /\ DriverOK'
  BY DEF KeyboardSecondRead, Typed, DeviceOK, DriverOK, device
<1>5. HistoryOK'
  <2>1. typed' = [code |-> Backspace, shift |-> FALSE, held |-> FALSE, fresh |-> TRUE] \/ typed' = NoKey
    BY Zenon DEF KeyboardSecondRead
  <2>2. typed' \in [code : Bits, shift : BOOLEAN, held : BOOLEAN, fresh : BOOLEAN]
    <3>1. NoKey \in [code : Bits, shift : BOOLEAN, held : BOOLEAN, fresh : BOOLEAN]
      BY DEF NoKey, Bits
    <3>2. [code |-> Backspace, shift |-> FALSE, held |-> FALSE, fresh |-> TRUE]
            \in [code : Bits, shift : BOOLEAN, held : BOOLEAN, fresh : BOOLEAN]
      BY <1>3
    <3> QED BY <2>1, <3>1, <3>2, Zenon
  <2> QED BY <1>2, <2>2 DEF KeyboardSecondRead, Typed, HistoryOK
<1> QED BY <1>1, <1>4, <1>5 DEF Typed

LEMMA MouseTyped ==
  ASSUME Typed, MouseInterrupt
  PROVE  Typed'
<1>1. typed' = NoKey /\ UNCHANGED <<device, at, status, second, shift, crossed>>
  BY DEF MouseInterrupt
<1>2. DeviceOK'
  BY <1>1 DEF Typed, DeviceOK, device
<1>3. CASE out.src # "aux"
  <2>1. irq' = irq \ {12} /\ UNCHANGED <<cfg, out, answer, last, offset, buffer, buttons, held>>
    BY <1>3 DEF MouseInterrupt
  <2>2. PortOK'
    BY <2>1 DEF Typed, PortOK
  <2>3. DriverOK' /\ HistoryOK'
    BY <1>1, <2>1 DEF Typed, DriverOK, HistoryOK, NoKey, Bits
  <2> QED BY <1>2, <2>2, <2>3 DEF Typed
<1>4. CASE out.src = "aux"
  <2>1. Data \in AByte
    BY DataTyped DEF Typed
  <2>2. PortOK /\ ReadData({12})
    BY <1>4 DEF MouseInterrupt, Typed
  <2>3. PortOK'
    BY <2>2, ReadTyped
  <2>4. NextOffset \in 0 .. 2
    BY DEF NextOffset, Typed, DriverOK
  <2>5. Written \in [0 .. 2 -> AByte]
    BY <2>1 DEF Written, Typed, DriverOK
  <2>6. offset' \in 0 .. 2
    BY <1>4, <2>4 DEF MouseInterrupt
  <2>7. CASE offset' = 0
    <3>1. Deliver(Written[0].bits) /\ buffer' = EmptyBuffer
      BY <1>4, <2>7 DEF MouseInterrupt
    <3>2. Written[0].bits \in Bits
      BY <2>5 DEF AByte
    <3>3. buttons' \in Bits /\ held' \subseteq 0 .. 2
      BY <3>1, <3>2 DEF Deliver, Typed, HistoryOK
    <3>4. buffer' \in [0 .. 2 -> AByte]
      BY <3>1, NoByteTyped DEF EmptyBuffer
    <3> QED BY <1>1, <1>2, <2>3, <2>6, <3>3, <3>4 DEF Typed, DriverOK, HistoryOK, NoKey, Bits
  <2>8. CASE offset' # 0
    <3>1. buffer' = Written /\ UNCHANGED <<buttons, held>>
      BY <1>4, <2>8 DEF MouseInterrupt
    <3> QED BY <1>1, <1>2, <2>3, <2>5, <2>6, <3>1 DEF Typed, DriverOK, HistoryOK, NoKey, Bits
  <2> QED BY <2>7, <2>8
<1> QED BY <1>3, <1>4

LEMMA TypedStep == Typed /\ [Next]_vars => Typed'
<1> SUFFICES ASSUME Typed, [Next]_vars PROVE Typed'
  OBVIOUS
<1>1. CASE Handler
  BY <1>1, KeyboardTyped, SecondReadTyped, MouseTyped DEF Handler
<1>2. CASE UNCHANGED vars
  BY <1>2 DEF vars, device, port, driver, history, Typed, PortOK, DeviceOK, DriverOK, HistoryOK
<1> QED BY <1>1, <1>2, DeviceTyped, ControllerTyped, ActivationTyped DEF Next

LEMMA TypedAlways == Spec => []Typed
BY TypedInit, TypedStep, PTL DEF Spec

(* Type correctness, and with it that MouseDriver::offset, a byte of any   *)
(* value when the object is made, is within the three places of the buffer *)
(* once interrupts are on: MouseDriver::Activate resets it before that.    *)
THEOREM TypeCorrect == Spec => []TypeOK
<1>1. Typed => TypeOK
  BY NoByteTyped DEF Typed, PortOK, DeviceOK, DriverOK, HistoryOK, TypeOK, Owned
<1> QED BY <1>1, TypedAlways, PTL

-----------------------------------------------------------------------------
(* The mouse buttons as the driver and its receivers know them.            *)

Devices ==
  \/ \E k \in Key : Press(k) \/ LetGo(k)
  \/ \E b \in SUBSET Button, dx \in Motion : MousePacket(b, dx)
  \/ \E d \in {"kbd", "aux"} : Acknowledge(d)
  \/ LoadFromKeyboard
  \/ LoadFromMouse

LEMMA DevicesKeep ==
  ASSUME Devices
  PROVE  UNCHANGED <<driver, held, crossed>> /\ typed' = NoKey
BY DEF Devices, Press, LetGo, MousePacket, Acknowledge, LoadFromKeyboard, LoadFromMouse, Quiet

ButtonsInv ==
  /\ at # "on" => held = {}
  /\ at \in Reset => buttons = {} /\ offset = 0
  /\ EventsAlternate

(* A delivered packet reports exactly the buttons that differ. *)
LEMMA DeliverReports ==
  ASSUME NEW packet, Deliver(packet), held = buttons \cap 0 .. 2
  PROVE  held' = packet \cap 0 .. 2 /\ buttons' = packet
BY DEF Deliver

LEMMA ButtonsInit == Init => ButtonsInv
BY DEF Init, ButtonsInv, Reset, EventsAlternate

LEMMA ButtonsStep ==
  ASSUME Typed, ButtonsInv, [Next]_vars
  PROVE  ButtonsInv'
<1>1. CASE UNCHANGED <<at, held, buttons, offset>>
  BY <1>1 DEF ButtonsInv, EventsAlternate
<1>2. CASE Devices
  BY <1>1, <1>2, DevicesKeep DEF driver
<1>3. CASE KeyboardInterrupt
  BY <1>1, <1>3 DEF KeyboardInterrupt
<1>4. CASE KeyboardSecondRead
  BY <1>1, <1>4 DEF KeyboardSecondRead
<1>5. CASE MouseInterrupt
  <2>1. at = "on" /\ at' = "on" /\ held = buttons \cap 0 .. 2
    BY <1>5 DEF MouseInterrupt, ButtonsInv, EventsAlternate
  <2>2. CASE UNCHANGED <<buttons, held>>
    BY <2>1, <2>2 DEF ButtonsInv, EventsAlternate, Reset
  <2>3. CASE Deliver(Written[0].bits)
    BY <2>1, <2>3, DeliverReports DEF ButtonsInv, EventsAlternate, Reset
  <2> QED BY <1>5, <2>2, <2>3 DEF MouseInterrupt
<1>6. CASE MouseEnable
  BY <1>6 DEF MouseEnable, Step, ButtonsInv, EventsAlternate, Reset
<1>7. CASE MouseAck
  BY <1>7 DEF MouseAck, Step, KeepDriver, ButtonsInv, EventsAlternate, Reset
<1>8. CASE \/ KbdDrain \/ KbdEnable \/ KbdAsk \/ KbdRead \/ KbdSet \/ KbdStart
           \/ MouseAsk \/ MouseRead \/ MouseSet \/ MouseStart
  <2>1. UNCHANGED <<held, buttons, offset>> /\ at # "on" /\ at' # "on" /\ (at' \in Reset => at \in Reset)
    BY <1>8 DEF KbdDrain, KbdEnable, KbdAsk, KbdRead, KbdSet, KbdStart, MouseAsk, MouseRead,
                MouseSet, MouseStart, Command, Ask, ReadStatus, Step, KeepDriver, Reset
  <2> QED BY <2>1 DEF ButtonsInv, EventsAlternate
<1>9. CASE UNCHANGED vars
  BY <1>1, <1>9 DEF vars, driver, history
<1> QED BY <1>2, <1>3, <1>4, <1>5, <1>6, <1>7, <1>8, <1>9 DEF Next, Activation, Handler, Devices

(* Whatever bytes the driver takes for packets, the receivers of its       *)
(* events and MouseDriver::buttons agree on which buttons are down.        *)
THEOREM EventsAlternateAlways == Spec => []EventsAlternate
<1>1. Typed /\ ButtonsInv /\ [Next]_vars => ButtonsInv'
  BY ButtonsStep
<1>2. ButtonsInv => EventsAlternate
  BY DEF ButtonsInv
<1> QED BY <1>1, <1>2, ButtonsInit, TypedAlways, PTL DEF Spec

-----------------------------------------------------------------------------
(* The command byte and the controller's answers, as long as every read    *)
(* has got the answer it was meant for: an answer is in the buffer, and    *)
(* nowhere else, when it is read, and it is the command byte as it still   *)
(* is.  A byte in its place makes the read cross.                          *)

Reading == {"kbdRead", "mouseRead"}
KbdSetUp == {"kbdStart", "mouseEnable", "on"} \cup Reset

AnswerWaits ==
  /\ at \notin Reading => answer = NoByte /\ out.src # "ctrl"
  /\ at \in Reading =>
       out # NoByte /\ (out.src = "ctrl" => out.bits = cfg /\ answer = NoByte)

StatusRight ==
  /\ at = "kbdSet" => 0 \in status /\ 4 \notin status
  /\ at = "mouseSet" => {0, 1} \subseteq status /\ {4, 5} \cap status = {}

ConfigRight ==
  /\ at \in KbdSetUp => 0 \in cfg /\ 4 \notin cfg
  /\ at \in {"mouseAsk", "mouseRead"} => 5 \notin cfg
  /\ at \in {"mouseStart", "mouseAck", "on"} => 1 \in cfg /\ 5 \notin cfg

AnswersInv == ~crossed => AnswerWaits /\ StatusRight /\ ConfigRight

LEMMA AnswersInit == Init => AnswersInv
BY DEF Init, AnswersInv, AnswerWaits, StatusRight, ConfigRight, Reading, KbdSetUp, Reset,
       NoByte, Byte

(* A read when no answer waits empties the buffer. *)
LEMMA ReadEmpties ==
  ASSUME NEW served, ReadData(served), answer = NoByte
  PROVE  /\ out' = NoByte /\ answer' = NoByte /\ cfg' = cfg
         /\ NoByte.src = "none" /\ last' = Data
BY NoByteTyped DEF ReadData

(* Once a read has crossed, nothing is claimed any more. *)
LEMMA CrossedStays ==
  ASSUME [Next]_vars, crossed
  PROVE  crossed'
<1>1. CASE UNCHANGED crossed
  BY <1>1
<1>2. CASE Devices
  BY <1>2, DevicesKeep
<1>3. CASE Activation
  BY <1>3 DEF Activation, KbdDrain, KbdEnable, KbdAsk, KbdRead, KbdSet, KbdStart, MouseEnable,
     MouseAsk, MouseRead, MouseSet, MouseStart, MouseAck, Command, Ask, ReadStatus
<1>4. CASE Handler
  BY <1>4 DEF Handler, KeyboardInterrupt, KeyboardSecondRead, MouseInterrupt
<1> QED BY <1>1, <1>2, <1>3, <1>4 DEF Next, Devices, vars, history

LEMMA AnswersStep ==
  ASSUME Typed, AnswersInv, [Next]_vars
  PROVE  AnswersInv'
<1> SUFFICES ASSUME ~crossed' PROVE (AnswerWaits /\ StatusRight /\ ConfigRight)'
  BY DEF AnswersInv
<1> USE DEF Reading, KbdSetUp, Reset
<1>0. AnswerWaits /\ StatusRight /\ ConfigRight
  BY CrossedStays DEF AnswersInv
<1>1. CASE UNCHANGED <<cfg, out, answer, at, status>>
  BY <1>0, <1>1 DEF AnswerWaits, StatusRight, ConfigRight
<1>2. CASE Devices
  <2>1. CASE \/ \E k \in Key : Press(k) \/ LetGo(k)
             \/ \E b \in SUBSET Button, dx \in Motion : MousePacket(b, dx)
             \/ \E d \in {"kbd", "aux"} : Acknowledge(d)
    BY <1>1, <2>1 DEF Press, LetGo, MousePacket, Acknowledge, port, driver
  <2>2. CASE LoadFromKeyboard \/ LoadFromMouse
    <3>1. out = NoByte /\ UNCHANGED <<cfg, answer, at, status>>
      BY <2>2 DEF LoadFromKeyboard, LoadFromMouse, driver
    <3>2. out'.src # "ctrl"
      BY <2>2, HeadTailProperties DEF LoadFromKeyboard, LoadFromMouse, Typed, DeviceOK, Owned
    <3> QED BY <1>0, <3>1, <3>2 DEF AnswerWaits, StatusRight, ConfigRight
  <2> QED BY <1>2, <2>1, <2>2 DEF Devices
<1>3. CASE KbdDrain
  <2>1. CASE ReadData({}) /\ at = "kbdDrain" /\ at' = at
    <3>1. answer = NoByte
      BY <1>0, <2>1 DEF AnswerWaits
    <3>2. out' = NoByte /\ answer' = NoByte /\ NoByte.src = "none"
      BY <2>1, <3>1, ReadEmpties
    <3> QED BY <2>1, <3>2 DEF AnswerWaits, StatusRight, ConfigRight
  <2>2. CASE Step("kbdDrain", "kbdEnable") /\ UNCHANGED port
    BY <1>0, <2>2 DEF AnswerWaits, StatusRight, ConfigRight, Step, port
  <2> QED BY <1>3, <2>1, <2>2 DEF KbdDrain
<1>4. CASE KbdEnable \/ KbdSet \/ KbdStart \/ MouseSet \/ MouseStart
  <2>1. UNCHANGED <<out, answer>>
    BY <1>4 DEF KbdEnable, KbdSet, KbdStart, MouseSet, MouseStart, Command, SetConfig
  <2>2. at \notin Reading /\ at' \notin Reading
    BY <1>4 DEF KbdEnable, KbdSet, KbdStart, MouseSet, MouseStart, Command, Step
  <2>3. AnswerWaits'
    BY <1>0, <2>1, <2>2 DEF AnswerWaits
  <2>4. (StatusRight /\ ConfigRight)'
    BY <1>0, <1>4 DEF KbdEnable, KbdSet, KbdStart, MouseSet, MouseStart, Command, Step, SetConfig,
                      StatusRight, ConfigRight
  <2> QED BY <2>3, <2>4
<1>5. CASE MouseEnable
  BY <1>0, <1>5 DEF MouseEnable, Step, SetConfig, AnswerWaits, StatusRight, ConfigRight
<1>6. CASE KbdAsk \/ MouseAsk
  <2>1. AskConfig /\ UNCHANGED status /\ at \notin Reading /\ at' \in Reading /\ cfg' = cfg
    BY <1>6 DEF KbdAsk, MouseAsk, Ask, Step, AskConfig
  <2>2. answer = NoByte /\ out.src # "ctrl"
    BY <1>0, <2>1 DEF AnswerWaits
  <2>3. out' # NoByte /\ (out'.src = "ctrl" => out'.bits = cfg' /\ answer' = NoByte)
    BY <2>1, <2>2 DEF AskConfig, NoByte, Byte
  <2>4. (StatusRight /\ ConfigRight)'
    BY <1>0, <1>6, <2>1 DEF KbdAsk, MouseAsk, Ask, Step, StatusRight, ConfigRight
  <2> QED BY <2>1, <2>3, <2>4 DEF AnswerWaits
<1>7. CASE KbdRead \/ MouseRead
  <2>1. /\ ReadData({}) /\ at \in Reading /\ at' \notin Reading
        /\ crossed' = (crossed \/ Data.src # "ctrl")
    BY <1>7 DEF KbdRead, MouseRead, ReadStatus, Step
  <2>2. Data = out
    BY <1>0, <2>1 DEF AnswerWaits, Data
  <2>3. Data.bits = cfg /\ answer = NoByte
    BY <1>0, <2>1, <2>2 DEF AnswerWaits
  <2>4. out' = NoByte /\ answer' = NoByte /\ NoByte.src = "none" /\ cfg' = cfg
    BY <2>1, <2>3, ReadEmpties
  <2>5. (StatusRight /\ ConfigRight)'
    BY <1>0, <1>7, <2>3, <2>4 DEF KbdRead, MouseRead, ReadStatus, Step, StatusRight, ConfigRight
  <2> QED BY <2>1, <2>4, <2>5 DEF AnswerWaits
<1>8. CASE MouseAck
  <2>1. ReadData({}) /\ at = "mouseAck" /\ at' = "on"
    BY <1>8 DEF MouseAck, Step
  <2>2. out' = NoByte /\ answer' = NoByte /\ NoByte.src = "none" /\ cfg' = cfg
    BY <1>0, <2>1, ReadEmpties DEF AnswerWaits
  <2> QED BY <1>0, <2>1, <2>2 DEF AnswerWaits, StatusRight, ConfigRight
<1>9. CASE Handler
  <2>1. at = "on" /\ at' = "on"
    BY <1>9 DEF Handler, KeyboardInterrupt, KeyboardSecondRead, MouseInterrupt, Typed, DriverOK
  <2>2. CASE \E served : ReadData(served)
    <3>1. PICK served : ReadData(served)
      BY <2>2
    <3>2. out' = NoByte /\ answer' = NoByte /\ NoByte.src = "none" /\ cfg' = cfg
      BY <1>0, <2>1, <3>1, ReadEmpties DEF AnswerWaits
    <3> QED BY <1>0, <2>1, <3>2 DEF AnswerWaits, StatusRight, ConfigRight
  <2>3. CASE UNCHANGED <<cfg, out, answer>>
    BY <1>0, <2>1, <2>3 DEF AnswerWaits, StatusRight, ConfigRight
  <2> QED BY <1>9, <2>2, <2>3 DEF Handler, KeyboardInterrupt, KeyboardSecondRead, MouseInterrupt
<1>10. CASE UNCHANGED vars
  BY <1>1, <1>10 DEF vars, port, driver
<1> QED BY <1>2, <1>3, <1>4, <1>5, <1>6, <1>7, <1>8, <1>9, <1>10
        DEF Next, Activation, Devices

LEMMA AnswersAlways == Spec => []AnswersInv
<1>1. Typed /\ AnswersInv /\ [Next]_vars => AnswersInv'
  BY AnswersStep
<1> QED BY <1>1, AnswersInit, TypedAlways, PTL DEF Spec

(* Unless a read got another byte than the answer it was meant for, both   *)
(* devices are on and their interrupts enabled once the kernel runs,       *)
(* whatever command byte the firmware left.                                *)
THEOREM BothHeardAlways == Spec => []BothHeard
<1>1. AnswersInv => BothHeard
  BY DEF AnswersInv, ConfigRight, BothHeard, KbdSetUp
<1> QED BY <1>1, AnswersAlways, PTL

-----------------------------------------------------------------------------
(* Mouse packets: where the bytes of a packet are, from the mouse's queue  *)
(* through the output buffer to the driver's buffer.                       *)

AuxAck == Byte(ACK, "aux", 3)

(* q is a packet from its byte o on; Newest, all of the latest packet. *)
Rest(q, o) == Len(q) = 3 - o /\ \A i \in 1 .. Len(q) : q[i].tag = o + i - 1
Newest(q) == Rest(q, 0) /\ q[1].bits \cap (0 .. 2) = pressed

MouseSilent ==
  at \in Starting \ {"mouseAck"} =>
    auxQ = <<>> /\ out.src # "aux" /\ "aux" \notin owes /\ pressed = {}

(* From the command to report until the kernel runs.  The acknowledgement  *)
(* precedes the first packet, which is sent when it is in the buffer.      *)
MouseAnswering ==
  at = "mouseAck" =>
    /\ "aux" \in owes => auxQ = <<>> /\ out.src # "aux" /\ pressed = {}
    /\ "aux" \notin owes =>
         \/ out.src # "aux" /\ auxQ = <<AuxAck>> /\ pressed = {}
         \/ out = AuxAck /\ auxQ = <<>> /\ pressed = {}
         \/ out = AuxAck /\ Newest(auxQ)

(* The byte in the output buffer belongs at offset, and the rest of its    *)
(* packet waits behind it; when it is the last, a new one may wait.        *)
InOrder ==
  /\ out.src = "aux" =>
       out.tag = offset /\ (Rest(auxQ, offset + 1) \/ (offset = 2 /\ Newest(auxQ)))
  /\ out.src # "aux" => Rest(auxQ, offset) \/ (offset = 0 /\ auxQ = <<>>)

Collected == \A i \in 0 .. 2 : i < offset => buffer[i].src = "aux" /\ buffer[i].tag = i

(* The first byte of the latest packet, wherever it is, and after it the   *)
(* driver's buttons say which buttons are down.                            *)
Latest ==
  /\ Len(auxQ) = 3 => Newest(auxQ)
  /\ Len(auxQ) # 3 /\ offset > 0 => buffer[0].bits \cap (0 .. 2) = pressed
  /\ Len(auxQ) # 3 /\ offset = 0 /\ out.src = "aux" => out.bits \cap (0 .. 2) = pressed
  /\ Len(auxQ) # 3 /\ offset = 0 /\ out.src # "aux" => buttons \cap (0 .. 2) = pressed

MouseAligned ==
  at = "on" /\ ~crossed => "aux" \notin owes /\ InOrder /\ Collected /\ Latest

PacketsInv == MouseSilent /\ MouseAnswering /\ MouseAligned

LEMMA PacketsInit == Init => PacketsInv
BY DEF Init, PacketsInv, MouseSilent, MouseAnswering, MouseAligned, Starting, NoByte, Byte

LEMMA AuxAckTag == AuxAck.src = "aux" /\ AuxAck.tag = 3 /\ AuxAck # NoByte
BY DEF AuxAck, NoByte, Byte

LEMMA RestTail ==
  ASSUME NEW q \in Seq(Owned("aux")), NEW o \in 0 .. 2, Rest(q, o), q # <<>>
  PROVE  /\ Head(q) = q[1] /\ q[1].tag = o
         /\ Len(Tail(q)) = 2 - o /\ Rest(Tail(q), o + 1)
<1>1. Len(q) \in Nat /\ Len(q) = 3 - o /\ \A i \in 1 .. Len(q) : q[i].tag = o + i - 1
  BY LenProperties DEF Rest
<1>2. /\ Head(q) = q[1] /\ Len(Tail(q)) = Len(q) - 1
      /\ \A i \in 1 .. Len(Tail(q)) : Tail(q)[i] = q[i + 1]
  BY HeadTailProperties
<1>3. q[1].tag = o
  BY <1>1
<1>4. ASSUME NEW i \in 1 .. Len(Tail(q)) PROVE Tail(q)[i].tag = (o + 1) + i - 1
  BY <1>1, <1>2, <1>4
<1>5. Len(Tail(q)) = 2 - o /\ Len(Tail(q)) = 3 - (o + 1)
  BY <1>1, <1>2
<1>6. Rest(Tail(q), o + 1)
  BY <1>4, <1>5 DEF Rest
<1> QED BY <1>2, <1>3, <1>5, <1>6

(* What the mouse sends is the rest of nothing and the latest. *)
LEMMA PacketNewest ==
  ASSUME Typed, NEW b \in SUBSET Button, NEW dx \in Motion, MousePacket(b, dx)
  PROVE  Newest(auxQ)' /\ Len(auxQ') = 3 /\ Rest(auxQ', 0)
<1>1. /\ auxQ' = <<Byte({3} \cup b, "aux", 0), Byte(dx, "aux", 1), Byte({}, "aux", 2)>>
      /\ pressed' = b
  BY DEF MousePacket
<1>2. Len(auxQ') = 3 /\ auxQ'[1].tag = 0 /\ auxQ'[2].tag = 1 /\ auxQ'[3].tag = 2
  BY <1>1 DEF Byte
<1>3. Rest(auxQ', 0)
  BY <1>2 DEF Rest
<1>4. auxQ'[1].bits = {3} \cup b
  BY <1>1 DEF Byte
<1>5. ({3} \cup b) \cap (0 .. 2) = b
  <2>1. b \subseteq 0 .. 2 /\ 3 \notin 0 .. 2
    BY ButtonAssumption
  <2> QED BY <2>1
<1> QED BY <1>1, <1>2, <1>3, <1>4, <1>5 DEF Newest

LEMMA PacketsKept ==
  ASSUME PacketsInv, UNCHANGED <<at, out, owes, auxQ, pressed, offset, buffer, buttons, crossed>>
  PROVE  PacketsInv'
BY DEF PacketsInv, MouseSilent, MouseAnswering, MouseAligned, InOrder, Collected, Latest, Newest

(* The steps of the mouse and of the controller. *)
LEMMA PacketsDevices ==
  ASSUME Typed, PacketsInv, Devices
  PROVE  PacketsInv'
<1>0. UNCHANGED <<at, offset, buffer, buttons, crossed>>
  BY DevicesKeep DEF driver
<1>1. ASSUME NEW k \in Key, Press(k) \/ LetGo(k) PROVE PacketsInv'
  BY <1>1, <1>0, PacketsKept DEF Press, LetGo, port
<1>2. ASSUME NEW b \in SUBSET Button, NEW dx \in Motion, MousePacket(b, dx) PROVE PacketsInv'
  <2>1. Reporting /\ auxQ = <<>> /\ UNCHANGED <<owes, out>>
    BY <1>2 DEF MousePacket, port
  <2>2. Newest(auxQ)' /\ Len(auxQ') = 3 /\ Rest(auxQ', 0)
    BY <1>2, PacketNewest
  <2>3. MouseSilent'
    BY <1>0, <2>1 DEF Reporting, MouseSilent, Starting
  <2>4. MouseAnswering'
    <3>1. CASE at = "mouseAck"
      <4>1. "aux" \notin owes /\ out = AuxAck
        BY <2>1, <3>1 DEF Reporting, PacketsInv, MouseAnswering, Newest, Rest
      <4> QED BY <1>0, <2>1, <2>2, <4>1 DEF MouseAnswering
    <3> QED BY <1>0, <3>1 DEF MouseAnswering
  <2>5. MouseAligned'
    <3> SUFFICES ASSUME at = "on", ~crossed PROVE ("aux" \notin owes /\ InOrder /\ Collected /\ Latest)'
      BY <1>0 DEF MouseAligned
    <3>1. "aux" \notin owes /\ InOrder /\ Collected /\ offset \in 0 .. 2
      BY DEF PacketsInv, MouseAligned, Typed, DriverOK
    <3>2. IF out.src = "aux" THEN offset = 2 /\ out.tag = offset ELSE offset = 0
      BY <2>1, <3>1 DEF InOrder, Rest, Newest
    <3>3. InOrder'
      BY <1>0, <2>1, <2>2, <3>2 DEF InOrder
    <3>4. Collected' /\ Latest'
      BY <1>0, <2>1, <2>2, <3>1 DEF Collected, Latest
    <3> QED BY <2>1, <3>1, <3>3, <3>4
  <2> QED BY <2>3, <2>4, <2>5 DEF PacketsInv
<1>3. CASE Acknowledge("kbd")
  <2>1. UNCHANGED <<out, auxQ, pressed>> /\ ("aux" \in owes' <=> "aux" \in owes)
    BY <1>3 DEF Acknowledge, port
  <2> QED BY <1>0, <2>1 DEF PacketsInv, MouseSilent, MouseAnswering, MouseAligned, InOrder,
                            Collected, Latest, Newest
<1>4. CASE Acknowledge("aux")
  <2>1. /\ "aux" \in owes /\ "aux" \notin owes' /\ UNCHANGED <<out, pressed>>
        /\ auxQ' = Append(auxQ, AuxAck)
    BY <1>4 DEF Acknowledge, port, AuxAck
  <2>2. MouseSilent'
    BY <1>0, <2>1 DEF PacketsInv, MouseSilent
  <2>3. MouseAligned'
    BY <1>0, <2>1 DEF PacketsInv, MouseAligned
  <2>4. MouseAnswering'
    <3>1. CASE at = "mouseAck"
      <4>1. auxQ = <<>> /\ out.src # "aux" /\ pressed = {}
        BY <2>1, <3>1 DEF PacketsInv, MouseAnswering
      <4>2. Append(<<>>, AuxAck) = <<AuxAck>>
        OBVIOUS
      <4> QED BY <1>0, <2>1, <4>1, <4>2 DEF MouseAnswering
    <3> QED BY <1>0, <3>1 DEF MouseAnswering
  <2> QED BY <2>2, <2>3, <2>4 DEF PacketsInv
<1>5. CASE LoadFromKeyboard
  <2>1. out = NoByte /\ UNCHANGED <<owes, auxQ, pressed>>
    BY <1>5 DEF LoadFromKeyboard
  <2>2. out.src # "aux" /\ out # AuxAck
    BY <2>1, AuxAckTag, NoByteTyped
  <2>3. out'.src # "aux"
    BY <1>5, HeadTailProperties DEF LoadFromKeyboard, Typed, DeviceOK, Owned
  <2> QED BY <1>0, <2>1, <2>2, <2>3 DEF PacketsInv, MouseSilent, MouseAnswering, MouseAligned,
                                        InOrder, Collected, Latest, Newest
<1>6. CASE LoadFromMouse
  <2>1. /\ out = NoByte /\ auxQ # <<>> /\ out' = Head(auxQ) /\ auxQ' = Tail(auxQ)
        /\ UNCHANGED <<owes, pressed>>
    BY <1>6 DEF LoadFromMouse
  <2>2. out.src # "aux" /\ out # AuxAck
    BY <2>1, AuxAckTag, NoByteTyped
  <2>3. auxQ \in Seq(Owned("aux")) /\ Head(auxQ) = auxQ[1] /\ Head(auxQ).src = "aux"
    BY <2>1, HeadTailProperties DEF Typed, DeviceOK, Owned
  <2>4. MouseSilent'
    BY <1>0, <2>1 DEF PacketsInv, MouseSilent
  <2>5. MouseAnswering'
    <3>1. CASE at = "mouseAck"
      <4>1. "aux" \notin owes /\ auxQ = <<AuxAck>> /\ pressed = {}
        BY <2>1, <2>2, <3>1 DEF PacketsInv, MouseAnswering
      <4>2. Head(<<AuxAck>>) = AuxAck /\ Tail(<<AuxAck>>) = <<>>
        OBVIOUS
      <4> QED BY <1>0, <2>1, <4>1, <4>2 DEF MouseAnswering
    <3> QED BY <1>0, <3>1 DEF MouseAnswering
  <2>6. MouseAligned'
    <3> SUFFICES ASSUME at = "on", ~crossed PROVE ("aux" \notin owes /\ InOrder /\ Collected /\ Latest)'
      BY <1>0 DEF MouseAligned
    <3>1. "aux" \notin owes /\ InOrder /\ Collected /\ Latest /\ offset \in 0 .. 2
      BY DEF PacketsInv, MouseAligned, Typed, DriverOK
    <3>2. Rest(auxQ, offset)
      BY <2>1, <2>2, <3>1 DEF InOrder
    <3>3. /\ auxQ[1].tag = offset /\ Rest(Tail(auxQ), offset + 1)
          /\ Len(Tail(auxQ)) = 2 - offset
      BY <2>1, <2>3, <3>1, <3>2, RestTail
    <3>4. InOrder'
      BY <1>0, <2>1, <2>3, <3>3 DEF InOrder
    <3>5. CASE offset = 0
      <4>1. Len(auxQ) = 3
        BY <3>2, <3>5 DEF Rest
      <4>2. auxQ[1].bits \cap (0 .. 2) = pressed
        BY <3>1, <4>1 DEF Latest, Newest
      <4>3. Latest'
        BY <1>0, <2>1, <2>3, <3>3, <3>5, <4>2 DEF Latest
      <4> QED BY <1>0, <2>1, <3>1, <3>4, <4>3 DEF Collected
    <3>6. CASE offset > 0
      <4>1. Len(auxQ) # 3
        BY <3>1, <3>2, <3>6 DEF Rest
      <4>2. Latest'
        BY <1>0, <2>1, <3>1, <3>3, <3>6, <4>1 DEF Latest
      <4> QED BY <1>0, <2>1, <3>1, <3>4, <4>2 DEF Collected
    <3> QED BY <3>1, <3>5, <3>6
  <2> QED BY <2>4, <2>5, <2>6 DEF PacketsInv
<1> QED BY <1>1, <1>2, <1>3, <1>4, <1>5, <1>6 DEF Devices

(* No port access of the kernel puts a mouse byte into the buffer. *)
LEMMA ReadsNoMouse ==
  ASSUME PortOK, NEW served, ReadData(served)
  PROVE  out'.src # "aux"
BY NoByteTyped DEF PortOK, ReadData, Owned

LEMMA PacketsActivation ==
  ASSUME Typed, ButtonsInv, AnswersInv, PacketsInv, Activation
  PROVE  PacketsInv'
<1> DEFINE Silent == auxQ = <<>> /\ out.src # "aux" /\ "aux" \notin owes /\ pressed = {}
<1>0. PortOK
  BY DEF Typed
<1>1. CASE \/ KbdDrain \/ KbdEnable \/ KbdAsk \/ KbdRead \/ KbdSet \/ KbdStart
           \/ MouseEnable \/ MouseAsk \/ MouseRead \/ MouseSet
  <2>1. at \in Starting \ {"mouseAck"} /\ at' \in Starting \ {"mouseAck"}
    BY <1>1 DEF KbdDrain, KbdEnable, KbdAsk, KbdRead, KbdSet, KbdStart, MouseEnable, MouseAsk,
                MouseRead, MouseSet, Command, Ask, ReadStatus, Step, Starting
  <2>2. Silent
    BY <2>1 DEF PacketsInv, MouseSilent
  <2>3. UNCHANGED <<auxQ, pressed>> /\ ("aux" \in owes' => "aux" \in owes)
    BY <1>1 DEF KbdDrain, KbdEnable, KbdAsk, KbdRead, KbdSet, KbdStart, MouseEnable, MouseAsk,
                MouseRead, MouseSet, Command, Ask, ReadStatus, device
  <2>4. ReadData({}) \/ AskConfig \/ out' = out
    BY <1>1 DEF KbdDrain, KbdEnable, KbdAsk, KbdRead, KbdSet, KbdStart, MouseEnable, MouseAsk,
                MouseRead, MouseSet, Command, Ask, ReadStatus, SetConfig, port
  <2>5. out'.src # "aux"
    BY <1>0, <2>2, <2>4, ReadsNoMouse DEF AskConfig, Byte
  <2> QED BY <2>1, <2>2, <2>3, <2>5 DEF PacketsInv, MouseSilent, MouseAnswering, MouseAligned, Starting
<1>2. CASE MouseStart
  <2>1. /\ at = "mouseStart" /\ at' = "mouseAck" /\ "aux" \in owes'
        /\ UNCHANGED <<out, auxQ, pressed>>
    BY <1>2 DEF MouseStart, Command, Step, SetConfig
  <2>2. Silent
    BY <2>1 DEF PacketsInv, MouseSilent, Starting
  <2> QED BY <2>1, <2>2 DEF PacketsInv, MouseSilent, MouseAnswering, MouseAligned
<1>3. CASE MouseAck
  <2>1. /\ at = "mouseAck" /\ at' = "on" /\ ReadData({})
        /\ crossed' = (crossed \/ out # AuxAck)
        /\ UNCHANGED <<owes, auxQ, pressed, offset, buffer, buttons>>
    BY <1>3 DEF MouseAck, Step, device, KeepDriver, AuxAck
  <2>2. MouseSilent' /\ MouseAnswering'
    BY <2>1 DEF MouseSilent, MouseAnswering, Starting
  <2>3. MouseAligned'
    <3> SUFFICES ASSUME ~crossed' PROVE ("aux" \notin owes /\ InOrder /\ Collected /\ Latest)'
      BY DEF MouseAligned
    <3>1. out = AuxAck /\ ~crossed
      BY <2>1
    <3>2. "aux" \notin owes /\ ((auxQ = <<>> /\ pressed = {}) \/ Newest(auxQ))
      BY <2>1, <3>1, AuxAckTag DEF PacketsInv, MouseAnswering
    <3>3. buttons = {} /\ offset = 0
      BY <2>1 DEF ButtonsInv, Reset
    <3>4. out'.src # "aux"
      BY <1>0, <2>1, ReadsNoMouse
    <3>5. InOrder' /\ Collected'
      BY <2>1, <3>2, <3>3, <3>4 DEF InOrder, Collected, Newest
    <3>6. Newest(auxQ) => Newest(auxQ)' /\ Len(auxQ') = 3
      BY <2>1 DEF Newest, Rest
    <3>7. Latest'
      BY <2>1, <3>2, <3>3, <3>4, <3>6 DEF Latest
    <3> QED BY <2>1, <3>2, <3>5, <3>7
  <2> QED BY <2>2, <2>3 DEF PacketsInv
<1> QED BY <1>1, <1>2, <1>3 DEF Activation

(* The mouse's handler takes one byte; with the third it delivers. *)
LEMMA PacketsMouseInterrupt ==
  ASSUME Typed, PacketsInv, MouseInterrupt, out.src = "aux", ~crossed
  PROVE  (InOrder /\ Collected /\ Latest)'
<1>1. at = "on" /\ UNCHANGED <<owes, auxQ, pressed>> /\ ReadData({12}) /\ offset' = NextOffset
  BY DEF MouseInterrupt, device
<1>2. InOrder /\ Collected /\ Latest /\ offset \in 0 .. 2 /\ buffer \in [0 .. 2 -> AByte]
  BY <1>1 DEF PacketsInv, MouseAligned, Typed, DriverOK
<1>3. out'.src # "aux"
  BY <1>1, ReadsNoMouse DEF Typed
<1>4. out.tag = offset /\ (Rest(auxQ, offset + 1) \/ (offset = 2 /\ Newest(auxQ)))
  BY <1>2 DEF InOrder
<1>5. Data = out
  BY NoByteTyped DEF Data
<1>6. Written[offset] = out /\ (\A i \in 0 .. 2 : i # offset => Written[i] = buffer[i])
  BY <1>2, <1>5 DEF Written
<1>7. CASE offset = 2
  <2>1. offset' = 0 /\ Deliver(Written[0].bits) /\ Written[0] = buffer[0]
    BY <1>1, <1>2, <1>6, <1>7 DEF MouseInterrupt, NextOffset
  <2>2. buttons' = buffer[0].bits
    BY <2>1 DEF Deliver
  <2>3. (auxQ = <<>> /\ Len(auxQ) = 0) \/ (Newest(auxQ) /\ Len(auxQ) = 3 /\ Rest(auxQ, 0))
    <3>1. auxQ \in Seq(Owned("aux"))
      BY DEF Typed, DeviceOK
    <3>2. CASE Rest(auxQ, offset + 1)
      <4>1. Len(auxQ) = 0
        BY <1>7, <3>2 DEF Rest
      <4> QED BY <3>1, <4>1, EmptySeq
    <3> QED BY <1>4, <3>2 DEF Newest, Rest
  <2>4. InOrder'
    BY <1>1, <1>3, <2>1, <2>3 DEF InOrder
  <2>5. Collected'
    BY <2>1 DEF Collected
  <2>6. Latest'
    <3>1. CASE Len(auxQ) = 0
      <4>1. buffer[0].bits \cap (0 .. 2) = pressed
        BY <1>2, <1>7, <3>1 DEF Latest
      <4> QED BY <1>1, <1>3, <2>1, <2>2, <3>1, <4>1 DEF Latest
    <3>2. CASE Newest(auxQ) /\ Len(auxQ) = 3
      BY <1>1, <2>1, <3>2 DEF Latest, Newest
    <3> QED BY <2>3, <3>1, <3>2
  <2> QED BY <2>4, <2>5, <2>6
<1>8. CASE offset # 2
  <2>1. offset' = offset + 1 /\ offset' \in 1 .. 2
    BY <1>1, <1>2, <1>8 DEF NextOffset
  <2>2. buffer' = Written
    BY <2>1 DEF MouseInterrupt
  <2>3. Rest(auxQ, offset + 1) /\ Len(auxQ) # 3
    <3>1. Rest(auxQ, offset + 1)
      BY <1>4, <1>8
    <3>2. Len(auxQ) = 3 - (offset + 1)
      BY <3>1 DEF Rest
    <3> QED BY <1>2, <3>1, <3>2
  <2>4. InOrder'
    BY <1>1, <1>3, <2>1, <2>3 DEF InOrder
  <2>5. Collected'
    <3> SUFFICES ASSUME NEW i \in 0 .. 2, i < offset'
                 PROVE buffer'[i].src = "aux" /\ buffer'[i].tag = i
      BY DEF Collected
    <3>1. CASE i = offset
      BY <1>4, <1>6, <2>2, <3>1
    <3>2. CASE i # offset
      <4>1. i < offset
        BY <1>2, <2>1, <3>2
      <4> QED BY <1>2, <1>6, <2>2, <3>2, <4>1 DEF Collected
    <3> QED BY <3>1, <3>2
  <2>6. Latest'
    <3>1. Written[0].bits \cap (0 .. 2) = pressed
      <4>1. CASE offset = 0
        BY <1>2, <1>6, <2>3, <4>1 DEF Latest
      <4>2. CASE offset > 0
        BY <1>2, <1>6, <2>3, <4>2 DEF Latest
      <4> QED BY <1>2, <4>1, <4>2
    <3> QED BY <1>1, <2>1, <2>2, <2>3, <3>1 DEF Latest
  <2> QED BY <2>4, <2>5, <2>6
<1> QED BY <1>7, <1>8

LEMMA PacketsHandler ==
  ASSUME Typed, AnswersInv, PacketsInv, Handler
  PROVE  PacketsInv'
<1>1. at = "on" /\ at' = "on" /\ UNCHANGED <<owes, auxQ, pressed>>
  BY DEF Handler, KeyboardInterrupt, KeyboardSecondRead, MouseInterrupt, Typed, DriverOK, device
<1>2. MouseSilent' /\ MouseAnswering'
  BY <1>1 DEF MouseSilent, MouseAnswering, Starting
<1>3. MouseAligned'
  <2> SUFFICES ASSUME ~crossed' PROVE ("aux" \notin owes /\ InOrder /\ Collected /\ Latest)'
    BY DEF MouseAligned
  <2>1. ~crossed
    BY CrossedStays DEF Next
  <2>2. "aux" \notin owes /\ InOrder /\ Collected /\ Latest
    BY <1>1, <2>1 DEF PacketsInv, MouseAligned
  <2>3. CASE out.src # "aux" /\ out'.src # "aux" /\ UNCHANGED <<offset, buffer, buttons>>
    BY <1>1, <2>2, <2>3 DEF InOrder, Collected, Latest, Newest
  <2>4. CASE KeyboardInterrupt
    <3>1. out.src # "aux" /\ ReadData({1}) /\ UNCHANGED <<offset, buffer, buttons>>
      BY <2>4 DEF KeyboardInterrupt
    <3> QED BY <2>3, <3>1, ReadsNoMouse DEF Typed
  <2>5. CASE KeyboardSecondRead
    <3>1. out = NoByte /\ ReadData({}) /\ UNCHANGED <<offset, buffer, buttons>>
      BY <2>5 DEF KeyboardSecondRead
    <3> QED BY <2>3, <3>1, NoByteTyped, ReadsNoMouse DEF Typed
  <2>6. CASE MouseInterrupt /\ out.src = "aux"
    BY <1>1, <2>1, <2>2, <2>6, PacketsMouseInterrupt
  <2>7. CASE MouseInterrupt /\ out.src # "aux"
    BY <1>1, <2>2, <2>3, <2>7 DEF MouseInterrupt
  <2> QED BY <2>4, <2>5, <2>6, <2>7 DEF Handler
<1> QED BY <1>2, <1>3 DEF PacketsInv

LEMMA PacketsStep ==
  ASSUME Typed, ButtonsInv, AnswersInv, PacketsInv, [Next]_vars
  PROVE  PacketsInv'
<1>1. CASE UNCHANGED vars
  BY <1>1, PacketsKept DEF vars, device, port, driver, history
<1> QED BY <1>1, PacketsDevices, PacketsActivation, PacketsHandler DEF Next, Devices

LEMMA ButtonsAlways == Spec => []ButtonsInv
<1>1. Typed /\ ButtonsInv /\ [Next]_vars => ButtonsInv'
  BY ButtonsStep
<1> QED BY <1>1, ButtonsInit, TypedAlways, PTL DEF Spec

LEMMA PacketsAlways == Spec => []PacketsInv
<1>1. Typed /\ ButtonsInv /\ AnswersInv /\ PacketsInv /\ [Next]_vars => PacketsInv'
  BY PacketsStep
<1> QED BY <1>1, PacketsInit, TypedAlways, ButtonsAlways, AnswersAlways, PTL DEF Spec

(* Unless a read has crossed, the driver puts every byte of a mouse packet *)
(* into the place of the buffer it belongs to, whatever comes in between.  *)
THEOREM PacketsAlignedAlways == Spec => []PacketsAligned
<1>1. Typed /\ PacketsInv => PacketsAligned
  <2> SUFFICES ASSUME Typed, PacketsInv, at = "on", ~crossed
               PROVE  /\ Collected
                      /\ out.src = "aux" => out.tag = offset
                      /\ out.src # "aux" /\ auxQ # <<>> => Head(auxQ).tag = offset
    BY DEF PacketsAligned, Collected
  <2>1. InOrder /\ Collected /\ offset \in 0 .. 2 /\ auxQ \in Seq(Owned("aux"))
    BY DEF PacketsInv, MouseAligned, Typed, DriverOK, DeviceOK
  <2>2. ASSUME out.src # "aux", auxQ # <<>> PROVE Head(auxQ).tag = offset
    <3>1. Rest(auxQ, offset)
      BY <2>1, <2>2 DEF InOrder
    <3> QED BY <2>1, <2>2, <3>1, RestTail
  <2> QED BY <2>1, <2>2 DEF InOrder
<1> QED BY <1>1, TypedAlways, PacketsAlways, PTL

(* Once every byte of the mouse has been read, what OnMouseDown and        *)
(* OnMouseUp have reported is how the buttons are.                         *)
THEOREM ButtonsAgreeAlways == Spec => []ButtonsAgree
<1>1. Typed /\ ButtonsInv /\ PacketsInv => ButtonsAgree
  <2> SUFFICES ASSUME Typed, ButtonsInv, PacketsInv,
                      at = "on", ~crossed, auxQ = <<>>, out.src # "aux"
               PROVE  held = pressed
    BY DEF ButtonsAgree
  <2>1. InOrder /\ Latest /\ Len(auxQ) = 0 /\ offset \in 0 .. 2
    BY DEF PacketsInv, MouseAligned, Typed, DriverOK
  <2>2. offset = 0
    BY <2>1 DEF InOrder, Rest
  <2>3. buttons \cap (0 .. 2) = pressed
    BY <2>1, <2>2 DEF Latest
  <2>4. held = buttons \cap (0 .. 2)
    BY DEF ButtonsInv, EventsAlternate
  <2> QED BY <2>3, <2>4
<1> QED BY <1>1, TypedAlways, ButtonsAlways, PacketsAlways, PTL

-----------------------------------------------------------------------------
(* The shift keys: what the driver's variable will be when it has handled  *)
(* the bytes that wait, against what is held down at the keyboard.         *)

(* shift after the byte b, and after the first n bytes of q. *)
After(f, b) ==
  IF b.src = "kbd" THEN b.bits \in Shifts \/ (f /\ ~ReleasesShift(b.bits)) ELSE f

ShiftedAfter(f, q, n) ==
  \/ f /\ \A i \in 1 .. n : ~ReleasesShift(q[i].bits)
  \/ \E i \in 1 .. n : q[i].bits \in Shifts /\ \A j \in i + 1 .. n : ~ReleasesShift(q[j].bits)

(* Each key in q that will be handled with shift set was pressed with a    *)
(* shift key down, and if shift is set in the end one is down now.         *)
TagsRight(f, q) ==
  \A i \in 1 .. Len(q) : Release \notin q[i].bits /\ ShiftedAfter(f, q, i - 1) => q[i].tag = 1
ShiftAgrees(f, q) ==
  TagsRight(f, q) /\ (ShiftedAfter(f, q, Len(q)) => down \cap Shifts # {})

KeysInv ==
  /\ at # "on" => shift = FALSE
  /\ ~crossed =>
       /\ KeysAsPressed
       /\ at = "on" /\ 1 \in irq => out.src = "kbd" \/ last.bits = ACK
       /\ out.src = "kbd" /\ Release \notin out.bits /\ shift => out.tag = 1
       /\ ShiftAgrees(After(shift, out), kbdQ)

LEMMA ShiftCodes ==
  /\ \A k \in Shifts : Release \notin k /\ ReleasesShift(k \cup {Release})
  /\ \A code : ReleasesShift(code) => Release \in code
  /\ Release \in ACK /\ ACK \notin Shifts /\ ~ReleasesShift(ACK)
  /\ Release \notin Backspace
<1>1. \A k \in Shifts : Release \notin k
  BY DEF Shifts, LeftShift, RightShift, Release
<1>2. \A k \in Shifts : ReleasesShift(k \cup {Release})
  BY DEF ReleasesShift
<1>3. \A code : ReleasesShift(code) => Release \in code
  BY DEF ReleasesShift
<1>4. Release \in ACK
  BY DEF Release, ACK
<1>5. ~ReleasesShift(ACK)
  <2>1. 4 \in ACK /\ 4 \notin LeftShift \cup {Release}
    BY DEF ACK, LeftShift, Release
  <2>2. 2 \notin ACK /\ 2 \in RightShift \cup {Release}
    BY DEF ACK, RightShift, Release
  <2> QED BY <2>1, <2>2 DEF ReleasesShift, Shifts
<1> QED BY <1>1, <1>2, <1>3, <1>4, <1>5 DEF Backspace, Release

LEMMA ShiftedNone ==
  ASSUME NEW f \in BOOLEAN, NEW q
  PROVE  ShiftedAfter(f, q, 0) <=> f
BY DEF ShiftedAfter

(* Handling the first byte moves it from the queue into the variable. *)
LEMMA ShiftedTail ==
  ASSUME NEW f \in BOOLEAN, NEW q \in Seq(Owned("kbd")), q # <<>>,
         NEW n \in 0 .. Len(q) - 1, ShiftedAfter(After(f, q[1]), Tail(q), n)
  PROVE  ShiftedAfter(f, q, n + 1)
<1>1. /\ Len(q) \in Nat /\ Len(q) > 0
      /\ \A i \in 1 .. Len(q) - 1 : Tail(q)[i] = q[i + 1]
      /\ q[1].src = "kbd"
  BY LenProperties, EmptySeq, HeadTailProperties DEF Owned
<1>2. CASE \E i \in 1 .. n : /\ Tail(q)[i].bits \in Shifts
                              /\ \A j \in i + 1 .. n : ~ReleasesShift(Tail(q)[j].bits)
  <2>1. PICK i \in 1 .. n : /\ Tail(q)[i].bits \in Shifts
                             /\ \A j \in i + 1 .. n : ~ReleasesShift(Tail(q)[j].bits)
    BY <1>2
  <2>2. q[i + 1].bits \in Shifts /\ i + 1 \in 1 .. n + 1
    BY <1>1, <2>1
  <2>3. ASSUME NEW j \in (i + 1) + 1 .. n + 1 PROVE ~ReleasesShift(q[j].bits)
    <3>1. j - 1 \in i + 1 .. n /\ j - 1 \in 1 .. Len(q) - 1 /\ (j - 1) + 1 = j
      BY <1>1
    <3>2. Tail(q)[j - 1] = q[j]
      BY <1>1, <3>1
    <3> QED BY <2>1, <3>1, <3>2
  <2> QED BY <2>2, <2>3 DEF ShiftedAfter
<1>3. CASE After(f, q[1]) /\ \A i \in 1 .. n : ~ReleasesShift(Tail(q)[i].bits)
  <2>1. ASSUME NEW j \in 2 .. n + 1 PROVE ~ReleasesShift(q[j].bits)
    <3>1. j - 1 \in 1 .. n /\ j - 1 \in 1 .. Len(q) - 1 /\ (j - 1) + 1 = j
      BY <1>1
    <3>2. Tail(q)[j - 1] = q[j]
      BY <1>1, <3>1
    <3> QED BY <1>3, <3>1, <3>2
  <2>2. CASE q[1].bits \in Shifts
    <3>1. 1 \in 1 .. n + 1 /\ 1 + 1 = 2
      OBVIOUS
    <3> QED BY <2>1, <2>2, <3>1 DEF ShiftedAfter
  <2>3. CASE f /\ ~ReleasesShift(q[1].bits)
    <3>1. \A i \in 1 .. n + 1 : i = 1 \/ i \in 2 .. n + 1
      OBVIOUS
    <3>2. \A i \in 1 .. n + 1 : ~ReleasesShift(q[i].bits)
      BY <2>1, <2>3, <3>1
    <3> QED BY <2>3, <3>2 DEF ShiftedAfter
  <2> QED BY <1>1, <1>3, <2>2, <2>3 DEF After
<1> QED BY <1>2, <1>3 DEF ShiftedAfter

(* A byte added at the end changes nothing before it. *)
LEMMA ShiftedAppend ==
  ASSUME NEW f \in BOOLEAN, NEW q \in Seq(Owned("kbd")), NEW b \in Owned("kbd")
  PROVE  /\ \A n \in 0 .. Len(q) : ShiftedAfter(f, Append(q, b), n) => ShiftedAfter(f, q, n)
         /\ ShiftedAfter(f, Append(q, b), Len(q) + 1) =>
              b.bits \in Shifts \/ (ShiftedAfter(f, q, Len(q)) /\ ~ReleasesShift(b.bits))
<1> DEFINE qb == Append(q, b)
<1>1. /\ Len(q) \in Nat /\ Len(qb) = Len(q) + 1
      /\ \A i \in 1 .. Len(q) : qb[i] = q[i]
      /\ qb[Len(q) + 1] = b
  BY LenProperties, AppendProperties
<1> HIDE DEF qb
<1>2. ASSUME NEW n \in 0 .. Len(q), ShiftedAfter(f, qb, n) PROVE ShiftedAfter(f, q, n)
  <2>1. \A i \in 1 .. n : qb[i] = q[i]
    BY <1>1
  <2>2. CASE f /\ \A i \in 1 .. n : ~ReleasesShift(qb[i].bits)
    BY <2>1, <2>2 DEF ShiftedAfter
  <2>3. CASE \E i \in 1 .. n : qb[i].bits \in Shifts /\ \A j \in i + 1 .. n : ~ReleasesShift(qb[j].bits)
    <3>1. PICK i \in 1 .. n : qb[i].bits \in Shifts /\ \A j \in i + 1 .. n : ~ReleasesShift(qb[j].bits)
      BY <2>3
    <3>2. \A j \in i + 1 .. n : ~ReleasesShift(q[j].bits)
      BY <2>1, <3>1
    <3> QED BY <2>1, <3>1, <3>2 DEF ShiftedAfter
  <2> QED BY <1>2, <2>2, <2>3 DEF ShiftedAfter
<1>3. ASSUME ShiftedAfter(f, qb, Len(q) + 1), b.bits \notin Shifts
      PROVE  ShiftedAfter(f, q, Len(q)) /\ ~ReleasesShift(b.bits)
  <2>1. CASE f /\ \A i \in 1 .. Len(q) + 1 : ~ReleasesShift(qb[i].bits)
    BY <1>1, <2>1 DEF ShiftedAfter
  <2>2. CASE \E i \in 1 .. Len(q) + 1 :
               /\ qb[i].bits \in Shifts
               /\ \A j \in i + 1 .. Len(q) + 1 : ~ReleasesShift(qb[j].bits)
    <3>1. PICK i \in 1 .. Len(q) + 1 :
               /\ qb[i].bits \in Shifts
               /\ \A j \in i + 1 .. Len(q) + 1 : ~ReleasesShift(qb[j].bits)
      BY <2>2
    <3>2. i \in 1 .. Len(q)
      BY <1>1, <1>3, <3>1
    <3>3. ~ReleasesShift(b.bits)
      BY <1>1, <3>1, <3>2
    <3>4. \A j \in i + 1 .. Len(q) : ~ReleasesShift(q[j].bits)
      BY <1>1, <3>1, <3>2
    <3> QED BY <1>1, <3>1, <3>2, <3>3, <3>4 DEF ShiftedAfter
  <2> QED BY <1>3, <2>1, <2>2 DEF ShiftedAfter
<1> QED BY <1>2, <1>3 DEF qb

LEMMA TagsAppend ==
  ASSUME NEW f \in BOOLEAN, NEW q \in Seq(Owned("kbd")), NEW b \in Owned("kbd"), TagsRight(f, q),
         Release \notin b.bits /\ ShiftedAfter(f, q, Len(q)) => b.tag = 1
  PROVE  TagsRight(f, Append(q, b))
<1> DEFINE qb == Append(q, b)
<1>1. /\ Len(q) \in Nat /\ Len(qb) = Len(q) + 1
      /\ \A i \in 1 .. Len(q) : qb[i] = q[i]
      /\ qb[Len(q) + 1] = b
  BY LenProperties, AppendProperties
<1>2. \A n \in 0 .. Len(q) : ShiftedAfter(f, qb, n) => ShiftedAfter(f, q, n)
  BY ShiftedAppend
<1> HIDE DEF qb
<1>3. ASSUME NEW i \in 1 .. Len(qb), Release \notin qb[i].bits, ShiftedAfter(f, qb, i - 1)
      PROVE  qb[i].tag = 1
  <2>1. i - 1 \in 0 .. Len(q)
    BY <1>1
  <2>2. ShiftedAfter(f, q, i - 1)
    BY <1>2, <1>3, <2>1
  <2>3. CASE i \in 1 .. Len(q)
    BY <1>1, <1>3, <2>2, <2>3 DEF TagsRight
  <2>4. CASE i = Len(q) + 1
    <3>1. i - 1 = Len(q) /\ qb[i] = b
      BY <1>1, <2>4
    <3> QED BY <1>3, <2>2, <3>1
  <2> QED BY <1>1, <2>3, <2>4
<1> QED BY <1>3 DEF TagsRight, qb

LEMMA AgreesLess ==
  ASSUME NEW f \in BOOLEAN, NEW g \in BOOLEAN, g => f, NEW q, ShiftAgrees(f, q)
  PROVE  ShiftAgrees(g, q)
<1>1. \A n : ShiftedAfter(g, q, n) => ShiftedAfter(f, q, n)
  BY DEF ShiftedAfter
<1> QED BY <1>1 DEF ShiftAgrees, TagsRight

LEMMA AgreesTail ==
  ASSUME NEW f \in BOOLEAN, NEW q \in Seq(Owned("kbd")), q # <<>>, ShiftAgrees(f, q)
  PROVE  /\ Release \notin q[1].bits /\ f => q[1].tag = 1
         /\ ShiftAgrees(After(f, q[1]), Tail(q))
<1>1. /\ Len(q) \in Nat /\ Len(q) > 0 /\ Len(Tail(q)) = Len(q) - 1
      /\ \A i \in 1 .. Len(q) - 1 : Tail(q)[i] = q[i + 1]
  BY LenProperties, EmptySeq, HeadTailProperties
<1>2. Release \notin q[1].bits /\ f => q[1].tag = 1
  <2>1. 1 \in 1 .. Len(q) /\ 1 - 1 = 0
    BY <1>1
  <2>2. ShiftedAfter(f, q, 0) <=> f
    BY ShiftedNone
  <2> QED BY <2>1, <2>2 DEF ShiftAgrees, TagsRight
<1>3. TagsRight(After(f, q[1]), Tail(q))
  <2> SUFFICES ASSUME NEW i \in 1 .. Len(q) - 1, Release \notin Tail(q)[i].bits,
                      ShiftedAfter(After(f, q[1]), Tail(q), i - 1)
               PROVE  Tail(q)[i].tag = 1
    BY <1>1 DEF TagsRight
  <2>1. i - 1 \in 0 .. Len(q) - 1 /\ (i - 1) + 1 = i /\ i + 1 \in 1 .. Len(q) /\ (i + 1) - 1 = i
    BY <1>1
  <2>2. ShiftedAfter(f, q, (i - 1) + 1)
    BY <2>1, ShiftedTail
  <2> QED BY <1>1, <2>1, <2>2 DEF ShiftAgrees, TagsRight
<1>4. ASSUME ShiftedAfter(After(f, q[1]), Tail(q), Len(Tail(q))) PROVE down \cap Shifts # {}
  <2>1. Len(Tail(q)) \in 0 .. Len(q) - 1 /\ Len(Tail(q)) + 1 = Len(q)
    BY <1>1
  <2>2. ShiftedAfter(f, q, Len(Tail(q)) + 1)
    BY <1>4, <2>1, ShiftedTail
  <2> QED BY <2>1, <2>2 DEF ShiftAgrees
<1> QED BY <1>2, <1>3, <1>4 DEF ShiftAgrees

LEMMA KeysInit == Init => KeysInv
<1> SUFFICES ASSUME Init PROVE KeysInv
  OBVIOUS
<1>1. /\ shift = FALSE /\ at = "kbdDrain" /\ out = NoByte /\ kbdQ = <<>> /\ typed = NoKey
      /\ NoByte.src = "none"
  BY NoByteTyped DEF Init
<1>2. After(shift, out) = FALSE
  BY <1>1 DEF After
<1>3. ShiftAgrees(FALSE, <<>>)
  BY DEF ShiftAgrees, TagsRight, ShiftedAfter
<1>4. KeysAsPressed
  BY <1>1 DEF KeysAsPressed, NoKey
<1> QED BY <1>1, <1>2, <1>3, <1>4 DEF KeysInv

LEMMA AfterBoolean == ASSUME NEW f \in BOOLEAN, NEW b PROVE After(f, b) \in BOOLEAN
BY Zenon DEF After

(* The keyboard sends each key with its tag, and says when a key is let go. *)
LEMMA KeysDevices ==
  ASSUME Typed, KeysInv, Devices, ~crossed
  PROVE  (/\ 1 \in irq /\ at = "on" => out.src = "kbd" \/ last.bits = ACK
          /\ out.src = "kbd" /\ Release \notin out.bits /\ shift => out.tag = 1
          /\ ShiftAgrees(After(shift, out), kbdQ))'
<1> DEFINE f == After(shift, out)
<1>0. /\ UNCHANGED <<at, shift>> /\ kbdQ \in Seq(Owned("kbd")) /\ shift \in BOOLEAN
      /\ f \in BOOLEAN /\ ShiftAgrees(f, kbdQ)
      /\ at = "on" /\ 1 \in irq => out.src = "kbd" \/ last.bits = ACK
      /\ out.src = "kbd" /\ Release \notin out.bits /\ shift => out.tag = 1
  BY DevicesKeep, AfterBoolean DEF driver, KeysInv, Typed, DeviceOK, DriverOK
<1> HIDE DEF f
<1>1. ASSUME NEW b \in Owned("kbd"), kbdQ' = Append(kbdQ, b), UNCHANGED port,
             Release \notin b.bits /\ ShiftedAfter(f, kbdQ, Len(kbdQ)) => b.tag = 1,
             b.bits \in Shifts \/ (ShiftedAfter(f, kbdQ, Len(kbdQ)) /\ ~ReleasesShift(b.bits))
               => down' \cap Shifts # {}
      PROVE  (/\ 1 \in irq /\ at = "on" => out.src = "kbd" \/ last.bits = ACK
              /\ out.src = "kbd" /\ Release \notin out.bits /\ shift => out.tag = 1
              /\ ShiftAgrees(After(shift, out), kbdQ))'
  <2>1. TagsRight(f, Append(kbdQ, b))
    BY <1>0, <1>1, TagsAppend DEF ShiftAgrees
  <2>2. ShiftedAfter(f, Append(kbdQ, b), Len(kbdQ) + 1) => down' \cap Shifts # {}
    BY <1>0, <1>1, ShiftedAppend
  <2>3. Len(kbdQ') = Len(kbdQ) + 1
    BY <1>0, <1>1, AppendProperties
  <2>4. UNCHANGED <<out, irq, last>>
    BY <1>1 DEF port
  <2>5. f' = f
    BY <1>0, <2>4 DEF f
  <2>6. ShiftAgrees(f, kbdQ)'
    BY <1>1, <2>1, <2>2, <2>3, <2>5 DEF ShiftAgrees
  <2> QED BY <1>0, <2>4, <2>6 DEF f
<1>2. CASE \E k \in Key : Press(k)
  <2>1. PICK k \in Key : Press(k)
    BY <1>2
  <2> DEFINE b == Byte(k, "kbd", ShiftTag)
  <2>2. k \in Bits /\ ShiftTag \in 0 .. 3
    BY KeyAssumption DEF Bits, ShiftTag
  <2>3. b \in Owned("kbd") /\ b.bits = k /\ b.tag = ShiftTag
    BY <2>2, ByteTyped DEF Byte
  <2>4. kbdQ' = Append(kbdQ, b) /\ UNCHANGED port /\ down' = down \cup {k}
    BY <2>1 DEF Press
  <2> HIDE DEF b
  <2>5. Release \notin b.bits /\ ShiftedAfter(f, kbdQ, Len(kbdQ)) => b.tag = 1
    BY <1>0, <2>3 DEF ShiftAgrees, ShiftTag
  <2>6. b.bits \in Shifts \/ (ShiftedAfter(f, kbdQ, Len(kbdQ)) /\ ~ReleasesShift(b.bits))
          => down' \cap Shifts # {}
    BY <1>0, <2>3, <2>4 DEF ShiftAgrees
  <2> QED BY <1>1, <2>3, <2>4, <2>5, <2>6
<1>3. CASE \E k \in Key : LetGo(k)
  <2>1. PICK k \in Key : LetGo(k)
    BY <1>3
  <2> DEFINE b == Byte(k \cup {Release}, "kbd", 0)
  <2>2. k \cup {Release} \in Bits
    BY KeyAssumption DEF Bits, Release
  <2>3. b \in Owned("kbd") /\ b.bits = k \cup {Release}
    <3>1. b \in Owned("kbd")
      BY <2>2, ByteTyped
    <3> QED BY <3>1 DEF Byte
  <2>4. kbdQ' = Append(kbdQ, b) /\ UNCHANGED port /\ down' = down \ {k}
    BY <2>1 DEF LetGo
  <2> HIDE DEF b
  <2>5. Release \in b.bits /\ b.bits \notin Shifts
    BY <2>3, ShiftCodes
  <2>6. ShiftedAfter(f, kbdQ, Len(kbdQ)) /\ ~ReleasesShift(b.bits) => down' \cap Shifts # {}
    BY <1>0, <2>3, <2>4, ShiftCodes DEF ShiftAgrees
  <2> QED BY <1>1, <2>3, <2>4, <2>5, <2>6
<1>4. CASE Acknowledge("kbd")
  <2> DEFINE b == Byte(ACK, "kbd", 3)
  <2>1. ACK \in Bits
    BY DEF ACK, Bits
  <2>2. b \in Owned("kbd") /\ b.bits = ACK
    <3>1. b \in Owned("kbd")
      BY <2>1, ByteTyped
    <3> QED BY <3>1 DEF Byte
  <2>3. kbdQ' = Append(kbdQ, b) /\ UNCHANGED port /\ down' = down
    BY <1>4 DEF Acknowledge
  <2> HIDE DEF b
  <2>4. Release \in b.bits /\ b.bits \notin Shifts
    BY <2>2, ShiftCodes
  <2> QED BY <1>0, <1>1, <2>2, <2>3, <2>4 DEF ShiftAgrees
<1>5. CASE UNCHANGED <<kbdQ, down, port>>
  BY <1>0, <1>5 DEF ShiftAgrees, port, f
<1>6. CASE LoadFromKeyboard
  <2>1. /\ kbdQ # <<>> /\ out = NoByte /\ out' = kbdQ[1] /\ kbdQ' = Tail(kbdQ) /\ down' = down
        /\ NoByte.src = "none"
    BY <1>0, <1>6, HeadTailProperties, NoByteTyped DEF LoadFromKeyboard
  <2>2. f = shift
    BY <2>1 DEF f, After
  <2>3. /\ Release \notin kbdQ[1].bits /\ shift => kbdQ[1].tag = 1
        /\ ShiftAgrees(After(shift, kbdQ[1]), Tail(kbdQ))
    BY <1>0, <2>1, <2>2, AgreesTail
  <2>4. kbdQ[1].src = "kbd"
    BY <1>0, <2>1, HeadTailProperties DEF Owned
  <2>5. ShiftAgrees(After(shift, out), kbdQ)'
    BY <1>0, <2>1, <2>3 DEF ShiftAgrees
  <2> QED BY <1>0, <2>1, <2>3, <2>4, <2>5
<1>7. CASE LoadFromMouse
  <2>1. /\ out = NoByte /\ NoByte.src = "none" /\ UNCHANGED <<kbdQ, down, last>>
        /\ irq' = irq \cup Raised(out', cfg)
    BY <1>7, NoByteTyped DEF LoadFromMouse
  <2>2. out' \in AByte /\ out'.src = "aux"
    BY <1>7, HeadTailProperties DEF LoadFromMouse, Typed, DeviceOK, Owned
  <2>3. 1 \notin Raised(out', cfg)
    BY <2>2, RaisedBy
  <2>4. f = shift /\ After(shift', out') = shift
    BY <1>0, <2>1, <2>2 DEF f, After
  <2>5. ShiftAgrees(After(shift, out), kbdQ)'
    BY <1>0, <2>1, <2>4 DEF ShiftAgrees
  <2> QED BY <1>0, <2>1, <2>2, <2>3, <2>5
<1>8. CASE \/ \E b \in SUBSET Button, dx \in Motion : MousePacket(b, dx)
           \/ Acknowledge("aux")
  BY <1>5, <1>8 DEF MousePacket, Acknowledge
<1> QED BY <1>2, <1>3, <1>4, <1>6, <1>7, <1>8 DEF Devices

(* Before the kernel runs no handler does, and shift is not set. *)
LEMMA KeysActivation ==
  ASSUME Typed, KeysInv, Activation
  PROVE  KeysInv'
<1>1. /\ at # "on" /\ shift = FALSE /\ UNCHANGED <<shift, typed, kbdQ, down>>
  <2>1. at # "on" /\ UNCHANGED <<shift, typed, kbdQ, down>>
    BY DEF Activation, KbdDrain, KbdEnable, KbdAsk, KbdRead, KbdSet, KbdStart, MouseEnable,
           MouseAsk, MouseRead, MouseSet, MouseStart, MouseAck, Command, Ask, ReadStatus, Step,
           KeepDriver, device
  <2> QED BY <2>1 DEF KeysInv
<1>2. out' = out \/ out'.src # "kbd"
  <2>1. ReadData({}) \/ AskConfig \/ out' = out
    BY DEF Activation, KbdDrain, KbdEnable, KbdAsk, KbdRead, KbdSet, KbdStart, MouseEnable,
           MouseAsk, MouseRead, MouseSet, MouseStart, MouseAck, Command, Ask, ReadStatus,
           SetConfig, port
  <2>2. ReadData({}) => out'.src # "kbd"
    BY NoByteTyped DEF ReadData, Typed, PortOK, Owned
  <2> QED BY <2>1, <2>2 DEF AskConfig, Byte
<1>3. at' = "on" => MouseAck
  BY <1>1 DEF Activation, KbdDrain, KbdEnable, KbdAsk, KbdRead, KbdSet, KbdStart, MouseEnable,
              MouseAsk, MouseRead, MouseSet, MouseStart, Command, Ask, ReadStatus, Step
<1> SUFFICES ASSUME ~crossed'
             PROVE (/\ KeysAsPressed
                    /\ at = "on" /\ 1 \in irq => out.src = "kbd" \/ last.bits = ACK
                    /\ out.src = "kbd" /\ Release \notin out.bits /\ shift => out.tag = 1
                    /\ ShiftAgrees(After(shift, out), kbdQ))'
  BY <1>1 DEF KeysInv
<1>4. ~crossed
  BY CrossedStays DEF Next
<1>5. KeysAsPressed'
  BY <1>1, <1>4 DEF KeysInv, KeysAsPressed
<1>6. ASSUME MouseAck PROVE last'.bits = ACK
  <2>1. out = AuxAck /\ ReadData({})
    BY <1>6 DEF MouseAck, AuxAck
  <2>2. Data = AuxAck
    BY <2>1, AuxAckTag DEF Data
  <2> QED BY <2>1, <2>2 DEF ReadData, AuxAck, Byte
<1>7. ShiftAgrees(After(shift, out), kbdQ)'
  <2>1. kbdQ \in Seq(Owned("kbd")) /\ ShiftAgrees(After(FALSE, out), kbdQ)
    BY <1>1, <1>4 DEF KeysInv, Typed, DeviceOK
  <2>2. After(FALSE, out) \in BOOLEAN /\ FALSE \in BOOLEAN
    BY AfterBoolean
  <2>3. ShiftAgrees(FALSE, kbdQ)
    BY <2>1, <2>2, AgreesLess
  <2>4. After(FALSE, out') = FALSE \/ out' = out
    BY <1>2 DEF After
  <2>5. ShiftAgrees(After(FALSE, out'), kbdQ)
    BY <2>1, <2>3, <2>4
  <2> QED BY <1>1, <2>5 DEF ShiftAgrees
<1> QED BY <1>1, <1>3, <1>5, <1>6, <1>7

(* The keyboard's handler takes over the byte it reads; one that finds the *)
(* buffer empty reads the acknowledgement again.                           *)
LEMMA KeysKeyboard ==
  ASSUME Typed, AnswersInv, KeysInv, KeyboardInterrupt, ~crossed'
  PROVE  /\ KeysAsPressed'
         /\ 1 \notin irq' /\ out' = NoByte
         /\ shift' \in BOOLEAN /\ (shift' => After(shift, out))
<1>1. ~crossed
  BY CrossedStays DEF Next, Handler
<1>2. /\ at = "on" /\ 1 \in irq /\ ReadData({1}) /\ out.src # "aux"
  BY DEF KeyboardInterrupt
<1>3. answer = NoByte /\ out.src # "ctrl"
  BY <1>1, <1>2 DEF AnswersInv, AnswerWaits, Reading
<1>4. /\ out.src = "kbd" \/ last.bits = ACK
      /\ out.src = "kbd" /\ Release \notin out.bits /\ shift => out.tag = 1
      /\ typed.fresh /\ (typed.shift => typed.held)
  BY <1>1, <1>2 DEF KeysInv, KeysAsPressed
<1>5. shift \in BOOLEAN /\ out \in AByte /\ (out.src = "none" => out = NoByte)
  BY DEF Typed, DriverOK, PortOK
<1>6. out' = NoByte /\ 1 \notin irq'
  <2>1. Raised(NoByte, cfg) = {}
    BY NoByteTyped, RaisedBy
  <2> QED BY <1>2, <1>3, <2>1 DEF ReadData
<1>7. CASE out.src = "kbd"
  <2>1. Data = out /\ out # NoByte
    BY <1>7, NoByteTyped DEF Data
  <2>2. KeysAsPressed'
    <3>1. typed' = NoKey \/ (Report(out.bits, shift) /\ Release \notin out.bits)
      BY <2>1, Zenon DEF KeyboardInterrupt
    <3>2. CASE typed' = NoKey
      BY <3>2 DEF KeysAsPressed, NoKey
    <3>3. CASE Report(out.bits, shift) /\ Release \notin out.bits
      <4>1. /\ typed'.fresh = (out # NoByte) /\ typed'.shift = shift
            /\ typed'.held = (out.tag = 1)
        BY <2>1, <3>3 DEF Report
      <4>2. typed'.fresh /\ (typed'.shift => typed'.held)
        BY <1>4, <1>7, <2>1, <3>3, <4>1
      <4> QED BY <4>2 DEF KeysAsPressed
    <3> QED BY <3>1, <3>2, <3>3
  <2>3. shift' \in BOOLEAN /\ (shift' => After(shift, out))
    <3>1. \/ out.bits = ACK /\ shift' = shift
          \/ out.bits = Backspace /\ shift' = shift
          \/ shift' = (shift /\ ~ReleasesShift(out.bits))
          \/ out.bits \in Shifts /\ shift' = TRUE
          \/ Release \notin out.bits /\ shift' = shift
      BY <2>1, Zenon DEF KeyboardInterrupt
    <3>2. shift' = shift => ~ReleasesShift(out.bits) \/ shift' = (shift /\ ~ReleasesShift(out.bits))
      BY <3>1, ShiftCodes
    <3>3. shift' \in BOOLEAN
      BY <1>5, <3>1, Zenon
    <3>4. shift' => out.bits \in Shifts \/ (shift /\ ~ReleasesShift(out.bits))
      BY <1>5, <3>1, <3>2, <3>3
    <3> QED BY <1>7, <3>3, <3>4 DEF After
  <2> QED BY <1>6, <2>2, <2>3
<1>8. CASE out.src = "none"
  <2>1. Data.bits = ACK
    BY <1>4, <1>5, <1>8 DEF Data
  <2>2. typed' = NoKey /\ shift' = shift
    BY <2>1, ShiftCodes, Zenon DEF KeyboardInterrupt
  <2>3. After(shift, out) = shift
    BY <1>8 DEF After
  <2> QED BY <1>5, <1>6, <2>2, <2>3 DEF KeysAsPressed, NoKey
<1> QED BY <1>2, <1>3, <1>5, <1>7, <1>8 DEF AByte

LEMMA KeysHandler ==
  ASSUME Typed, AnswersInv, KeysInv, Handler
  PROVE  KeysInv'
<1>1. at = "on" /\ at' = "on" /\ UNCHANGED <<kbdQ, down>>
  BY DEF Handler, KeyboardInterrupt, KeyboardSecondRead, MouseInterrupt, Typed, DriverOK, device
<1> SUFFICES ASSUME ~crossed'
             PROVE (/\ KeysAsPressed
                    /\ at = "on" /\ 1 \in irq => out.src = "kbd" \/ last.bits = ACK
                    /\ out.src = "kbd" /\ Release \notin out.bits /\ shift => out.tag = 1
                    /\ ShiftAgrees(After(shift, out), kbdQ))'
  BY <1>1 DEF KeysInv
<1>2. ~crossed
  BY CrossedStays DEF Next
<1>3. /\ 1 \in irq => out.src = "kbd" \/ last.bits = ACK
      /\ out.src = "kbd" /\ Release \notin out.bits /\ shift => out.tag = 1
      /\ ShiftAgrees(After(shift, out), kbdQ)
      /\ After(shift, out) \in BOOLEAN /\ kbdQ \in Seq(Owned("kbd"))
  BY <1>1, <1>2, AfterBoolean DEF KeysInv, Typed, DeviceOK, DriverOK
<1>4. answer = NoByte /\ NoByte.src = "none"
  BY <1>1, <1>2, NoByteTyped DEF AnswersInv, AnswerWaits, Reading
<1>5. Raised(answer, cfg) = {}
  BY <1>4, NoByteTyped, RaisedBy
<1>6. CASE KeyboardInterrupt
  <2>1. /\ KeysAsPressed' /\ 1 \notin irq' /\ out' = NoByte
        /\ shift' \in BOOLEAN /\ (shift' => After(shift, out))
    BY <1>6, KeysKeyboard
  <2>2. ShiftAgrees(shift', kbdQ)
    BY <1>3, <2>1, AgreesLess
  <2>3. After(shift', out') = shift'
    BY <1>4, <2>1 DEF After
  <2>4. ShiftAgrees(After(shift, out), kbdQ)'
    BY <1>1, <2>2, <2>3 DEF ShiftAgrees
  <2> QED BY <1>4, <2>1, <2>4
<1>7. CASE KeyboardSecondRead
  <2>1. out = NoByte /\ ReadData({}) /\ shift' = shift
    BY <1>7 DEF KeyboardSecondRead
  <2>2. out' = NoByte /\ last' = last /\ irq' = irq
    BY <1>4, <1>5, <2>1 DEF ReadData, Data
  <2>3. typed' = NoKey \/ (typed'.fresh = TRUE /\ typed'.shift = FALSE)
    <3>1. typed' = [code |-> Backspace, shift |-> FALSE, held |-> FALSE, fresh |-> TRUE] \/ typed' = NoKey
      BY <1>7, Zenon DEF KeyboardSecondRead
    <3> QED BY <3>1
  <2>4. KeysAsPressed'
    BY <2>3 DEF KeysAsPressed, NoKey
  <2> QED BY <1>1, <1>3, <1>4, <2>1, <2>2, <2>4 DEF ShiftAgrees
<1>8. CASE MouseInterrupt
  <2>1. /\ 1 \notin irq /\ typed' = NoKey /\ shift' = shift
        /\ irq' \subseteq irq
        /\ out' = out \/ (out.src = "aux" /\ out' = NoByte)
    BY <1>4, <1>5, <1>8 DEF MouseInterrupt, ReadData
  <2>2. After(shift', out') = After(shift, out)
    BY <1>4, <2>1 DEF After
  <2>3. ShiftAgrees(After(shift, out), kbdQ)'
    BY <1>1, <1>3, <2>2 DEF ShiftAgrees
  <2>4. KeysAsPressed'
    BY <2>1 DEF KeysAsPressed, NoKey
  <2> QED BY <1>3, <1>4, <2>1, <2>3, <2>4
<1> QED BY <1>6, <1>7, <1>8 DEF Handler

LEMMA KeysStep ==
  ASSUME Typed, AnswersInv, KeysInv, [Next]_vars
  PROVE  KeysInv'
<1>1. CASE Devices
  <2>1. UNCHANGED <<at, shift, crossed>> /\ typed' = NoKey
    BY <1>1, DevicesKeep DEF driver
  <2>2. KeysAsPressed'
    BY <2>1 DEF KeysAsPressed, NoKey
  <2> QED BY <1>1, <2>1, <2>2, KeysDevices DEF KeysInv
<1>2. CASE UNCHANGED vars
  BY <1>2 DEF vars, device, port, driver, history, KeysInv, KeysAsPressed, ShiftAgrees
<1> QED BY <1>1, <1>2, KeysActivation, KeysHandler DEF Next, Devices

(* Unless a read has crossed, each key is reported once, for a byte just   *)
(* read, and as shifted only if it was pressed with a shift key down: the  *)
(* driver's shift may only lag behind the keyboard.                        *)
THEOREM KeysAsPressedAlways == Spec => []KeysAsPressed
<1>1. Typed /\ AnswersInv /\ KeysInv /\ [Next]_vars => KeysInv'
  BY KeysStep
<1>2. KeysInv => KeysAsPressed
  BY DEF KeysInv, KeysAsPressed
<1> QED BY <1>1, <1>2, KeysInit, TypedAlways, AnswersAlways, PTL DEF Spec
=============================================================================
