---------------------------------- MODULE PS2 ----------------------------------
(***************************************************************************)
(* Keyboard and mouse: src/src/drivers/keyboard.cpp and mouse.cpp, and,    *)
(* external to the repository, the controller with its single output       *)
(* buffer (ports 0x60 and 0x64) and the two devices behind it.             *)
(*                                                                         *)
(* ActivateAll runs the two Activate functions with interrupts off; they   *)
(* read the data port without waiting for the answer they asked for.       *)
(* After that every byte is fetched by an interrupt handler.               *)
(*                                                                         *)
(* The contents of a byte are the set of its bits that are 1, so x | 2 is  *)
(* x \cup {1} and x & 0x80 is 7 \in x.  A byte also carries its source and *)
(* a tag, both unknown to the drivers: which part of a packet a mouse byte *)
(* is, or whether a shift key was down when a key was pressed.             *)
(***************************************************************************)
EXTENDS Integers, Sequences, FiniteSets

CONSTANTS
  Key,       \* the keys in use, each given by the bits of its scan code
  MaxDown,   \* bound: keys held down at a time
  Button,    \* the mouse buttons in use: a subset of 0 .. 2
  Motion,    \* the movements a mouse packet may report
  Garbage,   \* what MouseDriver's offset and buttons may hold when it is made
  Firmware,  \* the command bytes the firmware may leave in the controller
  KbdRoom,   \* bound: bytes waiting in the keyboard
  Beyond     \* bound: whether keys are used once a read has crossed

ASSUME KeyAssumption    == Key \subseteq SUBSET (0 .. 6)
ASSUME ButtonAssumption == Button \subseteq 0 .. 2
ASSUME MotionAssumption == Motion \subseteq SUBSET (0 .. 7)
ASSUME MaxDownAssumption == MaxDown \in Nat
ASSUME GarbageAssumption == Garbage \subseteq [offset : 0 .. 255, buttons : SUBSET (0 .. 7)]
ASSUME FirmwareAssumption == Firmware \subseteq SUBSET (0 .. 7)
ASSUME KbdRoomAssumption  == KbdRoom \in Nat \ {0}
ASSUME BeyondAssumption   == Beyond \in BOOLEAN

VARIABLES
  cfg,      \* the controller's command byte
  out,      \* its output buffer
  answer,   \* an answer of the controller itself that waits for the buffer
  last,     \* the byte last read from the data port
  irq,      \* interrupt requests latched: a subset of {1, 12}
  owes,     \* devices that have yet to acknowledge a command
  kbdQ,     \* bytes waiting in the keyboard
  auxQ,     \* bytes waiting in the mouse
  down,     \* the keys held down
  pressed,  \* the mouse buttons of the last packet sent
  at,       \* how far the kernel is in ActivateAll
  status,   \* the local variable status of either Activate, {} when dead
  second,   \* whether the keyboard handler is about to read a second byte
  shift,    \* its static variable shift
  offset, buffer, buttons,  \* MouseDriver
  typed,    \* history: the OnKeyDown of the last step, or NoKey
  held,     \* history: the buttons last reported down by OnMouseDown / Up
  crossed   \* history: a read has returned a byte other than the one meant

device  == <<owes, kbdQ, auxQ, down, pressed>>
port    == <<cfg, out, answer, last, irq>>
driver  == <<at, status, second, shift, offset, buffer, buttons>>
history == <<typed, held, crossed>>
vars    == <<device, port, driver, history>>

ACK       == {1, 3, 4, 5, 6, 7}    \* 0xFA
Backspace == {1, 2, 3}             \* 0x0E
LeftShift == {1, 3, 5}             \* 0x2A
RightShift == {1, 2, 4, 5}         \* 0x36
Shifts    == {LeftShift, RightShift}
Release   == 7                     \* the bit a release code adds

Byte(bits, src, tag) == [bits |-> bits, src |-> src, tag |-> tag]
NoByte == Byte({}, "none", 0)
EmptyBuffer == [i \in 0 .. 2 |-> NoByte]
NoKey  == [code |-> {}, shift |-> FALSE, held |-> FALSE, fresh |-> TRUE]

(* The constructor of MouseDriver sets neither offset nor buttons: two     *)
(* bytes of whatever kernelMain's stack held.                              *)
Init ==
  /\ cfg \in Firmware
  /\ out = NoByte /\ answer = NoByte /\ last = NoByte
  /\ irq = {} /\ owes = {}
  /\ kbdQ = <<>> /\ auxQ = <<>> /\ down = {} /\ pressed = {}
  /\ at = "kbdDrain" /\ status = {} /\ second = FALSE /\ shift = FALSE
  /\ \E g \in Garbage : offset = g.offset /\ buttons = g.buttons
  /\ buffer = EmptyBuffer
  /\ typed = NoKey /\ held = {} /\ crossed = FALSE

-----------------------------------------------------------------------------
(* The devices. *)

Quiet == typed' = NoKey /\ UNCHANGED <<held, crossed>>

ShiftTag == IF down \cap Shifts = {} THEN 0 ELSE 1

Press(k) ==
  /\ crossed => Beyond
  /\ k \notin down /\ Cardinality(down) < MaxDown /\ Len(kbdQ) < KbdRoom
  /\ down' = down \cup {k}
  /\ kbdQ' = Append(kbdQ, Byte(k, "kbd", ShiftTag))
  /\ UNCHANGED <<owes, auxQ, pressed, port, driver>> /\ Quiet

LetGo(k) ==
  /\ crossed => Beyond
  /\ k \in down /\ Len(kbdQ) < KbdRoom
  /\ down' = down \ {k}
  /\ kbdQ' = Append(kbdQ, Byte(k \cup {Release}, "kbd", 0))
  /\ UNCHANGED <<owes, auxQ, pressed, port, driver>> /\ Quiet

(* Once the mouse has been told to report, it sends packets of three bytes *)
(* whenever it moves or a button changes.  Bit 3 of the first is always 1. *)
Reporting == at \in {"mouseAck", "on"} /\ "aux" \notin owes

MousePacket(b, dx) ==
  /\ Reporting /\ auxQ = <<>>
  /\ auxQ' = <<Byte({3} \cup b, "aux", 0), Byte(dx, "aux", 1), Byte({}, "aux", 2)>>
  /\ pressed' = b
  /\ UNCHANGED <<owes, kbdQ, down, port, driver>> /\ Quiet

(* A device acknowledges command 0xF4 when it gets to it. *)
Acknowledge(d) ==
  /\ d \in owes
  /\ owes' = owes \ {d}
  /\ IF d = "kbd" THEN kbdQ' = Append(kbdQ, Byte(ACK, d, 3)) /\ auxQ' = auxQ
                  ELSE auxQ' = Append(auxQ, Byte(ACK, d, 3)) /\ kbdQ' = kbdQ
  /\ UNCHANGED <<down, pressed, port, driver>> /\ Quiet

-----------------------------------------------------------------------------
(* The controller.  Bits 0 and 1 of the command byte turn on the           *)
(* interrupts of keyboard and mouse, bits 4 and 5 turn the devices off.    *)

Raised(b, c) == CASE b.src = "none"         -> {}
                  [] b.src = "aux"          -> IF 1 \in c THEN {12} ELSE {}
                  [] b.src \in {"kbd", "ctrl"} -> IF 0 \in c THEN {1} ELSE {}

LoadFromKeyboard ==
  /\ out = NoByte /\ kbdQ # <<>> /\ 4 \notin cfg
  /\ out' = Head(kbdQ) /\ kbdQ' = Tail(kbdQ)
  /\ irq' = irq \cup Raised(out', cfg)
  /\ UNCHANGED <<owes, auxQ, down, pressed, cfg, answer, last, driver>> /\ Quiet

LoadFromMouse ==
  /\ out = NoByte /\ auxQ # <<>> /\ 5 \notin cfg
  /\ out' = Head(auxQ) /\ auxQ' = Tail(auxQ)
  /\ irq' = irq \cup Raised(out', cfg)
  /\ UNCHANGED <<owes, kbdQ, down, pressed, cfg, answer, last, driver>> /\ Quiet

(* dataport.Read(): an empty buffer returns the last byte once more; an    *)
(* answer of the controller that was waiting takes the buffer at once.     *)
Data == IF out = NoByte THEN last ELSE out

ReadData(served) ==
  /\ last' = Data
  /\ out' = answer
  /\ answer' = NoByte
  /\ irq' = (irq \ served) \cup Raised(answer, cfg)
  /\ UNCHANGED cfg

(* commandport.Write(0x20). *)
AskConfig ==
  /\ IF out = NoByte
     THEN out' = Byte(cfg, "ctrl", 0) /\ answer' = answer
     ELSE out' = out /\ answer' = Byte(cfg, "ctrl", 0)
  /\ irq' = IF out = NoByte THEN irq \cup Raised(out', cfg) ELSE irq
  /\ UNCHANGED <<cfg, last>>

(* commandport.Write(0x60) and the data byte c; 0xAE, 0xA8 and anything    *)
(* sent to a device clear the bit that turns it off.                       *)
SetConfig(c) ==
  /\ cfg' = c
  /\ irq' = irq \cup (Raised(out, c) \ Raised(out, cfg))
  /\ UNCHANGED <<out, answer, last>>

-----------------------------------------------------------------------------
(* KeyboardDriver::Activate and MouseDriver::Activate, one port access (or *)
(* one command with its operand) per action.                               *)

Step(from, to) == at = from /\ at' = to

KeepDriver == UNCHANGED <<second, shift, offset, buffer, buttons, typed, held>>

KbdDrain ==
  \/ /\ out # NoByte
     /\ at = "kbdDrain" /\ at' = at
     /\ ReadData({})
     /\ UNCHANGED <<device, status, crossed>> /\ KeepDriver
  \/ /\ out = NoByte
     /\ Step("kbdDrain", "kbdEnable")
     /\ UNCHANGED <<device, port, status, crossed>> /\ KeepDriver

(* A command byte is written, or a command that turns a device on; those   *)
(* in debtors will acknowledge it.                                         *)
Command(from, to, c, debtors) ==
  /\ Step(from, to)
  /\ SetConfig(c)
  /\ owes' = owes \cup debtors
  /\ status' = {}
  /\ UNCHANGED <<kbdQ, auxQ, down, pressed, crossed>> /\ KeepDriver

Ask(from, to) ==
  /\ Step(from, to)
  /\ AskConfig
  /\ UNCHANGED <<device, status, crossed>> /\ KeepDriver

(* The answer is read, or what is in its place, and changed to c. *)
ReadStatus(from, to, c) ==
  /\ Step(from, to)
  /\ ReadData({})
  /\ status' = c
  /\ crossed' = (crossed \/ Data.src # "ctrl")
  /\ UNCHANGED device /\ KeepDriver

KbdEnable == Command("kbdEnable", "kbdAsk", cfg \ {4}, {})
KbdAsk    == Ask("kbdAsk", "kbdRead")
KbdRead   == ReadStatus("kbdRead", "kbdSet", (Data.bits \cup {0}) \ {4})
KbdSet    == Command("kbdSet", "kbdStart", status, {})

(* dataport.Write(0xf4): the keyboard will acknowledge, and nobody waits. *)
KbdStart == Command("kbdStart", "mouseEnable", cfg \ {4}, {"kbd"})

(* Mutant: offset and buttons are not reset. *)
MouseEnableWithoutReset == Command("mouseEnable", "mouseAsk", cfg \ {5}, {})

MouseEnable ==
  /\ Step("mouseEnable", "mouseAsk")
  /\ offset' = 0 /\ buttons' = {}
  /\ SetConfig(cfg \ {5})
  /\ UNCHANGED <<device, status, crossed, second, shift, buffer, typed, held>>

MouseAsk == Ask("mouseAsk", "mouseRead")

(* Mutant: the mouse's interrupt is not turned on. *)
MouseReadWithoutInterrupt == ReadStatus("mouseRead", "mouseSet", Data.bits)

MouseRead == ReadStatus("mouseRead", "mouseSet", Data.bits \cup {1})
MouseSet  == Command("mouseSet", "mouseStart", status, {})

(* commandport.Write(0xD4), dataport.Write(0xF4). *)
MouseStart == Command("mouseStart", "mouseAck", cfg \ {5}, {"aux"})

(* The last read; then kernelMain turns interrupts on. *)
MouseAck ==
  /\ Step("mouseAck", "on")
  /\ ReadData({})
  /\ crossed' = (crossed \/ out # Byte(ACK, "aux", 3))
  /\ UNCHANGED <<device, status>> /\ KeepDriver

-----------------------------------------------------------------------------
(* The interrupt handlers.  Request 1 has the higher priority, and no      *)
(* handler is interrupted.                                                 *)

Report(code, s) ==
  typed' = [code |-> code, shift |-> s, held |-> Data.tag = 1, fresh |-> out # NoByte]

(* Mutant: only the left shift key's release is recognised. *)
ReleasesShiftLeftOnly(code) == code = LeftShift \cup {Release}

ReleasesShift(code) == code \in {k \cup {Release} : k \in Shifts}

(* KeyboardDriver::HandleInterrupt, to its second read. *)
KeyboardInterrupt ==
  /\ at = "on" /\ ~second /\ 1 \in irq
  /\ ReadData({1})
  /\ LET key == Data.bits
     IN  \/ key = ACK /\ typed' = NoKey /\ UNCHANGED <<second, shift>>
         \/ key = Backspace /\ second' = TRUE /\ typed' = NoKey /\ UNCHANGED shift
         \/ /\ key # ACK /\ Release \in key
            /\ shift' = (shift /\ ~ReleasesShift(key))
            /\ typed' = NoKey
            /\ UNCHANGED second
         \/ /\ key \in Shifts
            /\ shift' = TRUE
            /\ typed' = NoKey
            /\ UNCHANGED second
         \/ /\ key # Backspace /\ Release \notin key /\ key \notin Shifts
            /\ Report(key, shift)
            /\ UNCHANGED <<second, shift>>
  /\ crossed' = (crossed \/ out.src = "aux")
  /\ UNCHANGED <<device, at, status, offset, buffer, buttons, held>>

(* The second read after 0x0E: with nothing new in the buffer it returns   *)
(* 0x0E again, which is how the backspace key works.                       *)
KeyboardSecondRead ==
  /\ second
  /\ second' = FALSE
  /\ ReadData({})
  /\ \/ Data.bits = Backspace
        /\ typed' = [code |-> Backspace, shift |-> FALSE, held |-> FALSE, fresh |-> TRUE]
     \/ Data.bits # Backspace /\ typed' = NoKey
  /\ crossed' = (crossed \/ out # NoByte)
  /\ UNCHANGED <<device, at, status, shift, offset, buffer, buttons, held>>

(* Mutant: the test of the status bit is inverted. *)
MouseInterruptInverted ==
  /\ at = "on" /\ ~second /\ 12 \in irq /\ 1 \notin irq
  /\ irq' = irq \ {12}
  /\ UNCHANGED <<device, cfg, out, answer, last, driver>> /\ Quiet

(* Mutant: the packet is compared but not kept. *)
DeliverWithoutKeeping(packet) ==
  LET b == packet \cap 0 .. 2
  IN  /\ held' = (held \ {i \in 0 .. 2 : i \in buttons /\ i \notin b})
                   \cup {i \in b : i \notin buttons}
      /\ UNCHANGED buttons

(* Mutant: the loop over the buttons starts with the second. *)
DeliverFromSecond(packet) ==
  LET b == packet \cap 1 .. 2
  IN  /\ held' = (held \ {i \in 1 .. 2 : i \in buttons /\ i \notin b})
                   \cup {i \in b : i \notin buttons}
      /\ buttons' = packet

(* A complete packet: OnMouseDown or OnMouseUp for each button that is not *)
(* as it was.  (OnMouseMove changes nothing here.)                         *)
Deliver(packet) ==
  LET b == packet \cap 0 .. 2
  IN  /\ held' = (held \ {i \in 0 .. 2 : i \in buttons /\ i \notin b})
                   \cup {i \in b : i \notin buttons}
      /\ buttons' = packet

(* Mutant: the offset runs over four places. *)
NextOffsetFour == (offset + 1) % 4

NextOffset == (offset + 1) % 3

Written == [buffer EXCEPT ![offset] = Data]

(* MouseDriver::HandleInterrupt.  The code leaves a delivered packet in    *)
(* the buffer, where it is overwritten before it is read again.            *)
MouseInterrupt ==
  /\ at = "on" /\ ~second /\ 12 \in irq /\ 1 \notin irq
  /\ \/ /\ out.src # "aux"
        /\ irq' = irq \ {12}
        /\ UNCHANGED <<cfg, out, answer, last, offset, buffer, buttons, held>>
     \/ /\ out.src = "aux"
        /\ ReadData({12})
        /\ offset' = NextOffset
        /\ IF offset' = 0
           THEN Deliver(Written[0].bits) /\ buffer' = EmptyBuffer
           ELSE buffer' = Written /\ UNCHANGED <<buttons, held>>
  /\ typed' = NoKey
  /\ UNCHANGED <<device, at, status, second, shift, crossed>>

Activation ==
  \/ KbdDrain \/ KbdEnable \/ KbdAsk \/ KbdRead \/ KbdSet \/ KbdStart
  \/ MouseEnable \/ MouseAsk \/ MouseRead \/ MouseSet \/ MouseStart \/ MouseAck

Handler == KeyboardInterrupt \/ KeyboardSecondRead \/ MouseInterrupt

Next ==
  \/ \E k \in Key : Press(k) \/ LetGo(k)
  \/ \E b \in SUBSET Button, dx \in Motion : MousePacket(b, dx)
  \/ \E d \in {"kbd", "aux"} : Acknowledge(d)
  \/ LoadFromKeyboard
  \/ LoadFromMouse
  \/ Activation
  \/ Handler

(* The processor runs handlers; nothing is assumed of the devices. *)
Spec == Init /\ [][Next]_vars /\ WF_vars(Handler)

-----------------------------------------------------------------------------

Bits == SUBSET (0 .. 7)
AByte == [bits : Bits, src : {"none", "ctrl", "kbd", "aux"}, tag : 0 .. 3]

(* Once interrupts are on, offset is within the buffer whatever it held.   *)
TypeOK ==
  /\ cfg \in Bits /\ status \in Bits /\ buttons \in Bits
  /\ {out, answer, last} \subseteq AByte
  /\ irq \subseteq {1, 12} /\ owes \subseteq {"kbd", "aux"}
  /\ down \subseteq Key /\ pressed \subseteq Button
  /\ second \in BOOLEAN /\ shift \in BOOLEAN /\ crossed \in BOOLEAN
  /\ offset \in 0 .. 255 /\ (at = "on" => offset \in 0 .. 2)
  /\ buffer \in [0 .. 2 -> AByte]
  /\ held \subseteq 0 .. 2
  /\ typed \in [code : Bits, shift : BOOLEAN, held : BOOLEAN, fresh : BOOLEAN]

(* keyboard.cpp:63, "activate interrupts": once the kernel runs with       *)
(* interrupts on, the keyboard is on and its interrupt is.                 *)
KeyboardHeard == at = "on" => 0 \in cfg /\ 4 \notin cfg

(* Where every read of the two Activate functions got the answer it was    *)
(* meant for, both devices end up on with their interrupts on, whatever    *)
(* command byte the firmware left and whatever was typed meanwhile.        *)
BothHeard == at = "on" /\ ~crossed => {0, 1} \subseteq cfg /\ {4, 5} \cap cfg = {}

(* As long as no read has crossed, the driver's buffer holds parts of one  *)
(* packet in their order, and the mouse byte to be read next belongs at    *)
(* offset: keyboard bytes in between, late acknowledgements and leftover   *)
(* requests do not shift the packets.                                      *)
PacketsAligned ==
  at = "on" /\ ~crossed =>
    /\ \A i \in 0 .. 2 : i < offset => buffer[i].src = "aux" /\ buffer[i].tag = i
    /\ out.src = "aux" => out.tag = offset
    /\ out.src # "aux" /\ auxQ # <<>> => Head(auxQ).tag = offset

(* Down and up events alternate for every button, even when packets are    *)
(* out of step: the receivers' idea of the buttons is the driver's.        *)
EventsAlternate == at = "on" => held = buttons \cap 0 .. 2

(* Once everything the mouse has sent is read, the receivers of its events *)
(* know the buttons as they are.                                           *)
ButtonsAgree ==
  at = "on" /\ ~crossed /\ auxQ = <<>> /\ out.src # "aux" => held = pressed

(* As long as no read has crossed, no key is reported for a byte that was  *)
(* read before, and none as shifted that was sent with no shift key down.  *)
KeysAsPressed == ~crossed => typed.fresh /\ (typed.shift => typed.held)

(* A byte in the output buffer blocks both devices until it is read.  With *)
(* both interrupts on no byte stays there: no handler returns without      *)
(* reading it unless the other one has a request to come, although both    *)
(* may be called with a request left over from a byte read by someone      *)
(* else.                                                                   *)
NoByteStuck ==
  at = "on" /\ {0, 1} \subseteq cfg /\ out # NoByte ~> out = NoByte
=============================================================================
