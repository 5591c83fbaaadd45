---------------------------------- MODULE VGA ----------------------------------
(***************************************************************************)
(* VideoGraphicsArray::SetMode of src/src/drivers/vga.cpp, and, external,  *)
(* the registers of the adapter.  Two things make the order of the writes  *)
(* matter: bit 7 of CRTC register 0x11 protects CRTC registers 0 to 7, and *)
(* the attribute controller takes index and data by turns through a single *)
(* port; reading port 0x3DA makes an index the next.                       *)
(*                                                                         *)
(* SetMode runs with interrupts off: an index and the data for it are      *)
(* written in one step.                                                    *)
(***************************************************************************)
EXTENDS Integers, Sequences

CONSTANT
  Before  \* what the registers hold before, but for the bit that protects the CRTC

VARIABLES
  bank,     \* the registers: misc, seq, crtc and gc
  attr,     \* the attribute controller: index, whether an index is next, registers
  written   \* how many registers WriteRegisters has written

vga == <<bank, attr, written>>

Last == [misc |-> 0, seq |-> 4, crtc |-> 24, gc |-> 8, attr |-> 20]

ASSUME BeforeAssumption == Before \in 0 .. 255

(* A sequence as an array. *)
Numbered(s) == [i \in 0 .. Len(s) - 1 |-> s[i + 1]]

(* The table g_320x200x256: the values for the registers of each bank. *)
Mode ==
  [misc |-> Numbered(<<99>>),
   seq  |-> Numbered(<<3, 1, 15, 0, 14>>),
   crtc |-> Numbered(<<95, 79, 80, 130, 84, 128, 191, 31, 0, 65, 0, 0, 0, 0, 0, 0,
                       156, 14, 143, 40, 64, 150, 185, 163, 255>>),
   gc   |-> Numbered(<<0, 0, 0, 0, 0, 64, 5, 15, 255>>),
   attr |-> Numbered(<<0, 1, 2, 3, 4, 5, 6, 7, 8, 9, 10, 11, 12, 13, 14, 15, 65, 0, 15, 0, 0>>)]

(* v with bit 7 set or cleared. *)
With(v, bit7) == IF bit7 THEN 128 + (v % 128) ELSE v % 128

(* Nothing is known of the state the adapter is left in: its CRTC may be   *)
(* protected, it may expect data, and the display may be on.               *)
VGAInit ==
  /\ \E protected \in BOOLEAN :
       bank = [b \in DOMAIN Last \ {"attr"} |->
                 [i \in 0 .. Last[b] |-> IF b = "crtc" /\ i = 17 THEN With(Before, protected)
                                         ELSE Before]]
  /\ \E next \in BOOLEAN, index \in {0, 32} :
       attr = [index |-> index, next |-> next, regs |-> [i \in 0 .. 20 |-> Before]]
  /\ written = 0

(* The adapter takes v for register i of bank b. *)
Taken(regs, b, i, v) ==
  IF b = "crtc" /\ i <= 7 /\ regs["crtc"][17] >= 128 THEN regs
  ELSE [regs EXCEPT ![b] = [regs[b] EXCEPT ![i] = v]]

(* Read of port 0x3DA, and write of port 0x3C0. *)
AttrReset(a) == [a EXCEPT !.next = TRUE]
AttrWrite(a, v) ==
  IF a.next THEN [a EXCEPT !.index = v, !.next = FALSE]
  ELSE [a EXCEPT !.regs = [a.regs EXCEPT ![a.index % 32] = v], !.next = TRUE]

(* Mutant: register 3 is written, and 0x11 left as it is. *)
UnlockedHalf(regs) == Taken(regs, "crtc", 3, With(regs["crtc"][3], TRUE))

(* The two registers WriteRegisters reads back and writes first. *)
Unlocked(regs) ==
  LET r == Taken(regs, "crtc", 3, With(regs["crtc"][3], TRUE))
  IN  Taken(r, "crtc", 17, With(r["crtc"][17], FALSE))

(* The CRTC values of the table with the two bits forced. *)
CRTC(i) ==
  IF i = 3 THEN With(Mode["crtc"][3], TRUE)
  ELSE IF i = 17 THEN With(Mode["crtc"][17], FALSE) ELSE Mode["crtc"][i]

(* Mutant: port 0x3DA is not read. *)
AttributeUnreset(i) == AttrWrite(AttrWrite(attr, i), Mode["attr"][i])

Attribute(i) == AttrWrite(AttrWrite(AttrReset(attr), i), Mode["attr"][i])

(* WriteRegisters: register i of bank b, the first of which is number      *)
(* first; the CRTC is unlocked once, before its first register.            *)
WriteBank(b, first) ==
  /\ written \in first .. first + Last[b]
  /\ LET i == written - first
         regs == IF b = "crtc" /\ i = 0 THEN Unlocked(bank) ELSE bank
     IN  bank' = Taken(regs, b, i, IF b = "crtc" THEN CRTC(i) ELSE Mode[b][i])
  /\ written' = written + 1
  /\ UNCHANGED attr

WriteAttribute ==
  /\ written \in 40 .. 60
  /\ attr' = Attribute(written - 40)
  /\ written' = written + 1
  /\ UNCHANGED bank

(* The last two accesses, which turn the display on. *)
EnableDisplay ==
  /\ written = 61
  /\ attr' = AttrWrite(AttrReset(attr), 32)
  /\ written' = 62
  /\ UNCHANGED bank

WriteRegisters ==
  \/ WriteBank("misc", 0) \/ WriteBank("seq", 1) \/ WriteBank("crtc", 6) \/ WriteBank("gc", 31)
  \/ WriteAttribute \/ EnableDisplay

SupportsMode(width, height, colordepth) == width = 320 /\ height = 200 /\ colordepth = 8

(* What GetFrameBufferSegment makes of graphics controller register 6. *)
FrameBufferSegment ==
  CASE (bank["gc"][6] \div 4) % 4 = 1 -> 655360      \* 0xA0000
    [] (bank["gc"][6] \div 4) % 4 = 2 -> 720896      \* 0xB0000
    [] (bank["gc"][6] \div 4) % 4 = 3 -> 753664      \* 0xB8000
    [] OTHER -> 0

-----------------------------------------------------------------------------

(* Whatever state the adapter was in, SetMode leaves it in the mode of the *)
(* table: no write is lost to the protection or taken for an index, the    *)
(* display is on, and pixels go to the memory that is displayed.           *)
ModeSet ==
  written = 62 =>
    /\ \A b \in DOMAIN bank \ {"crtc"} : bank[b] = Mode[b]
    /\ \A i \in 0 .. 24 : bank["crtc"][i] = CRTC(i)
    /\ attr.regs = Mode["attr"] /\ attr.index = 32
    /\ FrameBufferSegment = 655360
=============================================================================
