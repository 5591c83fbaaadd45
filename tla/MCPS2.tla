--------------------------------- MODULE MCPS2 ---------------------------------
(***************************************************************************)
(* Instance of PS2 for TLC: the key a (scan code 0x1E), both shift keys    *)
(* and backspace, one mouse button.                                        *)
(***************************************************************************)
EXTENDS PS2

KeyA  == {1, 2, 3, 4}
MCKey == {KeyA, LeftShift, RightShift, Backspace}

(* Command bytes firmware leaves: the mouse off, the keyboard on or off,   *)
(* with or without its interrupt.                                          *)
MCFirmware == {{2, 5, 6} \cup k : k \in {{}, {0}, {4}, {0, 4}}}

(* What a packet begins with, what is left in the middle of one, and an    *)
(* offset outside the buffer.                                              *)
MCGarbage == {[offset |-> 0, buttons |-> {}], [offset |-> 2, buttons |-> {0}],
              [offset |-> 205, buttons |-> 0 .. 7]}

MCMotion == {{0}}

(* For the run that shows what an ordinary start does. *)
MCTypicalFirmware == {{0, 2, 5, 6}}
=============================================================================
