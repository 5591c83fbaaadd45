------------------------------ MODULE MCInterrupts ------------------------------
(***************************************************************************)
(* Instance of Interrupts for TLC: two tasks, the timer, the keyboard and  *)
(* the mouse, the last two of which may withdraw a request, and the        *)
(* general protection exception, which pushes an error code.  MCFaults is  *)
(* the divide error, which pushes none.                                    *)
(***************************************************************************)
EXTENDS Interrupts

MCLine      == {0, 1, 12}
MCGlitch    == {1, 12}
MCException == {13}
MCFaults    == {0}
=============================================================================
