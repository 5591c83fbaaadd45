------------------------------- MODULE MCDesktop -------------------------------
(***************************************************************************)
(* Instance of Desktop for TLC: two windows side by side, the mouse over   *)
(* the one behind.  Three packets take this one over the left and the top  *)
(* border, the other over the lower one.                                   *)
(***************************************************************************)
EXTENDS Desktop

MCSize  == <<[w |-> 1, h |-> 2], [w |-> 2, h |-> 2]>>
MCStart == <<[x |-> 3, y |-> 2], [x |-> 1, y |-> 1]>>
MCColour == <<"red", "green">>

(* A step in either direction, each with a remainder, and none at all. *)
MCMotion == {-5, 3, 4}
=============================================================================
