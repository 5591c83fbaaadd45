------------------------------- MODULE MCConsole -------------------------------
(***************************************************************************)
(* Instance of Console for TLC: a screen of two rows of two cells, which   *)
(* four characters fill, wrap and scroll, and a type for the mouse cursor  *)
(* that wraps around just beyond the screen, as int8_t does for a fast     *)
(* movement.                                                               *)
(***************************************************************************)
EXTENDS Console

MCTaskLetter == [t \in Task |-> "t"]
MCOffset     == {-1, 2}
=============================================================================
