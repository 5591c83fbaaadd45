----------------------------- MODULE MCMultitasking -----------------------------
(***************************************************************************)
(* Instance of Multitasking for TLC: three tasks and a table of three slots, *)
(* so that kernelMain can fill the table, be refused, and enter one task   *)
(* twice.                                                                  *)
(***************************************************************************)
EXTENDS Multitasking
=============================================================================
