---------------------------- MODULE MCMemoryManager ----------------------------
(***************************************************************************)
(* Instance of MemoryManager for TLC: a heap too small for a header, one   *)
(* that a single request exhausts and one with room for several blocks.    *)
(***************************************************************************)
EXTENDS MemoryManager

MCHeapSize == {0, 3, 8}
MCRequest  == {1, 2}

(* Enough to split a chunk that has a successor. *)
MCSmallHeap    == {12}
MCSmallRequest == {1, 4}
=============================================================================
