------------------------------- MODULE RoundRobin -------------------------------
(***************************************************************************)
(* What the scheduler promises, with no table, no index and no saved       *)
(* state: jobs are admitted before the clock starts; each clock tick gives *)
(* the processor to the job that has waited longest and sends the one that *)
(* had it to the back of the queue.  Idle is what runs before the first    *)
(* tick; it is in no queue, so it never gets the processor back.           *)
(***************************************************************************)
EXTENDS Naturals, Sequences

CONSTANTS Job, Idle, Capacity   \* Idle is not a job

VARIABLES running, queue, started

vars == <<running, queue, started>>

Init ==
  /\ running = Idle
  /\ queue = <<>>
  /\ started = FALSE

Admit(j) ==
  /\ ~started
  /\ Len(queue) < Capacity
  /\ queue' = Append(queue, j)
  /\ UNCHANGED <<running, started>>

Start ==
  /\ ~started
  /\ started' = TRUE
  /\ UNCHANGED <<running, queue>>

Rotate ==
  /\ started
  /\ queue # <<>>
  /\ running' = Head(queue)
  /\ queue' = Tail(queue) \o (IF running = Idle THEN <<>> ELSE <<running>>)
  /\ UNCHANGED started

Next == (\E j \in Job : Admit(j)) \/ Start \/ Rotate

Spec == Init /\ [][Next]_vars /\ WF_vars(Rotate)
=============================================================================
