--------------------------------- MODULE MCBoot --------------------------------
(***************************************************************************)
(* Instance of Boot for TLC: a bus with two devices of up to three         *)
(* functions.                                                              *)
(***************************************************************************)
EXTENDS Boot

(* Either side of the change of granularity, and of a whole page. *)
MCLimits == {65536, 65537, 69631, 69632, 67108864}

(* Less memory than the heap's start, as much as it takes, and plenty. *)
MCUppers == {8192, 10249, 10250, 65536}

Memory == [io |-> FALSE, address |-> 3]
Ports(a) == [io |-> TRUE, address |-> a]

MCHeader(h, multi, ports) ==
  [vendor |-> 1, header |-> h, multi |-> multi,
   bars |-> [b \in 1 .. 6 |-> IF b \in DOMAIN ports THEN Ports(ports[b]) ELSE Memory]]

(* Nothing, a function with memory only, one with two ranges of ports, one *)
(* whose last register is a range of ports of no address, and a bridge.    *)
Kinds(multi) ==
  {Absent, [MCHeader(0, multi, <<>>) EXCEPT !.vendor = 0]} \cup
  {MCHeader(0, multi, p) : p \in {<<>>, <<1, 2>>, <<1, 2, 0, 0, 0, 0>>}} \cup
  {MCHeader(1, multi, <<1, 2, 4, 4, 4, 4>>)}

MCDevices ==
  (* a device that answers the same for every function number, or is absent *)
  {[f \in 0 .. 2 |-> h] : h \in Kinds(FALSE)} \cup
  (* and devices of several functions, the first of which there must be *)
  {[f \in 0 .. 2 |-> IF f = 0 THEN MCHeader(0, TRUE, <<1>>) ELSE IF f = 1 THEN g ELSE h]
     : g \in Kinds(FALSE), h \in {Absent, MCHeader(0, FALSE, <<2>>)}}

MCMachines ==
  {[s \in Slot |-> IF s[2] = 0 THEN d ELSE e]
     : d \in MCDevices, e \in {[f \in 0 .. 2 |-> Absent], [f \in 0 .. 2 |-> MCHeader(0, TRUE, <<3>>)]}}
=============================================================================
