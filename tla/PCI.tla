---------------------------------- MODULE PCI ----------------------------------
(***************************************************************************)
(* The scan of the buses in src/src/hardwarecommunication/pci.cpp, with    *)
(* the driver manager of src/src/drivers/driver.cpp it may add drivers to. *)
(* What the configuration space answers is external: a device may have     *)
(* functions with gaps between them, and a device of a single function may *)
(* answer for every function number.                                       *)
(*                                                                         *)
(* An address of a register's fields is the fields themselves, and of the  *)
(* values read only those SelectDrivers tests are kept.  An indeterminate  *)
(* value, which is what a field not written holds, is Junk.  The code      *)
(* tells no upper half of a 64-bit memory register from a register of its  *)
(* own (pci.cpp:216-237 leave that for later), so each of the six is what  *)
(* its lowest bit says it is.                                              *)
(***************************************************************************)
EXTENDS Integers, Sequences, Functions

CONSTANTS
  Buses, Devices, Functions,  \* 8, 32 and 8
  Machines                    \* what the configuration space may hold

Slot == (0 .. Buses - 1) \X (0 .. Devices - 1)
Bar  == [io : BOOLEAN, address : Nat]      \* address 0: not implemented
Absent == [vendor |-> 65535, header |-> 127, multi |-> TRUE, bars |-> <<>>]  \* all ones
Header == [vendor : Nat, header : 0 .. 2, multi : BOOLEAN, bars : [1 .. 6 -> Bar]]
Junk == -1

ASSUME PCISizeAssumption == Buses \in Nat \ {0} /\ Devices \in Nat \ {0} /\ Functions \in Nat \ {0}

VARIABLES
  machine,  \* what answers in each slot, for each function number
  slot,     \* the bus and device SelectDrivers is at
  function, numFunctions,
  found,    \* the functions it has printed, each with the portBase it has put in dev
  drivers   \* DriverManager::drivers, in order

scan == <<machine, slot, function, numFunctions, found, drivers>>

ASSUME MachineAssumption ==
  Machines \subseteq [Slot -> [0 .. Functions - 1 -> Header \cup {Absent}]]

PCIInit ==
  /\ machine \in Machines
  /\ slot = <<0, 0>> /\ function = 0 /\ numFunctions = 0
  /\ found = <<>> /\ drivers = <<>>

DeviceHasFunctions(s) == machine[s][0].multi

(* GetBaseAddressRegister's range, by the type of the header. *)
MaxBARs(h) == 6 - 4 * h.header

(* The registers within range that give a port address. *)
PortBars(h) ==
  {b \in 1 .. 6 : b <= MaxBARs(h) /\ h.bars[b].io /\ h.bars[b].address # 0}

(* The values portBase may have after the loop over the registers: the     *)
(* last port address, unless a register out of range, whose fields nobody  *)
(* has written, looks like one.                                            *)
PortBases(h) ==
  LET known == IF PortBars(h) = {} THEN Junk
               ELSE h.bars[CHOOSE b \in PortBars(h) : \A a \in PortBars(h) : a <= b].address
  IN  IF MaxBARs(h) < 6 THEN {known, Junk} ELSE {known}

(* GetDriver knows no driver: the one it names is a comment. *)
NoDriver == "none"
GetDriver(h) == NoDriver

(* The drivers DriverManager has an array for. *)
Capacity == 265

(* DriverManager::AddDriver, which tests nothing. *)
AddDriver(list, driver) == Append(list, driver)

(* What the loop over the six registers has the driver manager add. *)
Added(h) == IF GetDriver(h) = NoDriver THEN <<>> ELSE [b \in 1 .. 6 |-> GetDriver(h)]

Present(h) == h.vendor \notin {0, 65535}

(* Mutant: the scan of a device ends at the first function that is not     *)
(* there.                                                                  *)
StopAtGap(h) == IF Present(h) THEN function + 1 ELSE numFunctions

(* continue, and not break, where there is no function. *)
NextFunction(h) == function + 1

(* The loop over devices: how many functions to look for. *)
ScanDevice ==
  /\ numFunctions = 0 /\ slot[1] < Buses
  /\ numFunctions' = IF DeviceHasFunctions(slot) THEN Functions ELSE 1
  /\ function' = 0
  /\ UNCHANGED <<machine, slot, found, drivers>>

(* The loop over functions. *)
ScanFunction ==
  /\ function < numFunctions
  /\ LET h == machine[slot][function]
     IN  /\ \E base \in PortBases(h) :
              found' = IF Present(h) THEN Append(found, [slot |-> slot, function |-> function, portBase |-> base]) ELSE found
         /\ drivers' = IF Present(h) THEN drivers \o Added(h) ELSE drivers
         /\ function' = NextFunction(h)
  /\ UNCHANGED <<machine, slot, numFunctions>>

NextDevice ==
  /\ numFunctions > 0 /\ function >= numFunctions
  /\ slot' = IF slot[2] + 1 < Devices THEN <<slot[1], slot[2] + 1>> ELSE <<slot[1] + 1, 0>>
  /\ numFunctions' = 0 /\ function' = 0
  /\ UNCHANGED <<machine, found, drivers>>

Scanned == slot[1] = Buses

-----------------------------------------------------------------------------

(* The functions a device really has. *)
Real(s) ==
  {f \in 0 .. Functions - 1 : Present(machine[s][f]) /\ (f = 0 \/ machine[s][0].multi)}

(* The scan prints every function there is, and each once, also where      *)
(* there is a gap or a device that answers for all numbers.                *)
EveryFunctionOnce ==
  Scanned =>
    /\ \A s \in Slot : {d.function : d \in {e \in Range(found) : e.slot = s}} = Real(s)
    /\ \A i, j \in DOMAIN found :
         found[i].slot = found[j].slot /\ found[i].function = found[j].function => i = j

(* The port address kept for an ordinary function is one of its own,       *)
(* whatever other kinds of registers it has: "own" is a register whose     *)
(* lowest bit says so, be it the upper half of a 64-bit one.               *)
PortBaseOwn ==
  \A d \in Range(found) :
    LET h == machine[d.slot][d.function]
        own == {h.bars[b].address : b \in {a \in 1 .. 6 : h.bars[a].io}} \ {0}
    IN  h.header = 0 => IF own = {} THEN d.portBase = Junk ELSE d.portBase \in own

(* What SelectDrivers knows when it is done, from EveryFunctionOnce and    *)
(* PortBaseOwn.                                                            *)
BusScanned == EveryFunctionOnce /\ PortBaseOwn
=============================================================================
