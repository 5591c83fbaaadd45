---------------------------------- MODULE Boot ---------------------------------
(***************************************************************************)
(* kernelMain of src/src/kernel.cpp, in graphics mode, up to the point     *)
(* where it turns interrupts on: the descriptor table, the place of the    *)
(* heap, the drivers it adds, the scan of the buses, the activation of all *)
(* drivers and the graphics mode.  Nothing runs beside it yet.             *)
(***************************************************************************)
EXTENDS GDT, PCI, VGA

CONSTANTS
  Limits,   \* limits of the code and data segments: 64 MiB in the kernel's table
  Uppers    \* mem_upper of the boot loader: KiB of memory above 1 MiB

ASSUME LimitsAssumption == Limits \subseteq Uint32
ASSUME UppersAssumption == Uppers \subseteq 0 .. (64 * Word - 1)

VARIABLES
  stage,      \* what kernelMain does next
  limit,      \* the limit the descriptor table is built for
  gdt,
  upper,      \* mem_upper
  heap,       \* the size of the heap, in KiB, once it is there
  activated   \* the drivers whose Activate has been called, in order

vars == <<scan, vga, stage, limit, gdt, upper, heap, activated>>

NoHeap == -1

Init ==
  /\ PCIInit /\ VGAInit
  /\ stage = "gdt"
  /\ limit \in Limits /\ upper \in Uppers
  /\ gdt = <<>> /\ heap = NoHeap /\ activated = <<>>

ConstructGDT ==
  /\ stage = "gdt" /\ stage' = "heap"
  /\ gdt' = GlobalDescriptorTable(limit)
  /\ UNCHANGED <<scan, vga, limit, upper, heap, activated>>

(* The heap starts at 10 MiB. *)
HeapStart == 10240

(* Mutant: the size is computed with a sign. *)
HeapSizeSigned(u) == u - HeapStart - 10

(* Mutant: the 10 MiB below the heap are not taken off. *)
HeapSizeFromZero(u) == (u - 10) % (64 * Word)

(* What kernelMain computes in 32 bits, here in KiB: all the terms are      *)
(* multiples of 1024, and so is 2^32.                                      *)
HeapSize(u) == (u - HeapStart - 10) % (64 * Word)

PlaceHeap ==
  /\ stage = "heap" /\ stage' = "drivers"
  /\ heap' = HeapSize(upper)
  /\ UNCHANGED <<scan, vga, limit, gdt, upper, activated>>

AddDrivers ==
  /\ stage = "drivers" /\ stage' = "pci"
  /\ drivers' = AddDriver(AddDriver(drivers, "keyboard"), "mouse")
  /\ UNCHANGED <<machine, slot, function, numFunctions, found>>
  /\ UNCHANGED <<vga, limit, gdt, upper, heap, activated>>

SelectDrivers ==
  /\ stage = "pci"
  /\ ScanDevice \/ ScanFunction \/ NextDevice
  /\ stage' = IF slot'[1] = Buses THEN "activate" ELSE "pci"
  /\ UNCHANGED <<vga, limit, gdt, upper, heap, activated>>

(* What Activate of either driver does is in module PS2. *)
ActivateAll ==
  /\ stage = "activate" /\ stage' = "mode"
  /\ activated' = drivers
  /\ UNCHANGED <<scan, vga, limit, gdt, upper, heap>>

SetMode ==
  /\ stage = "mode" /\ SupportsMode(320, 200, 8)
  /\ WriteRegisters
  /\ stage' = IF written' = 62 THEN "interrupts" ELSE "mode"
  /\ UNCHANGED <<scan, limit, gdt, upper, heap, activated>>

InterruptsOn ==
  /\ stage = "interrupts" /\ stage' = "on"
  /\ UNCHANGED <<scan, vga, limit, gdt, upper, heap, activated>>

Next ==
  \/ ConstructGDT \/ PlaceHeap \/ AddDrivers \/ SelectDrivers
  \/ ActivateAll \/ SetMode \/ InterruptsOn

Spec == Init /\ [][Next]_vars

-----------------------------------------------------------------------------

Stages == {"gdt", "heap", "drivers", "pci", "activate", "mode", "interrupts", "on"}

TypeOK ==
  /\ machine \in Machines
  /\ slot \in Slot \cup {<<Buses, 0>>}
  /\ function \in 0 .. numFunctions /\ numFunctions \in {0, 1, Functions}
  /\ \A d \in Range(found) : d.slot \in Slot /\ d.function \in 0 .. Functions - 1
  /\ drivers \in Seq({"keyboard", "mouse"}) /\ activated \in Seq({"keyboard", "mouse"})
  /\ Len(drivers) <= Capacity
  /\ DOMAIN bank = DOMAIN Last \ {"attr"}
  /\ \A b \in DOMAIN bank : bank[b] \in [0 .. Last[b] -> 0 .. 255]
  /\ attr \in [index : 0 .. 32, next : BOOLEAN, regs : [0 .. 20 -> 0 .. 255]]
  /\ written \in 0 .. 62
  /\ stage \in Stages /\ limit \in Limits /\ upper \in Uppers
  /\ heap \in -1 .. (64 * Word - 1)

(* The two segments the kernel uses are no larger than asked for, and at   *)
(* most a page smaller.                                                    *)
SegmentsFit == gdt # <<>> => Fits(gdt[3], 0, limit) /\ Fits(gdt[4], 0, limit)

(* Where there is memory for it, the heap ends within the memory above     *)
(* 1 MiB; with less than 10 MiB the size wraps around.                     *)
HeapInMemory == heap # NoHeap /\ upper >= HeapStart + 10 => HeapStart + heap <= 1024 + upper
=============================================================================
