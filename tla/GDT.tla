---------------------------------- MODULE GDT ----------------------------------
(***************************************************************************)
(* The descriptor table of src/src/gdt.cpp: how a segment descriptor packs *)
(* a base address and a limit, and what can be read back from it.          *)
(***************************************************************************)
EXTENDS Integers

(* 2^16 *)
Word == 256 * 256

Page == 16 * 256

(* The values of an unsigned integer of 32 bits, of which TLC knows half. *)
Uint32 == {v \in Nat : v \div Word < Word}

(* Mutant: the low bits of the limit are cut off, and read back as ones. *)
LimitCutOff(limit) ==
  IF limit <= Word THEN [flags |-> 4, value |-> limit]
  ELSE [flags |-> 12, value |-> limit \div Page]

(* The limit as it is stored: in bytes, or in pages of 4096 bytes, the     *)
(* last byte of which is included; the flags are the upper half of byte 6. *)
LimitStored(limit) ==
  IF limit <= Word THEN [flags |-> 4, value |-> limit]
  ELSE [flags |-> 12,
        value |-> IF limit % Page # Page - 1 THEN limit \div Page - 1 ELSE limit \div Page]

(* SegmentDescriptor::SegmentDescriptor, with the fields of gdt.h. *)
SegmentDescriptor(base, limit, type) ==
  LET s == LimitStored(limit)
  IN  [limit_lo |-> s.value % Word,
       base_lo  |-> base % Word,
       base_hi  |-> (base \div Word) % 256,
       type     |-> type,
       limit_hi |-> 16 * s.flags + ((s.value \div Word) % 16),
       base_vhi |-> (base \div (256 * Word)) % 256]

Base(d) == (d.base_vhi * 256 + d.base_hi) * Word + d.base_lo

Limit(d) ==
  LET l == (d.limit_hi % 16) * Word + d.limit_lo
  IN  IF d.limit_hi \div 64 = 3 THEN l * Page + (Page - 1) ELSE l

(* GlobalDescriptorTable::GlobalDescriptorTable: the four descriptors, in  *)
(* order, for code and data segments of the given limit.                   *)
GlobalDescriptorTable(limit) ==
  <<SegmentDescriptor(0, 0, 0), SegmentDescriptor(0, 0, 0),
    SegmentDescriptor(0, limit, 154), SegmentDescriptor(0, limit, 146)>>

(* A descriptor lets nobody beyond the limit that was asked for, and       *)
(* wastes at most 4095 bytes below it.                                     *)
Fits(d, base, limit) ==
  /\ Base(d) = base
  /\ Limit(d) <= limit /\ limit - Limit(d) <= Page - 1
  /\ limit <= Word \/ limit % Page = Page - 1 => Limit(d) = limit
=============================================================================
