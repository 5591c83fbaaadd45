------------------------------- MODULE BootProofs ------------------------------
(***************************************************************************)
(* Proofs about what kernelMain sets up before it turns interrupts on: the *)
(* descriptor table, for every limit of 32 bits, the heap, for every       *)
(* amount of memory the boot loader may report, the scan of the buses, for *)
(* every number of them and whatever they hold, and the graphics mode,     *)
(* whatever the adapter's registers held.                                  *)
(***************************************************************************)
EXTENDS Boot, TLAPS

(* Word and Page stay folded below: the provers see these facts only. *)
LEMMA Sizes ==
  /\ Word \in Nat \ {0} /\ Page \in Nat \ {0}
  /\ Word = 16 * Page /\ Word = 256 * 256
  BY DEF Word, Page

LEMMA Divided ==
  ASSUME NEW n \in Nat, NEW k \in Nat \ {0}
  PROVE  /\ n = k * (n \div k) + (n % k)
         /\ n % k \in 0 .. k - 1 /\ n \div k \in Nat
  OBVIOUS

(* The quotient is the only one with a remainder below the divisor. *)
LEMMA Quotient ==
  ASSUME NEW k \in Nat \ {0}, NEW q \in Nat, NEW r \in 0 .. k - 1
  PROVE  (k * q + r) \div k = q
<1> DEFINE n == k * q + r
           p == n \div k
           s == n % k
<1>1. n \in Nat
  OBVIOUS
<1>2. n = k * p + s /\ s \in 0 .. k - 1 /\ p \in Nat
  BY <1>1, Divided
<1>3. k * q + r = k * p + s
  BY <1>2
<1> HIDE DEF n, p, s
<1>4. k * (q - p) = s - r
  BY <1>2, <1>3
<1>5. ASSUME q - p >= 1 PROVE FALSE
  <2>1. k * (q - p) >= k
    BY <1>2, <1>5
  <2> QED BY <1>2, <1>4, <2>1
<1>6. ASSUME q - p <= -1 PROVE FALSE
  <2>1. k * (q - p) <= -k
    BY <1>2, <1>6
  <2> QED BY <1>2, <1>4, <2>1
<1>7. q = p
  BY <1>2, <1>5, <1>6
<1> QED BY <1>7 DEF p, n

(* A limit in pages fits the 20 bits there are for it. *)
LEMMA PagesFit ==
  ASSUME NEW l \in Uint32, l > Word
  PROVE  l \div Page \in 16 .. (16 * Word - 1)
<1> DEFINE q == l \div Page
           u == l \div Word
<1>1. l \in Nat /\ u < Word
  BY DEF Uint32
<1>2. l = Page * q + (l % Page) /\ (l % Page) \in 0 .. Page - 1 /\ q \in Nat
  BY <1>1, Sizes, Divided
<1>3. l = Word * u + (l % Word) /\ (l % Word) \in 0 .. Word - 1 /\ u \in Nat
  BY <1>1, Sizes, Divided
<1> HIDE DEF q, u
<1>4. Word * u <= Word * (Word - 1)
  BY <1>1, <1>3, Sizes
<1>5. l < Page * (16 * Word)
  BY <1>1, <1>3, <1>4, Sizes
<1>6. q \in 16 .. (16 * Word - 1)
  BY <1>1, <1>2, <1>5, Sizes
<1> QED BY <1>6 DEF q

(* And so does every limit, as it is stored. *)
LEMMA LimitStoredTyped ==
  ASSUME NEW l \in Uint32
  PROVE  /\ LimitStored(l).value \in 0 .. (16 * Word - 1)
         /\ LimitStored(l).flags = IF l <= Word THEN 4 ELSE 12
<1>1. l \in Nat
  BY DEF Uint32
<1>2. CASE l <= Word
  BY <1>1, <1>2, Sizes DEF LimitStored
<1>3. CASE l > Word
  <2>1. l \div Page \in 16 .. (16 * Word - 1)
    BY <1>3, PagesFit
  <2>2. l \div Page - 1 \in 0 .. (16 * Word - 1)
    BY <2>1, Sizes
  <2>3. ~(l <= Word)
    BY <1>1, <1>3, Sizes
  <2>4. LimitStored(l).flags = 12
    BY <2>3 DEF LimitStored
  <2>5. LimitStored(l).value \in {l \div Page - 1, l \div Page}
    BY <2>3 DEF LimitStored
  <2>6. l \div Page \in 0 .. (16 * Word - 1)
    BY <2>1, Sizes
  <2> QED BY <2>2, <2>3, <2>4, <2>5, <2>6
<1> QED BY <1>1, <1>2, <1>3, Sizes

(* The limit comes out of its two fields as it was put in. *)
LEMMA LimitFields ==
  ASSUME NEW v \in 0 .. (16 * Word - 1), NEW f \in {4, 12}
  PROVE  LET hi == 16 * f + ((v \div Word) % 16)
         IN  /\ (hi % 16) * Word + (v % Word) = v
             /\ hi \div 64 = IF f = 4 THEN 1 ELSE 3
<1> DEFINE h == v \div Word
           r == v % Word
           hi == 16 * f + (h % 16)
<1>1. v \in Nat
  BY Sizes
<1>2. v = Word * h + r /\ r \in 0 .. Word - 1 /\ h \in Nat
  BY <1>1, Sizes, Divided
<1> HIDE DEF h, r
<1>3. h \in 0 .. 15
  BY <1>2, Sizes
<1>4. h % 16 = h
  BY <1>3
<1>5. hi % 16 = h /\ hi \div 64 = IF f = 4 THEN 1 ELSE 3
  BY <1>3, <1>4
<1> HIDE DEF hi
<1>6. h * Word = Word * h
  BY <1>3, Sizes
<1>7. (hi % 16) * Word + r = v
  BY <1>2, <1>5, <1>6
<1> QED BY <1>5, <1>7 DEF hi, h, r

(* And so does the base. *)
LEMMA BaseFields ==
  ASSUME NEW b \in Uint32
  PROVE  (((b \div (256 * Word)) % 256) * 256 + ((b \div Word) % 256)) * Word + (b % Word) = b
<1> DEFINE p == b \div Word
           r == b % Word
           q == p \div 256
           s == p % 256
           t == b \div (256 * Word)
<1>1. b \in Nat /\ p < Word
  BY DEF Uint32
<1>2. b = Word * p + r /\ r \in 0 .. Word - 1 /\ p \in Nat
  BY <1>1, Sizes, Divided
<1>3. p = 256 * q + s /\ s \in 0 .. 255 /\ q \in Nat
  BY <1>2
<1>4. t = q
  <2> DEFINE k == 256 * Word
             m == Word * s + r
  <2>1. Word * s <= Word * 255 /\ Word * s \in Nat
    <3> HIDE DEF p, q, r, s, t
    <3> QED BY <1>3, Sizes
  <2>2. k \in Nat \ {0} /\ m \in 0 .. k - 1
    <3> HIDE DEF p, q, r, s, t
    <3> QED BY <1>2, <2>1, Sizes
  <2>3. Word * p = Word * (256 * q) + Word * s
    <3> HIDE DEF p, q, r, s, t
    <3> QED BY <1>2, <1>3, Sizes
  <2>4. Word * (256 * q) = k * q
    <3> HIDE DEF p, q, r, s, t
    <3> QED BY <1>3, Sizes
  <2>5. b = k * q + m
    <3> HIDE DEF p, q, r, s, t
    <3> QED BY <1>2, <1>3, <2>1, <2>2, <2>3, <2>4, Sizes
  <2> HIDE DEF k, m, p, q, r, s
  <2>6. (k * q + m) \div k = q
    BY <1>3, <2>2, Quotient
  <2>7. b \div k = q
    BY <2>5, <2>6
  <2> QED BY <2>7 DEF k
<1> HIDE DEF p, q, r, s, t
<1>5. q \in 0 .. 255
  BY <1>1, <1>2, <1>3, Sizes
<1>6. t % 256 = q
  BY <1>4, <1>5
<1>7. (t % 256) * 256 + s = p
  BY <1>3, <1>6
<1>8. ((t % 256) * 256 + s) * Word + r = b
  BY <1>2, <1>7, Sizes
<1> QED BY <1>8 DEF p, r, s, t

(* What can be read back from a descriptor, for every base and limit of 32 *)
(* bits (SegmentDescriptor::SegmentDescriptor, Base, Limit): the base, and *)
(* a limit that is no larger than asked for and less than a page smaller.  *)
THEOREM DescriptorFits ==
  ASSUME NEW base \in Uint32, NEW l \in Uint32, NEW type
  PROVE  Fits(SegmentDescriptor(base, l, type), base, l)
<1> DEFINE d == SegmentDescriptor(base, l, type)
           s == LimitStored(l)
           hi == 16 * s.flags + ((s.value \div Word) % 16)
<1>1. /\ s.value \in 0 .. (16 * Word - 1)
      /\ s.flags = IF l <= Word THEN 4 ELSE 12
  BY LimitStoredTyped
<1>2. s.flags \in {4, 12}
  BY <1>1
<1>3. /\ (hi % 16) * Word + (s.value % Word) = s.value
      /\ hi \div 64 = IF s.flags = 4 THEN 1 ELSE 3
  <2> HIDE DEF s
  <2> QED BY <1>1, <1>2, LimitFields
<1>4. /\ d.limit_lo = s.value % Word /\ d.limit_hi = hi
      /\ d.base_lo = base % Word /\ d.base_hi = (base \div Word) % 256
      /\ d.base_vhi = (base \div (256 * Word)) % 256
  BY DEF SegmentDescriptor
<1>5. Base(d) = base
  BY <1>4, BaseFields DEF Base
<1>6. l \in Nat
  BY DEF Uint32
<1>7. Limit(d) = IF s.flags = 4 THEN s.value ELSE s.value * Page + (Page - 1)
  <2> HIDE DEF d, s, hi
  <2> QED BY <1>2, <1>3, <1>4 DEF Limit
<1>8. CASE l <= Word
  <2>1. s.value = l
    BY <1>8 DEF LimitStored
  <2>2. Limit(d) = l
    BY <1>1, <1>7, <1>8, <2>1
  <2> HIDE DEF d
  <2>3. Limit(d) <= l /\ l - Limit(d) <= Page - 1
    BY <1>6, <2>2, Sizes
  <2>4. Fits(d, base, l)
    BY <1>5, <2>2, <2>3 DEF Fits
  <2> QED BY <2>4 DEF d
<1>9. CASE l > Word
  <2> DEFINE q == l \div Page
             r == l % Page
  <2>1. ~(l <= Word)
    BY <1>6, <1>9, Sizes
  <2>2. s.value = IF r # Page - 1 THEN q - 1 ELSE q
    BY <2>1 DEF LimitStored
  <2>3. Limit(d) = s.value * Page + (Page - 1)
    BY <1>1, <1>7, <2>1
  <2>4. l = Page * q + r /\ r \in 0 .. Page - 1 /\ q \in Nat
    BY <1>6, Sizes, Divided
  <2> HIDE DEF d, s, q, r
  <2>5. Limit(d) = IF r # Page - 1 THEN Page * q - 1 ELSE Page * q + (Page - 1)
    BY <2>2, <2>3, <2>4, Sizes
  <2>6. Limit(d) <= l /\ l - Limit(d) <= Page - 1 /\ (r = Page - 1 => Limit(d) = l)
    BY <2>4, <2>5, Sizes
  <2>7. Fits(d, base, l)
    BY <1>5, <2>1, <2>6 DEF Fits, r
  <2> QED BY <2>7 DEF d
<1> QED BY <1>6, <1>8, <1>9, Sizes

-----------------------------------------------------------------------------

(* Which table and which heap there can be. *)
SetUpInv ==
  /\ limit \in Limits /\ upper \in Uppers
  /\ gdt \in {<<>>, GlobalDescriptorTable(limit)}
  /\ heap \in {NoHeap, HeapSize(upper)}

(* The table and the heap, once there, are those of their constructors. *)
THEOREM SetUpInvariance == Spec => []SetUpInv
<1>1. Init => SetUpInv
  BY DEF Init, SetUpInv
<1>2. SetUpInv /\ [Next]_vars => SetUpInv'
  <2> SUFFICES ASSUME SetUpInv, [Next]_vars PROVE SetUpInv'
    OBVIOUS
  <2>1. CASE ConstructGDT
    BY <2>1 DEF SetUpInv, ConstructGDT
  <2>2. CASE PlaceHeap
    BY <2>2 DEF SetUpInv, PlaceHeap
  <2>3. CASE UNCHANGED <<limit, upper, gdt, heap>>
    BY <2>3 DEF SetUpInv
  <2>4. AddDrivers \/ SelectDrivers \/ ActivateAll \/ SetMode \/ InterruptsOn \/ UNCHANGED vars
          => UNCHANGED <<limit, upper, gdt, heap>>
    BY DEF AddDrivers, SelectDrivers, ActivateAll, SetMode, InterruptsOn, vars
  <2> QED BY <2>1, <2>2, <2>3, <2>4 DEF Next
<1> QED BY <1>1, <1>2, PTL DEF Spec

(* The code and the data segment of the kernel (gdt.cpp) let it reach no   *)
(* byte beyond the limit it asks for and all but less than a page below.   *)
THEOREM SegmentsFitAlways == Spec => []SegmentsFit
<1>1. SetUpInv => SegmentsFit
  <2> SUFFICES ASSUME SetUpInv, gdt # <<>>
               PROVE  Fits(gdt[3], 0, limit) /\ Fits(gdt[4], 0, limit)
    BY DEF SegmentsFit
  <2>1. gdt = GlobalDescriptorTable(limit) /\ limit \in Uint32
    BY LimitsAssumption DEF SetUpInv
  <2>2. gdt[3] = SegmentDescriptor(0, limit, 154) /\ gdt[4] = SegmentDescriptor(0, limit, 146)
    BY <2>1 DEF GlobalDescriptorTable
  <2>3. 0 \in Uint32
    BY Sizes, Divided DEF Uint32
  <2> QED BY <2>1, <2>2, <2>3, DescriptorFits
<1> QED BY <1>1, SetUpInvariance, PTL

(* Given the memory it takes, the heap kernelMain places at 10 MiB ends    *)
(* where the memory of the machine ends, or before.                        *)
THEOREM HeapInMemoryAlways == Spec => []HeapInMemory
<1>1. SetUpInv => HeapInMemory
  <2> SUFFICES ASSUME SetUpInv, heap # NoHeap, upper >= HeapStart + 10
               PROVE  HeapStart + heap <= 1024 + upper
    BY DEF HeapInMemory
  <2> DEFINE u == upper - HeapStart - 10
  <2>1. upper \in 0 .. (64 * Word - 1)
    BY UppersAssumption DEF SetUpInv
  <2>2. heap = u % (64 * Word)
    BY DEF SetUpInv, HeapSize
  <2>3. u \in 0 .. (64 * Word - 1)
    BY <2>1, Sizes DEF HeapStart
  <2> HIDE DEF u
  <2>4. u % (64 * Word) = u
    BY <2>3, Sizes
  <2>5. heap = upper - HeapStart - 10
    BY <2>2, <2>4 DEF u
  <2> QED BY <2>1, <2>5, Sizes DEF HeapStart
<1> QED BY <1>1, SetUpInvariance, PTL

-----------------------------------------------------------------------------
(* The scan of the buses. *)

Finding == [slot : Slot, function : 0 .. Functions - 1, portBase : Int]

(* The scan is past device s, or past its function f. *)
Passed(s) == s[1] < slot[1] \/ (s[1] = slot[1] /\ s[2] < slot[2])
Looked(s, f) == Passed(s) \/ (s = slot /\ f < function)

(* How many functions the scan looks for in device s. *)
Expected(s) == IF machine[s][0].multi THEN Functions ELSE 1

Listed(s, f) == \E i \in 1 .. Len(found) : found[i].slot = s /\ found[i].function = f

(* Where the loops are. *)
ScanAt ==
  /\ machine \in Machines
  /\ slot \in Slot \cup {<<Buses, 0>>}
  /\ \/ numFunctions = 0 /\ function = 0
     \/ slot \in Slot /\ numFunctions = Expected(slot) /\ function \in 0 .. numFunctions

(* What has been found is there, and has a port address of its own. *)
FoundReal ==
  /\ found \in Seq(Finding)
  /\ \A i \in 1 .. Len(found) :
       /\ found[i].function \in Real(found[i].slot)
       /\ Looked(found[i].slot, found[i].function)
       /\ found[i].portBase \in PortBases(machine[found[i].slot][found[i].function])

(* What the scan has looked at has been found, *)
LookedFound == \A s \in Slot : \A f \in Real(s) : Looked(s, f) => Listed(s, f)

(* and once. *)
FoundOnce ==
  \A i, j \in 1 .. Len(found) :
    found[i].slot = found[j].slot /\ found[i].function = found[j].function => i = j

ScanInv == ScanAt /\ FoundReal /\ LookedFound /\ FoundOnce

LEMMA MachineIs ==
  ASSUME machine \in Machines, NEW s \in Slot
  PROVE  /\ machine[s] \in [0 .. Functions - 1 -> Header \cup {Absent}]
         /\ \A f \in 0 .. Functions - 1 : Present(machine[s][f]) => machine[s][f] \in Header
<1>1. machine \in [Slot -> [0 .. Functions - 1 -> Header \cup {Absent}]]
  BY MachineAssumption
<1>2. ~Present(Absent)
  BY DEF Present, Absent
<1> QED BY <1>1, <1>2

LEMMA SlotIs ==
  ASSUME NEW s \in Slot
  PROVE  s[1] \in 0 .. Buses - 1 /\ s[2] \in 0 .. Devices - 1 /\ s = <<s[1], s[2]>>
BY DEF Slot

LEMMA LargestBar ==
  ASSUME NEW S \in SUBSET (1 .. 6), S # {}
  PROVE  (CHOOSE b \in S : \A a \in S : a <= b) \in S
<1> SUFFICES \E b \in S : \A a \in S : a <= b
  OBVIOUS
<1> SUFFICES ASSUME \A b \in S : \E a \in S : b < a PROVE FALSE
  OBVIOUS
<1>1. 6 \notin S /\ 5 \notin S /\ 4 \notin S
  OBVIOUS
<1>2. 3 \notin S /\ 2 \notin S /\ 1 \notin S
  BY <1>1
<1>3. PICK b \in S : b \in 1 .. 6
  OBVIOUS
<1> QED BY <1>1, <1>2, <1>3

(* The port address kept for a function: of an ordinary one, its own. *)
LEMMA PortBaseIs ==
  ASSUME NEW h \in Header, NEW base \in PortBases(h)
  PROVE  /\ base \in Int
         /\ h.header = 0 =>
              LET own == {h.bars[b].address : b \in {a \in 1 .. 6 : h.bars[a].io}} \ {0}
              IN  IF own = {} THEN base = Junk ELSE base \in own
<1> DEFINE P == PortBars(h)
           last == CHOOSE b \in P : \A a \in P : a <= b
           own == {h.bars[b].address : b \in {a \in 1 .. 6 : h.bars[a].io}} \ {0}
<1>1. h.bars \in [1 .. 6 -> Bar] /\ h.header \in 0 .. 2
  BY DEF Header
<1>2. P \in SUBSET (1 .. 6)
  BY DEF PortBars
<1>3. P # {} => last \in P
  BY <1>2, LargestBar
<1>4. base \in {IF P = {} THEN Junk ELSE h.bars[last].address, Junk}
  BY DEF PortBases
<1>5. MaxBARs(h) = 6 <=> h.header = 0
  BY <1>1 DEF MaxBARs
<1>6. h.header = 0 => base = IF P = {} THEN Junk ELSE h.bars[last].address
  BY <1>5 DEF PortBases
<1>7. base \in Int
  <2>1. P # {} => h.bars[last].address \in Nat
    <3>1. P # {} => h.bars[last] \in Bar
      BY <1>1, <1>2, <1>3
    <3> QED BY <3>1 DEF Bar
  <2> QED BY <1>4, <2>1 DEF Junk
<1>8. ASSUME h.header = 0 PROVE IF own = {} THEN base = Junk ELSE base \in own
  <2>1. \A b \in 1 .. 6 : b \in P <=> h.bars[b].io /\ h.bars[b].address # 0
    BY <1>1, <1>5, <1>8 DEF PortBars
  <2>2. own = {h.bars[b].address : b \in P}
    BY <1>2, <2>1
  <2> HIDE DEF own, P, last
  <2>3. CASE P = {}
    BY <1>6, <1>8, <2>2, <2>3
  <2>4. CASE P # {}
    <3>1. h.bars[last].address \in own
      BY <1>3, <2>2, <2>4
    <3> QED BY <1>6, <1>8, <2>4, <3>1
  <2> QED BY <2>3, <2>4
<1> QED BY <1>7, <1>8

LEMMA ScanInit == Init => ScanInv
<1> SUFFICES ASSUME Init PROVE ScanInv
  OBVIOUS
<1>1. /\ machine \in Machines /\ slot = <<0, 0>> /\ function = 0 /\ numFunctions = 0 /\ found = <<>>
  BY DEF Init, PCIInit
<1>2. ScanAt
  BY <1>1, PCISizeAssumption DEF ScanAt, Slot
<1>3. FoundReal /\ FoundOnce
  <2>1. found \in Seq(Finding) /\ Len(found) = 0
    BY <1>1
  <2> QED BY <2>1 DEF FoundReal, FoundOnce
<1>4. ASSUME NEW s \in Slot, NEW f \in Real(s), Looked(s, f) PROVE FALSE
  <2>1. s[1] \in 0 .. Buses - 1 /\ s[2] \in 0 .. Devices - 1
    BY SlotIs
  <2>2. ~Passed(s)
    BY <1>1, <2>1, PCISizeAssumption DEF Passed
  <2>3. f \in 0 .. Functions - 1
    BY DEF Real
  <2> QED BY <1>1, <1>4, <2>2, <2>3, PCISizeAssumption DEF Looked
<1> QED BY <1>2, <1>3, <1>4 DEF ScanInv, LookedFound

(* The scan is where it was, or looks at the same devices. *)
LEMMA ScanKept ==
  ASSUME ScanInv, UNCHANGED <<machine, slot, function, numFunctions, found>>
  PROVE  ScanInv'
<1>1. ScanAt'
  BY DEF ScanInv, ScanAt, Expected
<1>2. FoundReal'
  BY DEF ScanInv, FoundReal, Real, Looked, Passed
<1>3. LookedFound'
  BY DEF ScanInv, LookedFound, Real, Looked, Passed, Listed
<1>4. FoundOnce'
  BY DEF ScanInv, FoundOnce
<1> QED BY <1>1, <1>2, <1>3, <1>4 DEF ScanInv

LEMMA ScanDeviceStep ==
  ASSUME ScanInv, ScanDevice
  PROVE  ScanInv'
<1>1. /\ numFunctions = 0 /\ slot[1] < Buses /\ numFunctions' = Expected(slot) /\ function' = 0
      /\ UNCHANGED <<machine, slot, found>>
  BY DEF ScanDevice, DeviceHasFunctions, Expected
<1>2. slot \in Slot /\ function = 0
  BY <1>1, PCISizeAssumption DEF ScanInv, ScanAt, Slot
<1>3. ScanAt'
  <2>1. Expected(slot) \in Nat
    BY PCISizeAssumption DEF Expected
  <2> QED BY <1>1, <1>2, <2>1 DEF ScanInv, ScanAt, Expected
<1>4. function' = function
  BY <1>1, <1>2
<1>5. FoundReal'
  BY <1>1, <1>4 DEF ScanInv, FoundReal, Real, Looked, Passed
<1>6. LookedFound'
  BY <1>1, <1>4 DEF ScanInv, LookedFound, Real, Looked, Passed, Listed
<1>7. FoundOnce'
  BY <1>1 DEF ScanInv, FoundOnce
<1> QED BY <1>3, <1>5, <1>6, <1>7 DEF ScanInv

(* The device after this one is the next in the order of the two loops. *)
LEMMA NextInOrder ==
  ASSUME slot \in Slot, NextDevice
  PROVE  /\ slot' \in Slot \cup {<<Buses, 0>>}
         /\ \A s \in Slot : Passed(s)' <=> Passed(s) \/ s = slot
         /\ \A s \in Slot : Passed(s) => s # slot
<1>1. PICK b \in 0 .. Buses - 1, d \in 0 .. Devices - 1 : slot = <<b, d>>
  BY DEF Slot
<1>2. slot' = IF d + 1 < Devices THEN <<b, d + 1>> ELSE <<b + 1, 0>>
  BY <1>1 DEF NextDevice
<1>3. slot' \in Slot \cup {<<Buses, 0>>}
  <2>1. CASE d + 1 < Devices
    <3>1. d + 1 \in 0 .. Devices - 1
      BY <2>1, PCISizeAssumption
    <3> QED BY <1>2, <2>1, <3>1 DEF Slot
  <2>2. CASE ~(d + 1 < Devices)
    <3>1. 0 \in 0 .. Devices - 1 /\ (b + 1 \in 0 .. Buses - 1 \/ b + 1 = Buses)
      BY PCISizeAssumption
    <3> QED BY <1>2, <2>2, <3>1 DEF Slot
  <2> QED BY <2>1, <2>2
<1>4. ASSUME NEW s \in Slot
      PROVE  (Passed(s)' <=> Passed(s) \/ s = slot) /\ (Passed(s) => s # slot)
  <2>1. PICK x \in 0 .. Buses - 1, y \in 0 .. Devices - 1 : s = <<x, y>>
    BY DEF Slot
  <2>2. Passed(s) <=> x < b \/ (x = b /\ y < d)
    BY <1>1, <2>1 DEF Passed
  <2>3. s = slot <=> x = b /\ y = d
    BY <1>1, <2>1
  <2>4. Passed(s)' <=> x < b \/ (x = b /\ y <= d)
    <3>1. CASE d + 1 < Devices
      <4>1. Passed(s)' <=> x < b \/ (x = b /\ y < d + 1)
        BY <1>2, <2>1, <3>1 DEF Passed
      <4> QED BY <4>1
    <3>2. CASE ~(d + 1 < Devices)
      <4>1. Passed(s)' <=> x < b + 1 \/ (x = b + 1 /\ y < 0)
        BY <1>2, <2>1, <3>2 DEF Passed
      <4>2. y <= d
        BY <3>2, PCISizeAssumption
      <4> QED BY <4>1, <4>2
    <3> QED BY <3>1, <3>2
  <2> QED BY <2>2, <2>3, <2>4
<1> QED BY <1>3, <1>4

LEMMA NextDeviceStep ==
  ASSUME ScanInv, NextDevice
  PROVE  ScanInv'
<1>1. /\ numFunctions > 0 /\ function >= numFunctions /\ numFunctions' = 0 /\ function' = 0
      /\ UNCHANGED <<machine, found>>
  BY DEF NextDevice
<1>2. slot \in Slot /\ numFunctions = Expected(slot) /\ function = Expected(slot)
      /\ Expected(slot) \in Nat
  BY <1>1, PCISizeAssumption DEF ScanInv, ScanAt, Expected
<1>3. ScanAt'
  BY <1>1, <1>2, NextInOrder DEF ScanInv, ScanAt
<1>4. ASSUME NEW s \in Slot, NEW f \in Real(s)
      PROVE  Looked(s, f)' <=> Looked(s, f)
  <2>1. Looked(s, f)' <=> Passed(s) \/ s = slot
    <3>1. f \in 0 .. Functions - 1 /\ ~(f < function')
      BY <1>1, PCISizeAssumption DEF Real
    <3>2. Passed(s)' <=> Passed(s) \/ s = slot
      BY <1>2, NextInOrder
    <3> QED BY <3>1, <3>2 DEF Looked
  <2>2. s = slot => f < function
    BY <1>2, PCISizeAssumption DEF Real, Expected
  <2> QED BY <2>1, <2>2 DEF Looked
<1>5. \A s : Real(s)' = Real(s) /\ (\A f : Listed(s, f)' <=> Listed(s, f))
  BY <1>1 DEF Real, Listed
<1>6. FoundReal'
  <2>1. ASSUME NEW i \in 1 .. Len(found)
        PROVE  /\ found[i].function \in Real(found[i].slot)
               /\ Looked(found[i].slot, found[i].function)'
               /\ found[i].portBase \in PortBases(machine[found[i].slot][found[i].function])
    <3>0. found[i] \in Finding
      BY DEF ScanInv, FoundReal
    <3>1. PICK s \in Slot : s = found[i].slot
      BY <3>0 DEF Finding
    <3>2. PICK f \in Real(s) : f = found[i].function
      BY <3>1 DEF ScanInv, FoundReal
    <3>3. Looked(s, f)'
      BY <1>4, <3>1, <3>2 DEF ScanInv, FoundReal
    <3> QED BY <1>1, <3>1, <3>2, <3>3 DEF ScanInv, FoundReal, Looked, Passed
  <2> QED BY <1>1, <1>5, <2>1 DEF ScanInv, FoundReal, Looked, Passed
<1>7. LookedFound'
  BY <1>4, <1>5 DEF ScanInv, LookedFound
<1>8. FoundOnce'
  BY <1>1 DEF ScanInv, FoundOnce
<1> QED BY <1>3, <1>6, <1>7, <1>8 DEF ScanInv

LEMMA Appended ==
  ASSUME NEW W, NEW s \in Seq(W), NEW d \in W
  PROVE  /\ Append(s, d) \in Seq(W) /\ Len(Append(s, d)) = Len(s) + 1
         /\ \A i \in 1 .. Len(s) : Append(s, d)[i] = s[i]
         /\ Append(s, d)[Len(s) + 1] = d
OBVIOUS

(* One round of the loop over functions. *)
LEMMA ScanFunctionStep ==
  ASSUME ScanInv, ScanFunction
  PROVE  ScanInv'
<1>1. /\ function < numFunctions /\ function' = function + 1
      /\ UNCHANGED <<machine, slot, numFunctions>>
  BY DEF ScanFunction, NextFunction
<1>2. /\ slot \in Slot /\ numFunctions = Expected(slot) /\ function \in 0 .. numFunctions
      /\ numFunctions \in 0 .. Functions /\ function \in 0 .. Functions - 1
  BY <1>1, PCISizeAssumption DEF ScanInv, ScanAt, Expected
<1>3. PICK h : h = machine[slot][function]
  OBVIOUS
<1>4. PICK n \in Nat : n = Len(found) /\ found \in Seq(Finding)
  BY DEF ScanInv, FoundReal
<1>5. ScanAt'
  BY <1>1, <1>2 DEF ScanInv, ScanAt, Expected
<1>6. ASSUME NEW s \in Slot, NEW f \in 0 .. Functions - 1
      PROVE  Looked(s, f)' <=> Looked(s, f) \/ (s = slot /\ f = function)
  BY <1>1, <1>2 DEF Looked, Passed
<1>7. Present(h) <=> function \in Real(slot)
  <2>1. function = 0 \/ machine[slot][0].multi
    BY <1>1, <1>2 DEF Expected
  <2> QED BY <1>2, <1>3, <2>1 DEF Real
<1>8. \A s : Real(s)' = Real(s)
  BY <1>1 DEF Real
<1>9. ~Looked(slot, function)
  BY <1>2, SlotIs DEF Looked, Passed
<1>10. ASSUME NEW i \in 1 .. Len(found)
       PROVE  /\ found[i].slot \in Slot /\ found[i].function \in 0 .. Functions - 1
              /\ found[i].function \in Real(found[i].slot)
              /\ Looked(found[i].slot, found[i].function)
              /\ found[i].portBase \in PortBases(machine[found[i].slot][found[i].function])
  <2>1. found[i] \in Finding
    BY <1>4
  <2> QED BY <2>1 DEF ScanInv, FoundReal, Finding
<1>11. CASE ~Present(h)
  <2>1. found' = found
    BY <1>3, <1>11 DEF ScanFunction
  <2>2. ASSUME NEW s \in Slot, NEW f \in Real(s) PROVE Looked(s, f)' <=> Looked(s, f)
    BY <1>6, <1>7, <1>11 DEF Real
  <2>3. FoundReal'
    <3>1. ASSUME NEW i \in 1 .. Len(found)
          PROVE  (/\ found[i].function \in Real(found[i].slot)
                  /\ Looked(found[i].slot, found[i].function)
                  /\ found[i].portBase \in PortBases(machine[found[i].slot][found[i].function]))'
      <4>0. PICK s \in Slot : s = found[i].slot
        BY <1>10
      <4>1. PICK f \in Real(s) : f = found[i].function
        BY <1>10, <4>0
      <4>2. Looked(s, f)'
        BY <1>10, <2>2, <4>0, <4>1
      <4> QED BY <1>1, <1>8, <1>10, <2>1, <4>0, <4>1, <4>2 DEF Looked, Passed
    <3> QED BY <1>4, <2>1, <3>1 DEF FoundReal
  <2>4. LookedFound'
    BY <1>8, <2>1, <2>2 DEF ScanInv, LookedFound, Listed
  <2>5. FoundOnce'
    BY <2>1 DEF ScanInv, FoundOnce
  <2> QED BY <1>5, <2>3, <2>4, <2>5 DEF ScanInv
<1>12. CASE Present(h)
  <2>1. h \in Header
    BY <1>2, <1>3, <1>12, MachineIs DEF ScanInv, ScanAt
  <2>2. PICK base \in PortBases(h) :
          found' = Append(found, [slot |-> slot, function |-> function, portBase |-> base])
    BY <1>3, <1>12 DEF ScanFunction
  <2> DEFINE d == [slot |-> slot, function |-> function, portBase |-> base]
  <2>3. d \in Finding
    BY <1>2, <2>1, PortBaseIs DEF Finding
  <2>4. d.slot = slot /\ d.function = function /\ d.portBase = base
    OBVIOUS
  <2> HIDE DEF d
  <2>5. /\ found' \in Seq(Finding) /\ Len(found') = n + 1 /\ found'[n + 1] = d
        /\ \A i \in 1 .. n : found'[i] = found[i]
    BY <1>4, <2>2, <2>3, Appended DEF d
  <2>6. FoundReal'
    <3>1. ASSUME NEW i \in 1 .. n + 1
          PROVE  (/\ found[i].function \in Real(found[i].slot)
                  /\ Looked(found[i].slot, found[i].function)
                  /\ found[i].portBase \in PortBases(machine[found[i].slot][found[i].function]))'
      <4>1. CASE i = n + 1
        <5>1. PICK s \in Slot, f \in 0 .. Functions - 1 : s = slot /\ f = function
          BY <1>2
        <5>2. Looked(s, f)'
          BY <1>6, <5>1
        <5> QED BY <1>1, <1>3, <1>7, <1>8, <1>12, <2>4, <2>5, <4>1, <5>1, <5>2 DEF Looked, Passed
      <4>2. CASE i \in 1 .. n
        <5>1. PICK s \in Slot, f \in 0 .. Functions - 1 : s = found[i].slot /\ f = found[i].function
          BY <1>4, <1>10, <4>2
        <5>2. Looked(s, f)'
          BY <1>4, <1>6, <1>10, <4>2, <5>1
        <5> QED BY <1>1, <1>4, <1>8, <1>10, <2>5, <4>2, <5>1, <5>2 DEF Looked, Passed
      <4> QED BY <4>1, <4>2
    <3> QED BY <2>5, <3>1 DEF FoundReal
  <2>7. LookedFound'
    <3> SUFFICES ASSUME NEW s \in Slot, NEW f \in Real(s), Looked(s, f)'
                 PROVE  Listed(s, f)'
      BY <1>8 DEF LookedFound
    <3>1. Looked(s, f) \/ (s = slot /\ f = function)
      BY <1>6 DEF Real
    <3>2. CASE Looked(s, f)
      <4>1. PICK i \in 1 .. n : found[i].slot = s /\ found[i].function = f
        BY <1>4, <3>2 DEF ScanInv, LookedFound, Listed
      <4>2. i \in 1 .. Len(found') /\ found'[i] = found[i]
        BY <2>5
      <4> QED BY <4>1, <4>2 DEF Listed
    <3>3. CASE s = slot /\ f = function
      <4>1. n + 1 \in 1 .. Len(found') /\ found'[n + 1].slot = s /\ found'[n + 1].function = f
        BY <2>4, <2>5, <3>3
      <4> QED BY <4>1 DEF Listed
    <3> QED BY <3>1, <3>2, <3>3
  <2>8. FoundOnce'
    <3>1. ASSUME NEW i \in 1 .. n PROVE ~(found'[i].slot = d.slot /\ found'[i].function = d.function)
      BY <1>4, <1>9, <1>10, <2>4, <2>5
    <3>2. ASSUME NEW i \in 1 .. n, NEW j \in 1 .. n, found'[i].slot = found'[j].slot,
                 found'[i].function = found'[j].function
          PROVE  i = j
      BY <1>4, <2>5, <3>2 DEF ScanInv, FoundOnce
    <3>3. ASSUME NEW i \in 1 .. n + 1, NEW j \in 1 .. n + 1, found'[i].slot = found'[j].slot,
                 found'[i].function = found'[j].function
          PROVE  i = j
      <4>1. (i \in 1 .. n \/ i = n + 1) /\ (j \in 1 .. n \/ j = n + 1)
        OBVIOUS
      <4> QED BY <2>5, <3>1, <3>2, <3>3, <4>1
    <3> QED BY <2>5, <3>3 DEF FoundOnce
  <2> QED BY <1>5, <2>6, <2>7, <2>8 DEF ScanInv
<1> QED BY <1>11, <1>12

LEMMA ScanStep == ScanInv /\ [Next]_vars => ScanInv'
<1> SUFFICES ASSUME ScanInv, [Next]_vars PROVE ScanInv'
  OBVIOUS
<1>1. CASE SelectDrivers
  BY <1>1, ScanDeviceStep, ScanFunctionStep, NextDeviceStep DEF SelectDrivers
<1>2. CASE UNCHANGED <<machine, slot, function, numFunctions, found>>
  BY <1>2, ScanKept
<1>3. ~SelectDrivers => UNCHANGED <<machine, slot, function, numFunctions, found>>
  BY DEF Next, ConstructGDT, PlaceHeap, AddDrivers, ActivateAll, SetMode, InterruptsOn, vars, scan
<1> QED BY <1>1, <1>2, <1>3

(* The inductive invariant of the scan. *)
THEOREM ScanInvariance == Spec => []ScanInv
<1> QED BY ScanInit, ScanStep, PTL DEF Spec

(* SelectDrivers finds every function of every device, and each once, also *)
(* where there is a gap in the numbers or a device that answers for all of *)
(* them, and keeps for an ordinary function a port address of its own, for *)
(* every number of buses, devices and functions and whatever they hold.    *)
THEOREM BusScannedAlways == Spec => []BusScanned
<1>1. ScanInv => EveryFunctionOnce
  <2> SUFFICES ASSUME ScanInv, Scanned PROVE EveryFunctionOnce
    BY DEF EveryFunctionOnce
  <2>1. slot = <<Buses, 0>>
    <3>1. slot[1] = Buses
      BY DEF Scanned
    <3>2. slot \notin Slot
      BY <3>1, PCISizeAssumption DEF Slot
    <3> QED BY <3>2 DEF ScanInv, ScanAt
  <2>2. ASSUME NEW s \in Slot PROVE Passed(s)
    <3>1. s[1] \in 0 .. Buses - 1
      BY SlotIs
    <3> QED BY <2>1, <3>1, PCISizeAssumption DEF Passed
  <2>3. Range(found) = {found[i] : i \in 1 .. Len(found)} /\ DOMAIN found = 1 .. Len(found)
    BY DEF ScanInv, FoundReal, Range
  <2>4. ASSUME NEW s \in Slot
        PROVE  {d.function : d \in {e \in Range(found) : e.slot = s}} = Real(s)
    <3>1. ASSUME NEW i \in 1 .. Len(found), found[i].slot = s PROVE found[i].function \in Real(s)
      BY <3>1 DEF ScanInv, FoundReal
    <3>2. ASSUME NEW f \in Real(s) PROVE \E i \in 1 .. Len(found) : found[i].slot = s /\ found[i].function = f
      BY <2>2 DEF ScanInv, LookedFound, Looked, Listed
    <3> QED BY <2>3, <3>1, <3>2
  <2> QED BY <2>3, <2>4 DEF EveryFunctionOnce, ScanInv, FoundOnce
<1>2. ScanInv => PortBaseOwn
  <2> SUFFICES ASSUME ScanInv, NEW d \in Range(found),
                      NEW h, h = machine[d.slot][d.function], h.header = 0
               PROVE  LET own == {h.bars[b].address : b \in {a \in 1 .. 6 : h.bars[a].io}} \ {0}
                      IN  IF own = {} THEN d.portBase = Junk ELSE d.portBase \in own
    BY DEF PortBaseOwn
  <2>1. PICK i \in 1 .. Len(found) : d = found[i]
    BY DEF ScanInv, FoundReal, Range
  <2>2. /\ d.function \in Real(d.slot) /\ d.portBase \in PortBases(h) /\ d.slot \in Slot
    <3>1. d \in Finding
      BY <2>1 DEF ScanInv, FoundReal
    <3> QED BY <2>1, <3>1 DEF ScanInv, FoundReal, Finding
  <2>3. h \in Header
    <3>1. d.function \in 0 .. Functions - 1 /\ Present(h)
      BY <2>2 DEF Real
    <3> QED BY <2>2, <3>1, MachineIs DEF ScanInv, ScanAt
  <2> QED BY <2>2, <2>3, PortBaseIs
<1> QED BY <1>1, <1>2, ScanInvariance, PTL DEF BusScanned

-----------------------------------------------------------------------------
(* The graphics mode. *)

Banks == {"misc", "seq", "crtc", "gc"}

(* The number WriteRegisters gives the first register of each bank. *)
First == [misc |-> 0, seq |-> 1, crtc |-> 6, gc |-> 31]

(* What WriteRegisters writes to register i of bank b. *)
Value(b, i) == IF b = "crtc" THEN CRTC(i) ELSE Mode[b][i]

BankTyped(regs) ==
  /\ DOMAIN regs = Banks
  /\ \A b \in Banks : regs[b] \in [0 .. Last[b] -> 0 .. 255]

LEMMA BanksAre ==
  /\ DOMAIN Last \ {"attr"} = Banks /\ DOMAIN Last = Banks \cup {"attr"}
  /\ Last["misc"] = 0 /\ Last["seq"] = 4 /\ Last["crtc"] = 24 /\ Last["gc"] = 8 /\ Last["attr"] = 20
  /\ First["misc"] = 0 /\ First["seq"] = 1 /\ First["crtc"] = 6 /\ First["gc"] = 31
BY DEF Last, Banks, First

LEMMA WithIs ==
  ASSUME NEW v \in 0 .. 255, NEW bit7 \in BOOLEAN
  PROVE  With(v, bit7) \in 0 .. 255 /\ With(v, FALSE) \in 0 .. 127
BY DEF With

LEMMA EntryIs ==
  ASSUME NEW W, NEW s \in Seq(W), NEW j \in 1 .. Len(s)
  PROVE  s[j] \in W
OBVIOUS

LEMMA NumberedIs ==
  ASSUME NEW s \in Seq(0 .. 255), NEW n \in Nat, Len(s) = n + 1
  PROVE  Numbered(s) \in [0 .. n -> 0 .. 255] /\ \A i \in 0 .. n : Numbered(s)[i] = s[i + 1]
<1>1. ASSUME NEW i \in 0 .. n PROVE s[i + 1] \in 0 .. 255
  <2>1. i + 1 \in 1 .. Len(s)
    OBVIOUS
  <2> QED BY <2>1, EntryIs
<1>2. Len(s) - 1 = n
  OBVIOUS
<1> QED BY <1>1, <1>2 DEF Numbered

LEMMA ModeIs == \A b \in Banks \cup {"attr"} : Mode[b] \in [0 .. Last[b] -> 0 .. 255]
<1>1. Mode["misc"] \in [0 .. 0 -> 0 .. 255]
  <2>1. <<99>> \in Seq(0 .. 255) /\ Len(<<99>>) = 0 + 1
    OBVIOUS
  <2> QED BY <2>1, NumberedIs DEF Mode
<1>2. Mode["seq"] \in [0 .. 4 -> 0 .. 255]
  <2> DEFINE s == <<3, 1, 15, 0, 14>>
  <2>1. s \in Seq(0 .. 255) /\ Len(s) = 4 + 1
    OBVIOUS
  <2> QED BY <2>1, NumberedIs DEF Mode
<1>3. Mode["crtc"] \in [0 .. 24 -> 0 .. 255]
  <2> DEFINE s == <<95, 79, 80, 130, 84, 128, 191, 31, 0, 65, 0, 0, 0, 0, 0, 0,
                       156, 14, 143, 40, 64, 150, 185, 163, 255>>
  <2>1. s \in Seq(0 .. 255) /\ Len(s) = 24 + 1
    OBVIOUS
  <2> QED BY <2>1, NumberedIs DEF Mode
<1>4. Mode["gc"] \in [0 .. 8 -> 0 .. 255]
  <2> DEFINE s == <<0, 0, 0, 0, 0, 64, 5, 15, 255>>
  <2>1. s \in Seq(0 .. 255) /\ Len(s) = 8 + 1
    OBVIOUS
  <2> QED BY <2>1, NumberedIs DEF Mode
<1>5. Mode["attr"] \in [0 .. 20 -> 0 .. 255]
  <2> DEFINE s == <<0, 1, 2, 3, 4, 5, 6, 7, 8, 9, 10, 11, 12, 13, 14, 15, 65, 0, 15, 0, 0>>
  <2>1. s \in Seq(0 .. 255) /\ Len(s) = 20 + 1
    OBVIOUS
  <2> QED BY <2>1, NumberedIs DEF Mode
<1> QED BY <1>1, <1>2, <1>3, <1>4, <1>5, BanksAre DEF Banks

LEMMA PixelsDisplayed == Mode["gc"][6] = 5
<1> DEFINE s == <<0, 0, 0, 0, 0, 64, 5, 15, 255>>
<1>1. s \in Seq(0 .. 255) /\ Len(s) = 8 + 1 /\ s[7] = 5
  OBVIOUS
<1>2. Mode["gc"] = Numbered(s)
  BY DEF Mode
<1> HIDE DEF s
<1>3. s \in Seq(0 .. 255) /\ 8 \in Nat /\ Len(s) = 8 + 1
  BY <1>1
<1>4. \A i \in 0 .. 8 : Numbered(s)[i] = s[i + 1]
  BY ONLY <1>3, NumberedIs
<1>5. Numbered(s)[6] = s[6 + 1]
  BY <1>4
<1> QED BY <1>1, <1>2, <1>5

LEMMA ValueIs ==
  ASSUME NEW b \in Banks, NEW i \in 0 .. Last[b]
  PROVE  Value(b, i) \in 0 .. 255 /\ (b = "crtc" /\ i = 17 => Value(b, i) < 128)
<1>1. \A c \in Banks : \A j \in 0 .. Last[c] : Mode[c][j] \in 0 .. 255
  BY ModeIs
<1>2. CASE b # "crtc"
  BY <1>1, <1>2 DEF Value
<1>3. CASE b = "crtc"
  <2>0. "crtc" \in Banks /\ i \in 0 .. 24 /\ 3 \in 0 .. 24 /\ 17 \in 0 .. 24 /\ Last["crtc"] = 24
    BY <1>3, BanksAre DEF Banks
  <2>1. \A j \in 0 .. 24 : Mode["crtc"][j] \in 0 .. 255
    BY <1>1, <2>0
  <2> DEFINE low == With(Mode["crtc"][3], TRUE)
             high == With(Mode["crtc"][17], FALSE)
  <2>2. low \in 0 .. 255 /\ high \in 0 .. 127
    <3>1. Mode["crtc"][3] \in 0 .. 255 /\ Mode["crtc"][17] \in 0 .. 255
      BY <2>0, <2>1
    <3> QED BY <3>1, WithIs
  <2>3. Value(b, i) = IF i = 3 THEN low ELSE IF i = 17 THEN high ELSE Mode["crtc"][i]
    BY <1>3 DEF Value, CRTC
  <2> HIDE DEF low, high
  <2> QED BY <2>0, <2>1, <2>2, <2>3
<1> QED BY <1>2, <1>3

AttrTyped(a) == a \in [index : 0 .. 32, next : BOOLEAN, regs : [0 .. 20 -> 0 .. 255]]

(* The first n writes have arrived. *)
BankSet(regs, n) ==
  \A b \in Banks : \A i \in 0 .. Last[b] : First[b] + i < n => regs[b][i] = Value(b, i)

AttrSet(a, n) == \A i \in 0 .. 20 : 40 + i < n => a.regs[i] = Mode["attr"][i]

(* From its first register on the CRTC is not protected. *)
Open(regs, n) == n >= 7 => regs["crtc"][17] < 128

BankInv == BankTyped(bank) /\ BankSet(bank, written) /\ Open(bank, written)

AttrInv == AttrTyped(attr) /\ AttrSet(attr, written) /\ (written = 62 => attr.index = 32)

VGAInv == written \in 0 .. 62 /\ BankInv /\ AttrInv

(* A register the adapter takes changes, and no other. *)
LEMMA TakenIs ==
  ASSUME NEW regs, BankTyped(regs), NEW b \in Banks, NEW i \in 0 .. Last[b], NEW v \in 0 .. 255
  PROVE  /\ BankTyped(Taken(regs, b, i, v))
         /\ \A c \in Banks : \A j \in 0 .. Last[c] :
              ~(c = b /\ j = i) => Taken(regs, b, i, v)[c][j] = regs[c][j]
         /\ ~(b = "crtc" /\ i <= 7 /\ regs["crtc"][17] >= 128) => Taken(regs, b, i, v)[b][i] = v
<1>1. CASE b = "crtc" /\ i <= 7 /\ regs["crtc"][17] >= 128
  BY <1>1 DEF Taken
<1>2. CASE ~(b = "crtc" /\ i <= 7 /\ regs["crtc"][17] >= 128)
  <2> DEFINE new == [regs[b] EXCEPT ![i] = v]
             all == [regs EXCEPT ![b] = new]
  <2>1. Taken(regs, b, i, v) = all
    BY <1>2 DEF Taken
  <2>2. /\ new \in [0 .. Last[b] -> 0 .. 255] /\ new[i] = v
        /\ \A j \in 0 .. Last[b] : j # i => new[j] = regs[b][j]
    BY DEF BankTyped
  <2> HIDE DEF new
  <2>3. DOMAIN all = Banks /\ all[b] = new /\ \A c \in Banks : c # b => all[c] = regs[c]
    BY DEF BankTyped
  <2> HIDE DEF all
  <2>4. BankTyped(all)
    BY <2>2, <2>3 DEF BankTyped
  <2>5. ASSUME NEW c \in Banks, NEW j \in 0 .. Last[c], ~(c = b /\ j = i)
        PROVE  all[c][j] = regs[c][j]
    BY <2>2, <2>3, <2>5
  <2>6. all[b][i] = v
    BY <2>2, <2>3
  <2> QED BY <2>1, <2>4, <2>5, <2>6
<1> QED BY <1>1, <1>2

(* The CRTC is unlocked whatever it held, and nothing but the two          *)
(* registers with the bits is touched.                                     *)
LEMMA UnlockedIs ==
  ASSUME NEW regs, BankTyped(regs)
  PROVE  /\ BankTyped(Unlocked(regs)) /\ Unlocked(regs)["crtc"][17] < 128
         /\ \A c \in Banks : \A j \in 0 .. Last[c] :
              c # "crtc" => Unlocked(regs)[c][j] = regs[c][j]
<1>0. "crtc" \in Banks /\ 3 \in 0 .. Last["crtc"] /\ 17 \in 0 .. Last["crtc"]
  BY BanksAre DEF Banks
<1> DEFINE v == With(regs["crtc"][3], TRUE)
           r == Taken(regs, "crtc", 3, v)
           w == With(r["crtc"][17], FALSE)
           u == Taken(r, "crtc", 17, w)
<1>1. Unlocked(regs) = u
  BY DEF Unlocked
<1>2. v \in 0 .. 255
  <2>1. regs["crtc"][3] \in 0 .. 255
    BY <1>0 DEF BankTyped
  <2> QED BY <2>1, WithIs
<1> HIDE DEF v
<1>3. /\ BankTyped(r)
      /\ \A c \in Banks : \A j \in 0 .. Last[c] : ~(c = "crtc" /\ j = 3) => r[c][j] = regs[c][j]
  BY <1>0, <1>2, TakenIs
<1> HIDE DEF r
<1>4. w \in 0 .. 127
  <2>1. r["crtc"][17] \in 0 .. 255
    BY <1>0, <1>3 DEF BankTyped
  <2> QED BY <2>1, WithIs
<1> HIDE DEF w
<1>5. w \in 0 .. 255
  BY <1>4
<1>6. /\ BankTyped(u)
      /\ \A c \in Banks : \A j \in 0 .. Last[c] : ~(c = "crtc" /\ j = 17) => u[c][j] = r[c][j]
      /\ ~("crtc" = "crtc" /\ 17 <= 7 /\ r["crtc"][17] >= 128) => u["crtc"][17] = w
  BY <1>0, <1>3, <1>5, TakenIs
<1>7. u["crtc"][17] = w
  BY <1>6
<1> HIDE DEF u
<1> QED BY <1>1, <1>3, <1>4, <1>6, <1>7

LEMMA VGAStart == Init => VGAInv
<1> SUFFICES ASSUME Init PROVE VGAInv
  OBVIOUS
<1> USE DEF Init
<1>1. PICK protected \in BOOLEAN :
        bank = [b \in DOMAIN Last \ {"attr"} |->
                  [i \in 0 .. Last[b] |-> IF b = "crtc" /\ i = 17 THEN With(Before, protected)
                                          ELSE Before]]
  BY DEF VGAInit
<1>2. With(Before, protected) \in 0 .. 255
  BY BeforeAssumption, WithIs
<1>3. BankTyped(bank)
  BY <1>1, <1>2, BanksAre, BeforeAssumption DEF BankTyped
<1>4. AttrTyped(attr)
  BY BeforeAssumption DEF VGAInit, AttrTyped
<1>5. written = 0
  BY DEF VGAInit
<1>6. BankSet(bank, written) /\ Open(bank, written)
  BY <1>5, BanksAre DEF BankSet, Open, Banks
<1>7. AttrSet(attr, written)
  BY <1>5 DEF AttrSet
<1> QED BY <1>3, <1>4, <1>5, <1>6, <1>7 DEF VGAInv, BankInv, AttrInv

(* The registers of the banks have numbers of their own. *)
LEMMA NumbersApart ==
  ASSUME NEW b \in Banks, NEW i \in 0 .. Last[b], NEW c \in Banks, NEW j \in 0 .. Last[c],
         First[b] + i = First[c] + j
  PROVE  b = c /\ i = j
BY BanksAre DEF Banks

LEMMA WriteBankStep ==
  ASSUME VGAInv, NEW b \in Banks, WriteBank(b, First[b])
  PROVE  VGAInv'
<1> DEFINE n == written
           i == n - First[b]
           regs == IF b = "crtc" /\ i = 0 THEN Unlocked(bank) ELSE bank
<1>1. n \in 0 .. 39 /\ i \in 0 .. Last[b] /\ n = First[b] + i /\ written' = n + 1
  BY BanksAre DEF WriteBank, VGAInv, Banks
<1>2. bank' = Taken(regs, b, i, Value(b, i)) /\ attr' = attr
  BY DEF WriteBank, Value
<1>3. BankTyped(bank) /\ BankSet(bank, n) /\ Open(bank, n)
  BY DEF VGAInv, BankInv
<1>4. /\ BankTyped(regs)
      /\ \A c \in Banks : \A j \in 0 .. Last[c] : First[c] + j < n => regs[c][j] = bank[c][j]
      /\ n >= 6 => regs["crtc"][17] < 128
  <2>1. CASE b = "crtc" /\ i = 0
    <3>1. n = 6
      BY <1>1, <2>1, BanksAre
    <3>2. regs = Unlocked(bank)
      BY <2>1
    <3>3. ASSUME NEW c \in Banks, NEW j \in 0 .. Last[c], First[c] + j < n
          PROVE  c # "crtc"
      BY <3>1, <3>3, BanksAre DEF Banks
    <3> HIDE DEF regs, n, i
    <3> QED BY <1>3, <3>2, <3>3, UnlockedIs
  <2>2. CASE ~(b = "crtc" /\ i = 0)
    <3>1. regs = bank
      BY <2>2
    <3>2. n # 6
      BY <1>1, <2>2, BanksAre DEF Banks
    <3> QED BY <1>1, <1>3, <3>1, <3>2 DEF Open
  <2> QED BY <2>1, <2>2
<1>5. Value(b, i) \in 0 .. 255 /\ (b = "crtc" /\ i = 17 => Value(b, i) < 128)
  <2> HIDE DEF i
  <2> QED BY <1>1, ValueIs
<1> DEFINE new == Taken(regs, b, i, Value(b, i))
<1> HIDE DEF n, i, regs
<1>6. /\ BankTyped(new)
      /\ \A c \in Banks : \A j \in 0 .. Last[c] : ~(c = b /\ j = i) => new[c][j] = regs[c][j]
      /\ ~(b = "crtc" /\ i <= 7 /\ regs["crtc"][17] >= 128) => new[b][i] = Value(b, i)
  BY <1>1, <1>4, <1>5, TakenIs
<1>7. new[b][i] = Value(b, i)
  <2>1. b = "crtc" => n >= 6
    BY <1>1, BanksAre
  <2>2. "crtc" \in Banks /\ 17 \in 0 .. Last["crtc"]
    BY BanksAre DEF Banks
  <2>3. regs["crtc"][17] \in 0 .. 255
    BY <1>4, <2>2 DEF BankTyped
  <2> QED BY <1>4, <1>6, <2>1, <2>3
<1> HIDE DEF new
<1>8. BankSet(new, n + 1)
  <2> SUFFICES ASSUME NEW c \in Banks, NEW j \in 0 .. Last[c], First[c] + j < n + 1
               PROVE  new[c][j] = Value(c, j)
    BY DEF BankSet
  <2>1. CASE c = b /\ j = i
    BY <1>7, <2>1
  <2>2. CASE ~(c = b /\ j = i)
    <3>1. First[c] + j # n
      BY <1>1, <2>2, NumbersApart
    <3>2. First[c] \in 0 .. 31 /\ Last[c] \in 0 .. 24
      BY BanksAre DEF Banks
    <3>3. First[c] + j < n
      BY <1>1, <3>1, <3>2
    <3> QED BY <1>3, <1>4, <1>6, <2>2, <3>3 DEF BankSet
  <2> QED BY <2>1, <2>2
<1>9. Open(new, n + 1)
  <2>1. "crtc" \in Banks /\ 17 \in 0 .. Last["crtc"]
    BY BanksAre DEF Banks
  <2>2. CASE b = "crtc" /\ i = 17
    BY <1>5, <1>7, <2>2 DEF Open
  <2>3. CASE ~(b = "crtc" /\ i = 17)
    <3>1. new["crtc"][17] = regs["crtc"][17]
      BY <1>6, <2>1, <2>3
    <3> QED BY <1>1, <1>4, <3>1 DEF Open
  <2> QED BY <2>2, <2>3
<1>10. bank' = new
  BY <1>2 DEF new
<1>11. BankInv'
  BY <1>1, <1>6, <1>8, <1>9, <1>10 DEF BankInv
<1>12. AttrSet(attr, n + 1)
  BY <1>1 DEF AttrSet
<1>13. AttrInv'
  BY <1>1, <1>2, <1>12 DEF VGAInv, AttrInv
<1> QED BY <1>1, <1>11, <1>13 DEF VGAInv

LEMMA SameArray ==
  ASSUME NEW S, NEW W, NEW f \in [S -> W], NEW g \in [S -> W], \A i \in S : f[i] = g[i]
  PROVE  f = g
<1>1. f = [i \in S |-> f[i]] /\ g = [i \in S |-> g[i]]
  OBVIOUS
<1> QED BY <1>1, Zenon

LEMMA ResetIs ==
  ASSUME NEW a, AttrTyped(a)
  PROVE  /\ AttrTyped(AttrReset(a)) /\ AttrReset(a).next = TRUE
         /\ AttrReset(a).index = a.index /\ AttrReset(a).regs = a.regs
<1> USE DEF AttrTyped, AttrReset
<1>1. AttrReset(a).next = TRUE /\ AttrReset(a).index = a.index /\ AttrReset(a).regs = a.regs
  OBVIOUS
<1>2. AttrTyped(AttrReset(a))
  OBVIOUS
<1> QED BY <1>1, <1>2

(* An index, where one is expected. *)
LEMMA IndexIs ==
  ASSUME NEW a, AttrTyped(a), a.next = TRUE, NEW v \in 0 .. 32
  PROVE  /\ AttrTyped(AttrWrite(a, v)) /\ AttrWrite(a, v).next = FALSE
         /\ AttrWrite(a, v).index = v /\ AttrWrite(a, v).regs = a.regs
<1>1. AttrWrite(a, v) = [a EXCEPT !.index = v, !.next = FALSE]
  BY DEF AttrWrite
<1>2. AttrWrite(a, v).next = FALSE /\ AttrWrite(a, v).index = v /\ AttrWrite(a, v).regs = a.regs
  BY <1>1 DEF AttrTyped
<1>3. AttrTyped(AttrWrite(a, v))
  BY <1>1 DEF AttrTyped
<1> QED BY <1>2, <1>3

(* A value, where one is expected. *)
LEMMA DataIs ==
  ASSUME NEW a, AttrTyped(a), a.next = FALSE, NEW v \in 0 .. 255, a.index \in 0 .. 20
  PROVE  /\ AttrTyped(AttrWrite(a, v)) /\ AttrWrite(a, v).index = a.index
         /\ AttrWrite(a, v).regs = [a.regs EXCEPT ![a.index] = v]
<1>1. AttrWrite(a, v) = [a EXCEPT !.regs = [a.regs EXCEPT ![a.index] = v], !.next = TRUE]
  <2>1. a.index % 32 = a.index
    OBVIOUS
  <2> QED BY <2>1 DEF AttrWrite
<1>2. [a.regs EXCEPT ![a.index] = v] \in [0 .. 20 -> 0 .. 255]
  BY DEF AttrTyped
<1> QED BY <1>1, <1>2 DEF AttrTyped

(* Port 0x3DA read, an index and its value: the value is in its register, *)
(* and the next byte is an index again.                                    *)
LEMMA AttributeIs ==
  ASSUME AttrTyped(attr), NEW i \in 0 .. 20
  PROVE  /\ AttrTyped(Attribute(i))
         /\ Attribute(i).regs[i] = Mode["attr"][i]
         /\ \A j \in 0 .. 20 : j # i => Attribute(i).regs[j] = attr.regs[j]
<1> DEFINE a == AttrReset(attr)
           c == AttrWrite(a, i)
           d == AttrWrite(c, Mode["attr"][i])
           new == [attr.regs EXCEPT ![i] = Mode["attr"][i]]
<1>1. AttrTyped(a) /\ a.next = TRUE /\ a.regs = attr.regs
  BY ResetIs
<1> HIDE DEF a
<1>2. AttrTyped(c) /\ c.next = FALSE /\ c.index = i /\ c.regs = attr.regs
  <2>1. i \in 0 .. 32
    OBVIOUS
  <2> QED BY <1>1, <2>1, IndexIs
<1> HIDE DEF c
<1>3. Mode["attr"][i] \in 0 .. 255
  <2>1. "attr" \in Banks \cup {"attr"} /\ Last["attr"] = 20
    BY BanksAre
  <2>2. Mode["attr"] \in [0 .. 20 -> 0 .. 255]
    BY <2>1, ModeIs
  <2> QED BY <2>2
<1>4. AttrTyped(d) /\ d.regs = new
  <2>1. c.index \in 0 .. 20
    BY <1>2
  <2> DEFINE v == Mode["attr"][i]
  <2>2. v \in 0 .. 255
    BY <1>3
  <2> HIDE DEF v
  <2>3. AttrTyped(AttrWrite(c, v)) /\ AttrWrite(c, v).regs = [c.regs EXCEPT ![c.index] = v]
    BY <1>2, <2>1, <2>2, DataIs
  <2> QED BY <1>2, <2>3 DEF v
<1>5. /\ new \in [0 .. 20 -> 0 .. 255] /\ new[i] = Mode["attr"][i]
      /\ \A j \in 0 .. 20 : j # i => new[j] = attr.regs[j]
  BY <1>3 DEF AttrTyped
<1> HIDE DEF new
<1>6. Attribute(i) = d
  BY DEF Attribute, c, a
<1> HIDE DEF d
<1> QED BY <1>4, <1>5, <1>6

LEMMA WriteAttributeStep == VGAInv /\ WriteAttribute => VGAInv'
<1> SUFFICES ASSUME VGAInv, WriteAttribute PROVE VGAInv'
  OBVIOUS
<1>1. PICK n \in 40 .. 60 : n = written
  BY DEF WriteAttribute
<1>2. n - 40 \in 0 .. 20 /\ written' = n + 1 /\ attr' = Attribute(n - 40) /\ bank' = bank
  BY <1>1 DEF WriteAttribute
<1> DEFINE i == n - 40
<1> HIDE DEF i
<1>3. i \in 0 .. 20 /\ n = 40 + i /\ attr' = Attribute(i)
  BY <1>1, <1>2 DEF i
<1>4. /\ AttrTyped(attr) /\ AttrSet(attr, n) /\ BankTyped(bank)
      /\ BankSet(bank, n) /\ Open(bank, n)
  BY <1>1 DEF VGAInv, AttrInv, BankInv
<1> DEFINE new == Attribute(i)
<1>5. /\ AttrTyped(new) /\ new.regs[i] = Mode["attr"][i]
      /\ \A j \in 0 .. 20 : j # i => new.regs[j] = attr.regs[j]
  BY <1>3, <1>4, AttributeIs
<1> HIDE DEF new
<1>6. AttrSet(new, n + 1)
  <2> SUFFICES ASSUME NEW j \in 0 .. 20, 40 + j < n + 1 PROVE new.regs[j] = Mode["attr"][j]
    BY DEF AttrSet
  <2>1. CASE j = i
    BY <1>5, <2>1
  <2>2. CASE j # i
    BY <1>3, <1>4, <1>5, <2>2 DEF AttrSet
  <2> QED BY <2>1, <2>2
<1>7. attr' = new /\ n + 1 # 62
  BY <1>1, <1>3 DEF new
<1>8. AttrInv'
  BY <1>2, <1>5, <1>6, <1>7 DEF AttrInv
<1>9. BankSet(bank, n + 1) /\ Open(bank, n + 1)
  BY <1>1, <1>4, BanksAre DEF BankSet, Open, Banks
<1>10. BankInv'
  BY <1>2, <1>4, <1>9 DEF BankInv
<1> QED BY <1>1, <1>2, <1>8, <1>10 DEF VGAInv

LEMMA EnableDisplayStep == VGAInv /\ EnableDisplay => VGAInv'
<1> SUFFICES ASSUME VGAInv, EnableDisplay PROVE VGAInv'
  OBVIOUS
<1>1. written = 61 /\ written' = 62 /\ bank' = bank
  BY DEF EnableDisplay
<1>2. /\ AttrTyped(attr) /\ AttrSet(attr, 61) /\ BankTyped(bank)
      /\ BankSet(bank, 61) /\ Open(bank, 61)
  BY <1>1 DEF VGAInv, AttrInv, BankInv
<1> DEFINE a == AttrReset(attr)
           new == AttrWrite(a, 32)
<1>3. AttrTyped(a) /\ a.next = TRUE /\ a.regs = attr.regs
  BY <1>2, ResetIs
<1> HIDE DEF a
<1>4. AttrTyped(new) /\ new.index = 32 /\ new.regs = attr.regs
  <2>1. 32 \in 0 .. 32
    OBVIOUS
  <2> QED BY <1>3, <2>1, IndexIs
<1>5. attr' = new
  BY DEF EnableDisplay, a
<1> HIDE DEF new
<1>6. AttrTyped(new) /\ AttrSet(new, 62) /\ new.index = 32
  BY <1>2, <1>4 DEF AttrSet
<1>7. BankSet(bank, 62) /\ Open(bank, 62)
  BY <1>2, BanksAre DEF BankSet, Open, Banks
<1> QED BY <1>1, <1>2, <1>5, <1>6, <1>7 DEF VGAInv, AttrInv, BankInv

LEMMA VGAStep == VGAInv /\ [Next]_vars => VGAInv'
<1> SUFFICES ASSUME VGAInv, [Next]_vars PROVE VGAInv'
  OBVIOUS
<1>1. CASE WriteRegisters
  <2>1. ASSUME NEW b \in Banks, WriteBank(b, First[b]) PROVE VGAInv'
    BY <2>1, WriteBankStep
  <2>2. CASE WriteBank("misc", 0) \/ WriteBank("seq", 1) \/ WriteBank("crtc", 6) \/ WriteBank("gc", 31)
    BY <2>1, <2>2, BanksAre DEF Banks
  <2> QED BY <1>1, <2>2, WriteAttributeStep, EnableDisplayStep DEF WriteRegisters
<1>2. CASE UNCHANGED vga
  BY <1>2 DEF vga, VGAInv, BankInv, AttrInv
<1>3. ~WriteRegisters => UNCHANGED vga
  BY DEF Next, ConstructGDT, PlaceHeap, AddDrivers, SelectDrivers, ActivateAll, SetMode, InterruptsOn, vars
<1> QED BY <1>1, <1>2, <1>3

(* The inductive invariant of the mode setting. *)
THEOREM VGAInvariance == Spec => []VGAInv
<1> QED BY VGAStart, VGAStep, PTL DEF Spec

(* Whatever the registers held, whether the CRTC was protected and the     *)
(* attribute controller expected data, SetMode leaves the adapter in the   *)
(* mode of its table, and pixels go to the memory that is displayed.       *)
THEOREM ModeSetAlways == Spec => []ModeSet
<1>1. VGAInv => ModeSet
  <2> SUFFICES ASSUME VGAInv, written = 62 PROVE
        /\ \A b \in DOMAIN bank \ {"crtc"} : bank[b] = Mode[b]
        /\ \A i \in 0 .. 24 : bank["crtc"][i] = CRTC(i)
        /\ attr.regs = Mode["attr"] /\ attr.index = 32
        /\ FrameBufferSegment = 655360
    BY DEF ModeSet
  <2>1. BankTyped(bank) /\ AttrTyped(attr) /\ attr.index = 32
    BY DEF VGAInv, BankInv, AttrInv
  <2>2. ASSUME NEW b \in Banks, NEW i \in 0 .. Last[b] PROVE bank[b][i] = Value(b, i)
    <3>1. First[b] + i < 62
      BY BanksAre DEF Banks
    <3> QED BY <3>1 DEF VGAInv, BankInv, BankSet
  <2>3. ASSUME NEW b \in DOMAIN bank \ {"crtc"} PROVE bank[b] = Mode[b]
    <3>1. b \in Banks /\ b # "crtc"
      BY <2>1 DEF BankTyped
    <3>2. bank[b] \in [0 .. Last[b] -> 0 .. 255] /\ Mode[b] \in [0 .. Last[b] -> 0 .. 255]
      BY <2>1, <3>1, ModeIs DEF BankTyped
    <3>3. \A i \in 0 .. Last[b] : bank[b][i] = Mode[b][i]
      BY <2>2, <3>1 DEF Value
    <3> DEFINE f == bank[b]
               g == Mode[b]
               D == 0 .. Last[b]
    <3>4. f \in [D -> 0 .. 255] /\ g \in [D -> 0 .. 255] /\ \A i \in D : f[i] = g[i]
      BY <3>2, <3>3
    <3> HIDE DEF f, g, D
    <3>5. f = g
      BY <3>4, SameArray
    <3> QED BY <3>5 DEF f, g
  <2>4. \A i \in 0 .. 24 : bank["crtc"][i] = CRTC(i)
    BY <2>2, BanksAre DEF Value, Banks
  <2>5. attr.regs = Mode["attr"]
    <3>1. attr.regs \in [0 .. 20 -> 0 .. 255] /\ Mode["attr"] \in [0 .. 20 -> 0 .. 255]
      BY <2>1, ModeIs, BanksAre DEF AttrTyped
    <3>2. \A i \in 0 .. 20 : attr.regs[i] = Mode["attr"][i]
      BY DEF VGAInv, AttrInv, AttrSet
    <3> QED BY <3>1, <3>2
  <2>6. FrameBufferSegment = 655360
    <3>1. "gc" \in Banks /\ 6 \in 0 .. Last["gc"]
      BY BanksAre DEF Banks
    <3>2. bank["gc"][6] = 5
      BY <2>2, <3>1, PixelsDisplayed DEF Value
    <3>3. (5 \div 4) % 4 = 1
      OBVIOUS
    <3> QED BY <3>2, <3>3 DEF FrameBufferSegment
  <2> QED BY <2>1, <2>3, <2>4, <2>5, <2>6
<1> QED BY <1>1, VGAInvariance, PTL

-----------------------------------------------------------------------------
(* The types. *)

DriverNames == {"keyboard", "mouse"}

(* What kernelMain adds. *)
Both == AddDriver(AddDriver(<<>>, "keyboard"), "mouse")

(* The types the invariants of the parts say nothing of.  That the scan    *)
(* adds no driver, and kernelMain two, is why AddDriver, which tests       *)
(* nothing, stays within its array.                                        *)
StartTyped ==
  /\ drivers = IF stage \in {"gdt", "heap", "drivers"} THEN <<>> ELSE Both
  /\ activated \in {<<>>, Both}
  /\ stage \in Stages /\ upper \in Uppers
  /\ heap \in -1 .. (64 * Word - 1)

(* No driver for a PCI function exists, so the scan adds none. *)
LEMMA NothingAdded ==
  ASSUME NEW s \in Seq(DriverNames), NEW h
  PROVE  s \o Added(h) = s
BY DEF Added, GetDriver, NoDriver, DriverNames

LEMMA TwoAdded ==
  ASSUME NEW D, NEW l \in Seq(D), NEW c \in D, NEW d \in D, Len(l) = 0
  PROVE  /\ AddDriver(AddDriver(l, c), d) \in Seq(D)
         /\ Len(AddDriver(AddDriver(l, c), d)) = 2
BY DEF AddDriver

LEMMA NoneTyped == Len(<<>>) = 0 /\ \A D : <<>> \in Seq(D)
OBVIOUS

LEMMA BothTyped == Both \in Seq(DriverNames) /\ Len(Both) = 2
<1>1. "keyboard" \in DriverNames /\ "mouse" \in DriverNames
  BY DEF DriverNames
<1> QED BY <1>1, NoneTyped, TwoAdded DEF Both

LEMMA DriversTyped ==
  ASSUME NEW s \in {<<>>, Both}
  PROVE  s \in Seq(DriverNames) /\ Len(s) <= Capacity
<1>1. Len(s) \in {0, 2}
  BY NoneTyped, BothTyped, Zenon
<1>2. s \in Seq(DriverNames)
  BY NoneTyped, BothTyped
<1> QED BY <1>1, <1>2 DEF Capacity

LEMMA HeapTyped ==
  ASSUME NEW u \in Uppers
  PROVE  HeapSize(u) \in -1 .. (64 * Word - 1)
<1> DEFINE k == 64 * Word
           n == u - HeapStart - 10
<1>1. k \in Nat \ {0} /\ n \in Int
  BY Sizes, UppersAssumption DEF HeapStart
<1>2. HeapSize(u) = n % k
  BY DEF HeapSize
<1> HIDE DEF n, k
<1>3. n % k \in 0 .. k - 1
  BY <1>1
<1>4. HeapSize(u) \in -1 .. k - 1
  BY <1>1, <1>2, <1>3
<1> QED BY <1>4 DEF k

LEMMA StartTypedStep == StartTyped /\ [Next]_vars => StartTyped'
<1> SUFFICES ASSUME StartTyped, [Next]_vars PROVE StartTyped'
  OBVIOUS
<1> USE DEF StartTyped
<1>1. CASE ConstructGDT
  BY <1>1 DEF ConstructGDT, scan, Stages
<1>2. CASE PlaceHeap
  <2>1. HeapSize(upper) \in -1 .. (64 * Word - 1)
    BY HeapTyped
  <2> QED BY <1>2, <2>1 DEF PlaceHeap, scan, Stages
<1>3. CASE AddDrivers
  <2>1. drivers' = Both /\ stage' = "pci"
    BY <1>3 DEF AddDrivers, Both
  <2> QED BY <1>3, <2>1 DEF AddDrivers, Stages
<1>4. CASE SelectDrivers
  <2>1. drivers \in Seq(DriverNames)
    BY DriversTyped
  <2>2. drivers' = drivers
    <3>1. CASE ScanFunction
      <4>1. PICK h : h = machine[slot][function]
        OBVIOUS
      <4>2. drivers' = drivers \o Added(h) \/ drivers' = drivers
        BY <3>1, <4>1 DEF ScanFunction
      <4>3. drivers \o Added(h) = drivers
        BY <2>1, NothingAdded
      <4> QED BY <4>2, <4>3
    <3> QED BY <1>4, <3>1 DEF SelectDrivers, ScanDevice, NextDevice
  <2> QED BY <1>4, <2>2 DEF SelectDrivers, Stages
<1>5. CASE ActivateAll
  BY <1>5 DEF ActivateAll, scan, Stages
<1>6. CASE SetMode
  BY <1>6 DEF SetMode, scan, Stages
<1>7. CASE InterruptsOn
  BY <1>7 DEF InterruptsOn, scan, Stages
<1>8. CASE UNCHANGED vars
  BY <1>8 DEF vars, scan
<1> QED BY <1>1, <1>2, <1>3, <1>4, <1>5, <1>6, <1>7, <1>8 DEF Next

(* The registers of the adapter, the lists of drivers, the place of the    *)
(* scan and the stage of kernelMain stay within their types, and the size  *)
(* of the heap is a number of 32 bits, for every machine and every memory. *)
THEOREM TypeCorrect == Spec => []TypeOK
<1>1. Init => StartTyped
  <2>1. Init => drivers = <<>> /\ activated = <<>> /\ heap = -1 /\ stage = "gdt" /\ upper \in Uppers
    BY DEF Init, PCIInit, NoHeap
  <2>2. 64 * Word \in Nat
    BY Sizes
  <2>3. -1 \in -1 .. (64 * Word - 1)
    BY <2>2, Sizes
  <2> QED BY <2>1, <2>3 DEF StartTyped, Stages
<1>2. SetUpInv /\ ScanInv /\ VGAInv /\ StartTyped => TypeOK
  <2> SUFFICES ASSUME SetUpInv, ScanInv, VGAInv, StartTyped PROVE TypeOK
    OBVIOUS
  <2>1. /\ machine \in Machines
        /\ slot \in Slot \cup {<<Buses, 0>>}
        /\ function \in 0 .. numFunctions /\ numFunctions \in {0, 1, Functions}
    <3>1. CASE numFunctions = 0 /\ function = 0
      BY <3>1 DEF ScanInv, ScanAt
    <3>2. CASE slot \in Slot /\ numFunctions = Expected(slot) /\ function \in 0 .. numFunctions
      <4>1. Expected(slot) \in {1, Functions}
        BY DEF Expected
      <4> QED BY <3>2, <4>1 DEF ScanInv, ScanAt
    <3> QED BY <3>1, <3>2 DEF ScanInv, ScanAt
  <2>2. ASSUME NEW d \in Range(found) PROVE d.slot \in Slot /\ d.function \in 0 .. Functions - 1
    <3>1. PICK i \in 1 .. Len(found) : d = found[i]
      BY DEF ScanInv, FoundReal, Range
    <3>2. d \in Finding
      BY <3>1 DEF ScanInv, FoundReal
    <3> QED BY <3>2 DEF Finding
  <2>3. /\ drivers \in Seq({"keyboard", "mouse"}) /\ activated \in Seq({"keyboard", "mouse"})
        /\ Len(drivers) <= Capacity
    BY DriversTyped DEF StartTyped, DriverNames
  <2>4. /\ DOMAIN bank = DOMAIN Last \ {"attr"}
        /\ \A b \in DOMAIN bank : bank[b] \in [0 .. Last[b] -> 0 .. 255]
    BY BanksAre DEF VGAInv, BankInv, BankTyped
  <2>5. attr \in [index : 0 .. 32, next : BOOLEAN, regs : [0 .. 20 -> 0 .. 255]] /\ written \in 0 .. 62
    BY DEF VGAInv, AttrInv, AttrTyped
  <2>6. stage \in Stages /\ limit \in Limits /\ upper \in Uppers /\ heap \in -1 .. (64 * Word - 1)
    BY DEF StartTyped, SetUpInv
  <2> QED BY <2>1, <2>2, <2>3, <2>4, <2>5, <2>6 DEF TypeOK
<1> QED BY <1>1, <1>2, StartTypedStep, SetUpInvariance, ScanInvariance, VGAInvariance, PTL DEF Spec
=============================================================================
