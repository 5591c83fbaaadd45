----------------------------- MODULE MemoryManager -----------------------------
(***************************************************************************)
(* The heap of src/src/memorymanagement.cpp: a doubly linked list of chunk *)
(* headers inside the heap itself, first-fit malloc, merging free.         *)
(*                                                                         *)
(* mem maps the address of every header ever written to its contents: a    *)
(* header that free has merged away stays in memory, unreachable, until    *)
(* another one is written over it.  Address 0 is the null pointer.         *)
(* Headers that overlap in part are kept apart here; they exist only once  *)
(* a chunk in the middle has been split (interior), and after that nothing *)
(* is claimed of memory, not even its types.                               *)
(*                                                                         *)
(* Memory beyond the heap, which split chunks reach into, is taken to be   *)
(* there and to be nobody else's: kernelMain ends the heap 1034 KiB before *)
(* the end of memory and uses nothing above it.                            *)
(*                                                                         *)
(* The loop of malloc is modelled step by step, because it follows         *)
(* pointers found in memory and may not end.                               *)
(***************************************************************************)
EXTENDS Integers

CONSTANTS
  HDR,        \* sizeof(MemoryChunk): 16 bytes on the target
  Start,      \* the address kernelMain places the heap at
  HeapSize,   \* the sizes it may be constructed with
  Request,    \* the sizes malloc is called with
  MaxClaim,   \* bound: no malloc once a chunk ends beyond this address
  Beyond      \* bound: whether calls go on once malloc has split a chunk that
              \* has a successor

ASSUME HDRAssumption      == HDR \in Nat \ {0}
ASSUME StartAssumption    == Start \in Nat \ {0}
ASSUME HeapSizeAssumption == HeapSize \subseteq Nat
ASSUME RequestAssumption  == Request \subseteq Nat
ASSUME BeyondAssumption   == Beyond \in BOOLEAN

Null == 0
NoRequest == -1

VARIABLES
  first,      \* MemoryManager::first
  mem,        \* the headers in memory
  request,    \* the argument of the malloc in progress, or NoRequest
  cursor,     \* the variable chunk of malloc's loop
  live,       \* history: the blocks handed out and not yet freed
  interior,   \* history: whether malloc has split a chunk that has a successor
  heapEnd,    \* history: the end of the memory the constructor was given
  excess      \* history: the bytes split off the last chunk, in all

heap == <<first, mem, live>>
history == <<interior, heapEnd, excess>>
vars == <<heap, request, cursor, history>>

Block(a, s) == [addr |-> a, size |-> s]
End(m, c) == c + HDR + m[c].size

(* MemoryManager::MemoryManager: no list in a heap smaller than a header.  *)
Init ==
  /\ \E size \in HeapSize :
       /\ first = IF size < HDR THEN Null ELSE Start
       /\ mem = [a \in {first} \ {Null} |->
                   [next |-> Null, prev |-> Null, allocated |-> FALSE, size |-> size - HDR]]
       /\ heapEnd = Start + size
  /\ request = NoRequest
  /\ cursor = Null
  /\ live = {}
  /\ interior = FALSE
  /\ excess = 0

-----------------------------------------------------------------------------

Malloc(size) ==
  /\ request = NoRequest
  /\ interior => Beyond
  /\ \A c \in DOMAIN mem : End(mem, c) <= MaxClaim
  /\ request' = size
  /\ cursor' = first
  /\ UNCHANGED <<heap, history>>

Fits(c, size) == mem[c].size > size /\ ~mem[c].allocated

(* Mutant: the loop starts by moving on. *)
AdvancePastFit ==
  /\ request # NoRequest
  /\ cursor # Null
  /\ cursor' = mem[cursor].next
  /\ UNCHANGED <<heap, request, history>>

(* Mutant: the loop does not move on. *)
AdvanceNowhere ==
  /\ request # NoRequest
  /\ cursor # Null
  /\ ~Fits(cursor, request)
  /\ UNCHANGED vars

Advance ==
  /\ request # NoRequest
  /\ cursor # Null
  /\ ~Fits(cursor, request)
  /\ cursor' = mem[cursor].next
  /\ UNCHANGED <<heap, request, history>>

GiveUp ==
  /\ request # NoRequest
  /\ cursor = Null
  /\ request' = NoRequest
  /\ UNCHANGED <<heap, cursor, history>>

(* Mutant: the link to the rest of the chunk leaves out the header. *)
SplitLinkedIntoBlock(c, size) ==
  LET temp == c + HDR + size
      rest == [next |-> mem[c].next, prev |-> c, allocated |-> FALSE,
               size |-> mem[c].size - HDR]
  IN  [a \in DOMAIN mem \cup {temp} |->
         IF a = c THEN [mem[c] EXCEPT !.size = size, !.next = c + size]
         ELSE IF a = temp THEN rest ELSE mem[a]]

(* Mutant: the size of the rest includes its header. *)
SplitCountingHeader(c, size) ==
  LET temp == c + HDR + size
      rest == [next |-> mem[c].next, prev |-> c, allocated |-> FALSE, size |-> mem[c].size]
  IN  [a \in DOMAIN mem \cup {temp} |->
         IF a = c THEN [mem[c] EXCEPT !.size = size, !.next = temp]
         ELSE IF a = temp THEN rest ELSE mem[a]]

(* Memory after the rest of chunk c has become a chunk of its own, temp.   *)
(* The size of temp is that of c less a header: the size handed out is not *)
(* subtracted.                                                             *)
Split(c, size) ==
  LET temp    == c + HDR + size
      next    == mem[c].next
      written == [a \in DOMAIN mem \cup {temp} |->
                    IF a = temp
                    THEN [next |-> next, prev |-> c, allocated |-> FALSE,
                          size |-> mem[c].size - HDR]
                    ELSE mem[a]]
      linked  == IF next = Null THEN written ELSE [written EXCEPT ![next].prev = temp]
  IN  [linked EXCEPT ![c] = [linked[c] EXCEPT !.next = temp, !.size = size]]

Splits(c, size) == mem[c].size >= size + HDR + 1

(* malloc has found its chunk. *)
Take ==
  /\ request # NoRequest
  /\ cursor # Null
  /\ Fits(cursor, request)
  /\ LET m == IF Splits(cursor, request) THEN Split(cursor, request) ELSE mem
     IN  mem' = [m EXCEPT ![cursor].allocated = TRUE]
  /\ interior' = (interior \/ (Splits(cursor, request) /\ mem[cursor].next # Null))
  /\ excess' = IF Splits(cursor, request) /\ mem[cursor].next = Null
               THEN excess + request ELSE excess
  /\ live' = live \cup {Block(cursor + HDR, request)}
  /\ request' = NoRequest
  /\ cursor' = Null
  /\ UNCHANGED <<first, heapEnd>>

-----------------------------------------------------------------------------

(* Chunk c becomes part of its predecessor. *)
JoinedWithPrev(m, c) ==
  LET p == m[c].prev
      n == m[c].next
      joined == [m EXCEPT ![p] =
                   [m[p] EXCEPT !.next = n, !.size = m[p].size + m[c].size + HDR]]
  IN  IF n = Null THEN joined ELSE [joined EXCEPT ![n].prev = p]

(* The successor of chunk c becomes part of it. *)
JoinedWithNext(m, c) ==
  LET n  == m[c].next
      nn == m[n].next
      joined == [m EXCEPT ![c] =
                   [m[c] EXCEPT !.next = nn, !.size = m[c].size + m[n].size + HDR]]
  IN  IF nn = Null THEN joined ELSE [joined EXCEPT ![nn].prev = c]

(* Mutant: the chunk is joined with a successor in use. *)
FreedJoiningAny(m, c) ==
  IF m[c].next # Null THEN JoinedWithNext(m, c) ELSE m

(* The second half of free: join with a successor that is not in use. *)
FreedWithNext(m, c) ==
  IF m[c].next # Null /\ ~m[m[c].next].allocated THEN JoinedWithNext(m, c) ELSE m

(* Memory after free: the chunk is joined with a predecessor that IS in    *)
(* use, which stays in use, and then the result with a free successor.     *)
Freed(c) ==
  LET m == [mem EXCEPT ![c].allocated = FALSE]
      p == m[c].prev
  IN  IF p # Null /\ m[p].allocated
      THEN FreedWithNext(JoinedWithPrev(m, c), p)
      ELSE FreedWithNext(m, c)

Free(b) ==
  /\ request = NoRequest
  /\ interior => Beyond
  /\ mem' = Freed(b.addr - HDR)
  /\ live' = live \ {b}
  /\ UNCHANGED <<first, request, cursor, history>>

Next ==
  \/ \E size \in Request : Malloc(size)
  \/ Advance
  \/ GiveUp
  \/ Take
  \/ \E b \in live : Free(b)

(* Nothing interrupts a malloc that is in progress for good. *)
Spec == Init /\ [][Next]_vars /\ WF_vars(Advance \/ GiveUp \/ Take)

-----------------------------------------------------------------------------

Chunk == [next : Nat, prev : Nat, allocated : BOOLEAN, size : Nat]

(* Every pointer in memory is null or points at a header. *)
WellTyped(m) ==
  /\ DOMAIN m \subseteq Nat \ {Null}
  /\ \A c \in DOMAIN m : /\ m[c] \in Chunk
                        /\ m[c].next \in DOMAIN m \cup {Null}
                        /\ m[c].prev \in DOMAIN m \cup {Null}

(* Until a chunk in the middle is split, after which headers overlap.      *)
TypeOK ==
  /\ request \in Request \cup {NoRequest}
  /\ interior \in BOOLEAN /\ heapEnd \in Nat /\ excess \in Nat
  /\ ~interior => /\ WellTyped(mem)
                  /\ first \in DOMAIN mem \cup {Null}
                  /\ cursor \in DOMAIN mem \cup {Null}
                  /\ live \subseteq [addr : Nat, size : Request]
                  /\ \A b \in live : b.addr - HDR \in DOMAIN mem

(* In memory m, the headers in S are a list from first on: each chunk ends *)
(* where its successor starts, next and prev are inverse to each other,    *)
(* and the chunk without a successor is the last one.                      *)
Adjoining(m, S) ==
  /\ first \in S /\ m[first].prev = Null
  /\ \A c \in S : first <= c
  /\ \A c \in S : LET n == m[c].next
                  IN  IF n = Null THEN \A d \in S : d <= c
                      ELSE n \in S /\ n = End(m, c) /\ m[n].prev = c
  /\ \A c \in S \ {first} : m[c].prev \in S /\ m[m[c].prev].next = c
  /\ \A c, d \in S : c < d => End(m, c) <= d

LastEndsAt(m, S, e) == \A c \in S : m[c].next = Null => End(m, c) = e

(* They tile memory from first to the address e. *)
Tiling(m, S, e) == Adjoining(m, S) /\ LastEndsAt(m, S, e)

(* The chunks of S in use are exactly the ones that hold a block of L.     *)
Holding(m, S, L) ==
  /\ \A b \in L : /\ b.addr - HDR \in S
                  /\ m[b.addr - HDR].allocated
                  /\ b.size <= m[b.addr - HDR].size
  /\ \A c \in S : m[c].allocated => \E b \in L : b.addr = c + HDR
  /\ \A a, b \in L : a.addr = b.addr => a = b

(* As long as malloc has only ever split the last chunk, no sequence of    *)
(* calls breaks the list: its chunks follow each other without gap or      *)
(* overlap from the start of the heap to exactly excess bytes beyond its   *)
(* end, no free space is lost to a chunk nobody owns, and every block      *)
(* handed out lies in a chunk of its own.  excess is what line 58 does not *)
(* subtract, so a block may lie beyond the heap; no call but a split of    *)
(* the last chunk moves the end.                                           *)
HeapTiled ==
  first = Null \/ interior \/ \E S \in SUBSET DOMAIN mem :
                                /\ Tiling(mem, S, heapEnd + excess)
                                /\ Holding(mem, S, live)

(* Under the same condition, no two owners were given the same memory,     *)
(* inside the heap or beyond it.                                           *)
LiveBlocksDisjoint ==
  interior \/ \A a, b \in live : a # b => \/ a.addr + a.size < b.addr
                                       \/ b.addr + b.size < a.addr

(* malloc fails only when no chunk of the list that is free would do: the  *)
(* loop passes over none of them.                                          *)
FailsOnlyWhenFull ==
  [][GiveUp /\ ~interior =>
       first = Null \/ \E S \in SUBSET DOMAIN mem :
                           /\ Tiling(mem, S, heapEnd + excess)
                           /\ \A c \in S : ~Fits(c, request)]_vars

(* malloc returns, as long as it has only ever split the last chunk. *)
MallocReturnsWhileTiled ==
  [](~interior) => ((request # NoRequest) ~> (request = NoRequest))

(* The comment on malloc, "Pretty inefficient: O(n)": the loop ends.       *)
MallocReturns == (request # NoRequest) ~> (request = NoRequest)
=============================================================================
