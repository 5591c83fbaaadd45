-------------------------- MODULE MemoryManagerProofs --------------------------
(***************************************************************************)
(* Proofs about MemoryManager, for every heap size, every place of the     *)
(* heap and every set of request sizes.                                    *)
(***************************************************************************)
EXTENDS MemoryManager, TLAPS

(***************************************************************************)
(* Pointers: no operation writes one that does not point at a header.  The *)
(* lemmas need nothing of the list; what they say of memory they say until *)
(* a chunk in the middle is split.                                         *)
(***************************************************************************)

(* Writing one field. *)
LEMMA PrevWritten ==
  ASSUME NEW m, WellTyped(m), NEW c \in DOMAIN m, NEW v \in DOMAIN m \cup {Null}
  PROVE  WellTyped([m EXCEPT ![c].prev = v]) /\ DOMAIN [m EXCEPT ![c].prev = v] = DOMAIN m
<1> DEFINE w == [m EXCEPT ![c].prev = v]
<1>1. DOMAIN w = DOMAIN m /\ \A d \in DOMAIN m : d # c => w[d] = m[d]
  OBVIOUS
<1>2. w[c] \in Chunk /\ w[c].next = m[c].next /\ w[c].prev = v
  BY DEF WellTyped, Chunk, Null
<1> HIDE DEF w
<1>3. WellTyped(w)
  BY <1>1, <1>2 DEF WellTyped
<1> QED BY <1>1, <1>3 DEF w

LEMMA NextWritten ==
  ASSUME NEW m, WellTyped(m), NEW c \in DOMAIN m, NEW v \in DOMAIN m \cup {Null},
         NEW s \in Nat
  PROVE  /\ WellTyped([m EXCEPT ![c] = [m[c] EXCEPT !.next = v, !.size = s]])
         /\ DOMAIN [m EXCEPT ![c] = [m[c] EXCEPT !.next = v, !.size = s]] = DOMAIN m
<1> DEFINE w == [m EXCEPT ![c] = [m[c] EXCEPT !.next = v, !.size = s]]
<1>1. DOMAIN w = DOMAIN m /\ \A d \in DOMAIN m : d # c => w[d] = m[d]
  OBVIOUS
<1>2. w[c] \in Chunk /\ w[c].prev = m[c].prev /\ w[c].next = v
  <2>1. m[c] \in Chunk /\ v \in Nat
    BY DEF WellTyped, Null
  <2>2. w[c] = [m[c] EXCEPT !.next = v, !.size = s]
    OBVIOUS
  <2> HIDE DEF w
  <2> QED BY <2>1, <2>2 DEF Chunk
<1> HIDE DEF w
<1>3. WellTyped(w)
  BY <1>1, <1>2 DEF WellTyped
<1> QED BY <1>1, <1>3 DEF w

LEMMA SplitTyped ==
  ASSUME WellTyped(mem), NEW c \in DOMAIN mem, NEW size \in Nat, Splits(c, size)
  PROVE  WellTyped(Split(c, size)) /\ DOMAIN mem \subseteq DOMAIN Split(c, size)
<1> DEFINE temp    == c + HDR + size
           next    == mem[c].next
           rest    == [next |-> next, prev |-> c, allocated |-> FALSE,
                       size |-> mem[c].size - HDR]
           written == [a \in DOMAIN mem \cup {temp} |-> IF a = temp THEN rest ELSE mem[a]]
           linked  == IF next = Null THEN written ELSE [written EXCEPT ![next].prev = temp]
<1>1. /\ temp \in Nat \ {Null} /\ temp # c
      /\ next \in DOMAIN mem \cup {Null} /\ rest \in Chunk
  BY HDRAssumption DEF WellTyped, Chunk, Null, Splits
<1>2. WellTyped(written) /\ DOMAIN written = DOMAIN mem \cup {temp}
  BY <1>1 DEF WellTyped, Chunk
<1>3. WellTyped(linked) /\ DOMAIN linked = DOMAIN mem \cup {temp}
  <2> HIDE DEF temp, next, written
  <2>1. temp \in DOMAIN written
    BY <1>2
  <2>2. next # Null => next \in DOMAIN written
    BY <1>1, <1>2
  <2>3. CASE next = Null
    BY <1>2, <2>3
  <2>4. CASE next # Null
    <3>1. linked = [written EXCEPT ![next].prev = temp]
      BY <2>4
    <3> HIDE DEF linked
    <3> QED BY <1>2, <2>1, <2>2, <2>4, <3>1, PrevWritten
  <2> QED BY <2>3, <2>4
<1>4. Split(c, size) = [linked EXCEPT ![c] = [linked[c] EXCEPT !.next = temp, !.size = size]]
  BY DEF Split
<1> HIDE DEF temp, linked
<1>5. c \in DOMAIN linked /\ temp \in DOMAIN linked
  BY <1>3
<1>6. LET w == [linked EXCEPT ![c] = [linked[c] EXCEPT !.next = temp, !.size = size]]
      IN  WellTyped(w) /\ DOMAIN w = DOMAIN linked
  <2>1. WellTyped(linked)
    BY <1>3
  <2>2. temp \in DOMAIN linked \cup {Null}
    BY <1>5
  <2> QED BY <1>5, <2>1, <2>2, NextWritten
<1>7. WellTyped(Split(c, size)) /\ DOMAIN Split(c, size) = DOMAIN linked
  BY <1>4, <1>6
<1> QED BY <1>3, <1>7

LEMMA JoinedWithNextTyped ==
  ASSUME NEW m, WellTyped(m), NEW c \in DOMAIN m, m[c].next # Null
  PROVE  WellTyped(JoinedWithNext(m, c)) /\ DOMAIN JoinedWithNext(m, c) = DOMAIN m
<1> DEFINE n  == m[c].next
           nn == m[n].next
           s == m[c].size + m[n].size + HDR
           joined == [m EXCEPT ![c] = [m[c] EXCEPT !.next = nn, !.size = s]]
<1>1. n \in DOMAIN m /\ nn \in DOMAIN m \cup {Null} /\ s \in Nat
  BY HDRAssumption DEF WellTyped, Chunk
<1>2. joined = [m EXCEPT ![c] = [m[c] EXCEPT !.next = nn, !.size = s]]
  OBVIOUS
<1>3. JoinedWithNext(m, c) = IF nn = Null THEN joined ELSE [joined EXCEPT ![nn].prev = c]
  BY DEF JoinedWithNext
<1> HIDE DEF joined, n, nn, s
<1>4. WellTyped(joined) /\ DOMAIN joined = DOMAIN m
  BY <1>1, <1>2, NextWritten
<1>5. CASE nn = Null
  BY <1>3, <1>4, <1>5
<1>6. CASE nn # Null
  <2>1. nn \in DOMAIN joined /\ c \in DOMAIN joined \cup {Null}
    BY <1>1, <1>4, <1>6
  <2>2. LET w == [joined EXCEPT ![nn].prev = c] IN WellTyped(w) /\ DOMAIN w = DOMAIN joined
    BY <1>4, <2>1, PrevWritten
  <2> QED BY <1>3, <1>4, <1>6, <2>2
<1> QED BY <1>5, <1>6

LEMMA JoinedWithPrevTyped ==
  ASSUME NEW m, WellTyped(m), NEW c \in DOMAIN m, m[c].prev # Null
  PROVE  WellTyped(JoinedWithPrev(m, c)) /\ DOMAIN JoinedWithPrev(m, c) = DOMAIN m
<1> DEFINE p == m[c].prev
           n == m[c].next
           s == m[p].size + m[c].size + HDR
           joined == [m EXCEPT ![p] = [m[p] EXCEPT !.next = n, !.size = s]]
<1>1. p \in DOMAIN m /\ n \in DOMAIN m \cup {Null} /\ s \in Nat
  BY HDRAssumption DEF WellTyped, Chunk
<1>2. joined = [m EXCEPT ![p] = [m[p] EXCEPT !.next = n, !.size = s]]
  OBVIOUS
<1>3. JoinedWithPrev(m, c) = IF n = Null THEN joined ELSE [joined EXCEPT ![n].prev = p]
  BY DEF JoinedWithPrev
<1> HIDE DEF joined, p, n, s
<1>4. WellTyped(joined) /\ DOMAIN joined = DOMAIN m
  BY <1>1, <1>2, NextWritten
<1>5. CASE n = Null
  BY <1>3, <1>4, <1>5
<1>6. CASE n # Null
  <2>1. n \in DOMAIN joined /\ p \in DOMAIN joined \cup {Null}
    BY <1>1, <1>4, <1>6
  <2>2. LET w == [joined EXCEPT ![n].prev = p] IN WellTyped(w) /\ DOMAIN w = DOMAIN joined
    BY <1>4, <2>1, PrevWritten
  <2> QED BY <1>3, <1>4, <1>6, <2>2
<1> QED BY <1>5, <1>6

LEMMA FreedTyped ==
  ASSUME WellTyped(mem), NEW c \in DOMAIN mem
  PROVE  WellTyped(Freed(c)) /\ DOMAIN Freed(c) = DOMAIN mem
<1> DEFINE m == [mem EXCEPT ![c].allocated = FALSE]
           p == m[c].prev
<1>1. WellTyped(m) /\ DOMAIN m = DOMAIN mem
  BY DEF WellTyped, Chunk
<1> HIDE DEF m
<1>2. ASSUME NEW k, WellTyped(k), NEW d \in DOMAIN k
      PROVE  WellTyped(FreedWithNext(k, d)) /\ DOMAIN FreedWithNext(k, d) = DOMAIN k
  BY <1>2, JoinedWithNextTyped DEF FreedWithNext
<1>3. CASE p # Null /\ m[p].allocated
  <2>1. p \in DOMAIN m
    BY <1>1, <1>3 DEF WellTyped
  <2>2. WellTyped(JoinedWithPrev(m, c)) /\ DOMAIN JoinedWithPrev(m, c) = DOMAIN m
    BY <1>1, <1>3, JoinedWithPrevTyped
  <2>3. Freed(c) = FreedWithNext(JoinedWithPrev(m, c), p)
    BY <1>3 DEF Freed, m
  <2> QED BY <1>1, <1>2, <2>1, <2>2, <2>3
<1>4. CASE ~(p # Null /\ m[p].allocated)
  <2>1. Freed(c) = FreedWithNext(m, c)
    BY <1>4 DEF Freed, m
  <2> QED BY <1>1, <1>2, <2>1
<1> QED BY <1>3, <1>4

LEMMA TypeInit == Init => TypeOK
<1> SUFFICES ASSUME Init PROVE TypeOK
  OBVIOUS
<1>1. PICK size \in HeapSize :
        /\ first = IF size < HDR THEN Null ELSE Start
        /\ mem = [a \in {first} \ {Null} |->
                   [next |-> Null, prev |-> Null, allocated |-> FALSE, size |-> size - HDR]]
        /\ heapEnd = Start + size
  BY DEF Init
<1>2. WellTyped(mem) /\ first \in DOMAIN mem \cup {Null}
  BY <1>1, HDRAssumption, StartAssumption, HeapSizeAssumption DEF WellTyped, Chunk, Null
<1>3. interior \in BOOLEAN
  BY Zenon DEF Init
<1>4. heapEnd \in Nat /\ excess \in Nat
  BY <1>1, StartAssumption, HeapSizeAssumption DEF Init
<1> QED BY <1>2, <1>3, <1>4 DEF Init, TypeOK

(* The types that hold of any memory. *)
LEMMA PlainTypeStep ==
  ASSUME TypeOK, [Next]_vars
  PROVE  /\ request' \in Request \cup {NoRequest}
         /\ interior' \in BOOLEAN /\ heapEnd' \in Nat /\ excess' \in Nat
         /\ interior => interior'
<1>1. request' \in Request \cup {NoRequest} /\ heapEnd' \in Nat
  BY DEF Next, Malloc, Advance, GiveUp, Take, Free, vars, heap, history, TypeOK
<1>2. interior' \in BOOLEAN /\ (interior => interior')
  BY Zenon DEF Next, Malloc, Advance, GiveUp, Take, Free, vars, heap, history, TypeOK
<1>3. excess' \in Nat
  <2>1. CASE Take
    <3>1. request \in Nat
      BY <2>1, RequestAssumption DEF Take, TypeOK
    <3> QED BY <2>1, <3>1 DEF Take, TypeOK
  <2>2. CASE ~Take
    BY <2>2 DEF Next, Malloc, Advance, GiveUp, Free, vars, heap, history, TypeOK
  <2> QED BY <2>1, <2>2
<1> QED BY <1>1, <1>2, <1>3

LEMMA TypeStep == TypeOK /\ [Next]_vars => TypeOK'
<1> DEFINE Pointers ==
             /\ WellTyped(mem)
             /\ first \in DOMAIN mem \cup {Null}
             /\ cursor \in DOMAIN mem \cup {Null}
             /\ live \subseteq [addr : Nat, size : Request]
             /\ \A b \in live : b.addr - HDR \in DOMAIN mem
<1> SUFFICES ASSUME TypeOK, [Next]_vars, Pointers PROVE Pointers'
  BY PlainTypeStep DEF TypeOK
<1>1. ASSUME NEW size \in Request, Malloc(size) PROVE Pointers'
  BY <1>1 DEF Malloc, heap
<1>2. CASE Advance
  BY <1>2 DEF Advance, heap, WellTyped
<1>3. CASE GiveUp
  BY <1>3 DEF GiveUp, heap
<1>4. CASE Take
  <2> DEFINE m == IF Splits(cursor, request) THEN Split(cursor, request) ELSE mem
  <2>1. cursor \in DOMAIN mem /\ request \in Request /\ request \in Nat /\ cursor \in Nat
    BY <1>4, RequestAssumption DEF Take, TypeOK, WellTyped
  <2>2. WellTyped(m) /\ DOMAIN mem \subseteq DOMAIN m
    BY <2>1, SplitTyped
  <2>3. mem' = [m EXCEPT ![cursor].allocated = TRUE]
    BY <1>4 DEF Take
  <2> HIDE DEF m
  <2>4. WellTyped(mem)' /\ DOMAIN mem \subseteq DOMAIN mem'
    BY <2>1, <2>2, <2>3 DEF WellTyped, Chunk
  <2>5. live' \subseteq [addr : Nat, size : Request]
    BY <1>4, <2>1, HDRAssumption DEF Take, Block
  <2>6. \A b \in live' : b.addr - HDR \in DOMAIN mem'
    BY <1>4, <2>1, <2>4, HDRAssumption DEF Take, Block
  <2>7. first' = first /\ cursor' = Null
    BY <1>4 DEF Take
  <2> QED BY <2>4, <2>5, <2>6, <2>7
<1>5. ASSUME NEW b \in live, Free(b) PROVE Pointers'
  <2>1. WellTyped(mem)' /\ DOMAIN mem' = DOMAIN mem
    BY <1>5, FreedTyped DEF Free
  <2> QED BY <1>5, <2>1 DEF Free
<1>6. CASE UNCHANGED vars
  BY <1>6 DEF vars, heap, WellTyped
<1> QED BY <1>1, <1>2, <1>3, <1>4, <1>5, <1>6 DEF Next

(* Until a chunk in the middle is split, no sequence of calls leaves a     *)
(* link, in a header merged away either, to an address at which neither    *)
(* malloc nor the constructor wrote a header.                              *)
THEOREM TypeCorrect == Spec => []TypeOK
<1> QED BY TypeInit, TypeStep, PTL DEF Spec

-----------------------------------------------------------------------------
(***************************************************************************)
(* The list.  As long as only the last chunk is ever split, there is a set *)
(* S of headers that tile memory from the heap's start to its list's end.  *)
(***************************************************************************)

(* What the loop of malloc knows of the chunks of S: none of the ones it   *)
(* has passed would do.                                                    *)
Scanned(S) ==
  /\ cursor \in S \cup {Null}
  /\ request = NoRequest => cursor = Null
  /\ request # NoRequest =>
       \A c \in S : (cursor = Null \/ c < cursor) => ~Fits(c, request)

(* The inductive form of HeapTiled and FailsOnlyWhenFull. *)
HInv ==
  \/ interior
  \/ first = Null /\ DOMAIN mem = {} /\ live = {} /\ cursor = Null
  \/ \E S \in SUBSET DOMAIN mem :
       Tiling(mem, S, heapEnd + excess) /\ Holding(mem, S, live) /\ Scanned(S)


(* What joining a chunk with its successor writes, field by field. *)
LEMMA JoinedFields ==
  ASSUME NEW m, WellTyped(m), NEW c \in DOMAIN m, m[c].next # Null
  PROVE  LET n  == m[c].next
             nn == m[n].next
             w  == JoinedWithNext(m, c)
         IN  /\ DOMAIN w = DOMAIN m
             /\ \A d \in DOMAIN m :
                  /\ w[d].next = IF d = c THEN nn ELSE m[d].next
                  /\ w[d].size = IF d = c THEN m[c].size + m[n].size + HDR ELSE m[d].size
                  /\ w[d].prev = IF d = nn THEN c ELSE m[d].prev
                  /\ w[d].allocated = m[d].allocated
<1> DEFINE n  == m[c].next
           nn == m[n].next
           s == m[c].size + m[n].size + HDR
           joined == [m EXCEPT ![c] = [m[c] EXCEPT !.next = nn, !.size = s]]
           w == JoinedWithNext(m, c)
<1>1. /\ n \in DOMAIN m /\ nn \in DOMAIN m \cup {Null}
      /\ Null \notin DOMAIN m /\ \A d \in DOMAIN m : m[d] \in Chunk
  BY DEF WellTyped
<1>2. w = IF nn = Null THEN joined ELSE [joined EXCEPT ![nn].prev = c]
  BY DEF JoinedWithNext
<1>3. DOMAIN joined = DOMAIN m
  OBVIOUS
<1>4. \A d \in DOMAIN m :
        /\ joined[d].next = IF d = c THEN nn ELSE m[d].next
        /\ joined[d].size = IF d = c THEN s ELSE m[d].size
        /\ joined[d].prev = m[d].prev
        /\ joined[d].allocated = m[d].allocated
        /\ joined[d] \in [next : {joined[d].next}, prev : {m[d].prev},
                          allocated : {m[d].allocated}, size : {joined[d].size}]
  BY <1>1 DEF Chunk
<1> HIDE DEF joined, w, s, nn, n
<1>5. CASE nn = Null
  <2>1. w = joined
    BY <1>2, <1>5
  <2> QED BY <1>1, <1>3, <1>4, <1>5, <2>1 DEF s, w, n, nn
<1>6. CASE nn # Null
  <2>1. w = [joined EXCEPT ![nn].prev = c]
    BY <1>2, <1>6
  <2>2. DOMAIN w = DOMAIN m /\ \A d \in DOMAIN m : d # nn => w[d] = joined[d]
    BY <1>3, <2>1
  <2>3. w[nn] = [joined[nn] EXCEPT !.prev = c] /\ nn \in DOMAIN m
    BY <1>1, <1>3, <1>6, <2>1
  <2>4. /\ w[nn].next = joined[nn].next /\ w[nn].size = joined[nn].size
        /\ w[nn].allocated = joined[nn].allocated /\ w[nn].prev = c
    BY <1>4, <2>3
  <2> QED BY <1>4, <2>2, <2>4 DEF s, w, n, nn
<1> QED BY <1>5, <1>6

(* Joining a chunk of the list with a successor that is not in use takes   *)
(* the successor out of the list and leaves the rest of it in place.       *)
LEMMA JoinedTiled ==
  ASSUME NEW m, WellTyped(m), NEW S \in SUBSET DOMAIN m, NEW end, Tiling(m, S, end),
         NEW L, Holding(m, S, L), \A b \in L : b.size \in Nat /\ b.addr \in Nat,
         NEW c \in S, m[c].next # Null, ~m[m[c].next].allocated
  PROVE  /\ Tiling(JoinedWithNext(m, c), S \ {m[c].next}, end)
         /\ Holding(JoinedWithNext(m, c), S \ {m[c].next}, L)
<1> DEFINE n  == m[c].next
           nn == m[n].next
           w  == JoinedWithNext(m, c)
           T  == S \ {n}
<1>1. /\ \A d \in S : d \in Nat /\ d # Null /\ d \in DOMAIN m /\ m[d].size \in Nat
      /\ Null \notin S
  BY DEF WellTyped, Chunk, Null
<1>2. /\ n \in S /\ n = c + HDR + m[c].size /\ m[n].prev = c /\ c < n
      /\ n \in DOMAIN m
  BY <1>1, HDRAssumption DEF Tiling, Adjoining, LastEndsAt, End
<1>3. nn # Null => nn \in S /\ nn = n + HDR + m[n].size /\ m[nn].prev = n /\ n < nn
  BY <1>1, <1>2, HDRAssumption DEF Tiling, Adjoining, LastEndsAt, End
<1>4. /\ DOMAIN w = DOMAIN m
      /\ \A d \in DOMAIN m :
           /\ w[d].next = IF d = c THEN nn ELSE m[d].next
           /\ w[d].size = IF d = c THEN m[c].size + m[n].size + HDR ELSE m[d].size
           /\ w[d].prev = IF d = nn THEN c ELSE m[d].prev
           /\ w[d].allocated = m[d].allocated
  BY JoinedFields
<1> HIDE DEF w, n, nn
<1>5. /\ first \in S /\ m[first].prev = Null
      /\ \A d \in S : first <= d
      /\ \A d \in S : /\ m[d].next = Null => \A e \in S : e <= d
                      /\ m[d].next # Null => /\ m[d].next \in S
                                             /\ m[d].next = d + HDR + m[d].size
                                             /\ m[m[d].next].prev = d
      /\ \A d \in S \ {first} : m[d].prev \in S /\ m[m[d].prev].next = d
      /\ \A d, e \in S : d < e => d + HDR + m[d].size <= e
  BY DEF Tiling, Adjoining, LastEndsAt, End
<1>6. first \in T /\ w[first].prev = Null /\ \A d \in T : first <= d
  <2>1. first # n /\ first # nn
    BY <1>1, <1>2, <1>3, <1>5
  <2> QED BY <1>1, <1>4, <1>5, <2>1
<1>7. ASSUME NEW d \in T
      PROVE  /\ w[d].next = Null => \A e \in T : e <= d
             /\ w[d].next # Null => /\ w[d].next \in T
                                    /\ w[d].next = d + HDR + w[d].size
                                    /\ w[w[d].next].prev = d
  <2>1. CASE d = c
    <3>1. w[d].next = nn /\ w[d].size = m[c].size + m[n].size + HDR
      BY <1>1, <1>4, <2>1
    <3>2. CASE nn = Null
      <4>1. \A e \in T : e <= n /\ e # n /\ (c < e => n <= e)
        BY <1>2, <1>5, <3>2 DEF nn
      <4> QED BY <1>1, <1>2, <2>1, <3>1, <3>2, <4>1
    <3>3. CASE nn # Null
      <4>1. nn \in T /\ w[nn].prev = c
        BY <1>1, <1>2, <1>3, <1>4, <3>3
      <4>2. nn = c + HDR + (m[c].size + m[n].size + HDR)
        BY <1>1, <1>2, <1>3, <3>3, HDRAssumption
      <4> QED BY <2>1, <3>1, <3>3, <4>1, <4>2
    <3> QED BY <3>2, <3>3
  <2>2. CASE d # c
    <3>1. w[d].next = m[d].next /\ w[d].size = m[d].size /\ d \in S
      BY <1>1, <1>4, <2>2
    <3>2. CASE m[d].next = Null
      BY <1>5, <3>1, <3>2
    <3>3. CASE m[d].next # Null
      <4>1. /\ m[d].next \in S /\ m[d].next = d + HDR + m[d].size
            /\ m[m[d].next].prev = d
        BY <1>5, <3>1, <3>3
      <4>2. m[d].next # n /\ m[d].next # nn
        BY <1>2, <1>3, <2>2, <3>3, <4>1
      <4>3. w[m[d].next].prev = d
        BY <1>1, <1>4, <4>1, <4>2
      <4> QED BY <3>1, <3>3, <4>1, <4>2, <4>3
    <3> QED BY <3>2, <3>3
  <2> QED BY <2>1, <2>2
<1>8. ASSUME NEW d \in T \ {first}
      PROVE  w[d].prev \in T /\ w[w[d].prev].next = d
  <2>1. CASE d = nn
    BY <1>1, <1>2, <1>4, <2>1
  <2>2. CASE d # nn
    <3>1. w[d].prev = m[d].prev /\ m[d].prev \in S /\ m[m[d].prev].next = d
      BY <1>1, <1>4, <1>5, <2>2
    <3>2. m[d].prev # n /\ m[d].prev # c
      BY <2>2, <3>1 DEF n, nn
    <3> QED BY <1>1, <1>4, <3>1, <3>2
  <2> QED BY <2>1, <2>2
<1>9. ASSUME NEW d \in T, NEW e \in T, d < e
      PROVE  d + HDR + w[d].size <= e
  <2>1. CASE d = c
    <3>1. n < e
      <4>1. e # n /\ e \in S /\ e \in Nat /\ n \in Nat
        BY <1>1, <1>2
      <4>2. c + HDR + m[c].size <= e
        BY <1>5, <1>9, <2>1, <4>1
      <4> QED BY <1>2, <4>1, <4>2
    <3>2. n + HDR + m[n].size <= e
      BY <1>2, <1>5, <3>1
    <3> QED BY <1>1, <1>2, <1>4, <2>1, <3>2, HDRAssumption
  <2>2. CASE d # c
    BY <1>1, <1>4, <1>5, <1>9, <2>2
  <2> QED BY <2>1, <2>2
<1>10. Tiling(w, T, end)
  <2>1. Adjoining(w, T)
    BY <1>6, <1>7, <1>8, <1>9 DEF Adjoining, End
  <2>2. ASSUME NEW d \in T, w[d].next = Null PROVE End(w, d) = end
    <3>1. CASE d = c
      <4>1. nn = Null /\ w[c].size = m[c].size + m[n].size + HDR
        BY <1>1, <1>4, <2>2, <3>1
      <4>2. End(m, n) = end
        BY <1>2, <4>1 DEF Tiling, LastEndsAt, nn
      <4> QED BY <1>1, <1>2, <3>1, <4>1, <4>2, HDRAssumption DEF End
    <3>2. CASE d # c
      <4>1. d \in S /\ m[d].next = Null /\ w[d].size = m[d].size
        BY <1>1, <1>4, <2>2, <3>2
      <4> QED BY <4>1 DEF Tiling, LastEndsAt, End
    <3> QED BY <3>1, <3>2
  <2> QED BY <2>1, <2>2 DEF Tiling, LastEndsAt
<1>11. Holding(w, T, L)
  <2>1. ASSUME NEW b \in L
        PROVE  /\ b.addr - HDR \in T /\ w[b.addr - HDR].allocated
               /\ b.size <= w[b.addr - HDR].size
    <3>1. /\ b.addr - HDR \in S /\ m[b.addr - HDR].allocated
          /\ b.size <= m[b.addr - HDR].size
      BY DEF Holding
    <3>2. b.addr - HDR # n
      BY <3>1 DEF n
    <3>3. m[b.addr - HDR].size <= w[b.addr - HDR].size
      BY <1>1, <1>2, <1>4, <3>1, HDRAssumption
    <3>4. w[b.addr - HDR].size \in Nat
      BY <1>1, <1>2, <1>4, <3>1, HDRAssumption
    <3> QED BY <1>1, <1>4, <3>1, <3>2, <3>3, <3>4
  <2>2. \A d \in T : w[d].allocated => \E b \in L : b.addr = d + HDR
    BY <1>1, <1>4 DEF Holding
  <2> QED BY <2>1, <2>2 DEF Holding
<1> QED BY <1>10, <1>11 DEF w, n

(* Only the pointers and the sizes of the chunks matter to the tiling. *)
LEMMA TilingOfFields ==
  ASSUME NEW m, NEW w, NEW S, NEW end, Tiling(m, S, end),
         \A d \in S : w[d].next = m[d].next /\ w[d].prev = m[d].prev /\ w[d].size = m[d].size
  PROVE  Tiling(w, S, end)
BY DEF Tiling, Adjoining, LastEndsAt, End

(* The second half of free. *)
LEMMA FreedWithNextTiled ==
  ASSUME NEW m, WellTyped(m), NEW S \in SUBSET DOMAIN m, NEW end, Tiling(m, S, end),
         NEW L, Holding(m, S, L), \A b \in L : b.size \in Nat /\ b.addr \in Nat,
         NEW c \in S
  PROVE  \E T \in SUBSET DOMAIN FreedWithNext(m, c) :
            Tiling(FreedWithNext(m, c), T, end) /\ Holding(FreedWithNext(m, c), T, L)
<1>1. CASE m[c].next # Null /\ ~m[m[c].next].allocated
  <2>1. FreedWithNext(m, c) = JoinedWithNext(m, c)
    BY <1>1 DEF FreedWithNext
  <2>2. /\ Tiling(JoinedWithNext(m, c), S \ {m[c].next}, end)
        /\ Holding(JoinedWithNext(m, c), S \ {m[c].next}, L)
    BY <1>1, JoinedTiled
  <2>3. DOMAIN JoinedWithNext(m, c) = DOMAIN m
    BY <1>1, JoinedWithNextTyped
  <2> QED BY <2>1, <2>2, <2>3
<1>2. CASE ~(m[c].next # Null /\ ~m[m[c].next].allocated)
  BY <1>2 DEF FreedWithNext
<1> QED BY <1>1, <1>2

(* In the list, joining a chunk with its predecessor is joining the        *)
(* predecessor with its successor.                                         *)
LEMMA JoinedWithPrevIsNext ==
  ASSUME NEW m, NEW c, m[m[c].prev].next = c
  PROVE  JoinedWithPrev(m, c) = JoinedWithNext(m, m[c].prev)
BY DEF JoinedWithPrev, JoinedWithNext

(* free, as a whole. *)
LEMMA FreedTiled ==
  ASSUME TypeOK, ~interior, NEW end, NEW S \in SUBSET DOMAIN mem,
         Tiling(mem, S, end), Holding(mem, S, live), NEW b \in live
  PROVE  \E T \in SUBSET DOMAIN Freed(b.addr - HDR) :
            /\ Tiling(Freed(b.addr - HDR), T, end)
            /\ Holding(Freed(b.addr - HDR), T, live \ {b})
<1> DEFINE c == b.addr - HDR
           m == [mem EXCEPT ![c].allocated = FALSE]
           p == m[c].prev
           L == live \ {b}
<1>1. /\ c \in S /\ c \in DOMAIN mem
      /\ \A a \in live : a.addr \in Nat /\ a.size \in Nat
  BY RequestAssumption DEF Holding, TypeOK
<1>2. WellTyped(m) /\ DOMAIN m = DOMAIN mem
  BY <1>1 DEF TypeOK, WellTyped, Chunk
<1>3. \A d \in S : /\ m[d].next = mem[d].next /\ m[d].prev = mem[d].prev
                    /\ m[d].size = mem[d].size
                    /\ m[d].allocated = IF d = c THEN FALSE ELSE mem[d].allocated
  BY <1>1 DEF TypeOK, WellTyped, Chunk
<1>4. Freed(c) = IF p # Null /\ m[p].allocated
                 THEN FreedWithNext(JoinedWithPrev(m, c), p)
                 ELSE FreedWithNext(m, c)
  BY DEF Freed
<1> HIDE DEF m
<1>5. Tiling(m, S, end)
  <2>1. \A d \in S : m[d].next = mem[d].next /\ m[d].prev = mem[d].prev /\ m[d].size = mem[d].size
    BY <1>3
  <2>2. Tiling(mem, S, end)
    OBVIOUS
  <2> HIDE DEF c, p, L
  <2> QED BY <2>1, <2>2, TilingOfFields
<1>6. Holding(m, S, L)
  <2>1. ASSUME NEW a \in L
        PROVE  a.addr - HDR \in S /\ m[a.addr - HDR].allocated /\ a.size <= m[a.addr - HDR].size
    <3>1. a.addr # b.addr
      BY DEF Holding
    <3>2. a.addr - HDR # c
      BY <1>1, <3>1, HDRAssumption
    <3> QED BY <1>3, <3>2 DEF Holding
  <2>2. ASSUME NEW d \in S, m[d].allocated
        PROVE  \E a \in L : a.addr = d + HDR
    <3>1. d # c /\ mem[d].allocated
      BY <1>3, <2>2
    <3>2. PICK a \in live : a.addr = d + HDR
      BY <3>1 DEF Holding
    <3>3. d \in Nat
      BY DEF TypeOK, WellTyped
    <3>4. a # b
      BY <3>1, <3>2, <3>3, HDRAssumption
    <3> QED BY <3>2, <3>4
  <2>3. \A a, e \in L : a.addr = e.addr => a = e
    BY DEF Holding
  <2> QED BY <2>1, <2>2, <2>3 DEF Holding
<1>7. \A a \in L : a.size \in Nat /\ a.addr \in Nat
  BY <1>1
<1> HIDE DEF c, L
<1>8. CASE p # Null /\ m[p].allocated
  <2>1. c # first
    BY <1>5, <1>8 DEF Tiling, Adjoining
  <2>2. p \in S /\ m[p].next = c
    BY <1>1, <1>5, <2>1 DEF Tiling, Adjoining
  <2>3. c # Null /\ ~m[c].allocated /\ p \in DOMAIN m /\ S \in SUBSET DOMAIN m
    BY <1>1, <1>2, <1>3, <2>2 DEF WellTyped
  <2>4. JoinedWithPrev(m, c) = JoinedWithNext(m, p)
    BY <2>2, JoinedWithPrevIsNext
  <2> DEFINE w == JoinedWithNext(m, p)
             T == S \ {c}
  <2>5. Tiling(w, T, end) /\ Holding(w, T, L)
    BY <1>2, <1>5, <1>6, <1>7, <2>2, <2>3, JoinedTiled
  <2>6. WellTyped(w) /\ DOMAIN w = DOMAIN m
    BY <1>2, <2>2, <2>3, JoinedWithNextTyped
  <2>7. p \in T
    <3>1. m[p].size \in Nat /\ p \in Nat
      BY <1>2, <2>3 DEF WellTyped, Chunk
    <3>2. c = p + HDR + m[p].size
      BY <1>5, <2>2, <2>3 DEF Tiling, Adjoining, LastEndsAt, End
    <3> QED BY <2>2, <3>1, <3>2, HDRAssumption
  <2>8. T \in SUBSET DOMAIN w
    BY <2>3, <2>6
  <2> HIDE DEF w, T, p
  <2>9. \E U \in SUBSET DOMAIN FreedWithNext(w, p) :
           Tiling(FreedWithNext(w, p), U, end) /\ Holding(FreedWithNext(w, p), U, L)
    BY <1>7, <2>5, <2>6, <2>7, <2>8, FreedWithNextTiled
  <2>10. Freed(c) = FreedWithNext(w, p)
    BY <1>4, <1>8, <2>4 DEF w
  <2> QED BY <2>9, <2>10 DEF c, L
<1>9. CASE ~(p # Null /\ m[p].allocated)
  <2>1. Freed(c) = FreedWithNext(m, c)
    BY <1>4, <1>9
  <2>2. \E U \in SUBSET DOMAIN FreedWithNext(m, c) :
           Tiling(FreedWithNext(m, c), U, end) /\ Holding(FreedWithNext(m, c), U, L)
    BY <1>1, <1>2, <1>5, <1>6, <1>7, FreedWithNextTiled
  <2> QED BY <2>1, <2>2 DEF c, L
<1> QED BY <1>8, <1>9

(* What splitting the last chunk of the list writes, field by field. *)
LEMMA SplitFields ==
  ASSUME WellTyped(mem), NEW c \in DOMAIN mem, mem[c].next = Null, NEW size \in Nat,
         NEW temp, temp = c + HDR + size, NEW w, w = Split(c, size)
  PROVE  /\ DOMAIN w = DOMAIN mem \cup {temp}
         /\ w[temp].next = Null /\ w[temp].prev = c /\ ~w[temp].allocated
         /\ w[temp].size = mem[c].size - HDR
         /\ w[c].next = temp /\ w[c].size = size
         /\ w[c].prev = mem[c].prev /\ w[c].allocated = mem[c].allocated
         /\ \A d \in DOMAIN mem \ {c, temp} : w[d] = mem[d]
<1> DEFINE written == [a \in DOMAIN mem \cup {temp} |->
                         IF a = temp THEN [next |-> Null, prev |-> c, allocated |-> FALSE,
                                           size |-> mem[c].size - HDR]
                                     ELSE mem[a]]
<1>1. temp # c /\ mem[c] \in Chunk
  BY HDRAssumption DEF WellTyped
<1>2. w = [written EXCEPT ![c] = [written[c] EXCEPT !.next = temp, !.size = size]]
  BY DEF Split
<1>3. /\ DOMAIN written = DOMAIN mem \cup {temp} /\ written[c] = mem[c]
      /\ written[temp].next = Null /\ written[temp].prev = c /\ ~written[temp].allocated
      /\ written[temp].size = mem[c].size - HDR
      /\ \A d \in DOMAIN mem \ {temp} : written[d] = mem[d]
  BY <1>1
<1> HIDE DEF written
<1>4. /\ DOMAIN w = DOMAIN written /\ w[c] = [mem[c] EXCEPT !.next = temp, !.size = size]
      /\ \A d \in DOMAIN written \ {c} : w[d] = written[d]
  BY <1>2, <1>3
<1>5. /\ w[c].next = temp /\ w[c].size = size
      /\ w[c].prev = mem[c].prev /\ w[c].allocated = mem[c].allocated
  BY <1>1, <1>4 DEF Chunk
<1> QED BY <1>1, <1>3, <1>4, <1>5

LEMMA TakenTiled ==
  ASSUME TypeOK, NEW S \in SUBSET DOMAIN mem,
         Tiling(mem, S, heapEnd + excess), Holding(mem, S, live), Scanned(S), Take, ~interior'
  PROVE  \E T \in SUBSET DOMAIN mem' :
            Tiling(mem', T, heapEnd' + excess') /\ Holding(mem', T, live')
<1>0. ~interior
  BY Zenon DEF Take
<1> USE <1>0
<1> DEFINE c == cursor
           temp == c + HDR + request
           m == IF Splits(c, request) THEN Split(c, request) ELSE mem
<1>1. /\ c \in S /\ c \in DOMAIN mem /\ request \in Nat
      /\ heapEnd \in Nat /\ excess \in Nat /\ heapEnd' = heapEnd
      /\ mem[c].size > request /\ ~mem[c].allocated
      /\ \A d \in S : d \in Nat /\ mem[d] \in Chunk /\ d # Null
  BY RequestAssumption DEF Take, Scanned, Fits, TypeOK, WellTyped
<1>2. mem' = [m EXCEPT ![c].allocated = TRUE]
  BY DEF Take
<1>3. live' = live \cup {Block(c + HDR, request)}
  BY DEF Take
<1>4. Splits(c, request) => mem[c].next = Null
  BY Zenon DEF Take
<1>5. \A b \in live : b.addr \in Nat /\ b.addr # c + HDR
  <2>1. \A b \in live : b.addr \in Nat /\ b.addr - HDR # c
    BY <1>1 DEF Holding, TypeOK
  <2> QED BY <1>1, <2>1, HDRAssumption
<1>6. CASE ~Splits(c, request)
  <2>1. /\ DOMAIN mem' = DOMAIN mem
        /\ \A d \in S : /\ mem'[d].next = mem[d].next /\ mem'[d].prev = mem[d].prev
                         /\ mem'[d].size = mem[d].size
                         /\ mem'[d].allocated = IF d = c THEN TRUE ELSE mem[d].allocated
    BY <1>1, <1>2, <1>6 DEF Chunk
  <2>2. Tiling(mem', S, heapEnd' + excess')
    <3>1. \A d \in S : /\ mem'[d].next = mem[d].next /\ mem'[d].prev = mem[d].prev
                        /\ mem'[d].size = mem[d].size
      BY <2>1
    <3>2. first' = first /\ heapEnd' = heapEnd /\ excess' = excess
      BY <1>6 DEF Take
    <3> QED BY <3>1, <3>2 DEF Tiling, Adjoining, LastEndsAt, End
  <2>3. Holding(mem', S, live')
    <3>1. ASSUME NEW b \in live'
          PROVE  /\ b.addr - HDR \in S /\ mem'[b.addr - HDR].allocated
                 /\ b.size <= mem'[b.addr - HDR].size
      <4>1. CASE b \in live
        BY <1>5, <2>1, <4>1 DEF Holding
      <4>2. CASE b = Block(c + HDR, request)
        <5>1. b.addr - HDR = c /\ b.size = request
          BY <1>1, <4>2, HDRAssumption DEF Block
        <5>2. mem'[c].allocated /\ mem'[c].size = mem[c].size /\ mem[c].size \in Nat
          BY <1>1, <2>1 DEF Chunk
        <5> QED BY <1>1, <5>1, <5>2
      <4> QED BY <1>3, <4>1, <4>2
    <3>2. ASSUME NEW d \in S, mem'[d].allocated
          PROVE  \E b \in live' : b.addr = d + HDR
      <4>1. CASE d = c
        <5>1. Block(d + HDR, request) \in live'
          BY <1>3, <4>1
        <5> QED BY <5>1 DEF Block
      <4>2. CASE d # c
        BY <1>3, <2>1, <3>2, <4>2 DEF Holding
      <4> QED BY <4>1, <4>2
    <3>3. \A a, b \in live' : a.addr = b.addr => a = b
      BY <1>3, <1>5 DEF Holding, Block
    <3> QED BY <3>1, <3>2, <3>3 DEF Holding
  <2> QED BY <2>1, <2>2, <2>3
<1>7. CASE Splits(c, request)
  <2> DEFINE T == S \cup {temp}
  <2>1. mem[c].next = Null /\ \A d \in S : d <= c
    BY <1>1, <1>4, <1>7 DEF Tiling, Adjoining
  <2>2. temp \in Nat /\ c < temp /\ temp \notin S /\ temp # Null
    BY <1>1, <2>1, HDRAssumption DEF Null
  <2>3. /\ DOMAIN m = DOMAIN mem \cup {temp}
        /\ m[temp].next = Null /\ m[temp].prev = c /\ ~m[temp].allocated
        /\ m[temp].size = mem[c].size - HDR
        /\ m[c].next = temp /\ m[c].size = request
        /\ m[c].prev = mem[c].prev /\ m[c].allocated = mem[c].allocated
        /\ \A d \in DOMAIN mem \ {c, temp} : m[d] = mem[d]
    <3>1. m = Split(c, request)
      BY <1>7
    <3>2. WellTyped(mem)
      BY DEF TypeOK
    <3>3. temp = c + HDR + request
      OBVIOUS
    <3> HIDE DEF m, c, temp
    <3>4. c \in DOMAIN mem /\ request \in Nat /\ mem[c].next = Null
      BY <1>1, <2>1
    <3> QED BY <3>1, <3>2, <3>3, <3>4, SplitFields
  <2>4. WellTyped(m)
    BY <1>1, <1>7, SplitTyped DEF TypeOK
  <2> HIDE DEF m, temp
  <2>5. /\ DOMAIN mem' = DOMAIN mem \cup {temp}
        /\ mem'[temp].next = Null /\ mem'[temp].prev = c /\ ~mem'[temp].allocated
        /\ mem'[temp].size = mem[c].size - HDR
        /\ mem'[c].next = temp /\ mem'[c].size = request
        /\ mem'[c].prev = mem[c].prev /\ mem'[c].allocated
        /\ \A d \in S \ {c} : mem'[d] = mem[d]
    <3>1. m[c] \in Chunk /\ DOMAIN mem' = DOMAIN m /\ mem'[c] = [m[c] EXCEPT !.allocated = TRUE]
      BY <1>1, <1>2, <2>3, <2>4 DEF WellTyped
    <3>2. \A d \in DOMAIN m \ {c} : mem'[d] = m[d]
      BY <1>2
    <3>3. /\ mem'[c].next = m[c].next /\ mem'[c].size = m[c].size
          /\ mem'[c].prev = m[c].prev /\ mem'[c].allocated
      BY <3>1 DEF Chunk
    <3> QED BY <1>1, <2>2, <2>3, <3>1, <3>2, <3>3
  <2>6. first' = first
    BY DEF Take
  <2>7. /\ first \in S /\ mem[first].prev = Null
        /\ \A d \in S : first <= d
        /\ \A d \in S : /\ mem[d].next = Null => \A e \in S : e <= d
                        /\ mem[d].next # Null => /\ mem[d].next \in S
                                                 /\ mem[d].next = d + HDR + mem[d].size
                                                 /\ mem[mem[d].next].prev = d
        /\ \A d \in S \ {first} : mem[d].prev \in S /\ mem[mem[d].prev].next = d
        /\ \A d, e \in S : d < e => d + HDR + mem[d].size <= e
    BY DEF Tiling, Adjoining, LastEndsAt, End
  <2>8. first \in T /\ mem'[first].prev = Null /\ \A d \in T : first <= d
    BY <1>1, <2>2, <2>5, <2>7
  <2>9. ASSUME NEW d \in T
        PROVE  /\ mem'[d].next = Null => \A e \in T : e <= d
               /\ mem'[d].next # Null => /\ mem'[d].next \in T
                                         /\ mem'[d].next = d + HDR + mem'[d].size
                                         /\ mem'[mem'[d].next].prev = d
    <3>1. CASE d = temp
      BY <1>1, <2>1, <2>2, <2>5, <3>1
    <3>2. CASE d = c
      BY <2>2, <2>5, <3>2 DEF temp
    <3>3. CASE d \in S \ {c}
      <4>1. mem'[d] = mem[d] /\ mem[d].next # Null
        BY <1>1, <2>1, <2>5, <2>7, <3>3
      <4>2. mem'[mem[d].next].prev = mem[mem[d].next].prev
        BY <2>5, <2>7, <3>3, <4>1
      <4> QED BY <2>7, <3>3, <4>1, <4>2
    <3> QED BY <3>1, <3>2, <3>3
  <2>10. ASSUME NEW d \in T \ {first}
         PROVE  mem'[d].prev \in T /\ mem'[mem'[d].prev].next = d
    <3>1. CASE d = temp
      BY <1>1, <2>5, <3>1
    <3>2. CASE d \in S
      <4>1. mem'[d].prev = mem[d].prev
        BY <2>5, <3>2
      <4>2. mem[d].prev \in S /\ mem[mem[d].prev].next = d
        BY <2>7, <3>2
      <4>3. mem[d].prev # c
        BY <1>1, <2>1, <3>2, <4>2
      <4> QED BY <2>5, <4>1, <4>2, <4>3
    <3> QED BY <3>1, <3>2
  <2>11. ASSUME NEW d \in T, NEW e \in T, d < e
         PROVE  d + HDR + mem'[d].size <= e
    <3>1. CASE d = c
      BY <1>1, <2>1, <2>2, <2>5, <2>11, <3>1 DEF temp
    <3>2. CASE d = temp
      BY <1>1, <2>1, <2>2, <2>11, <3>2
    <3>3. CASE d \in S \ {c} /\ e \in S
      BY <2>5, <2>7, <2>11, <3>3
    <3>4. CASE d \in S \ {c} /\ e = temp
      <4>1. d < c
        BY <1>1, <2>1, <3>4
      <4>2. d + HDR + mem[d].size <= c /\ mem[d].size \in Nat /\ mem'[d] = mem[d]
        BY <1>1, <2>5, <2>7, <3>4, <4>1 DEF Chunk
      <4> QED BY <1>1, <2>2, <3>4, <4>2, HDRAssumption
    <3> QED BY <3>1, <3>2, <3>3, <3>4
  <2>12. Tiling(mem', T, heapEnd' + excess')
    <3>1. Adjoining(mem', T)
      BY <2>6, <2>8, <2>9, <2>10, <2>11 DEF Adjoining, End
    <3>2. ASSUME NEW d \in T, mem'[d].next = Null PROVE d = temp
      BY <2>1, <2>2, <2>5, <2>7, <1>1, <3>2
    <3>3. excess' = excess + request
      BY <1>7, <2>1 DEF Take
    <3>4. c + HDR + mem[c].size = heapEnd + excess /\ mem[c].size \in Nat
      BY <1>1, <2>1 DEF Tiling, LastEndsAt, End, Chunk
    <3>5. temp + HDR + mem'[temp].size = heapEnd' + excess'
      BY <1>1, <2>5, <3>3, <3>4, HDRAssumption DEF temp
    <3> QED BY <3>1, <3>2, <3>5 DEF Tiling, LastEndsAt, End
  <2>13. Holding(mem', T, live')
    <3>1. ASSUME NEW b \in live'
          PROVE  /\ b.addr - HDR \in T /\ mem'[b.addr - HDR].allocated
                 /\ b.size <= mem'[b.addr - HDR].size
      <4>1. CASE b \in live
        <5>1. /\ b.addr - HDR \in S /\ mem[b.addr - HDR].allocated
              /\ b.size <= mem[b.addr - HDR].size
          BY <4>1 DEF Holding
        <5>2. b.addr - HDR # c
          BY <1>1, <5>1
        <5> QED BY <2>5, <5>1, <5>2
      <4>2. CASE b = Block(c + HDR, request)
        <5>1. b.addr - HDR = c /\ b.size = request
          BY <1>1, <4>2, HDRAssumption DEF Block
        <5> QED BY <1>1, <2>5, <5>1
      <4> QED BY <1>3, <4>1, <4>2
    <3>2. ASSUME NEW d \in T, mem'[d].allocated
          PROVE  \E b \in live' : b.addr = d + HDR
      <4>1. CASE d = c
        <5>1. Block(d + HDR, request) \in live'
          BY <1>3, <4>1
        <5> QED BY <5>1 DEF Block
      <4>2. CASE d # c
        <5>1. d \in S /\ mem[d].allocated
          BY <2>5, <3>2, <4>2
        <5> QED BY <1>3, <5>1 DEF Holding
      <4> QED BY <4>1, <4>2
    <3>3. \A a, b \in live' : a.addr = b.addr => a = b
      BY <1>3, <1>5 DEF Holding, Block
    <3> QED BY <3>1, <3>2, <3>3 DEF Holding
  <2> QED BY <2>5, <2>12, <2>13
<1> QED BY <1>6, <1>7

LEMMA HInvInit == Init => HInv
<1> SUFFICES ASSUME Init PROVE HInv
  OBVIOUS
<1>1. PICK size \in HeapSize :
        /\ first = IF size < HDR THEN Null ELSE Start
        /\ mem = [a \in {first} \ {Null} |->
                   [next |-> Null, prev |-> Null, allocated |-> FALSE, size |-> size - HDR]]
        /\ heapEnd = Start + size /\ size \in Nat
  BY HeapSizeAssumption DEF Init
<1>2. CASE first = Null
  <2>1. DOMAIN mem = {}
    BY <1>1, <1>2
  <2> QED BY <1>2, <2>1 DEF Init, HInv
<1>3. CASE first # Null
  <2>1. /\ DOMAIN mem = {first} /\ first \in Nat
        /\ mem[first].next = Null /\ mem[first].prev = Null /\ ~mem[first].allocated
    BY <1>1, <1>3, StartAssumption
  <2>2. Tiling(mem, {first}, heapEnd + excess)
    <3>1. first = Start /\ mem[first].size = size - HDR /\ excess = 0 /\ Start \in Nat
      BY <1>1, <1>3, StartAssumption DEF Init
    <3>2. End(mem, first) = heapEnd + excess
      BY <1>1, <3>1, HDRAssumption DEF End
    <3> QED BY <2>1, <3>2 DEF Tiling, Adjoining, LastEndsAt, End
  <2>3. Holding(mem, {first}, live) /\ Scanned({first})
    BY <2>1 DEF Holding, Scanned, Init
  <2> QED BY <2>1, <2>2, <2>3 DEF HInv
<1> QED BY <1>2, <1>3

(* The loop of malloc passes over no chunk that would do. *)
LEMMA AdvanceScanned ==
  ASSUME TypeOK, NEW S \in SUBSET DOMAIN mem, Tiling(mem, S, heapEnd + excess), Scanned(S), Advance, ~interior
  PROVE  Scanned(S)'
<1> DEFINE c == cursor
           n == mem[c].next
<1>1. /\ c \in S /\ ~Fits(c, request) /\ request # NoRequest /\ c # Null
      /\ cursor' = n /\ mem' = mem /\ request' = request
      /\ \A d \in S : d \in Nat
  BY DEF Advance, heap, Scanned, TypeOK, WellTyped
<1>2. \A d \in S : d < c => ~Fits(d, request)
  BY <1>1 DEF Scanned
<1>3. CASE n = Null
  <2>1. \A d \in S : d < c \/ d = c
    BY <1>1, <1>3 DEF Tiling, Adjoining
  <2> QED BY <1>1, <1>2, <1>3, <2>1 DEF Scanned, Fits
<1>4. CASE n # Null
  <2>1. n \in S /\ \A d \in S : c < d => n <= d
    BY <1>1, <1>4 DEF Tiling, Adjoining
  <2>2. \A d \in S : d < n => d < c \/ d = c
    BY <1>1, <2>1
  <2> QED BY <1>1, <1>2, <1>4, <2>1, <2>2 DEF Scanned, Fits
<1> QED BY <1>3, <1>4

LEMMA HInvStep == TypeOK /\ HInv /\ [Next]_vars => HInv'
<1> SUFFICES ASSUME TypeOK, HInv, [Next]_vars PROVE HInv'
  OBVIOUS
<1> USE DEF heap, history
<1>1. CASE interior
  <2>1. interior'
    BY <1>1, Zenon DEF Next, Malloc, Advance, GiveUp, Take, Free, vars
  <2> QED BY <2>1 DEF HInv
<1>2. CASE first = Null /\ DOMAIN mem = {} /\ live = {} /\ cursor = Null
  <2>1. /\ first' = first /\ mem' = mem /\ live' = live /\ cursor' = Null
    BY <1>2 DEF Next, Malloc, Advance, GiveUp, Take, Free, vars
  <2> QED BY <1>2, <2>1 DEF HInv
<1>3. ASSUME ~interior, NEW S \in SUBSET DOMAIN mem,
             Tiling(mem, S, heapEnd + excess), Holding(mem, S, live), Scanned(S)
      PROVE  HInv'
  <2> DEFINE Kept == /\ first' = first /\ mem' = mem /\ live' = live
                     /\ heapEnd' = heapEnd /\ excess' = excess
  <2>1. ASSUME Kept
        PROVE  Tiling(mem, S, heapEnd + excess)' /\ Holding(mem, S, live)' /\ S \in SUBSET DOMAIN mem'
    <3>1. Tiling(mem, S, heapEnd + excess)'
      BY <1>3, <2>1 DEF Tiling, Adjoining, LastEndsAt, End
    <3>2. Holding(mem, S, live)'
      BY <1>3, <2>1 DEF Holding
    <3> QED BY <2>1, <3>1, <3>2
  <2>2. Kept /\ Scanned(S)' => HInv'
    BY <2>1 DEF HInv
  <2>3. ASSUME NEW size \in Request, Malloc(size) PROVE HInv'
    <3>1. first # Null /\ first \in S /\ \A d \in S : ~(d < first)
      BY <1>3 DEF Tiling, Adjoining, TypeOK, WellTyped
    <3>2. /\ cursor' = first /\ request' = size /\ mem' = mem
          /\ request' # NoRequest
      BY <2>3, RequestAssumption DEF Malloc, NoRequest
    <3>3. Scanned(S)'
      BY <3>1, <3>2 DEF Scanned
    <3> QED BY <2>2, <2>3, <3>3 DEF Malloc
  <2>4. CASE Advance
    <3>1. Scanned(S)'
      BY <1>3, <2>4, AdvanceScanned
    <3> QED BY <2>2, <2>4, <3>1 DEF Advance
  <2>5. CASE GiveUp
    <3>1. Scanned(S)'
      BY <2>5 DEF GiveUp, Scanned
    <3> QED BY <2>2, <2>5, <3>1 DEF GiveUp
  <2>6. CASE Take /\ ~interior'
    <3>1. PICK T \in SUBSET DOMAIN mem' :
            Tiling(mem', T, heapEnd' + excess') /\ Holding(mem', T, live')
      BY <1>3, <2>6, TakenTiled
    <3>2. first' = first /\ Scanned(T)'
      BY <2>6 DEF Take, Scanned
    <3> QED BY <3>1, <3>2 DEF HInv, Tiling, Adjoining, LastEndsAt, End
  <2>7. ASSUME NEW b \in live, Free(b) PROVE HInv'
    <3>1. mem' = Freed(b.addr - HDR) /\ live' = live \ {b}
      BY <2>7 DEF Free
    <3>2. PICK T \in SUBSET DOMAIN mem' :
            Tiling(mem', T, heapEnd' + excess') /\ Holding(mem', T, live')
      <4>1. heapEnd' = heapEnd /\ excess' = excess
        BY <2>7 DEF Free
      <4>2. \E T \in SUBSET DOMAIN Freed(b.addr - HDR) :
              /\ Tiling(Freed(b.addr - HDR), T, heapEnd + excess)
              /\ Holding(Freed(b.addr - HDR), T, live \ {b})
        BY <1>3, FreedTiled
      <4> QED BY <3>1, <4>1, <4>2
    <3>3. first' = first /\ Scanned(T)'
      BY <1>3, <2>7 DEF Free, Scanned
    <3> QED BY <3>2, <3>3 DEF HInv, Tiling, Adjoining, LastEndsAt, End
  <2>8. CASE UNCHANGED vars
    <3>1. Scanned(S)'
      BY <1>3, <2>8 DEF vars, Scanned, Fits
    <3> QED BY <2>2, <2>8, <3>1 DEF vars
  <2>9. CASE interior'
    BY <2>9 DEF HInv
  <2> QED BY <2>3, <2>4, <2>5, <2>6, <2>7, <2>8, <2>9 DEF Next
<1> QED BY <1>1, <1>2, <1>3 DEF HInv

LEMMA HInvHolds == Spec => [](TypeOK /\ HInv)
<1> QED BY TypeInit, TypeStep, HInvInit, HInvStep, PTL DEF Spec

(* No sequence of malloc and free calls that only ever splits the last     *)
(* chunk breaks the list, loses space or gives a chunk two owners; but the *)
(* list ends beyond the heap, by exactly what was split off (line 58).     *)
THEOREM TiledAlways == Spec => []HeapTiled
<1>1. HInv => HeapTiled
  BY DEF HInv, HeapTiled
<1> QED BY <1>1, HInvHolds, PTL

(* Under the same condition, the blocks handed out do not overlap.         *)
THEOREM DisjointAlways == Spec => []LiveBlocksDisjoint
<1>1. TypeOK /\ HInv => LiveBlocksDisjoint
  <2> SUFFICES ASSUME TypeOK, HInv, ~interior, NEW a \in live, NEW b \in live, a # b
               PROVE  a.addr + a.size < b.addr \/ b.addr + b.size < a.addr
    BY DEF LiveBlocksDisjoint
  <2>1. PICK S \in SUBSET DOMAIN mem : Tiling(mem, S, heapEnd + excess) /\ Holding(mem, S, live)
    BY DEF HInv
  <2> DEFINE c == a.addr - HDR
             d == b.addr - HDR
  <2>2. /\ a.addr \in Nat /\ b.addr \in Nat /\ a.size \in Nat /\ b.size \in Nat
        /\ a.addr # b.addr
    BY <2>1, RequestAssumption DEF TypeOK, Holding
  <2>3. /\ c \in S /\ d \in S /\ a.size <= mem[c].size /\ b.size <= mem[d].size
    BY <2>1 DEF Holding
  <2>4. mem[c].size \in Nat /\ mem[d].size \in Nat
    BY <2>3 DEF TypeOK, WellTyped, Chunk
  <2>5. /\ c < d => c + HDR + mem[c].size <= d
        /\ d < c => d + HDR + mem[d].size <= c
    BY <2>1, <2>3 DEF Tiling, Adjoining, LastEndsAt, End
  <2>6. c + HDR = a.addr /\ d + HDR = b.addr /\ (c < d \/ d < c)
    BY <2>2, HDRAssumption
  <2> HIDE DEF c, d
  <2>7. CASE c < d
    <3>1. a.addr + mem[c].size <= d /\ d < b.addr
      BY <2>2, <2>5, <2>6, <2>7, HDRAssumption DEF c, d
    <3> QED BY <2>2, <2>3, <2>4, <3>1, HDRAssumption DEF d
  <2>8. CASE d < c
    <3>1. b.addr + mem[d].size <= c /\ c < a.addr
      BY <2>2, <2>5, <2>6, <2>8, HDRAssumption DEF c, d
    <3> QED BY <2>2, <2>3, <2>4, <3>1, HDRAssumption DEF c
  <2> QED BY <2>6, <2>7, <2>8
<1> QED BY <1>1, HInvHolds, PTL

(* Under the same condition, malloc returns null only if no free chunk of  *)
(* the list is larger than the request.                                    *)
THEOREM FailsOnlyWhenFullAlways == Spec => FailsOnlyWhenFull
<1>1. HInv /\ GiveUp /\ ~interior =>
        first = Null \/ \E S \in SUBSET DOMAIN mem :
                            /\ Tiling(mem, S, heapEnd + excess)
                            /\ \A c \in S : ~Fits(c, request)
  BY DEF HInv, GiveUp, Scanned
<1>2. HInv => [GiveUp /\ ~interior =>
        first = Null \/ \E S \in SUBSET DOMAIN mem :
                            /\ Tiling(mem, S, heapEnd + excess)
                            /\ \A c \in S : ~Fits(c, request)]_vars
  BY <1>1
<1> QED BY <1>2, HInvHolds, PTL DEF FailsOnlyWhenFull
=============================================================================
