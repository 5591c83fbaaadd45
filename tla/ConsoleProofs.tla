----------------------------- MODULE ConsoleProofs -----------------------------
(***************************************************************************)
(* Proofs about Console, for a screen of any size, any number of tasks and *)
(* characters and every movement of the mouse: its types, the bounds of    *)
(* both cursors among them, and what they rest on.                         *)
(*                                                                         *)
(* CursorRecovers is not inductive: it says nothing while somebody is      *)
(* inside printf.  Owed says who owes the cursor a correction: a column    *)
(* beyond the last one is owed by a task that has yet to test it or to     *)
(* clear it, a row beyond the last one by a task between its test and its  *)
(* last store.  OnePrinting adds that one task is inside at most until two *)
(* printfs overlap: a task about to write then finds no debt.              *)
(*                                                                         *)
(* ShowsText needs to know at each of the task's points how far the screen *)
(* is behind the paper (TextAt): the cell is written but the cursor not    *)
(* moved, or moved and not wrapped, or the row below the last one reached  *)
(* and the screen not scrolled (Due).                                      *)
(***************************************************************************)
EXTENDS Console, TLAPS

(* A byte is one. *)
LEMMA ByteTyped == ASSUME NEW n \in Nat PROVE Byte(n) \in 0 .. 255
BY DEF Byte

(* Whatever is written, scrolled or swapped, the screen stays a screen. *)
LEMMA ScreenTyped ==
  ASSUME NEW scr \in Screen, NEW i \in Int
  PROVE  /\ \A ch \in Letter \cup {Blank} : Write(scr, i, ch) \in Screen
         /\ Scrolled(scr) \in Screen
         /\ Swap(scr, i) \in Screen
<1>1. ASSUME NEW ch \in Letter \cup {Blank} PROVE Write(scr, i, ch) \in Screen
  <2>1. Cell(ch) \in [ch : Letter \cup {Blank}, swapped : BOOLEAN]
    BY DEF Cell
  <2> QED BY <2>1 DEF Write, Screen
<1>2. Scrolled(scr) \in Screen
  <2>1. Cell(Blank) \in [ch : Letter \cup {Blank}, swapped : BOOLEAN]
    BY DEF Cell
  <2> QED BY <2>1 DEF Scrolled, Screen
<1>3. Swap(scr, i) \in Screen
  BY DEF Swap, Screen
<1> QED BY <1>1, <1>2, <1>3

(* A coordinate of the mouse cursor that has wrapped around in its type is *)
(* still brought back below the limit.                                     *)
LEMMA MovedTyped ==
  ASSUME NEW v \in Int, NEW d \in Int, NEW limit \in Nat \ {0}
  PROVE  Moved(v, d, limit) \in 0 .. limit - 1
<1> DEFINE w == AsInt(v + d)
<1>1. w \in Int
  BY IntAssumption DEF AsInt
<1> HIDE DEF w
<1> QED BY <1>1 DEF Moved, w

(* A console between two pieces of a round of printf's loop. *)
Round == [screen : Screen, x : 0 .. 255, y : 0 .. 255, at : Int]

LEMMA PutTyped ==
  ASSUME NEW s \in Screen, NEW c \in Letter \cup {Newline, Backspace},
         x \in 0 .. 255, y \in 0 .. 255
  PROVE  Put([screen |-> s, x |-> x, y |-> y], c) \in Round
<1> DEFINE m   == [screen |-> s, x |-> x, y |-> y]
           put == Put(m, c)
<1> USE DEF Round
<1>1. CASE c = Newline
  BY <1>1, ByteTyped DEF Put, Newline, Backspace
<1>2. CASE c = Backspace
  <2> DEFINE ax == IF x > 0 THEN x - 1 ELSE IF y > 0 THEN Width - 1 ELSE 0
             ay == IF x = 0 /\ y > 0 THEN y - 1 ELSE y
  <2>1. ax \in 0 .. 255 /\ ay \in 0 .. 255
    BY SizeAssumption, ByteAssumption
  <2>2. ay * Width + ax \in Int
    BY <2>1, SizeAssumption
  <2>3. put = [screen |-> Write(s, ay * Width + ax, Blank), x |-> ax, y |-> ay,
               at |-> ay * Width + ax]
    BY <1>2 DEF Put, Erased, Newline, Backspace
  <2> HIDE DEF ax, ay, put
  <2>4. put \in Round
    BY <2>1, <2>2, <2>3, ScreenTyped
  <2> QED BY <2>4 DEF put
<1>3. CASE c # Newline /\ c # Backspace
  <2>1. y * Width + x \in Int /\ c \in Letter \cup {Blank} /\ Byte(x + 1) \in 0 .. 255
    BY <1>3, SizeAssumption, ByteTyped
  <2>2. put = [screen |-> Write(s, y * Width + x, c), x |-> Byte(x + 1), y |-> y,
               at |-> y * Width + x]
    BY <1>3 DEF Put
  <2> HIDE DEF put
  <2>3. put \in Round
    BY <2>1, <2>2, ScreenTyped
  <2> QED BY <2>3 DEF put
<1> QED BY <1>1, <1>2, <1>3

(* One round of printf that nobody interrupts leaves a screen, and the     *)
(* cursor on it, wherever it found it.                                     *)
LEMMA RoundSettles ==
  ASSUME NEW s \in Screen, NEW c \in Letter \cup {Newline, Backspace},
         x \in 0 .. 255, y \in 0 .. 255
  PROVE  LET end == Settled(Wrapped(Put([screen |-> s, x |-> x, y |-> y], c)))
         IN  end.screen \in Screen /\ end.x \in 0 .. Width - 1 /\ end.y \in 0 .. Height - 1
<1> DEFINE m   == [screen |-> s, x |-> x, y |-> y]
           put == Put(m, c)
           wr  == Wrapped(put)
           end == Settled(wr)
<1> USE DEF Round
<1>1. put \in Round
  BY PutTyped
<1>2. wr \in Round /\ wr.x < Width
  <2> HIDE DEF put
  <2>1. put.x \in 0 .. 255 /\ put.y + 1 \in Nat
    BY <1>1
  <2>2. Byte(put.y + 1) \in 0 .. 255 /\ 0 < Width /\ Width \in Nat
    BY <2>1, ByteTyped, SizeAssumption
  <2>3. CASE put.x >= Width
    <3>1. wr = [screen |-> put.screen, x |-> 0, y |-> Byte(put.y + 1), at |-> put.at]
      BY <1>1, <2>3 DEF Wrapped
    <3> HIDE DEF wr
    <3>2. wr \in Round /\ wr.x = 0
      BY <1>1, <2>2, <3>1
    <3> QED BY <2>2, <3>2
  <2>4. CASE ~(put.x >= Width)
    BY <1>1, <2>1, <2>2, <2>4 DEF Wrapped
  <2> QED BY <2>3, <2>4
<1>3. end.screen \in Screen /\ end.x \in 0 .. Width - 1 /\ end.y \in 0 .. Height - 1
  <2> HIDE DEF wr
  <2>1. Scrolled(wr.screen) \in Screen
    BY <1>2, ScreenTyped
  <2> QED BY <1>2, <2>1, SizeAssumption, ByteAssumption DEF Settled
<1> QED BY <1>3

(* What an access to the cursor changes. *)
LEMMA AccessFields ==
  ASSUME TypeOK, NEW t \in Task, NEW from, NEW to \in Points,
         NEW nx \in 0 .. 255, NEW ny \in 0 .. 255, NEW v \in 0 .. 255,
         Access(t, from, to, nx, ny, v)
  PROVE  /\ TypeOK'
         /\ x' = nx /\ y' = ny
         /\ pc[t] = from /\ pc'[t] = to
         /\ \A u \in Task : u # t => pc'[u] = pc[u]
<1>1. /\ x' = nx /\ y' = ny
      /\ pc' \in [Task -> Points] /\ tmp' \in [Task -> 0 .. 255]
      /\ pc[t] = from /\ pc'[t] = to
      /\ \A u \in Task : u # t => pc'[u] = pc[u]
  BY DEF Access, TypeOK
<1>2. UNCHANGED <<screen, pointer, phase, overlapped, stray, disturbed>>
  BY DEF Access, history
<1> QED BY <1>1, <1>2 DEF TypeOK, Screen, Cells

(* Every access to the cursor leaves the types as they are. *)
LEMMA Accesses ==
  ASSUME TypeOK, NEW t \in Task,
         \/ LoadX(t) \/ StoreX(t) \/ TestX(t) \/ ClearX(t)
         \/ LoadY(t) \/ StoreY(t) \/ TestY(t) \/ Settle(t)
  PROVE  TypeOK' /\ \A u \in Task : u # t => pc'[u] = pc[u]
<1>1. /\ x \in 0 .. 255 /\ y \in 0 .. 255 /\ tmp[t] + 1 \in Nat
      /\ 0 \in 0 .. 255 /\ Height - 1 \in 0 .. 255
  BY SizeAssumption, ByteAssumption DEF TypeOK
<1>2. Byte(tmp[t] + 1) \in 0 .. 255
  BY <1>1, ByteTyped
<1>3. /\ "storeX" \in Points /\ "testX" \in Points /\ "clearX" \in Points
      /\ "loadY" \in Points /\ "storeY" \in Points /\ "testY" \in Points
      /\ "scroll" \in Points /\ "out" \in Points
  BY DEF Points
<1>4. CASE LoadX(t)
  BY <1>1, <1>3, <1>4, AccessFields DEF LoadX
<1>5. CASE StoreX(t)
  BY <1>1, <1>2, <1>3, <1>5, AccessFields DEF StoreX
<1>6. CASE TestX(t)
  <2>1. (IF x >= Width THEN "clearX" ELSE "testY") \in Points
    BY <1>3
  <2> QED BY <1>1, <1>6, <2>1, AccessFields DEF TestX
<1>7. CASE ClearX(t)
  BY <1>1, <1>3, <1>7, AccessFields DEF ClearX
<1>8. CASE LoadY(t)
  BY <1>1, <1>3, <1>8, AccessFields DEF LoadY
<1>9. CASE StoreY(t)
  BY <1>1, <1>2, <1>3, <1>9, AccessFields DEF StoreY
<1>10. CASE TestY(t)
  <2>1. (IF y >= Height THEN "scroll" ELSE "out") \in Points
    BY <1>3
  <2> QED BY <1>1, <1>10, <2>1, AccessFields DEF TestY
<1>11. CASE Settle(t)
  BY <1>1, <1>3, <1>11, AccessFields DEF Settle
<1> QED BY <1>4, <1>5, <1>6, <1>7, <1>8, <1>9, <1>10, <1>11

LEMMA TypeInit == Init => TypeOK
<1> SUFFICES ASSUME Init PROVE TypeOK OBVIOUS
<1>1. screen \in Screen
  BY DEF Init, Screen, Cell
<1>2. pointer \in [x : 0 .. Width - 1, y : 0 .. Height - 1]
  <2>1. Width \div 2 \in 0 .. Width - 1 /\ Height \div 2 \in 0 .. Height - 1
    BY SizeAssumption
  <2> QED BY <2>1 DEF Init
<1>3. pc \in [Task -> Points] /\ tmp \in [Task -> 0 .. 255]
  BY DEF Init, Points
<1>4. x \in 0 .. 255 /\ y \in 0 .. 255 /\ phase \in {"start", "pointer", "on"}
  BY DEF Init
<1>5. {overlapped, stray, disturbed} \subseteq BOOLEAN
  BY DEF Init
<1> QED BY <1>1, <1>2, <1>3, <1>4, <1>5 DEF TypeOK

LEMMA TypeStep == TypeOK /\ [Next]_vars => TypeOK'
<1> SUFFICES ASSUME TypeOK, [Next]_vars PROVE TypeOK' OBVIOUS
<1> USE DEF Screen, Cells
<1>1. ASSUME NEW c \in Letter \cup {Newline, Backspace}, PrintAlone(c) PROVE TypeOK'
  <2>1. screen' \in Screen /\ x' \in 0 .. Width - 1 /\ y' \in 0 .. Height - 1
    BY <1>1, RoundSettles DEF PrintAlone, TypeOK
  <2>2. x' \in 0 .. 255 /\ y' \in 0 .. 255
    BY <2>1, SizeAssumption, ByteAssumption
  <2>3. {overlapped', stray', disturbed'} \subseteq BOOLEAN
    BY <1>1 DEF PrintAlone, TypeOK
  <2> QED BY <1>1, <2>1, <2>2, <2>3 DEF PrintAlone, TypeOK
<1>2. ASSUME NEW t \in Task, EnterPrintf(t) PROVE TypeOK'
  <2>1. overlapped' \in BOOLEAN
    BY <1>2, Zenon DEF EnterPrintf
  <2> QED BY <1>2, <2>1 DEF EnterPrintf, TypeOK, Points, cursor
<1>3. ASSUME NEW t \in Task, WriteCell(t) PROVE TypeOK'
  <2> DEFINE i == y * Width + x
  <2>1. i \in Int
    BY SizeAssumption DEF TypeOK
  <2>2. screen' = Write(screen, i, TaskLetter[t]) /\ TaskLetter[t] \in Letter
    BY <1>3, LetterAssumption DEF WriteCell
  <2> HIDE DEF i
  <2>3. screen' \in Screen
    BY <2>1, <2>2, ScreenTyped DEF TypeOK
  <2>4. stray' \in BOOLEAN /\ disturbed' \in BOOLEAN
    BY <1>3, Zenon DEF WriteCell
  <2> QED BY <1>3, <2>3, <2>4 DEF WriteCell, TypeOK, Points, cursor
<1>4. ASSUME NEW t \in Task, Scroll(t) PROVE TypeOK'
  <2>1. screen' \in Screen
    BY <1>4, ScreenTyped DEF Scroll, TypeOK
  <2> QED BY <1>4, <2>1 DEF Scroll, TypeOK, Points, cursor
<1>5. ASSUME NEW t \in Task,
             \/ LoadX(t) \/ StoreX(t) \/ TestX(t) \/ ClearX(t)
             \/ LoadY(t) \/ StoreY(t) \/ TestY(t) \/ Settle(t)
      PROVE  TypeOK'
  BY <1>5, Accesses
<1>6. ASSUME ConstructPointer PROVE TypeOK'
  <2>1. Marked \in Int
    BY SizeAssumption DEF TypeOK, Marked
  <2>2. screen' \in Screen
    BY <1>6, <2>1, ScreenTyped DEF ConstructPointer, TypeOK
  <2> QED BY <1>6, <2>2 DEF ConstructPointer, TypeOK, cursor, history
<1>7. ASSUME InterruptsOn PROVE TypeOK'
  BY <1>7 DEF InterruptsOn, TypeOK, cursor, history
<1>8. ASSUME NEW dx \in Offset, NEW dy \in Offset, OnMouseMove(dx, dy) PROVE TypeOK'
  <2>1. pointer' \in [x : 0 .. Width - 1, y : 0 .. Height - 1]
    <3>1. /\ pointer.x \in Int /\ pointer.y \in Int /\ dx \in Int /\ dy \in Int
          /\ Width \in Nat \ {0} /\ Height \in Nat \ {0}
      BY SizeAssumption, OffsetAssumption DEF TypeOK
    <3>2. Moved(pointer.x, dx, Width) \in 0 .. Width - 1
      BY <3>1, MovedTyped
    <3>3. Moved(pointer.y, dy, Height) \in 0 .. Height - 1
      BY <3>1, MovedTyped
    <3> QED BY <1>8, <3>2, <3>3 DEF OnMouseMove
  <2>2. Marked \in Int /\ Width * pointer'.y + pointer'.x \in Int
    BY <2>1, SizeAssumption DEF TypeOK, Marked
  <2>3. screen' = Swap(Swap(screen, Marked), Width * pointer'.y + pointer'.x)
    BY <1>8 DEF OnMouseMove, PointerMoved
  <2>4. Swap(screen, Marked) \in Screen
    BY <2>2, ScreenTyped DEF TypeOK
  <2>5. screen' \in Screen
    BY <2>2, <2>3, <2>4, ScreenTyped
  <2> QED BY <1>8, <2>1, <2>5 DEF OnMouseMove, TypeOK, cursor, history
<1>9. CASE UNCHANGED vars
  BY <1>9 DEF vars, TypeOK, history
<1> QED BY <1>1, <1>2, <1>3, <1>4, <1>5, <1>6, <1>7, <1>8, <1>9 DEF Next, Printf

(* printf's cursor stays a byte, the mouse cursor stays on the screen, and *)
(* the screen keeps its cells, for every screen and every movement.        *)
THEOREM TypeCorrect == Spec => []TypeOK
<1> QED BY TypeInit, TypeStep, PTL DEF Spec

-----------------------------------------------------------------------------

(* Who owes the cursor a correction. *)
Owed ==
  /\ x >= Width  => \E t \in Task : pc[t] \in {"testX", "clearX"}
  /\ y >= Height => \E t \in Task : pc[t] \in {"testY", "scroll", "settle"}

LEMMA OwedStep == TypeOK /\ Owed /\ [Next]_vars => Owed'
<1> SUFFICES ASSUME TypeOK, Owed, [Next]_vars PROVE Owed' OBVIOUS
<1>1. ASSUME NEW c \in Letter \cup {Newline, Backspace}, PrintAlone(c) PROVE Owed'
  <2>1. x' \in 0 .. Width - 1 /\ y' \in 0 .. Height - 1
    BY <1>1, RoundSettles DEF PrintAlone, TypeOK
  <2> QED BY <2>1, SizeAssumption DEF Owed
<1>2. ASSUME NEW t \in Task, EnterPrintf(t) PROVE Owed'
  BY <1>2 DEF EnterPrintf, Owed, TypeOK, cursor
<1>3. ASSUME NEW t \in Task, WriteCell(t) PROVE Owed'
  BY <1>3 DEF WriteCell, Owed, TypeOK, cursor
<1>4. ASSUME NEW t \in Task, Scroll(t) PROVE Owed'
  BY <1>4 DEF Scroll, Owed, TypeOK, cursor
<1>5. ASSUME NEW t \in Task,
             \/ LoadX(t) \/ StoreX(t) \/ TestX(t) \/ ClearX(t)
             \/ LoadY(t) \/ StoreY(t) \/ TestY(t) \/ Settle(t)
      PROVE  Owed'
  <2> DEFINE Before == {"testX", "clearX"}
             Below  == {"testY", "scroll", "settle"}
  <2>1. /\ \A u \in Task : u # t => pc'[u] = pc[u]
        /\ x' \in Nat /\ y' \in Nat
    BY <1>5, Accesses DEF TypeOK
  (* The step either leaves the task its debt, or there is none left. *)
  <2>2. x' >= Width => \/ pc'[t] \in Before
                       \/ x' = x /\ pc[t] \notin Before
    BY <1>5, SizeAssumption
       DEF LoadX, StoreX, TestX, ClearX, LoadY, StoreY, TestY, Settle, Access, TypeOK
  <2>3. y' >= Height => \/ pc'[t] \in Below
                        \/ y' = y /\ pc[t] \notin Below
    BY <1>5, SizeAssumption
       DEF LoadX, StoreX, TestX, ClearX, LoadY, StoreY, TestY, Settle, Access, TypeOK
  <2> QED BY <2>1, <2>2, <2>3 DEF Owed
<1>6. CASE ConstructPointer
  BY <1>6 DEF ConstructPointer, Owed, cursor
<1>7. CASE InterruptsOn
  BY <1>7 DEF InterruptsOn, Owed, cursor
<1>8. ASSUME NEW dx \in Offset, NEW dy \in Offset, OnMouseMove(dx, dy) PROVE Owed'
  BY <1>8 DEF OnMouseMove, Owed, cursor
<1>9. CASE UNCHANGED vars
  BY <1>9 DEF vars, Owed
<1> QED BY <1>1, <1>2, <1>3, <1>4, <1>5, <1>6, <1>7, <1>8, <1>9 DEF Next, Printf

(* Whatever tasks and handlers do to each other's cursor, whenever nobody  *)
(* is inside printf the cursor is on the screen, so that the next          *)
(* character is written there.                                             *)
THEOREM CursorRecoversAlways == Spec => []CursorRecovers
<1>1. Init => Owed
  BY SizeAssumption DEF Init, Owed
<1>2. TypeOK /\ Owed => CursorRecovers
  <2> SUFFICES ASSUME TypeOK, Owed, Inside = {} PROVE x < Width /\ y < Height
    BY DEF CursorRecovers
  <2>1. \A t \in Task : pc[t] = "out"
    BY DEF Inside
  <2> QED BY <2>1, SizeAssumption DEF Owed, TypeOK
<1> QED BY TypeInit, TypeStep, OwedStep, <1>1, <1>2, PTL DEF Spec

-----------------------------------------------------------------------------
(* Nothing is written outside the screen. *)

LEMMA CellOnScreen ==
  ASSUME NEW a \in 0 .. Width - 1, NEW b \in 0 .. Height - 1
  PROVE  b * Width + a \in Cells
<1>1. PICK w \in Nat, h \in Nat : w = Width /\ h = Height /\ w > 0 /\ h > 0
  BY SizeAssumption
<1>2. b \in Nat /\ b <= h - 1 /\ a \in Nat /\ a <= w - 1
  BY <1>1
<1>3. b * w <= (h - 1) * w
  BY <1>1, <1>2
<1>4. (h - 1) * w = w * h - w
  BY <1>1
<1>5. b * w + a <= w * h - 1 /\ b * w \in Nat
  BY <1>1, <1>2, <1>3, <1>4
<1> QED BY <1>1, <1>2, <1>5 DEF Cells

(* Where printf writes: on one cell at most, which is on the screen if the *)
(* cursor is.                                                              *)
WritesOne(s, a, b, put) ==
  /\ put.screen = s \/ \E ch : put.screen = Write(s, put.at, ch)
  /\ put.at \in Int
  /\ a < Width /\ b < Height => put.at < Width * Height

LEMMA PutWrites ==
  ASSUME NEW s, NEW a \in 0 .. 255, NEW b \in 0 .. 255, NEW c
  PROVE  WritesOne(s, a, b, Put([screen |-> s, x |-> a, y |-> b], c))
<1> DEFINE m == [screen |-> s, x |-> a, y |-> b]
           put == Put(m, c)
<1>0. Width \in Nat /\ Height \in Nat /\ Width > 0 /\ Height > 0 /\ Width * Height \in Nat
  BY SizeAssumption
<1>1. CASE c = Newline
  <2>1. put = [screen |-> s, x |-> 0, y |-> Byte(b + 1), at |-> -1]
    BY <1>1 DEF Put, Newline, Backspace
  <2> HIDE DEF put
  <2>2. put.screen = s /\ put.at = -1
    BY <2>1
  <2>3. WritesOne(s, a, b, put)
    BY <1>0, <2>2 DEF WritesOne
  <2> QED BY <2>3 DEF put
<1>2. CASE c = Backspace
  <2> DEFINE ax == IF a > 0 THEN a - 1 ELSE IF b > 0 THEN Width - 1 ELSE 0
             ay == IF a = 0 /\ b > 0 THEN b - 1 ELSE b
  <2>1. put = [screen |-> Write(s, ay * Width + ax, Blank), x |-> ax, y |-> ay, at |-> ay * Width + ax]
    BY <1>2 DEF Put, Erased, Newline, Backspace
  <2>2. a < Width /\ b < Height => ax \in 0 .. Width - 1 /\ ay \in 0 .. Height - 1
    BY <1>0
  <2>3. ax \in Int /\ ay \in Int
    BY <1>0
  <2> HIDE DEF ax, ay, put
  <2>4. put.screen = Write(s, put.at, Blank) /\ put.at = ay * Width + ax /\ put.at \in Int
    BY <1>0, <2>1, <2>3
  <2>5. a < Width /\ b < Height => put.at < Width * Height
    BY <1>0, <2>2, <2>4, CellOnScreen DEF Cells
  <2>6. WritesOne(s, a, b, put)
    BY <2>4, <2>5 DEF WritesOne
  <2> QED BY <2>6 DEF put
<1>3. CASE c # Newline /\ c # Backspace
  <2>1. put = [screen |-> Write(s, b * Width + a, c), x |-> Byte(a + 1), y |-> b, at |-> b * Width + a]
    BY <1>3 DEF Put
  <2> HIDE DEF put
  <2>2. put.screen = Write(s, put.at, c) /\ put.at = b * Width + a /\ put.at \in Int
    BY <1>0, <2>1
  <2>3. a < Width /\ b < Height => put.at < Width * Height
    <3>1. a < Width /\ b < Height => a \in 0 .. Width - 1 /\ b \in 0 .. Height - 1
      BY <1>0
    <3> QED BY <1>0, <2>2, <3>1, CellOnScreen DEF Cells
  <2>4. WritesOne(s, a, b, put)
    BY <2>2, <2>3 DEF WritesOne
  <2> QED BY <2>4 DEF put
<1> QED BY <1>1, <1>2, <1>3

(* Until two printfs overlap, one task is inside at most; the others' debt *)
(* is nobody's then, so a task about to write finds the cursor on the      *)
(* screen.                                                                 *)
OnePrinting == ~overlapped => ~stray /\ \A t, u \in Inside : t = u

LEMMA OnePrintingStep == TypeOK /\ Owed /\ OnePrinting /\ [Next]_vars => OnePrinting'
<1> SUFFICES ASSUME TypeOK, Owed, OnePrinting, [Next]_vars, ~overlapped'
             PROVE  ~stray' /\ \A t, u \in Inside' : t = u
  BY DEF OnePrinting
<1>1. ASSUME NEW c \in Letter \cup {Newline, Backspace}, PrintAlone(c)
      PROVE  ~stray' /\ \A t, u \in Inside' : t = u
  <2>1. ~overlapped /\ Inside = {} /\ pc' = pc
    BY <1>1 DEF PrintAlone
  <2>2. x \in 0 .. 255 /\ y \in 0 .. 255
    BY DEF TypeOK
  <2>3. x < Width /\ y < Height
    BY <2>1, <2>2, SizeAssumption DEF Owed, Inside
  <2> DEFINE put == Put([screen |-> screen, x |-> x, y |-> y], c)
  <2>4. WritesOne(screen, x, y, put)
    BY <2>2, PutWrites
  <2>5. stray' = (stray \/ put.at >= Width * Height)
    BY <1>1 DEF PrintAlone
  <2> HIDE DEF put
  <2>6. put.at \in Int /\ put.at < Width * Height /\ Width * Height \in Nat
    BY <2>3, <2>4, SizeAssumption DEF WritesOne
  <2>7. ~(put.at >= Width * Height)
    BY <2>6
  <2>8. ~stray'
    BY <2>1, <2>5, <2>7 DEF OnePrinting
  <2> QED BY <2>1, <2>8 DEF Inside
<1>2. ASSUME NEW t \in Task, EnterPrintf(t) PROVE ~stray' /\ \A u, v \in Inside' : u = v
  <2>1. ~overlapped /\ Inside = {} /\ stray' = stray
    BY <1>2 DEF EnterPrintf
  <2>2. \A u \in Task : u # t => pc'[u] = pc[u]
    BY <1>2 DEF EnterPrintf, TypeOK
  <2>3. Inside' \subseteq {t}
    BY <2>1, <2>2 DEF Inside
  <2> QED BY <2>1, <2>3 DEF OnePrinting
<1>3. ASSUME NEW t \in Task, pc[t] # "out", \A u \in Task : u # t => pc'[u] = pc[u],
             overlapped' = overlapped
      PROVE  \A u, v \in Inside' : u = v
  <2>1. t \in Inside
    BY <1>3 DEF Inside
  <2>2. \A u, v \in Inside : u = v
    BY <1>3 DEF OnePrinting
  <2>3. Inside' \subseteq {t}
    BY <1>3, <2>1, <2>2 DEF Inside
  <2> QED BY <2>3
<1>4. ASSUME NEW t \in Task, WriteCell(t) PROVE ~stray' /\ \A u, v \in Inside' : u = v
  <2>1. pc[t] = "write" /\ overlapped' = overlapped /\ \A u \in Task : u # t => pc'[u] = pc[u]
    BY <1>4 DEF WriteCell, TypeOK
  <2>2. \A u \in Task : u # t => pc[u] = "out"
    BY <2>1 DEF OnePrinting, Inside
  <2>3. x \in 0 .. 255 /\ y \in 0 .. 255 /\ x < Width /\ y < Height
    BY <2>1, <2>2, SizeAssumption DEF Owed, TypeOK
  <2>4. y * Width + x \in Cells
    <3>1. x \in 0 .. Width - 1 /\ y \in 0 .. Height - 1
      BY <2>3, SizeAssumption
    <3> QED BY <3>1, CellOnScreen
  <2>5. stray' = (stray \/ y * Width + x \notin Cells)
    BY <1>4 DEF WriteCell
  <2> QED BY <1>3, <2>1, <2>4, <2>5 DEF OnePrinting
<1>5. ASSUME NEW t \in Task, Scroll(t) PROVE ~stray' /\ \A u, v \in Inside' : u = v
  <2>1. /\ pc[t] = "scroll" /\ overlapped' = overlapped /\ stray' = stray
        /\ \A u \in Task : u # t => pc'[u] = pc[u]
    BY <1>5 DEF Scroll, TypeOK
  <2> QED BY <1>3, <2>1 DEF OnePrinting
<1>6. ASSUME NEW t \in Task,
             \/ LoadX(t) \/ StoreX(t) \/ TestX(t) \/ ClearX(t)
             \/ LoadY(t) \/ StoreY(t) \/ TestY(t) \/ Settle(t)
      PROVE  ~stray' /\ \A u, v \in Inside' : u = v
  <2>1. /\ pc[t] # "out" /\ overlapped' = overlapped /\ stray' = stray
        /\ \A u \in Task : u # t => pc'[u] = pc[u]
    BY <1>6, Accesses
       DEF LoadX, StoreX, TestX, ClearX, LoadY, StoreY, TestY, Settle, Access, history
  <2> QED BY <1>3, <2>1 DEF OnePrinting
<1>7. CASE UNCHANGED <<pc, overlapped, stray>>
  BY <1>7 DEF OnePrinting, Inside
<1>8. ASSUME ConstructPointer \/ InterruptsOn \/ (\E dx, dy \in Offset : OnMouseMove(dx, dy)) \/ UNCHANGED vars
      PROVE  UNCHANGED <<pc, overlapped, stray>>
  BY <1>8 DEF ConstructPointer, InterruptsOn, OnMouseMove, vars, history
<1> QED BY <1>1, <1>2, <1>4, <1>5, <1>6, <1>7, <1>8 DEF Next, Printf

(* As long as no printf is entered while a task is inside another one,     *)
(* nothing is written outside the screen, however many tasks print, and    *)
(* wherever between two accesses to the cursor they are preempted.         *)
THEOREM OnScreenAlways == Spec => []OnScreen
<1>1. Init => Owed /\ OnePrinting
  BY SizeAssumption DEF Init, Owed, OnePrinting, Inside
<1>2. OnePrinting => OnScreen
  BY DEF OnePrinting, OnScreen
<1> QED BY TypeInit, TypeStep, OwedStep, OnePrintingStep, <1>1, <1>2, PTL DEF Spec

-----------------------------------------------------------------------------
(* The mouse cursor. *)

SwapSet(scr) == {i \in Cells : scr[i].swapped}

(* What a write, a scroll and a swap do to the cells with swapped colours. *)
LEMMA WriteSwaps ==
  ASSUME NEW scr \in Screen, NEW i \in Int, NEW ch
  PROVE  SwapSet(Write(scr, i, ch)) = SwapSet(scr) \ {i}
BY DEF Write, SwapSet, Screen, Cell

LEMMA ScrollSwaps ==
  ASSUME NEW scr \in Screen, SwapSet(scr) = {}
  PROVE  SwapSet(Scrolled(scr)) = {}
BY DEF Scrolled, SwapSet, Screen, Cell

LEMMA SwapSwaps ==
  ASSUME NEW scr \in Screen, NEW i \in Cells
  PROVE  SwapSet(Swap(scr, i)) = IF i \in SwapSet(scr) THEN SwapSet(scr) \ {i} ELSE SwapSet(scr) \cup {i}
<1> DEFINE new == Swap(scr, i)
<1>1. /\ \A j \in Cells : j # i => new[j] = scr[j]
      /\ new[i].swapped = ~scr[i].swapped
  BY DEF Swap, Screen
<1> HIDE DEF new
<1>2. \A j \in Cells : j \in SwapSet(new) <=> IF j = i THEN j \notin SwapSet(scr) ELSE j \in SwapSet(scr)
  BY <1>1 DEF SwapSet
<1>3. SwapSet(new) \subseteq Cells /\ SwapSet(scr) \subseteq Cells
  BY DEF SwapSet
<1>4. SwapSet(new) = IF i \in SwapSet(scr) THEN SwapSet(scr) \ {i} ELSE SwapSet(scr) \cup {i}
  BY <1>2, <1>3
<1> QED BY <1>4 DEF new

(* A round scrolls where the cursor has passed the last row, and changes   *)
(* nothing else after its write.                                           *)
LEMMA SettledScreen ==
  ASSUME NEW put \in Round
  PROVE  Settled(Wrapped(put)).screen
           = IF Wrapped(put).y >= Height THEN Scrolled(put.screen) ELSE put.screen
<1>1. Wrapped(put).screen = put.screen /\ DOMAIN Wrapped(put) = {"screen", "x", "y", "at"}
  BY DEF Wrapped, Round
<1> DEFINE wr == Wrapped(put)
<1>2. Settled(wr) = IF wr.y >= Height THEN [wr EXCEPT !.screen = Scrolled(wr.screen), !.y = Height - 1] ELSE wr
  BY DEF Settled
<1> HIDE DEF wr
<1>3. wr.screen = put.screen /\ DOMAIN wr = {"screen", "x", "y", "at"}
  BY <1>1 DEF wr
<1>4. Settled(wr).screen = IF wr.y >= Height THEN Scrolled(put.screen) ELSE put.screen
  BY <1>2, <1>3
<1> QED BY <1>4 DEF wr

(* Before there is a mouse cursor no cell is swapped, and no task prints. *)
MarkedInv ==
  /\ phase # "on" => Inside = {}
  /\ phase = "start" => SwapSet(screen) = {}
  /\ phase # "start" /\ ~disturbed => SwapSet(screen) = {Marked}

LEMMA MarkedOnScreen ==
  ASSUME NEW p \in [x : 0 .. Width - 1, y : 0 .. Height - 1]
  PROVE  Width * p.y + p.x \in Cells
<1>1. PICK a \in 0 .. Width - 1, b \in 0 .. Height - 1 : a = p.x /\ b = p.y
  OBVIOUS
<1>2. b * Width + a \in Cells
  BY CellOnScreen
<1>3. Width * b = b * Width
  BY SizeAssumption
<1> QED BY <1>1, <1>2, <1>3

LEMMA MarkedStep == TypeOK /\ MarkedInv /\ [Next]_vars => MarkedInv'
<1> SUFFICES ASSUME TypeOK, MarkedInv, [Next]_vars PROVE MarkedInv' OBVIOUS
<1>0. screen \in Screen /\ Marked \in Cells /\ SwapSet(screen) \subseteq Cells
  BY MarkedOnScreen DEF TypeOK, SwapSet, Marked
<1>1. ASSUME NEW c \in Letter \cup {Newline, Backspace}, PrintAlone(c) PROVE MarkedInv'
  <2> DEFINE put == Put([screen |-> screen, x |-> x, y |-> y], c)
             row == Wrapped(put).y
  <2>1. put \in Round /\ WritesOne(screen, x, y, put)
    BY PutTyped, PutWrites DEF TypeOK
  <2>2. /\ screen' = Settled(Wrapped(put)).screen /\ UNCHANGED <<pointer, phase, pc>>
        /\ disturbed' = (disturbed \/ (phase # "start" /\ (put.at = Marked \/ row >= Height)))
    BY <1>1 DEF PrintAlone
  <2> HIDE DEF put
  <2>3. screen' = IF row >= Height THEN Scrolled(put.screen) ELSE put.screen
    BY <2>1, <2>2, SettledScreen
  <2>4. put.screen \in Screen /\ put.at \in Int
    BY <2>1 DEF Round
  <2>5. SwapSet(put.screen) \in {SwapSet(screen), SwapSet(screen) \ {put.at}}
    BY <1>0, <2>1, <2>4, WriteSwaps DEF WritesOne
  <2> HIDE DEF row
  <2>6. phase = "start" => SwapSet(screen') = {}
    <3>1. phase = "start" => SwapSet(put.screen) = {}
      BY <2>5 DEF MarkedInv
    <3> QED BY <2>3, <2>4, <3>1, ScrollSwaps
  <2>7. phase # "start" /\ ~disturbed' => SwapSet(screen') = {Marked}
    BY <2>2, <2>3, <2>5 DEF MarkedInv
  <2>8. Marked' = Marked /\ Inside' = Inside
    BY <2>2 DEF Marked, Inside
  <2> QED BY <2>2, <2>6, <2>7, <2>8 DEF MarkedInv
<1>2. ASSUME NEW t \in Task, EnterPrintf(t) PROVE MarkedInv'
  BY <1>2 DEF EnterPrintf, MarkedInv, Marked
<1>3. ASSUME NEW t \in Task, pc[t] # "out" PROVE phase = "on"
  BY <1>3 DEF MarkedInv, Inside, TypeOK
<1>4. ASSUME NEW t \in Task, WriteCell(t) PROVE MarkedInv'
  <2>1. /\ phase = "on" /\ UNCHANGED <<pointer, phase>>
        /\ screen' = Write(screen, y * Width + x, TaskLetter[t])
        /\ disturbed' = (disturbed \/ y * Width + x = Marked)
    BY <1>3, <1>4 DEF WriteCell
  <2>2. SwapSet(screen') = SwapSet(screen) \ {y * Width + x}
    <3>1. y * Width + x \in Int
      BY SizeAssumption DEF TypeOK
    <3> QED BY <1>0, <2>1, <3>1, WriteSwaps
  <2> QED BY <2>1, <2>2 DEF MarkedInv, Marked
<1>5. ASSUME NEW t \in Task, Scroll(t) PROVE MarkedInv'
  BY <1>3, <1>5 DEF Scroll, MarkedInv
<1>6. ASSUME NEW t \in Task,
             \/ LoadX(t) \/ StoreX(t) \/ TestX(t) \/ ClearX(t)
             \/ LoadY(t) \/ StoreY(t) \/ TestY(t) \/ Settle(t)
      PROVE  MarkedInv'
  <2>1. pc[t] # "out" /\ UNCHANGED <<screen, pointer, phase, disturbed>>
    BY <1>6 DEF LoadX, StoreX, TestX, ClearX, LoadY, StoreY, TestY, Settle, Access, history
  <2> QED BY <1>3, <2>1 DEF MarkedInv, Marked
<1>7. ASSUME ConstructPointer PROVE MarkedInv'
  <2>1. /\ phase = "start" /\ phase' = "pointer" /\ screen' = Swap(screen, Marked)
        /\ UNCHANGED <<pointer, pc>>
    BY <1>7 DEF ConstructPointer
  <2>2. SwapSet(screen') = {Marked}
    BY <1>0, <2>1, SwapSwaps DEF MarkedInv
  <2> QED BY <2>1, <2>2 DEF MarkedInv, Marked, Inside
<1>8. ASSUME InterruptsOn PROVE MarkedInv'
  BY <1>8 DEF InterruptsOn, MarkedInv, Marked, history
<1>9. ASSUME NEW dx \in Offset, NEW dy \in Offset, OnMouseMove(dx, dy) PROVE MarkedInv'
  <2>1. pointer' \in [x : 0 .. Width - 1, y : 0 .. Height - 1]
    BY TypeStep DEF TypeOK
  <2>2. PICK to \in Cells : to = Width * pointer'.y + pointer'.x
    BY <2>1, MarkedOnScreen
  <2>3. phase = "on" /\ phase' = "on" /\ disturbed' = disturbed
    BY <1>9 DEF OnMouseMove, history
  <2>4. screen' = Swap(Swap(screen, Marked), to) /\ Marked' = to
    BY <1>9, <2>2 DEF OnMouseMove, PointerMoved, Marked
  <2> DEFINE erased == Swap(screen, Marked)
  <2>5. erased \in Screen
    <3>1. Marked \in Int
      BY <1>0, SizeAssumption DEF Cells
    <3> QED BY <1>0, <3>1, ScreenTyped
  <2>6. ~disturbed => SwapSet(erased) = {}
    BY <1>0, <2>3, SwapSwaps DEF MarkedInv
  <2> HIDE DEF erased
  <2>7. ~disturbed => SwapSet(Swap(erased, to)) = {to}
    BY <2>2, <2>5, <2>6, SwapSwaps
  <2>8. ~disturbed' => SwapSet(screen') = {Marked'}
    BY <2>3, <2>4, <2>7 DEF erased
  <2> QED BY <2>3, <2>8 DEF MarkedInv
<1>10. CASE UNCHANGED vars
  BY <1>10 DEF vars, MarkedInv, Marked, Inside, history
<1> QED BY <1>1, <1>2, <1>4, <1>5, <1>6, <1>7, <1>8, <1>9, <1>10 DEF Next, Printf

(* As long as nothing is printed on the mouse cursor and nothing scrolls,  *)
(* the mouse cursor is the one cell whose colours are swapped: every move  *)
(* erases the previous one, for every screen and every movement.           *)
THEOREM CursorMarkedAlways == Spec => []CursorMarked
<1>1. Init => MarkedInv
  BY DEF Init, MarkedInv, Inside, SwapSet, Cell
<1>2. MarkedInv => CursorMarked
  BY DEF MarkedInv, CursorMarked, SwapSet, SwappedCells
<1> QED BY TypeInit, TypeStep, MarkedStep, <1>1, <1>2, PTL DEF Spec

-----------------------------------------------------------------------------
(* The text.  Matches: the screen shows the rows of the paper from top on, *)
(* and the next place is n cells after the first.  n is one past the last  *)
(* cell where the paper still has to follow.                               *)

Paper == [pen : Nat, top : Nat, ink : [Places -> Letter \cup {Blank}]]

Matches(scr, n, p) ==
  /\ scr \in Screen /\ p \in Paper /\ p.top <= MaxPrinted
  /\ n \in 0 .. Width * Height /\ p.pen = p.top * Width + n
  /\ \A i \in Cells : scr[i].ch = p.ink[p.top * Width + i]
  /\ \A j \in Places : j >= (p.top + Height) * Width => p.ink[j] = Blank

LEMMA Divided ==
  ASSUME NEW k \in Nat \ {0}, NEW q \in Nat, NEW r \in 0 .. k - 1
  PROVE  (q * k + r) \div k = q
<1> DEFINE n == q * k + r
           p == n \div k
           s == n % k
<1>1. n \in Nat
  OBVIOUS
<1>2. n = k * p + s /\ s \in 0 .. k - 1 /\ p \in Nat
  BY <1>1
<1>3. q * k + r = k * p + s
  BY <1>2
<1> HIDE DEF n, p, s
<1>4. k * (q - p) = s - r
  BY <1>2, <1>3
<1>5. ASSUME q - p >= 1 PROVE FALSE
  <2>1. k * (q - p) >= k
    BY <1>2, <1>5
  <2> QED BY <1>2, <1>4, <2>1
<1>6. ASSUME q - p <= -1 PROVE FALSE
  <2>1. k * (q - p) <= -k
    BY <1>2, <1>6
  <2> QED BY <1>2, <1>4, <2>1
<1>7. q = p
  BY <1>2, <1>5, <1>6
<1> QED BY <1>7 DEF p, n

(* Where the cells of the screen are on the paper. *)
LEMMA PlacesAre ==
  ASSUME NEW top \in Nat, top <= MaxPrinted
  PROVE  /\ top * Width \in Nat /\ Width * Height \in Nat /\ Height * Width = Width * Height
         /\ (top + Height) * Width = top * Width + Width * Height
         /\ (top + 1) * Width = top * Width + Width
         /\ \A i \in Cells : top * Width + i \in Places
         /\ Places \subseteq Nat
<1>1. PICK w \in Nat, h \in Nat, m \in Nat : w = Width /\ h = Height /\ m = MaxPrinted /\ w > 0 /\ h > 0
  BY SizeAssumption, BoundAssumption
<1>2. /\ top * w \in Nat /\ w * h \in Nat /\ h * w = w * h
      /\ (top + h) * w = top * w + w * h /\ (top + 1) * w = top * w + w
  BY <1>1
<1>3. top * w <= m * w /\ m * w \in Nat
  BY <1>1
<1>4. (h + m) * w = w * h + m * w
  BY <1>1
<1>5. Cells = 0 .. w * h - 1 /\ Places = 0 .. (h + m) * w - 1
  BY <1>1 DEF Cells, Places, Rows
<1>6. \A i \in Cells : top * w + i \in Places
  BY <1>2, <1>3, <1>4, <1>5
<1>7. Places \subseteq Nat
  BY <1>5
<1> QED BY <1>1, <1>2, <1>6, <1>7

LEMMA LetterMatches ==
  ASSUME NEW scr, NEW n, NEW p, Matches(scr, n, p), n < Width * Height, NEW c \in Letter
  PROVE  Matches(Write(scr, n, c), n + 1, Inked(p, c)) /\ Inked(p, c).top = p.top
<1> DEFINE q == Inked(p, c)
           new == Write(scr, n, c)
           ink == [p.ink EXCEPT ![p.pen] = c]
<1>1. c # Newline /\ c # Backspace
  BY CharAssumption
<1>2. q = [p EXCEPT !.pen = p.pen + 1, !.ink = ink]
  BY <1>1 DEF Inked
<1>3. PICK b \in Nat, w \in Nat : b = p.top * Width /\ w = Width * Height
  BY PlacesAre DEF Matches, Paper
<1>4. /\ n \in Cells /\ p.pen = b + n /\ Cells = 0 .. w - 1 /\ (p.top + Height) * Width = b + w
      /\ \A i \in Cells : b + i \in Places
  BY <1>3, PlacesAre DEF Matches, Paper, Cells
<1>5. /\ ink \in [Places -> Letter \cup {Blank}] /\ ink[p.pen] = c
      /\ \A j \in Places : j # p.pen => ink[j] = p.ink[j]
  BY <1>4 DEF Matches, Paper
<1> HIDE DEF ink
<1>6. q \in Paper /\ q.pen = p.pen + 1 /\ q.top = p.top /\ q.ink = ink
  <2>1. p.pen + 1 \in Nat
    BY <1>3, <1>4
  <2> QED BY <1>2, <1>5, <2>1 DEF Matches, Paper
<1>7. new \in Screen
  <2>1. n \in Int /\ c \in Letter \cup {Blank}
    BY <1>4
  <2> QED BY <2>1, ScreenTyped DEF Matches
<1>8. new[n].ch = c /\ \A i \in Cells : i # n => new[i].ch = scr[i].ch
  BY <1>4 DEF Matches, Write, Screen, Cell
<1> HIDE DEF q, new
<1>9. \A i \in Cells : new[i].ch = q.ink[b + i]
  <2> SUFFICES ASSUME NEW i \in Cells PROVE new[i].ch = q.ink[b + i]
    OBVIOUS
  <2>1. CASE i = n
    BY <1>4, <1>5, <1>6, <1>8, <2>1
  <2>2. CASE i # n
    <3>1. b + i # p.pen /\ b + i \in Places
      BY <1>4, <2>2
    <3>2. scr[i].ch = p.ink[b + i]
      BY <1>3 DEF Matches
    <3> QED BY <1>5, <1>6, <1>8, <2>2, <3>1, <3>2
  <2> QED BY <2>1, <2>2
<1>10. ASSUME NEW j \in Places, j >= b + w PROVE q.ink[j] = Blank
  <2>1. j # p.pen
    BY <1>4, <1>10
  <2>2. p.ink[j] = Blank
    BY <1>4, <1>10 DEF Matches
  <2> QED BY <1>5, <1>6, <2>1, <2>2
<1>11. n + 1 \in 0 .. w /\ q.pen = b + (n + 1)
  BY <1>4, <1>6
<1>12. Matches(new, n + 1, q)
  BY <1>3, <1>4, <1>6, <1>7, <1>9, <1>10, <1>11 DEF Matches
<1> QED BY <1>6, <1>12 DEF new, q

LEMMA BackspaceMatches ==
  ASSUME NEW scr, NEW n, NEW p, Matches(scr, n, p), n < Width * Height,
         NEW m, m = IF n = 0 THEN 0 ELSE n - 1
  PROVE  Matches(Write(scr, m, Blank), m, Inked(p, Backspace)) /\ Inked(p, Backspace).top = p.top
<1> DEFINE q == Inked(p, Backspace)
           new == Write(scr, m, Blank)
           back == IF p.pen = p.top * Width THEN p.pen ELSE p.pen - 1
           ink == [p.ink EXCEPT ![back] = Blank]
<1>2. q = [p EXCEPT !.pen = back, !.ink = ink]
  BY DEF Inked, Newline, Backspace
<1>3. PICK b \in Nat, w \in Nat : b = p.top * Width /\ w = Width * Height
  BY PlacesAre DEF Matches, Paper
<1>4. /\ m \in Cells /\ back = b + m /\ Cells = 0 .. w - 1 /\ (p.top + Height) * Width = b + w
      /\ \A i \in Cells : b + i \in Places
  BY <1>3, PlacesAre DEF Matches, Paper, Cells
<1> HIDE DEF back
<1>5. /\ ink \in [Places -> Letter \cup {Blank}] /\ ink[back] = Blank
      /\ \A j \in Places : j # back => ink[j] = p.ink[j]
  BY <1>4 DEF Matches, Paper
<1> HIDE DEF ink
<1>6. q \in Paper /\ q.pen = back /\ q.top = p.top /\ q.ink = ink
  <2>1. back \in Nat
    BY <1>3, <1>4
  <2> QED BY <1>2, <1>5, <2>1 DEF Matches, Paper
<1>7. new \in Screen
  <2>1. m \in Int /\ Blank \in Letter \cup {Blank}
    BY <1>4
  <2> QED BY <2>1, ScreenTyped DEF Matches
<1>8. new[m].ch = Blank /\ \A i \in Cells : i # m => new[i].ch = scr[i].ch
  BY <1>4 DEF Matches, Write, Screen, Cell
<1> HIDE DEF q, new
<1>9. \A i \in Cells : new[i].ch = q.ink[b + i]
  <2> SUFFICES ASSUME NEW i \in Cells PROVE new[i].ch = q.ink[b + i]
    OBVIOUS
  <2>1. CASE i = m
    BY <1>4, <1>5, <1>6, <1>8, <2>1
  <2>2. CASE i # m
    <3>1. b + i # back /\ b + i \in Places
      BY <1>4, <2>2
    <3>2. scr[i].ch = p.ink[b + i]
      BY <1>3 DEF Matches
    <3> QED BY <1>5, <1>6, <1>8, <2>2, <3>1, <3>2
  <2> QED BY <2>1, <2>2
<1>10. ASSUME NEW j \in Places, j >= b + w PROVE q.ink[j] = Blank
  <2>1. j # back
    BY <1>4, <1>10
  <2>2. p.ink[j] = Blank
    BY <1>4, <1>10 DEF Matches
  <2> QED BY <1>5, <1>6, <2>1, <2>2
<1>11. m \in 0 .. w /\ q.pen = b + m
  BY <1>4, <1>6
<1>12. Matches(new, m, q)
  BY <1>3, <1>4, <1>6, <1>7, <1>9, <1>10, <1>11 DEF Matches
<1> QED BY <1>6, <1>12 DEF new, q

LEMMA NewlineMatches ==
  ASSUME NEW scr, NEW p, NEW a \in 0 .. Width - 1, NEW b \in 0 .. Height - 1,
         Matches(scr, b * Width + a, p)
  PROVE  Matches(scr, (b + 1) * Width, Inked(p, Newline)) /\ Inked(p, Newline).top = p.top
<1> DEFINE q == Inked(p, Newline)
<1>1. q = [p EXCEPT !.pen = (p.pen \div Width + 1) * Width]
  BY DEF Inked, Newline, Backspace
<1>2. p.top \in Nat /\ p \in Paper
  BY DEF Matches, Paper
<1>3. PICK w \in Nat, h \in Nat, t \in Nat : w = Width /\ h = Height /\ t = p.top /\ w > 0 /\ h > 0
  <2> DEFINE top == p.top
  <2> HIDE DEF top
  <2>2. top \in Nat
    BY <1>2 DEF top
  <2>3. \E w \in Nat, h \in Nat, t \in Nat : w = Width /\ h = Height /\ t = top /\ w > 0 /\ h > 0
    BY <2>2, SizeAssumption
  <2> QED BY <2>3 DEF top
<1>4. p.pen = (t + b) * w + a
  BY <1>3 DEF Matches
<1>5. p.pen \div w = t + b
  <2>1. t + b \in Nat /\ w \in Nat \ {0} /\ a \in 0 .. w - 1
    BY <1>3
  <2> QED BY <1>4, <2>1, Divided
<1>6. (t + b + 1) * w = t * w + (b + 1) * w /\ (t + b + 1) * w \in Nat
  BY <1>3
<1>7. (b + 1) * w <= h * w /\ (b + 1) * w \in Nat /\ h * w = w * h
  <2>1. b + 1 <= h /\ b + 1 \in Nat
    BY <1>3
  <2> QED BY <1>3, <2>1
<1>8. q \in Paper /\ q.pen = t * w + (b + 1) * w /\ q.top = p.top /\ q.ink = p.ink
  BY <1>1, <1>2, <1>3, <1>5, <1>6 DEF Paper
<1> HIDE DEF q
<1>9. Matches(scr, (b + 1) * Width, q)
  <2>1. (b + 1) * Width \in 0 .. Width * Height
    BY <1>3, <1>7
  <2> QED BY <1>3, <1>8, <2>1 DEF Matches
<1> QED BY <1>8, <1>9 DEF q

(* With the next place on the screen there is nothing to follow. *)
LEMMA FollowedStays ==
  ASSUME NEW scr, NEW n, NEW p, Matches(scr, n, p), n < Width * Height
  PROVE  Followed(p) = p
<1>1. PICK w \in Nat, h \in Nat, t \in Nat : w = Width /\ h = Height /\ t = p.top /\ w > 0 /\ h > 0
  <2>1. p.top \in Nat
    BY DEF Matches, Paper
  <2> DEFINE top == p.top
  <2> HIDE DEF top
  <2>2. top \in Nat
    BY <2>1 DEF top
  <2>3. \E w \in Nat, h \in Nat, t \in Nat : w = Width /\ h = Height /\ t = top /\ w > 0 /\ h > 0
    BY <2>2, SizeAssumption
  <2> QED BY <2>3 DEF top
<1>2. PICK v \in Nat, r \in 0 .. w - 1 : n = v * w + r
  <2>1. n \in Nat
    BY <1>1 DEF Matches
  <2>2. n \div w \in Nat /\ n % w \in 0 .. w - 1 /\ n = w * (n \div w) + (n % w)
    BY <1>1, <2>1
  <2>3. w * (n \div w) = (n \div w) * w
    BY <1>1, <2>2
  <2> QED BY <2>2, <2>3
<1>3. v < h
  <2>1. v * w < w * h
    BY <1>1, <1>2
  <2>2. ASSUME v >= h PROVE FALSE
    <3>1. v * w >= h * w
      BY <1>1, <1>2, <2>2
    <3> QED BY <1>1, <1>2, <2>1, <3>1
  <2> QED BY <1>1, <1>2, <2>2
<1>4. p.pen = (t + v) * w + r
  BY <1>1, <1>2 DEF Matches
<1>5. p.pen \div w = t + v
  <2>1. t + v \in Nat /\ w \in Nat \ {0}
    BY <1>1
  <2> QED BY <1>4, <2>1, Divided
<1>6. ~(t + v >= t + h)
  BY <1>1, <1>3
<1> QED BY <1>1, <1>5, <1>6 DEF Followed

(* With the next place just below the last row, the paper goes up by one   *)
(* row, as the screen does.                                                *)
LEMMA FollowedScrolls ==
  ASSUME NEW scr, NEW p, Matches(scr, Width * Height, p), p.top < MaxPrinted
  PROVE  /\ Matches(Scrolled(scr), (Height - 1) * Width, Followed(p))
         /\ Followed(p).top = p.top + 1
<1> DEFINE q == Followed(p)
           new == Scrolled(scr)
<1>1. PICK w \in Nat, h \in Nat, t \in Nat : w = Width /\ h = Height /\ t = p.top /\ w > 0 /\ h > 0
  <2>1. p.top \in Nat
    BY DEF Matches, Paper
  <2> DEFINE top == p.top
  <2> HIDE DEF top
  <2>2. top \in Nat
    BY <2>1 DEF top
  <2>3. \E w \in Nat, h \in Nat, t \in Nat : w = Width /\ h = Height /\ t = top /\ w > 0 /\ h > 0
    BY <2>2, SizeAssumption
  <2> QED BY <2>3 DEF top
<1>2. p.pen = (t + h) * w + 0
  BY <1>1 DEF Matches
<1>3. p.pen \div w = t + h
  <2>1. t + h \in Nat /\ w \in Nat \ {0} /\ 0 \in 0 .. w - 1
    BY <1>1
  <2> QED BY <1>2, <2>1, Divided
<1>4. q = [p EXCEPT !.top = t + 1]
  <2>1. t + h >= t + h /\ t + h - h + 1 = t + 1
    BY <1>1
  <2> QED BY <1>1, <1>3, <2>1 DEF Followed
<1>5. q \in Paper /\ q.pen = p.pen /\ q.ink = p.ink /\ q.top = t + 1
  BY <1>1, <1>4 DEF Matches, Paper
<1> HIDE DEF q
<1>6. PICK b \in Nat, z \in Nat : b = t * w /\ z = w * h
  BY <1>1
<1>7. /\ (t + 1) * w = b + w /\ (t + h) * w = b + z /\ (h - 1) * w = z - w /\ z >= w
      /\ (t + 1 + h) * w = b + w + z
  <2>1. h * w >= w
    BY <1>1
  <2> QED BY <1>1, <1>6, <2>1
<1>8. Cells = 0 .. z - 1 /\ (\A i \in Cells : b + w + i \in Places) /\ Places \subseteq Nat
  <2>1. t + 1 \in Nat /\ t + 1 <= MaxPrinted
    BY <1>1, BoundAssumption
  <2>2. (\A i \in Cells : (t + 1) * Width + i \in Places) /\ Places \subseteq Nat
    BY <2>1, PlacesAre
  <2> QED BY <1>1, <1>6, <1>7, <2>2 DEF Cells
<1>9. new \in Screen
  <2>1. 0 \in Int
    OBVIOUS
  <2> QED BY <2>1, ScreenTyped DEF Matches
<1>10. ASSUME NEW i \in Cells PROVE new[i].ch = q.ink[b + w + i]
  <2>1. CASE i + w \in Cells
    <3>1. new[i] = scr[i + w]
      BY <1>1, <2>1 DEF Scrolled
    <3>2. scr[i + w].ch = p.ink[b + (i + w)]
      BY <1>1, <1>6, <2>1 DEF Matches
    <3>3. b + (i + w) = b + w + i
      BY <1>1, <1>6, <1>8
    <3> QED BY <1>5, <3>1, <3>2, <3>3
  <2>2. CASE i + w \notin Cells
    <3>1. new[i].ch = Blank
      BY <1>1, <2>2 DEF Scrolled, Cell
    <3>2. b + w + i >= b + z /\ b + w + i \in Places
      BY <1>1, <1>6, <1>8, <2>2
    <3>3. p.ink[b + w + i] = Blank
      BY <1>1, <1>7, <3>2 DEF Matches
    <3> QED BY <1>5, <3>1, <3>3
  <2> QED BY <2>1, <2>2
<1>11. ASSUME NEW j \in Places, j >= b + w + z PROVE q.ink[j] = Blank
  <2>1. j >= b + z
    BY <1>1, <1>6, <1>8, <1>11
  <2> QED BY <1>1, <1>5, <1>7, <2>1 DEF Matches
<1> HIDE DEF new
<1>12. /\ z - w \in 0 .. z /\ q.pen = b + w + (z - w)
  BY <1>1, <1>2, <1>5, <1>6, <1>7
<1>13. q.top <= MaxPrinted
  BY <1>1, <1>5, BoundAssumption
<1>14. Matches(new, (Height - 1) * Width, q)
  BY <1>1, <1>5, <1>6, <1>7, <1>9, <1>10, <1>11, <1>12, <1>13 DEF Matches
<1> QED BY <1>1, <1>5, <1>14 DEF q, new

(* The mouse cursor changes no text. *)
LEMMA SwapMatches ==
  ASSUME NEW scr, NEW n, NEW p, Matches(scr, n, p), NEW j \in Cells
  PROVE  Matches(Swap(scr, j), n, p)
<1>1. Swap(scr, j) \in Screen
  <2>1. j \in Int
    BY SizeAssumption DEF Cells
  <2> QED BY <2>1, ScreenTyped DEF Matches
<1>2. \A i \in Cells : Swap(scr, j)[i].ch = scr[i].ch
  BY DEF Matches, Swap, Screen
<1> QED BY <1>1, <1>2 DEF Matches

(* The paper shows what the screen will once it has scrolled, if it must. *)
Due(scr, n, p, k) == \E q : Matches(scr, n, q) /\ p = Followed(q) /\ q.top < k

(* How screen and cursor <<a, b>> stand to the paper p of k characters,    *)
(* with a task at the given point of printf that has loaded v, or with     *)
(* nobody inside ("out").                                                  *)
TextAt(point, v, scr, a, b, p, k) ==
  /\ a \in 0 .. Width /\ b \in 0 .. Height
  /\ point \in {"out", "write", "loadX", "storeX", "loadY", "storeY", "testY"} => a < Width
  /\ point \in {"out", "write", "loadX", "storeX", "testX", "clearX", "loadY", "storeY"} => b < Height
  /\ point = "out"   => Matches(scr, b * Width + a, p) /\ p.top <= k
  /\ point = "write" => Matches(scr, b * Width + a, p) /\ p.top < k
  /\ point \in {"loadX", "storeX"} => Due(scr, b * Width + a + 1, p, k)
  /\ point \in {"testX", "clearX", "testY", "scroll"} => Due(scr, b * Width + a, p, k)
  /\ point \in {"loadY", "storeY"} => a = 0 /\ Due(scr, (b + 1) * Width, p, k)
  /\ point = "storeX" => v = a
  /\ point = "storeY" => v = b
  /\ point = "clearX" => a = Width
  /\ point = "scroll" => b = Height
  /\ point = "settle" => a = 0 /\ Matches(scr, (Height - 1) * Width, p) /\ p.top <= k

TextInv ==
  ~overlapped =>
    /\ printed \in 0 .. MaxPrinted
    /\ Inside = {} => TextAt("out", 0, screen, x, y, paper, printed)
    /\ \A t \in Inside : TextAt(pc[t], tmp[t], screen, x, y, paper, printed)

(* Where the round is when nobody interrupts it. *)
RoundAt(m, p, k) ==
  m.x \in 0 .. Width /\ m.y \in 0 .. Height /\ (m.y = Height => m.x = 0)
  /\ Due(m.screen, m.y * Width + m.x, p, k)

LEMMA PutShows ==
  ASSUME NEW s \in Screen, NEW a \in 0 .. Width - 1, NEW b \in 0 .. Height - 1, NEW p,
         NEW k, NEW c \in Letter \cup {Newline, Backspace},
         Matches(s, b * Width + a, p), p.top < k
  PROVE  RoundAt(Put([screen |-> s, x |-> a, y |-> b], c), Rolled(p, c), k)
<1> DEFINE put == Put([screen |-> s, x |-> a, y |-> b], c)
           q == Inked(p, c)
<1>0. PICK w \in Nat, h \in Nat : w = Width /\ h = Height /\ w > 0 /\ h > 0 /\ w < 256 /\ h < 256
  BY SizeAssumption, ByteAssumption
<1>1. b * w + a \in 0 .. w * h - 1
  BY <1>0, CellOnScreen DEF Cells
<1>2. Byte(a + 1) = a + 1 /\ Byte(b + 1) = b + 1
  BY <1>0 DEF Byte
<1>3. CASE c \in Letter
  <2>1. put = [screen |-> Write(s, b * Width + a, c), x |-> a + 1, y |-> b, at |-> b * Width + a]
    BY <1>2, <1>3, CharAssumption DEF Put
  <2>2. Matches(Write(s, b * Width + a, c), b * Width + a + 1, q) /\ q.top = p.top
    BY <1>0, <1>1, <1>3, LetterMatches
  <2> HIDE DEF put, q
  <2>3. /\ put.screen = Write(s, b * Width + a, c) /\ put.x = a + 1 /\ put.y = b
        /\ b * Width + (a + 1) = b * Width + a + 1
    BY <1>0, <2>1
  <2>4. Matches(put.screen, put.y * Width + put.x, q) /\ q.top < k
    BY <2>2, <2>3
  <2>5. put.x \in 0 .. Width /\ put.y \in 0 .. Height /\ put.y # Height
    BY <1>0, <2>3
  <2> QED BY <2>4, <2>5 DEF RoundAt, Due, Rolled, put, q
<1>4. CASE c = Newline
  <2>1. put = [screen |-> s, x |-> 0, y |-> b + 1, at |-> -1]
    BY <1>2, <1>4 DEF Put, Newline, Backspace
  <2>2. Matches(s, (b + 1) * Width, q) /\ q.top = p.top
    BY <1>4, NewlineMatches
  <2> HIDE DEF put, q
  <2>3. put.screen = s /\ put.x = 0 /\ put.y = b + 1 /\ (b + 1) * Width + 0 = (b + 1) * Width
    BY <1>0, <2>1
  <2>4. Matches(put.screen, put.y * Width + put.x, q) /\ q.top < k
    BY <2>2, <2>3
  <2>5. put.x \in 0 .. Width /\ put.y \in 0 .. Height /\ put.x = 0
    BY <1>0, <2>3
  <2> QED BY <2>4, <2>5 DEF RoundAt, Due, Rolled, put, q
<1>5. CASE c = Backspace
  <2> DEFINE n == b * Width + a
             ax == IF a > 0 THEN a - 1 ELSE IF b > 0 THEN Width - 1 ELSE 0
             ay == IF a = 0 /\ b > 0 THEN b - 1 ELSE b
             m == ay * Width + ax
  <2>1. put = [screen |-> Write(s, m, Blank), x |-> ax, y |-> ay, at |-> m]
    BY <1>5 DEF Put, Erased, Newline, Backspace
  <2>2. ax \in 0 .. Width - 1 /\ ay \in 0 .. Height - 1
    BY <1>0
  <2>3. m = IF n = 0 THEN 0 ELSE n - 1
    <3>1. CASE a > 0
      <4>1. b * w \in Nat
        BY <1>0
      <4> QED BY <1>0, <3>1, <4>1
    <3>2. CASE a = 0 /\ b = 0
      BY <1>0, <3>2
    <3>3. CASE a = 0 /\ b > 0
      <4>1. (b - 1) * w + (w - 1) = b * w - 1 /\ b * w >= w
        BY <1>0, <3>3
      <4> QED BY <1>0, <3>3, <4>1
    <3> QED BY <1>0, <3>1, <3>2, <3>3
  <2>4. n < Width * Height
    BY <1>0, <1>1
  <2> HIDE DEF n, m, ax, ay
  <2>5. Matches(s, n, p)
    BY DEF n
  <2>6. Matches(Write(s, m, Blank), m, q) /\ q.top = p.top
    BY <1>5, <2>3, <2>4, <2>5, BackspaceMatches
  <2> HIDE DEF put, q
  <2>7. put.screen = Write(s, m, Blank) /\ put.x = ax /\ put.y = ay
    BY <2>1
  <2>8. Matches(put.screen, put.y * Width + put.x, q) /\ q.top < k
    BY <2>6, <2>7 DEF m
  <2>9. put.x \in 0 .. Width /\ put.y \in 0 .. Height /\ put.y # Height
    BY <1>0, <2>2, <2>7
  <2> QED BY <2>8, <2>9 DEF RoundAt, Due, Rolled, put, q
<1> QED BY <1>3, <1>4, <1>5

LEMMA WrappedShows ==
  ASSUME NEW m \in Round, NEW p, NEW k, RoundAt(m, p, k)
  PROVE  /\ RoundAt(Wrapped(m), p, k) /\ Wrapped(m).x < Width
         /\ Wrapped(m) \in Round
<1>0. PICK w \in Nat, h \in Nat : w = Width /\ h = Height /\ w > 0 /\ h > 0 /\ w < 256 /\ h < 256
  BY SizeAssumption, ByteAssumption
<1>1. CASE m.x < w
  BY <1>0, <1>1 DEF Wrapped, RoundAt, Round
<1>2. CASE ~(m.x < w)
  <2>0. PICK a \in 0 .. w, b \in 0 .. h : a = m.x /\ b = m.y /\ (b = h => a = 0)
    BY <1>0 DEF RoundAt
  <2>1. m.x = w /\ m.y \in 0 .. h - 1 /\ m.x >= Width
    BY <1>0, <1>2, <2>0
  <2>2. Byte(m.y + 1) = m.y + 1
    BY <1>0, <2>1 DEF Byte
  <2> DEFINE wr == Wrapped(m)
  <2>3. wr = [m EXCEPT !.x = 0, !.y = m.y + 1]
    BY <2>1, <2>2 DEF Wrapped
  <2> HIDE DEF wr
  <2>4. wr.screen = m.screen /\ wr.x = 0 /\ wr.y = m.y + 1 /\ wr \in Round
    <3>1. m.y + 1 \in 0 .. 255
      BY <1>0, <2>1
    <3>2. wr = [screen |-> m.screen, x |-> 0, y |-> m.y + 1, at |-> m.at]
      BY <2>3 DEF Round
    <3>3. 0 \in 0 .. 255
      OBVIOUS
    <3> QED BY <3>1, <3>2, <3>3 DEF Round
  <2>5. wr.y * w + wr.x = m.y * w + m.x
    <3>1. (m.y + 1) * w + 0 = m.y * w + w
      BY <1>0, <2>1
    <3> QED BY <2>1, <2>4, <3>1
  <2>6. RoundAt(wr, p, k)
    BY <1>0, <2>1, <2>4, <2>5 DEF RoundAt
  <2> QED BY <1>0, <2>4, <2>6 DEF wr
<1> QED BY <1>0, <1>1, <1>2 DEF RoundAt

LEMMA SettledShows ==
  ASSUME NEW m \in Round, NEW p, NEW k \in Nat, k <= MaxPrinted, RoundAt(m, p, k), m.x < Width
  PROVE  LET end == Settled(m)
         IN  TextAt("out", 0, end.screen, end.x, end.y, p, k)
<1>0. PICK w \in Nat, h \in Nat : w = Width /\ h = Height /\ w > 0 /\ h > 0 /\ w < 256 /\ h < 256
  BY SizeAssumption, ByteAssumption
<1> DEFINE end == Settled(m)
<1>1. PICK q : Matches(m.screen, m.y * w + m.x, q) /\ p = Followed(q) /\ q.top < k
  BY <1>0 DEF RoundAt, Due
<1>2. q.top \in Nat
  BY <1>1 DEF Matches, Paper
<1>3. CASE m.y < h
  <2>1. end = m
    BY <1>0, <1>3 DEF Settled, RoundAt
  <2>2. m.y * w + m.x < Width * Height
    <3>1. m.x \in 0 .. Width - 1 /\ m.y \in 0 .. Height - 1
      BY <1>0, <1>3 DEF RoundAt
    <3>2. m.y * Width + m.x \in Cells
      BY <3>1, CellOnScreen
    <3> QED BY <1>0, <3>2 DEF Cells
  <2>3. p = q
    BY <1>1, <2>2, FollowedStays
  <2> HIDE DEF end
  <2>4. p.top <= k
    BY <1>1, <1>2, <2>3
  <2>5. end.x \in 0 .. Width /\ end.y \in 0 .. Height /\ end.x < Width /\ end.y < Height
    BY <1>0, <1>3, <2>1 DEF RoundAt
  <2> QED BY <1>0, <1>1, <2>1, <2>3, <2>4, <2>5 DEF TextAt, end
<1>4. CASE ~(m.y < h)
  <2>1. m.y = h /\ m.x = 0 /\ h * w + 0 = w * h
    BY <1>0, <1>4 DEF RoundAt
  <2>2. end = [m EXCEPT !.screen = Scrolled(m.screen), !.y = h - 1]
    BY <1>0, <2>1 DEF Settled
  <2> HIDE DEF end
  <2>3. end.screen = Scrolled(m.screen) /\ end.x = 0 /\ end.y = h - 1
    BY <2>1, <2>2 DEF Round
  <2>4. Matches(m.screen, Width * Height, q) /\ q.top < MaxPrinted
    <3>1. q.top < MaxPrinted
      BY <1>1, <1>2, BoundAssumption
    <3> QED BY <1>0, <1>1, <2>1, <3>1
  <2>5. Matches(end.screen, (h - 1) * w, p) /\ p.top = q.top + 1
    BY <1>0, <1>1, <2>3, <2>4, FollowedScrolls
  <2>6. p.top <= k /\ end.y * w + end.x = (h - 1) * w
    <3>1. (h - 1) * w \in Int
      BY <1>0
    <3> QED BY <1>1, <1>2, <2>3, <2>5, <3>1
  <2>7. end.x \in 0 .. Width /\ end.y \in 0 .. Height /\ end.x < Width /\ end.y < Height
    BY <1>0, <2>3
  <2> QED BY <1>0, <2>5, <2>6, <2>7 DEF TextAt, end
<1> QED BY <1>3, <1>4

(* With one task inside at most, that task's place decides. *)
LEMMA TextClosed ==
  ASSUME TypeOK, OnePrinting, ~overlapped, NEW t \in Inside,
         \A u \in Task : u # t => pc'[u] = pc[u],
         printed' \in 0 .. MaxPrinted,
         TextAt(pc'[t], tmp'[t], screen', x', y', paper', printed')
  PROVE  TextInv'
<1>1. Inside' \subseteq {t}
  BY DEF OnePrinting, Inside
<1>2. t \in Task
  BY DEF Inside
<1>3. CASE Inside' = {}
  <2>1. pc'[t] = "out"
    BY <1>2, <1>3 DEF Inside
  <2>2. TextAt("out", 0, screen', x', y', paper', printed')
    BY <2>1 DEF TextAt
  <2> QED BY <1>3, <2>2 DEF TextInv
<1>4. CASE Inside' = {t}
  BY <1>4 DEF TextInv
<1> QED BY <1>1, <1>3, <1>4

LEMMA DueSwap ==
  ASSUME NEW scr, NEW n, NEW p, NEW k, Due(scr, n, p, k), NEW j \in Cells
  PROVE  Due(Swap(scr, j), n, p, k)
BY SwapMatches DEF Due

LEMMA TextSwap ==
  ASSUME NEW point, NEW v, NEW scr, NEW a, NEW b, NEW p, NEW k,
         TextAt(point, v, scr, a, b, p, k), NEW j \in Cells
  PROVE  TextAt(point, v, Swap(scr, j), a, b, p, k)
BY SwapMatches, DueSwap DEF TextAt

(* An access to the cursor by the one task inside. *)
LEMMA TextAccess ==
  ASSUME TypeOK, OnePrinting, TextInv, ~overlapped', NEW t \in Task,
         \/ LoadX(t) \/ StoreX(t) \/ TestX(t) \/ ClearX(t)
         \/ LoadY(t) \/ StoreY(t) \/ TestY(t) \/ Settle(t)
  PROVE  TextInv'
<1>0. PICK w \in Nat, h \in Nat : w = Width /\ h = Height /\ w > 0 /\ h > 0 /\ w < 256 /\ h < 256
  BY SizeAssumption, ByteAssumption
<1>1. /\ pc[t] # "out" /\ UNCHANGED <<screen, paper, printed, overlapped>>
      /\ \A u \in Task : u # t => pc'[u] = pc[u]
  BY Accesses DEF LoadX, StoreX, TestX, ClearX, LoadY, StoreY, TestY, Settle, Access, history
<1>2. t \in Inside /\ ~overlapped /\ printed' \in 0 .. MaxPrinted
  BY <1>1 DEF Inside, TextInv
<1>3. TextAt(pc[t], tmp[t], screen, x, y, paper, printed)
  BY <1>2 DEF TextInv
<1>4. x \in 0 .. w /\ y \in 0 .. h
  BY <1>0, <1>3 DEF TextAt
<1>5. SUFFICES TextAt(pc'[t], tmp'[t], screen, x', y', paper, printed)
  BY <1>1, <1>2, TextClosed
<1>6. pc \in [Task -> Points] /\ tmp \in [Task -> 0 .. 255]
  BY DEF TypeOK
<1>7. CASE LoadX(t)
  <2>1. pc[t] = "loadX" /\ pc'[t] = "storeX" /\ tmp'[t] = x /\ x' = x /\ y' = y
    BY <1>6, <1>7 DEF LoadX, Access
  <2> QED BY <1>3, <2>1 DEF TextAt
<1>8. CASE StoreX(t)
  <2>1. pc[t] = "storeX" /\ pc'[t] = "testX" /\ x' = Byte(tmp[t] + 1) /\ y' = y
    BY <1>6, <1>8 DEF StoreX, Access
  <2>2. tmp[t] = x /\ x < w /\ y < h /\ Due(screen, y * Width + x + 1, paper, printed)
    BY <1>0, <1>3, <2>1 DEF TextAt
  <2>3. x' = x + 1
    <3>1. PICK a \in 0 .. w : a = x /\ a < w
      BY <1>0, <1>4, <2>2
    <3>2. Byte(a + 1) = a + 1
      BY <1>0, <3>1 DEF Byte
    <3> QED BY <2>1, <2>2, <3>1, <3>2
  <2>4. y * Width + x + 1 = y * Width + x'
    BY <1>0, <1>4, <2>3
  <2>5. x' \in 0 .. Width /\ y' \in 0 .. Height /\ y' < Height /\ Due(screen, y' * Width + x', paper, printed)
    BY <1>0, <1>4, <2>1, <2>2, <2>3, <2>4
  <2> QED BY <2>1, <2>5 DEF TextAt
<1>9. CASE TestX(t)
  <2>1. /\ pc[t] = "testX" /\ pc'[t] = (IF x >= Width THEN "clearX" ELSE "testY")
        /\ x' = x /\ y' = y
    BY <1>6, <1>9 DEF TestX, Access
  <2>2. x >= Width => x = Width
    BY <1>0, <1>4
  <2>3. ~(x >= Width) => x < Width
    BY <1>0, <1>4
  <2> QED BY <1>3, <2>1, <2>2, <2>3 DEF TextAt
<1>10. CASE ClearX(t)
  <2>1. pc[t] = "clearX" /\ pc'[t] = "loadY" /\ x' = 0 /\ y' = y
    BY <1>6, <1>10 DEF ClearX, Access
  <2>2. x = Width /\ y < Height /\ Due(screen, y * Width + x, paper, printed)
    BY <1>3, <2>1 DEF TextAt
  <2>3. y * Width + x = (y + 1) * Width
    BY <1>0, <1>4, <2>2
  <2>4. 0 \in 0 .. Width /\ 0 < Width /\ y \in 0 .. Height /\ Due(screen, (y + 1) * Width, paper, printed)
    BY <1>0, <1>4, <2>2, <2>3
  <2> QED BY <2>1, <2>2, <2>4 DEF TextAt
<1>11. CASE LoadY(t)
  <2>1. pc[t] = "loadY" /\ pc'[t] = "storeY" /\ tmp'[t] = y /\ x' = x /\ y' = y
    BY <1>6, <1>11 DEF LoadY, Access
  <2> QED BY <1>3, <2>1 DEF TextAt
<1>12. CASE StoreY(t)
  <2>1. pc[t] = "storeY" /\ pc'[t] = "testY" /\ x' = x /\ y' = Byte(tmp[t] + 1)
    BY <1>6, <1>12 DEF StoreY, Access
  <2>2. tmp[t] = y /\ x = 0 /\ y < h /\ Due(screen, (y + 1) * Width, paper, printed)
    BY <1>0, <1>3, <2>1 DEF TextAt
  <2>3. y' = y + 1
    BY <1>0, <1>4, <2>1, <2>2 DEF Byte
  <2>4. (y + 1) * Width = y' * Width + x'
    BY <1>0, <1>4, <2>1, <2>2, <2>3
  <2>5. x' \in 0 .. Width /\ x' < Width /\ y' \in 0 .. Height /\ Due(screen, y' * Width + x', paper, printed)
    BY <1>0, <1>4, <2>1, <2>2, <2>3, <2>4
  <2> QED BY <2>1, <2>5 DEF TextAt
<1>13. CASE TestY(t)
  <2>1. /\ pc[t] = "testY" /\ pc'[t] = (IF y >= Height THEN "scroll" ELSE "out")
        /\ x' = x /\ y' = y
    BY <1>6, <1>13 DEF TestY, Access
  <2>2. x < w /\ Due(screen, y * Width + x, paper, printed)
    BY <1>0, <1>3, <2>1 DEF TextAt
  <2>3. CASE y >= Height
    <3>1. y = Height
      BY <1>0, <1>4, <2>3
    <3> QED BY <1>3, <2>1, <2>2, <2>3, <3>1 DEF TextAt
  <2>4. CASE ~(y >= Height)
    <3>1. y < h
      BY <1>0, <1>4, <2>4
    <3>2. PICK q : Matches(screen, y * Width + x, q) /\ paper = Followed(q) /\ q.top < printed
      BY <2>2 DEF Due
    <3>3. y * Width + x < Width * Height
      <4>1. x \in 0 .. Width - 1 /\ y \in 0 .. Height - 1
        BY <1>0, <1>4, <2>2, <3>1
      <4>2. y * Width + x \in Cells
        BY <4>1, CellOnScreen
      <4> QED BY <1>0, <4>2 DEF Cells
    <3>4. paper = q
      BY <3>2, <3>3, FollowedStays
    <3>5. q.top \in Nat /\ printed \in Nat
      BY <1>2, <3>2, BoundAssumption DEF Matches, Paper, TextInv
    <3>6. paper.top <= printed /\ Matches(screen, y * Width + x, paper)
      BY <3>2, <3>4, <3>5
    <3>7. x < Width /\ y < Height /\ x \in 0 .. Width /\ y \in 0 .. Height
      BY <1>0, <1>4, <2>2, <3>1
    <3> QED BY <2>1, <2>4, <3>6, <3>7 DEF TextAt
  <2> QED BY <2>3, <2>4
<1>14. CASE Settle(t)
  <2>1. pc[t] = "settle" /\ pc'[t] = "out" /\ x' = x /\ y' = Height - 1
    BY <1>6, <1>14 DEF Settle, Access
  <2>2. x = 0 /\ Matches(screen, (Height - 1) * Width, paper) /\ paper.top <= printed
    BY <1>3, <2>1 DEF TextAt
  <2>3. y' * Width + x' = (Height - 1) * Width
    BY <1>0, <2>1, <2>2
  <2>4. x' \in 0 .. Width /\ x' < Width /\ y' \in 0 .. Height /\ y' < Height
    BY <1>0, <2>1, <2>2
  <2> QED BY <2>1, <2>2, <2>3, <2>4 DEF TextAt
<1> QED BY <1>7, <1>8, <1>9, <1>10, <1>11, <1>12, <1>13, <1>14

LEMMA TextStep == TypeOK /\ Owed /\ OnePrinting /\ TextInv /\ [Next]_vars => TextInv'
<1> SUFFICES ASSUME TypeOK, Owed, OnePrinting, TextInv, [Next]_vars, ~overlapped' PROVE TextInv'
  BY DEF TextInv
<1>0. PICK w \in Nat, h \in Nat : w = Width /\ h = Height /\ w > 0 /\ h > 0 /\ w < 256 /\ h < 256
  BY SizeAssumption, ByteAssumption
<1>1. ASSUME NEW c \in Letter \cup {Newline, Backspace}, PrintAlone(c) PROVE TextInv'
  <2>1. ~overlapped /\ Inside = {} /\ pc' = pc /\ printed' = printed + 1 /\ printed < MaxPrinted
    BY <1>1 DEF PrintAlone
  <2>2. /\ printed \in 0 .. MaxPrinted /\ x \in 0 .. Width - 1 /\ y \in 0 .. Height - 1
        /\ Matches(screen, y * Width + x, paper) /\ paper.top <= printed /\ screen \in Screen
    BY <1>0, <2>1 DEF TextInv, TextAt, TypeOK
  <2>3. paper.top < printed' /\ printed' \in 0 .. MaxPrinted
    BY <2>1, <2>2, BoundAssumption DEF Matches, Paper
  <2> DEFINE put == Put([screen |-> screen, x |-> x, y |-> y], c)
             wr  == Wrapped(put)
             end == Settled(wr)
             k   == printed'
             p   == Rolled(paper, c)
  <2>4. screen' = end.screen /\ x' = end.x /\ y' = end.y /\ paper' = p
    BY <1>1 DEF PrintAlone
  <2> HIDE DEF k
  <2>5. paper.top < k /\ k \in Nat /\ k <= MaxPrinted
    BY <2>3, BoundAssumption DEF k
  <2>6. RoundAt(put, p, k)
    BY <2>2, <2>5, PutShows
  <2>7. put \in Round
    BY PutTyped DEF TypeOK
  <2> HIDE DEF put, p
  <2>8. RoundAt(wr, p, k) /\ wr.x < Width /\ wr \in Round
    BY <2>6, <2>7, WrappedShows
  <2> HIDE DEF wr
  <2>9. TextAt("out", 0, end.screen, end.x, end.y, p, k)
    BY <2>5, <2>8, SettledShows
  <2> HIDE DEF end
  <2>10. TextAt("out", 0, screen', x', y', paper', printed')
    BY <2>4, <2>9 DEF k
  <2>11. Inside' = {}
    BY <2>1 DEF Inside
  <2> QED BY <2>3, <2>10, <2>11 DEF TextInv
<1>2. ASSUME NEW t \in Task, EnterPrintf(t) PROVE TextInv'
  <2>1. /\ ~overlapped /\ Inside = {} /\ printed' = printed + 1 /\ printed < MaxPrinted
        /\ UNCHANGED <<screen, x, y, paper, tmp>>
    BY <1>2 DEF EnterPrintf, cursor
  <2>2. pc'[t] = "write" /\ Inside' = {t}
    BY <1>2, <2>1 DEF EnterPrintf, TypeOK, Inside
  <2>3. /\ printed \in 0 .. MaxPrinted /\ x \in 0 .. Width /\ y \in 0 .. Height /\ x < Width /\ y < Height
        /\ Matches(screen, y * Width + x, paper) /\ paper.top <= printed
    BY <2>1 DEF TextInv, TextAt
  <2>4. paper.top < printed' /\ printed' \in 0 .. MaxPrinted
    BY <2>1, <2>3, BoundAssumption DEF Matches, Paper
  <2>5. TextAt("write", tmp'[t], screen', x', y', paper', printed')
    BY <2>1, <2>3, <2>4 DEF TextAt
  <2> QED BY <2>2, <2>4, <2>5 DEF TextInv
<1>3. ASSUME NEW t \in Task, WriteCell(t) PROVE TextInv'
  <2>1. /\ pc[t] = "write" /\ pc'[t] = "loadX" /\ \A u \in Task : u # t => pc'[u] = pc[u]
        /\ UNCHANGED <<x, y, tmp, printed, overlapped>>
        /\ screen' = Write(screen, y * Width + x, TaskLetter[t])
        /\ paper' = Rolled(paper, TaskLetter[t])
    BY <1>3 DEF WriteCell, TypeOK, cursor
  <2>2. t \in Inside /\ ~overlapped
    BY <2>1 DEF Inside
  <2>3. /\ x \in 0 .. Width /\ y \in 0 .. Height /\ x < Width /\ y < Height
        /\ Matches(screen, y * Width + x, paper) /\ paper.top < printed /\ printed \in 0 .. MaxPrinted
    BY <2>1, <2>2 DEF TextInv, TextAt
  <2>4. y * Width + x < Width * Height
    <3>1. x \in 0 .. Width - 1 /\ y \in 0 .. Height - 1
      BY <1>0, <2>3
    <3>2. y * Width + x \in Cells
      BY <3>1, CellOnScreen
    <3> QED BY <1>0, <3>2 DEF Cells
  <2> DEFINE q == Inked(paper, TaskLetter[t])
  <2>5. Matches(screen', y * Width + x + 1, q) /\ q.top = paper.top
    <3>1. TaskLetter[t] \in Letter
      BY LetterAssumption
    <3> DEFINE n == y * Width + x
    <3>2. Matches(screen, n, paper) /\ n < Width * Height /\ screen' = Write(screen, n, TaskLetter[t])
      BY <2>1, <2>3, <2>4
    <3> HIDE DEF n
    <3>3. Matches(screen', n + 1, q) /\ q.top = paper.top
      BY <3>1, <3>2, LetterMatches
    <3> QED BY <3>3 DEF n
  <2>6. paper' = Followed(q)
    BY <2>1 DEF Rolled
  <2> HIDE DEF q
  <2>7. Due(screen', y * Width + x + 1, paper', printed)
    BY <2>3, <2>5, <2>6 DEF Due
  <2>8. TextAt("loadX", tmp'[t], screen', x', y', paper', printed')
    BY <2>1, <2>3, <2>7 DEF TextAt
  <2> QED BY <2>1, <2>2, <2>3, <2>8, TextClosed
<1>4. ASSUME NEW t \in Task, Scroll(t) PROVE TextInv'
  <2>1. /\ pc[t] = "scroll" /\ pc'[t] = "settle" /\ \A u \in Task : u # t => pc'[u] = pc[u]
        /\ UNCHANGED <<x, y, tmp, paper, printed, overlapped>>
        /\ screen' = Scrolled(screen)
    BY <1>4 DEF Scroll, TypeOK, cursor
  <2>2. t \in Inside /\ ~overlapped
    BY <2>1 DEF Inside
  <2>3. /\ x \in 0 .. w /\ y = h /\ Due(screen, y * w + x, paper, printed) /\ printed \in 0 .. MaxPrinted
    BY <1>0, <2>1, <2>2 DEF TextInv, TextAt
  <2>4. PICK q : Matches(screen, y * w + x, q) /\ paper = Followed(q) /\ q.top < printed
    BY <2>3 DEF Due
  <2>5. y * w + x <= w * h
    BY <1>0, <2>4 DEF Matches
  <2>6. x = 0 /\ y * w + x = w * h
    <3>1. h * w = w * h /\ h * w \in Nat
      BY <1>0
    <3> QED BY <1>0, <2>3, <2>5, <3>1
  <2>7. q.top \in Nat /\ q.top < MaxPrinted
    <3>1. q.top \in Nat
      BY <2>4 DEF Matches, Paper
    <3> QED BY <2>3, <2>4, <3>1, BoundAssumption
  <2>8. Matches(screen', (Height - 1) * Width, paper) /\ paper.top = q.top + 1
    BY <1>0, <2>1, <2>4, <2>6, <2>7, FollowedScrolls
  <2>9. paper.top <= printed
    BY <2>3, <2>4, <2>7, <2>8, BoundAssumption
  <2>10. 0 \in 0 .. Width /\ y \in 0 .. Height
    BY <1>0, <2>3
  <2>11. TextAt("settle", tmp'[t], screen', x', y', paper', printed')
    BY <2>1, <2>6, <2>8, <2>9, <2>10 DEF TextAt
  <2> QED BY <2>1, <2>2, <2>3, <2>11, TextClosed
<1>5. ASSUME NEW t \in Task,
             \/ LoadX(t) \/ StoreX(t) \/ TestX(t) \/ ClearX(t)
             \/ LoadY(t) \/ StoreY(t) \/ TestY(t) \/ Settle(t)
      PROVE  TextInv'
  BY <1>5, TextAccess
<1>6. ASSUME UNCHANGED <<cursor, pc, tmp, printed, paper, overlapped>>,
             screen' = screen \/ \E i \in Cells, j \in Cells : screen' = Swap(screen, i) \/ screen' = Swap(Swap(screen, i), j)
      PROVE  TextInv'
  <2>1. \A point, v : TextAt(point, v, screen, x, y, paper, printed) => TextAt(point, v, screen', x, y, paper, printed)
    BY <1>6, TextSwap
  <2>2. Inside' = Inside
    BY <1>6 DEF Inside
  <2> QED BY <1>6, <2>1, <2>2 DEF TextInv, cursor
<1>7. Marked \in Cells
  BY MarkedOnScreen DEF TypeOK, Marked
<1>8. ASSUME ConstructPointer PROVE TextInv'
  BY <1>6, <1>7, <1>8 DEF ConstructPointer, history
<1>9. ASSUME InterruptsOn PROVE TextInv'
  BY <1>6, <1>9 DEF InterruptsOn, history
<1>10. ASSUME NEW dx \in Offset, NEW dy \in Offset, OnMouseMove(dx, dy) PROVE TextInv'
  <2>1. pointer' \in [x : 0 .. Width - 1, y : 0 .. Height - 1]
    BY TypeStep DEF TypeOK
  <2>2. PICK to \in Cells : to = Width * pointer'.y + pointer'.x
    BY <2>1, MarkedOnScreen
  <2>3. screen' = Swap(Swap(screen, Marked), to)
    BY <1>10, <2>2 DEF OnMouseMove, PointerMoved
  <2> QED BY <1>6, <1>7, <1>10, <2>3 DEF OnMouseMove, history
<1>11. CASE UNCHANGED vars
  <2>1. UNCHANGED <<cursor, pc, tmp, printed, paper, overlapped>> /\ screen' = screen
    BY <1>11 DEF vars, cursor, history
  <2> QED BY <1>6, <2>1
<1> QED BY <1>1, <1>2, <1>3, <1>4, <1>5, <1>8, <1>9, <1>10, <1>11 DEF Next, Printf

LEMMA TextInit == Init => TextInv
<1> SUFFICES ASSUME Init PROVE TextInv OBVIOUS
<1>0. PICK w \in Nat, h \in Nat : w = Width /\ h = Height /\ w > 0 /\ h > 0
  BY SizeAssumption
<1>1. /\ x = 0 /\ y = 0 /\ printed = 0 /\ paper = EmptyRoll /\ screen \in Screen
      /\ \A i \in Cells : screen[i].ch = Blank
  BY TypeInit DEF Init, Cell, TypeOK
<1>2. /\ paper \in Paper /\ paper.pen = 0 /\ paper.top = 0 /\ \A j \in Places : paper.ink[j] = Blank
  BY <1>1 DEF EmptyRoll, Paper
<1>3. 0 * Width = 0 /\ 0 * Width + 0 = 0 /\ 0 \in 0 .. Width * Height /\ 0 <= MaxPrinted
  BY <1>0, BoundAssumption
<1>4. \A i \in Cells : 0 * Width + i \in Places
  BY <1>3, PlacesAre
<1>5. Matches(screen, y * Width + x, paper)
  BY <1>1, <1>2, <1>3, <1>4 DEF Matches
<1>6. x < Width /\ y < Height /\ x \in 0 .. Width /\ y \in 0 .. Height /\ printed \in 0 .. MaxPrinted
      /\ paper.top <= printed
  BY <1>0, <1>1, <1>2, BoundAssumption
<1>7. Inside = {}
  BY DEF Init, Inside
<1> QED BY <1>5, <1>6, <1>7 DEF TextInv, TextAt

(* The screen shows the last rows of what was printed, and the cursor is   *)
(* where the next character goes, as long as no two printfs overlap: for   *)
(* every size of screen and any number of tasks and characters.            *)
THEOREM ShowsTextAlways == Spec => []ShowsText
<1>1. Init => Owed /\ OnePrinting
  BY SizeAssumption DEF Init, Owed, OnePrinting, Inside
<1>2. TextInv => ShowsText
  <2> SUFFICES ASSUME TextInv, ~overlapped, Inside = {}
               PROVE  /\ y * Width + x = paper.pen - paper.top * Width
                      /\ \A i \in Cells : screen[i].ch = paper.ink[paper.top * Width + i]
    BY DEF ShowsText
  <2>1. Matches(screen, y * Width + x, paper) /\ x \in 0 .. Width /\ y \in 0 .. Height
    BY DEF TextInv, TextAt
  <2>2. paper.pen = paper.top * Width + (y * Width + x)
    BY <2>1 DEF Matches
  <2>3. paper.top * Width \in Nat /\ y * Width + x \in Int
    <3>1. y \in Int /\ x \in Int
      BY <2>1, SizeAssumption
    <3>2. paper.top \in Nat /\ paper.top <= MaxPrinted
      BY <2>1 DEF Matches, Paper
    <3> QED BY <3>1, <3>2, PlacesAre, SizeAssumption
  <2> QED BY <2>1, <2>2, <2>3 DEF Matches
<1> QED BY TypeInit, TypeStep, OwedStep, OnePrintingStep, TextInit, TextStep, <1>1, <1>2, PTL DEF Spec
=============================================================================
