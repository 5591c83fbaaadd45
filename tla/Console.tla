-------------------------------- MODULE Console --------------------------------
(***************************************************************************)
(* The text console of src/src/kernel.cpp: printf with its static cursor,  *)
(* ScrollUp, and the mouse cursor MouseToConsole shows by swapping the     *)
(* colours of a cell.                                                      *)
(*                                                                         *)
(* kernelMain prints with interrupts off, and the keyboard's handler with  *)
(* interrupts disabled by its gate: both are alone while they print.  A    *)
(* task that prints (the TaskA and TaskB kept in a comment of kernel.cpp   *)
(* "for testing multitasking") can be preempted between any two accesses   *)
(* to the cursor, by another task or by a handler; x++ and y++ are a load  *)
(* and a store.  Two things are coarser than the code: finding the cell    *)
(* and writing it is one step, and so is ScrollUp.  An interruption inside *)
(* either can only change the screen after one printf has been entered     *)
(* inside another, or the colours of a cell that is being written, where   *)
(* no property below speaks.                                               *)
(*                                                                         *)
(* A cell holds a character and whether its colours are swapped; what the  *)
(* boot loader leaves on the screen is taken as blank.                     *)
(***************************************************************************)
EXTENDS Integers

CONSTANTS
  Task,         \* the tasks that print
  Width, Height, \* 80 and 25
  Letter,       \* characters other than newline and backspace
  TaskLetter,   \* the character each task prints
  Offset,       \* the movements the mouse may report
  IntMax,       \* the largest value of the mouse cursor's type: 127
  MaxPrinted    \* bound: characters printed

ASSUME SizeAssumption   == Width \in Nat \ {0} /\ Height \in Nat \ {0}
ASSUME IntAssumption    == IntMax \in Nat /\ Width <= IntMax + 1 /\ Height <= IntMax + 1
ASSUME LetterAssumption == TaskLetter \in [Task -> Letter]
ASSUME OffsetAssumption == Offset \subseteq Int
ASSUME ByteAssumption   == Width < 256 /\ Height < 256
ASSUME BoundAssumption  == MaxPrinted \in Nat

VARIABLES
  screen,   \* the visible part of VideoMemory
  x, y,     \* printf's static cursor: uint8_t
  pointer,  \* MouseToConsole's x and y
  phase,    \* "start", "pointer" once MouseToConsole exists, "on"
  pc, tmp,  \* where each task is in printf, and the value it has loaded
  printed,     \* history: how many characters have been printed
  paper,       \* history: what they show on an endless roll of paper
  overlapped,  \* history: printf was entered while a task was inside it
  stray,       \* history: something was written beyond the last row
  disturbed    \* history: the cell with swapped colours was printed on or scrolled

cursor  == <<x, y>>
history == <<printed, paper, overlapped, stray, disturbed>>
vars    == <<screen, x, y, pointer, phase, pc, tmp, history>>

Newline   == "newline"
Backspace == "backspace"
Blank     == "blank"
ASSUME CharAssumption == {Newline, Backspace, Blank} \cap Letter = {}

Cells == 0 .. Width * Height - 1
Cell(ch) == [ch |-> ch, swapped |-> FALSE]
Byte(n)  == n % 256
Marked   == Width * pointer.y + pointer.x
Inside   == {t \in Task : pc[t] # "out"}

(* What the screen is compared with: the text on an endless roll of paper. *)
(* pen is the next place, top the first row that can be seen, ink what has *)
(* been written.  A character is on the paper when it is on the screen.    *)
Rows == Height + MaxPrinted
Places == 0 .. Rows * Width - 1
EmptyRoll == [pen |-> 0, top |-> 0, ink |-> [i \in Places |-> Blank]]

(* The character is on the paper, and the next place moves. *)
Inked(p, c) ==
  CASE c = Newline   -> [p EXCEPT !.pen = (p.pen \div Width + 1) * Width]
    [] c = Backspace -> LET back == IF p.pen = p.top * Width THEN p.pen ELSE p.pen - 1
                        IN  [p EXCEPT !.pen = back, !.ink = [p.ink EXCEPT ![back] = Blank]]
    [] OTHER         -> [p EXCEPT !.pen = p.pen + 1, !.ink = [p.ink EXCEPT ![p.pen] = c]]

(* The rows that can be seen follow the next place. *)
Followed(p) ==
  LET row == p.pen \div Width
  IN  IF row >= p.top + Height THEN [p EXCEPT !.top = row - Height + 1] ELSE p

Rolled(p, c) == Followed(Inked(p, c))

Init ==
  /\ screen = [i \in Cells |-> Cell(Blank)]
  /\ x = 0 /\ y = 0
  /\ pointer = [x |-> Width \div 2, y |-> Height \div 2]
  /\ phase = "start"
  /\ pc = [t \in Task |-> "out"] /\ tmp = [t \in Task |-> 0]
  /\ printed = 0 /\ paper = EmptyRoll
  /\ overlapped = FALSE /\ stray = FALSE /\ disturbed = FALSE

-----------------------------------------------------------------------------
(* What one round of printf's loop does when it is not interrupted: the    *)
(* pieces are functions of the console m = [screen, x, y].                 *)

Write(scr, i, ch) == IF i \in Cells THEN [scr EXCEPT ![i] = Cell(ch)] ELSE scr

(* Mutant: the last row is not cleared. *)
ScrolledWithoutClear(scr) ==
  [i \in Cells |-> IF i + Width \in Cells THEN scr[i + Width] ELSE scr[i]]

(* ScrollUp. *)
Scrolled(scr) ==
  [i \in Cells |-> IF i + Width \in Cells THEN scr[i + Width] ELSE Cell(Blank)]

Erased(m) ==
  LET ax == IF m.x > 0 THEN m.x - 1 ELSE IF m.y > 0 THEN Width - 1 ELSE 0
      ay == IF m.x = 0 /\ m.y > 0 THEN m.y - 1 ELSE m.y
  IN  [screen |-> Write(m.screen, ay * Width + ax, Blank), x |-> ax, y |-> ay, at |-> ay * Width + ax]

Put(m, c) ==
  CASE c = Newline   -> [screen |-> m.screen, x |-> 0, y |-> Byte(m.y + 1), at |-> -1]
    [] c = Backspace -> Erased(m)
    [] OTHER         -> [screen |-> Write(m.screen, m.y * Width + m.x, c),
                         x |-> Byte(m.x + 1), y |-> m.y, at |-> m.y * Width + m.x]

Wrapped(m) == IF m.x >= Width THEN [m EXCEPT !.x = 0, !.y = Byte(m.y + 1)] ELSE m

(* Mutant: the test is for having passed the last row by one. *)
SettledByOne(m) ==
  IF m.y > Height THEN [m EXCEPT !.screen = Scrolled(m.screen), !.y = Height - 1] ELSE m

Settled(m) ==
  IF m.y >= Height THEN [m EXCEPT !.screen = Scrolled(m.screen), !.y = Height - 1] ELSE m

(* kernelMain, or an interrupt handler, prints character c. *)
PrintAlone(c) ==
  /\ printed < MaxPrinted
  /\ LET m == [screen |-> screen, x |-> x, y |-> y]
         put == Put(m, c)
         end == Settled(Wrapped(put))
     IN  /\ screen' = end.screen /\ x' = end.x /\ y' = end.y
         /\ stray' = (stray \/ put.at >= Width * Height)
         /\ disturbed' = (disturbed \/ (phase # "start" /\
                            (put.at = Marked \/ Wrapped(put).y >= Height)))
  /\ printed' = printed + 1 /\ paper' = Rolled(paper, c)
  /\ overlapped' = (overlapped \/ Inside # {})
  /\ UNCHANGED <<pointer, phase, pc, tmp>>

-----------------------------------------------------------------------------
(* printf in a task, one memory access at a time. *)

EnterPrintf(t) ==
  /\ phase = "on" /\ pc[t] = "out" /\ printed < MaxPrinted
  /\ pc' = [pc EXCEPT ![t] = "write"]
  /\ printed' = printed + 1
  /\ overlapped' = (overlapped \/ Inside # {})
  /\ UNCHANGED <<screen, cursor, pointer, phase, tmp, paper, stray, disturbed>>

WriteCell(t) ==
  /\ pc[t] = "write"
  /\ pc' = [pc EXCEPT ![t] = "loadX"]
  /\ LET i == y * Width + x
     IN  /\ screen' = Write(screen, i, TaskLetter[t])
         /\ stray' = (stray \/ i \notin Cells)
         /\ disturbed' = (disturbed \/ i = Marked)
  /\ paper' = Rolled(paper, TaskLetter[t])
  /\ UNCHANGED <<cursor, pointer, phase, tmp, printed, overlapped>>

Scroll(t) ==
  /\ pc[t] = "scroll"
  /\ pc' = [pc EXCEPT ![t] = "settle"]
  /\ screen' = Scrolled(screen)
  /\ disturbed' = TRUE
  /\ UNCHANGED <<cursor, pointer, phase, tmp, printed, paper, overlapped, stray>>

(* One access to the cursor: afterwards it is <<nx, ny>>, and task t has   *)
(* loaded v.                                                               *)
Access(t, from, to, nx, ny, v) ==
  /\ pc[t] = from
  /\ pc' = [pc EXCEPT ![t] = to]
  /\ x' = nx /\ y' = ny
  /\ tmp' = [tmp EXCEPT ![t] = v]
  /\ UNCHANGED <<screen, pointer, phase, history>>

LoadX(t)  == Access(t, "loadX", "storeX", x, y, x)
StoreX(t) == Access(t, "storeX", "testX", Byte(tmp[t] + 1), y, 0)
TestX(t)  == Access(t, "testX", IF x >= Width THEN "clearX" ELSE "testY", x, y, 0)
ClearX(t) == Access(t, "clearX", "loadY", 0, y, 0)
LoadY(t)  == Access(t, "loadY", "storeY", x, y, y)
StoreY(t) == Access(t, "storeY", "testY", x, Byte(tmp[t] + 1), 0)
TestY(t)  == Access(t, "testY", IF y >= Height THEN "scroll" ELSE "out", x, y, 0)

(* Mutant: the cursor is put below the last row. *)
SettleBelow(t) == Access(t, "settle", "out", x, Height, 0)

Settle(t) == Access(t, "settle", "out", x, Height - 1, 0)

Printf(t) ==
  \/ EnterPrintf(t) \/ WriteCell(t) \/ LoadX(t) \/ StoreX(t) \/ TestX(t) \/ ClearX(t)
  \/ LoadY(t) \/ StoreY(t) \/ TestY(t) \/ Scroll(t) \/ Settle(t)

-----------------------------------------------------------------------------
(* The mouse cursor. *)

Swap(scr, i) == [scr EXCEPT ![i].swapped = ~scr[i].swapped]

(* MouseToConsole::MouseToConsole. *)
ConstructPointer ==
  /\ phase = "start"
  /\ phase' = "pointer"
  /\ screen' = Swap(screen, Marked)
  /\ UNCHANGED <<cursor, pointer, pc, tmp, history>>

InterruptsOn ==
  /\ phase = "pointer"
  /\ phase' = "on"
  /\ UNCHANGED <<screen, cursor, pointer, pc, tmp, history>>

(* v as a value of the signed type of the cursor. *)
AsInt(v) == ((v + IntMax + 1) % (2 * (IntMax + 1))) - (IntMax + 1)

(* Mutant: the coordinate is kept below the limit only. *)
MovedHalfClipped(v, d, limit) ==
  LET w == AsInt(v + d) IN IF w >= limit THEN limit - 1 ELSE w

(* v += d, and the two tests. *)
Moved(v, d, limit) ==
  LET w == AsInt(v + d) IN IF w >= limit THEN limit - 1 ELSE IF w < 0 THEN 0 ELSE w

(* Mutant: the previous cursor is not erased. *)
PointerMovedWithoutErase(to) == Swap(screen, Width * to.y + to.x)

(* Previous cursor erased, new one drawn. *)
PointerMoved(to) == Swap(Swap(screen, Marked), Width * to.y + to.x)

(* MouseToConsole::OnMouseMove, from the mouse's handler. *)
OnMouseMove(dx, dy) ==
  /\ phase = "on"
  /\ pointer' = [x |-> Moved(pointer.x, dx, Width), y |-> Moved(pointer.y, dy, Height)]
  /\ screen' = PointerMoved(pointer')
  /\ UNCHANGED <<cursor, phase, pc, tmp, history>>

Next ==
  \/ \E c \in Letter \cup {Newline, Backspace} : PrintAlone(c)
  \/ \E t \in Task : Printf(t)
  \/ ConstructPointer
  \/ InterruptsOn
  \/ \E dx, dy \in Offset : OnMouseMove(dx, dy)

Spec == Init /\ [][Next]_vars

-----------------------------------------------------------------------------

Points == {"out", "write", "loadX", "storeX", "testX", "clearX", "loadY",
           "storeY", "testY", "scroll", "settle"}

Screen == [Cells -> [ch : Letter \cup {Blank}, swapped : BOOLEAN]]

TypeOK ==
  /\ screen \in Screen
  /\ x \in 0 .. 255 /\ y \in 0 .. 255
  /\ pointer \in [x : 0 .. Width - 1, y : 0 .. Height - 1]
  /\ phase \in {"start", "pointer", "on"}
  /\ pc \in [Task -> Points] /\ tmp \in [Task -> 0 .. 255]
  /\ {overlapped, stray, disturbed} \subseteq BOOLEAN

(* As long as no printf is entered while a task is inside another one,     *)
(* nothing is written outside the screen.                                  *)
OnScreen == ~overlapped => ~stray

(* Whatever tasks and handlers do to each other's cursor, whenever nobody  *)
(* is inside printf the cursor is on the screen again.                     *)
CursorRecovers == Inside = {} => x < Width /\ y < Height

(* The screen shows the last rows of what was printed, and the cursor is   *)
(* where the next character goes, as long as no two printfs overlap.       *)
ShowsText ==
  ~overlapped /\ Inside = {} =>
    /\ y * Width + x = paper.pen - paper.top * Width
    /\ \A i \in Cells : screen[i].ch = paper.ink[paper.top * Width + i]

SwappedCells == {i \in Cells : screen[i].swapped}

(* As long as nothing is printed on the mouse cursor and nothing scrolls,  *)
(* the cursor is the one cell whose colours are swapped.                   *)
CursorMarked == phase # "start" /\ ~disturbed => SwappedCells = {Marked}

(* "Erase previous cursor", kernel.cpp:171: there is never a second cell   *)
(* with swapped colours.                                                   *)
OneCursor == \A i, j \in SwappedCells : i = j
=============================================================================
