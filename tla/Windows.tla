-------------------------------- MODULE Windows --------------------------------
(***************************************************************************)
(* The desktop and its windows as the mouse moves them: the widget tree of *)
(* src/src/gui (widget.cpp, window.cpp, desktop.cpp) that kernelMain       *)
(* builds, a desktop with windows that have no children, and the packets   *)
(* MouseDriver::HandleInterrupt hands to it.                               *)
(*                                                                         *)
(* The number of a window is its place among the desktop's children.  The  *)
(* first child that contains a point gets its events, and is drawn last.   *)
(* OnMouseDown of a composite widget gives nobody the focus, so every key  *)
(* ends at the desktop's focusedChild, which is 0: keys change nothing.    *)
(***************************************************************************)
EXTENDS Integers

CONSTANTS
  N,              \* windows: kernelMain has two
  Width, Height,  \* 320 and 200
  Size,           \* the size [w, h] of each window
  Start,          \* where each window is put
  Button,         \* the mouse buttons in use: a subset of 1 .. 3
  Motion,         \* the movements a packet may report
  MaxPackets      \* bound: mouse packets

Window == 1 .. N
Left   == 1
Point  == [x : Int, y : Int]

ASSUME CountAssumption  == N \in 1 .. 100
ASSUME SizeAssumption   == Width \in Nat \ {0} /\ Height \in Nat \ {0}
ASSUME WindowAssumption == Size \in [Window -> [w : Nat \ {0}, h : Nat \ {0}]]
ASSUME StartAssumption  == Start \in [Window -> [x : 0 .. Width - 1, y : 0 .. Height - 1]]
ASSUME ButtonAssumption == Button \subseteq 1 .. 3
ASSUME MotionAssumption == Motion \subseteq -128 .. 128
ASSUME BoundAssumption  == MaxPackets \in Nat

VARIABLES
  pos,       \* x and y of each window
  dragging,  \* Window::dragging
  mouse,     \* MouseX and MouseY
  buttons,   \* MouseDriver::buttons: those down in the last packet
  covered,   \* history: windows during whose drag the mouse was over another one
  packets    \* packets so far

widgets == <<pos, dragging, mouse, buttons, covered, packets>>

WindowsInit ==
  /\ pos = Start
  /\ dragging = [w \in Window |-> FALSE]
  /\ mouse = [x |-> Width \div 2, y |-> Height \div 2]
  /\ buttons = {} /\ covered = {} /\ packets = 0

ContainsCoordinate(at, w, p) ==
  /\ at[w].x <= p.x /\ p.x < at[w].x + Size[w].w
  /\ at[w].y <= p.y /\ p.y < at[w].y + Size[w].h

(* The child an event at p goes to: a set of at most one window. *)
Front(at, p) ==
  {w \in Window : /\ ContainsCoordinate(at, w, p)
                  /\ \A v \in 1 .. w - 1 : ~ContainsCoordinate(at, v, p)}

Shifted(p, from, to) == [x |-> p.x + to.x - from.x, y |-> p.y + to.y - from.y]

(* Window::OnMouseMove of the windows ws. *)
WindowsMoved(at, ws, from, to) ==
  [w \in Window |-> IF w \in ws /\ dragging[w] THEN Shifted(at[w], from, to) ELSE at[w]]

(* Mutant: without the test that the two children differ. *)
MovedTwice(at, from, to) ==
  LET once == WindowsMoved(at, Front(at, from), from, to)
  IN  WindowsMoved(once, Front(once, to), from, to)

(* CompositeWidget::OnMouseMove. *)
Moved(at, from, to) ==
  LET first == Front(at, from)
      once  == WindowsMoved(at, first, from, to)
  IN  WindowsMoved(once, Front(once, to) \ first, from, to)

(* d /= 4, towards zero. *)
Slowed(d) == IF d >= 0 THEN d \div 4 ELSE -((-d) \div 4)

(* Mutant: the border may be reached, v > limit for v >= limit. *)
OntoBorder(v, limit) == IF v < 0 THEN 0 ELSE IF v > limit THEN limit - 1 ELSE v

(* Mutant: there is no border. *)
NoBorder(v, limit) == v

(* The four tests of Desktop::OnMouseMove. *)
Clipped(v, limit) == IF v < 0 THEN 0 ELSE IF v >= limit THEN limit - 1 ELSE v

(* Where Desktop::OnMouseMove takes the mouse. *)
MouseTo(dx, dy) ==
  [x |-> Clipped(mouse.x + Slowed(dx), Width), y |-> Clipped(mouse.y + Slowed(dy), Height)]

(* Mutant: any button starts a drag. *)
AnyButton(drag, ws, b, down) ==
  [w \in Window |-> IF w \in ws THEN down ELSE drag[w]]

(* Window::OnMouseDown and Window::OnMouseUp of the windows ws. *)
OnButton(drag, ws, b, down) ==
  [w \in Window |-> IF w \in ws THEN down /\ b = Left ELSE drag[w]]

(* One round of the driver's loop over the buttons. *)
Compared(drag, ws, b, now) ==
  IF (b \in now) = (b \in buttons) THEN drag ELSE OnButton(drag, ws, b, b \in now)

(* MouseDriver::HandleInterrupt, with the third byte of a packet: the      *)
(* movement, then the buttons, in a handler nothing interrupts.  That      *)
(* OnMouseMove is called only for a movement other than 0 changes nothing. *)
MousePacket(dx, dy, now) ==
  /\ packets < MaxPackets /\ packets' = packets + 1
  /\ mouse' = MouseTo(dx, dy)
  /\ pos' = Moved(pos, mouse, mouse')
  /\ LET ws == Front(pos', mouse')
     IN  /\ dragging' = Compared(Compared(Compared(dragging, ws, 1, now), ws, 2, now), ws, 3, now)
         /\ covered' = {w \in Window : /\ dragging[w] /\ dragging'[w]
                                       /\ w \in covered \/ ws \ {w} # {}}
  /\ buttons' = now

-----------------------------------------------------------------------------

WidgetsTypeOK ==
  /\ pos \in [Window -> Point]
  /\ dragging \in [Window -> BOOLEAN]
  /\ mouse \in [x : 0 .. Width - 1, y : 0 .. Height - 1]
  /\ buttons \subseteq Button
  /\ covered \subseteq Window
  /\ packets \in 0 .. MaxPackets

(* A window that is being dragged, and over which the mouse has met no     *)
(* other window since, is the one the mouse points at, and the left button *)
(* is down: no drag outlives its button.                                   *)
DragFollowsMouse ==
  \A w \in Window \ covered : dragging[w] => w \in Front(pos, mouse) /\ Left \in buttons

(* The frontmost window can always be trusted: nothing covers it. *)
FrontNeverCovered == 1 \notin covered

OnDesktop(p, w) == p.x \in 1 - Size[w].w .. Width - 1 /\ p.y \in 1 - Size[w].h .. Height - 1

(* No window is lost: some part of it stays on the desktop, for the mouse  *)
(* to take it by.  Only a drag that was left under another window, where   *)
(* its button-up went, can push a window out: OnMouseMove then shifts it   *)
(* when the mouse comes to it from outside.                                *)
Reachable == \A w \in Window \ covered : OnDesktop(pos[w], w)

(* A window moves only while it is dragged, and exactly as far as the      *)
(* mouse, also where the border stops the mouse.                           *)
MovesWithMouse ==
  [][\A w \in Window : pos'[w] # pos[w] =>
       dragging[w] /\ pos'[w] = Shifted(pos[w], mouse, mouse')]_widgets
=============================================================================
