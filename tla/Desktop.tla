-------------------------------- MODULE Desktop --------------------------------
(***************************************************************************)
(* kernelMain's drawing loop (desktop.Draw(&rend); rend.display(&vga)) and *)
(* the mouse interrupts that move windows and cursor while it draws.       *)
(*                                                                         *)
(* Draw reads each position when it gets there, x before y, and a handler  *)
(* may run in between.  Filling a rectangle, the cursor and the copy to    *)
(* the screen are one step each: nothing else touches pixels, and only the *)
(* cursor reads anything twice, which can show in frames that were         *)
(* interrupted, of which no property below speaks.  A colour is a name for *)
(* its three bytes.  The cursor blinks between two colours by a count of   *)
(* frames that nothing else reads: each frame has either.                  *)
(***************************************************************************)
EXTENDS Windows

CONSTANTS
  Arm,     \* the cursor's arms: 3 pixels
  Colour   \* the colours of the windows

(* The colours GetColorIndex knows. *)
Palette == {"black", "blue", "green", "red", "gray", "white"}

ASSUME ArmAssumption    == Arm \in Nat
ASSUME ColourAssumption == Colour \in [Window -> Palette]

VARIABLES
  pixels,  \* Render::pixels, in the order of its bytes: x * Height + y
  shown,   \* the frame buffer: indices of colours
  at,      \* how far the loop is: what it does next
  child,   \* the child Draw is at
  drawX,   \* the x of that child, once it has been read
  quiet    \* history: no packet since the frame was begun

frame == <<pixels, shown, at, child, drawX, quiet>>
vars  == <<widgets, frame>>

Background == "blue"
Blink      == {"white", "gray"}
Junk       == "junk"       \* whatever is in memory before the first frame

Cells == 0 .. Width * Height - 1

Init ==
  /\ WindowsInit
  /\ pixels = [i \in Cells |-> Junk] /\ shown = [i \in Cells |-> 0]
  /\ at = "background" /\ child = N /\ drawX = 0 /\ quiet = TRUE

Screen == (0 .. Width - 1) \X (0 .. Height - 1)

(* Render::PutPixel at each of the points ps, which is pixels[x][y] for    *)
(* any x and y; what lies outside the array is not modelled.               *)
Painted(ps, colour) ==
  LET hit == {p[1] * Height + p[2] : p \in ps}
  IN  [i \in Cells |-> IF i \in hit THEN colour ELSE pixels[i]]

(* The coordinates from v on that FillRectangle visits: v + n is computed  *)
(* without sign, and wraps around to a small number if v is negative and   *)
(* the rectangle reaches beyond 0.                                         *)
Span(v, n) == IF v >= 0 \/ v + n < 0 THEN v .. v + n - 1 ELSE {}

Cross == UNION {{<<mouse.x - i, mouse.y>>, <<mouse.x + i, mouse.y>>,
                 <<mouse.x, mouse.y - i>>, <<mouse.x, mouse.y + i>>} : i \in 0 .. Arm}

(* What FillRectangle visits for window w if its x is read as x. *)
RectangleAt(x, w) == Span(x, Size[w].w) \X Span(pos[w].y, Size[w].h)

Rectangle == RectangleAt(drawX, child)

(* Mutant: the desktop's own rectangle is not drawn. *)
NoBackground ==
  /\ at = "background"
  /\ at' = "read" /\ child' = N /\ quiet' = TRUE
  /\ UNCHANGED <<widgets, pixels, shown, drawX>>

(* Desktop::Draw: CompositeWidget::Draw, which draws the desktop itself. *)
DrawBackground ==
  /\ at = "background"
  /\ pixels' = Painted(Screen, Background)
  /\ at' = "read" /\ child' = N /\ quiet' = TRUE
  /\ UNCHANGED <<widgets, shown, drawX>>

(* Widget::Draw of a child: ModelToScreen, which reads x ... *)
ReadX ==
  /\ at = "read"
  /\ drawX' = pos[child].x
  /\ at' = "fill"
  /\ UNCHANGED <<widgets, pixels, shown, child, quiet>>

(* ... and y, and FillRectangle; then the loop over the children goes on. *)
Fill ==
  /\ at = "fill"
  /\ pixels' = Painted(Rectangle, Colour[child])
  /\ IF child > 1 THEN at' = "read" /\ child' = child - 1
                  ELSE at' = "cursor" /\ child' = child
  /\ UNCHANGED <<widgets, shown, drawX, quiet>>

DrawCursor ==
  /\ at = "cursor"
  /\ \E cursorColor \in Blink : pixels' = Painted(Cross, cursorColor)
  /\ at' = "display"
  /\ UNCHANGED <<widgets, shown, child, drawX, quiet>>

(* VideoGraphicsArray::GetColorIndex. *)
GetColorIndex(c) ==
  CASE c = "blue" -> 1 [] c = "green" -> 2 [] c = "red" -> 4
    [] c = "gray" -> 31 [] c = "white" -> 63 [] OTHER -> 0

Indexed(picture) == [i \in Cells |-> GetColorIndex(picture[i])]

(* Mutant: nothing is copied. *)
DisplayNothing ==
  /\ at = "display" /\ at' = "background"
  /\ UNCHANGED <<widgets, pixels, shown, child, drawX, quiet>>

(* Render::display: every pixel of the array, to its own place. *)
Display ==
  /\ at = "display"
  /\ shown' = Indexed(pixels)
  /\ at' = "background"
  /\ UNCHANGED <<widgets, pixels, child, drawX, quiet>>

MainLoop == DrawBackground \/ ReadX \/ Fill \/ DrawCursor \/ Display

MouseInterrupt ==
  /\ \E dx, dy \in Motion, now \in SUBSET Button : MousePacket(dx, dy, now)
  /\ quiet' = FALSE
  /\ UNCHANGED <<pixels, shown, at, child, drawX>>

Next == MainLoop \/ MouseInterrupt

Spec == Init /\ [][Next]_vars /\ WF_vars(MainLoop)

-----------------------------------------------------------------------------

TypeOK ==
  /\ WidgetsTypeOK
  /\ pixels \in [Cells -> Palette \cup {Junk}] /\ shown \in [Cells -> 0 .. 255]
  /\ at \in {"background", "read", "fill", "cursor", "display"}
  /\ child \in Window /\ drawX \in Int /\ quiet \in BOOLEAN

(* Where window w is drawn: over the left or the top border the loop of    *)
(* FillRectangle visits nothing of the screen.                             *)
Drawn(w, p) == pos[w].x >= 0 /\ pos[w].y >= 0 /\ ContainsCoordinate(pos, w, p)

(* The window in front at p, of those that are drawn. *)
Seen(p) == {w \in Window : Drawn(w, p) /\ \A v \in 1 .. w - 1 : ~Drawn(v, p)}

(* The picture the widgets stand for: at each point the cursor or the      *)
(* colour of the window in front there.                                    *)
Picture(cursorColor) ==
  [i \in Cells |->
     LET x == i \div Height
         y == i % Height
         s == Seen([x |-> x, y |-> y])
     IN  IF <<x, y>> \in Cross THEN cursorColor
         ELSE IF s = {} THEN Background
         ELSE Colour[CHOOSE w \in s : TRUE]]

(* The cells a point above or below the screen falls on: pixels[x][y] with *)
(* such a y lies in another column.                                        *)
Stray ==
  {p[1] * Height + p[2] :
     p \in {q \in Cross \cup UNION {RectangleAt(pos[w].x, w) : w \in Window} :
            q[2] \notin 0 .. Height - 1}}

(* A frame during which no packet came is right: at each point there is    *)
(* the window in front, which a click there goes to unless a window over   *)
(* the left or the top border, which takes clicks and is not drawn, is in  *)
(* front of it.  Only where a point off the screen falls may there be      *)
(* another colour.                                                         *)
QuietFrameRight ==
  at = "display" /\ quiet =>
    \E c \in Blink : \A i \in Cells \ Stray : pixels[i] = Picture(c)[i]

(* Once the mouse rests, the screen comes to show where everything is.     *)
EventuallyShown ==
  <>[](\E c \in Blink : \A i \in Cells \ Stray : shown[i] = Indexed(Picture(c))[i])

(* "Let's prevent illegal coordinates" (vga.cpp:174): the loop draws no    *)
(* pixel that is not on the screen.                                        *)
LegalCoordinates ==
  /\ at = "fill"   => Rectangle \subseteq Screen
  /\ at = "cursor" => Cross \subseteq Screen
=============================================================================
