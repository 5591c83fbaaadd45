------------------------------ MODULE PictureProofs ----------------------------
(***************************************************************************)
(* The proof that a frame no packet interrupts shows what the widgets      *)
(* stand for, on a screen of any size, with any number of windows, inside  *)
(* the screen or over its border: drawing from the last window to the      *)
(* first leaves at each point the colour of the first window drawn there,  *)
(* which is the one a click goes to unless a window over the left or the   *)
(* top border is in front of it (SeenIsClicked).                           *)
(*                                                                         *)
(* QuietFrameRight speaks of the end of a frame only.  FrameSoFar is what  *)
(* holds on the way: the windows behind the child Draw is at are right     *)
(* among themselves.                                                       *)
(***************************************************************************)
EXTENDS DesktopProofs

(* A cell of the array is one point of the screen, and the other way       *)
(* round.                                                                  *)
PointOf(i) == [x |-> i \div Height, y |-> i % Height]

LEMMA CellSplit ==
  ASSUME NEW i \in Cells
  PROVE  /\ i \div Height \in 0 .. Width - 1 /\ i % Height \in 0 .. Height - 1
         /\ i = (i \div Height) * Height + (i % Height)
<1> DEFINE q == i \div Height
           r == i % Height
<1>1. i \in Int /\ 0 <= i /\ i < Width * Height /\ Height \in Nat \ {0} /\ Width \in Nat \ {0}
  BY SizeAssumption DEF Cells
<1>2. i = q * Height + r /\ r \in 0 .. Height - 1 /\ q \in Int
  BY <1>1
<1> HIDE DEF q, r
<1>3. ASSUME q <= -1 PROVE FALSE
  <2>1. q * Height <= -Height
    BY <1>1, <1>2, <1>3
  <2> QED BY <1>1, <1>2, <2>1
<1>4. ASSUME q >= Width PROVE FALSE
  <2>1. q * Height >= Width * Height
    BY <1>1, <1>2, <1>4
  <2> QED BY <1>1, <1>2, <2>1
<1>5. q \in 0 .. Width - 1
  BY <1>1, <1>2, <1>3, <1>4
<1> QED BY <1>2, <1>5 DEF q, r

LEMMA SplitUnique ==
  ASSUME NEW H \in Nat \ {0}, NEW x \in Int, NEW y \in 0 .. H - 1,
         NEW q \in Int, NEW r \in 0 .. H - 1, x * H + y = q * H + r
  PROVE  x = q /\ y = r
<1>1. (x - q) * H = r - y
  OBVIOUS
<1>2. ASSUME x - q >= 1 PROVE FALSE
  <2>1. (x - q) * H >= H
    BY <1>2
  <2> QED BY <1>1, <2>1
<1>3. ASSUME x - q <= -1 PROVE FALSE
  <2>1. (x - q) * H <= -H
    BY <1>3
  <2> QED BY <1>1, <2>1
<1>4. x = q
  BY <1>2, <1>3
<1> QED BY <1>4

(* A point whose y is on the screen has a cell of its own, if any. *)
LEMMA OwnCell ==
  ASSUME NEW i \in Cells, NEW x \in Int, NEW y \in 0 .. Height - 1, i = x * Height + y
  PROVE  x = i \div Height /\ y = i % Height
<1> DEFINE q == i \div Height
           r == i % Height
<1>1. /\ q \in Int /\ r \in 0 .. Height - 1
      /\ x * Height + y = q * Height + r /\ Height \in Nat \ {0}
  BY CellSplit, SizeAssumption
<1> HIDE DEF q, r
<1>2. x = q /\ y = r
  BY <1>1, SplitUnique
<1> QED BY <1>2 DEF q, r

(* Painting changes the cells of the points that are painted, and cells    *)
(* that a point above or below the screen falls on.                        *)
LEMMA PaintedOwn ==
  ASSUME NEW ps \in SUBSET (Int \X Int), NEW colour, NEW i \in Cells,
         \A p \in ps : p[2] \notin 0 .. Height - 1 => p[1] * Height + p[2] # i
  PROVE  Painted(ps, colour)[i]
           = IF <<i \div Height, i % Height>> \in ps THEN colour ELSE pixels[i]
<1> DEFINE hit == {p[1] * Height + p[2] : p \in ps}
           me  == <<i \div Height, i % Height>>
<1>1. i = (i \div Height) * Height + (i % Height)
  BY CellSplit
<1>2. ASSUME me \in ps PROVE i \in hit
  BY <1>1, <1>2
<1>3. ASSUME i \in hit PROVE me \in ps
  <2>1. PICK p \in ps : i = p[1] * Height + p[2]
    BY <1>3
  <2>2. p[1] \in Int /\ p[2] \in Int /\ p = <<p[1], p[2]>>
    OBVIOUS
  <2>3. p[2] \in 0 .. Height - 1
    BY <2>1
  <2>4. p[1] = i \div Height /\ p[2] = i % Height
    BY <2>1, <2>2, <2>3, OwnCell
  <2> QED BY <2>1, <2>2, <2>4
<1>4. Painted(ps, colour)[i] = IF i \in hit THEN colour ELSE pixels[i]
  BY DEF Painted
<1> QED BY <1>2, <1>3, <1>4

(* What FillRectangle visits are numbers, and those that are not negative  *)
(* are the rectangle's, if it does not begin before 0.                     *)
LEMMA SpanIs ==
  ASSUME NEW v \in Int, NEW n \in Nat \ {0}, NEW k \in Nat
  PROVE  Span(v, n) \subseteq Int /\ (k \in Span(v, n) <=> v >= 0 /\ v <= k /\ k < v + n)
BY DEF Span

(* A cell nothing strays to is painted for a window if it is drawn there. *)
LEMMA RectangleIsWindow ==
  ASSUME WidgetsTypeOK, NEW w \in Window
  PROVE  /\ RectangleAt(pos[w].x, w) \in SUBSET (Int \X Int)
         /\ \A i \in Cells : <<i \div Height, i % Height>> \in RectangleAt(pos[w].x, w)
                               <=> Drawn(w, PointOf(i))
<1> DEFINE X == pos[w].x
           Y == pos[w].y
<1>1. X \in Int /\ Y \in Int
  BY DEF WidgetsTypeOK, Point
<1>2. Size[w].w \in Nat \ {0} /\ Size[w].h \in Nat \ {0}
  BY WindowAssumption
<1>3. RectangleAt(X, w) = Span(X, Size[w].w) \X Span(Y, Size[w].h)
  BY DEF RectangleAt
<1>4. \A i \in Cells : Drawn(w, PointOf(i))
        <=> /\ X >= 0 /\ X <= i \div Height /\ i \div Height < X + Size[w].w
            /\ Y >= 0 /\ Y <= i % Height /\ i % Height < Y + Size[w].h
  BY DEF Drawn, ContainsCoordinate, PointOf
<1> HIDE DEF X, Y
<1>5. RectangleAt(X, w) \in SUBSET (Int \X Int)
  BY <1>1, <1>2, <1>3, SpanIs
<1>6. ASSUME NEW i \in Cells
      PROVE  <<i \div Height, i % Height>> \in RectangleAt(X, w) <=> Drawn(w, PointOf(i))
  <2> DEFINE q == i \div Height
             r == i % Height
  <2>1. q \in Nat /\ r \in Nat
    BY CellSplit, SizeAssumption
  <2> HIDE DEF q, r
  <2>2. /\ q \in Span(X, Size[w].w) <=> X >= 0 /\ X <= q /\ q < X + Size[w].w
        /\ r \in Span(Y, Size[w].h) <=> Y >= 0 /\ Y <= r /\ r < Y + Size[w].h
    BY <1>1, <1>2, <2>1, SpanIs
  <2>3. <<q, r>> \in RectangleAt(X, w) <=> q \in Span(X, Size[w].w) /\ r \in Span(Y, Size[w].h)
    BY <1>3
  <2> QED BY <1>4, <2>2, <2>3 DEF q, r
<1> QED BY <1>5, <1>6 DEF X

-----------------------------------------------------------------------------

(* The windows behind window c are right among themselves: a cell nothing  *)
(* strays to has the colour of the first of them that is drawn there, or   *)
(* the background's.                                                       *)
FrameSoFar(array, c) ==
  \A i \in Cells \ Stray :
    /\ (\A v \in Window : v > c => ~Drawn(v, PointOf(i))) => array[i] = Background
    /\ \A v \in Window :
         /\ v > c /\ Drawn(v, PointOf(i))
         /\ \A u \in Window : u > c /\ u < v => ~Drawn(u, PointOf(i))
         => array[i] = Colour[v]

(* What holds at each step of a frame that no packet has interrupted. *)
FrameInv ==
  quiet =>
    /\ at \in {"read", "fill"} => FrameSoFar(pixels, child)
    /\ at = "fill" => drawX = pos[child].x
    /\ at = "cursor" => FrameSoFar(pixels, 0)
    /\ at = "display" => \E c \in Blink : \A i \in Cells \ Stray : pixels[i] = Picture(c)[i]

(* The background is right for no window at all. *)
LEMMA BackgroundRight ==
  ASSUME DrawBackground
  PROVE  FrameSoFar(pixels', N)
<1>1. Screen \in SUBSET (Int \X Int) /\ \A p \in Screen : p[2] \in 0 .. Height - 1
  BY SizeAssumption DEF Screen
<1>2. \A i \in Cells : <<i \div Height, i % Height>> \in Screen
  BY CellSplit DEF Screen
<1>3. pixels' = Painted(Screen, Background)
  BY DEF DrawBackground
<1>4. \A i \in Cells : pixels'[i] = Background
  <2> SUFFICES ASSUME NEW i \in Cells PROVE pixels'[i] = Background
    OBVIOUS
  <2>1. Painted(Screen, Background)[i]
          = IF <<i \div Height, i % Height>> \in Screen THEN Background ELSE pixels[i]
    BY <1>1, PaintedOwn
  <2> QED BY <1>2, <1>3, <2>1
<1>5. \A v \in Window : ~(v > N)
  BY CountAssumption DEF Window
<1> QED BY <1>4, <1>5 DEF FrameSoFar

(* Painting a child over those behind it makes it and them right. *)
LEMMA ChildRight ==
  ASSUME WidgetsTypeOK, child \in Window, drawX = pos[child].x,
         FrameSoFar(pixels, child), Fill
  PROVE  FrameSoFar(pixels', child - 1)
<1>1. pixels' = Painted(Rectangle, Colour[child]) /\ Rectangle = RectangleAt(pos[child].x, child)
  BY DEF Fill, Rectangle
<1>2. /\ Rectangle \in SUBSET (Int \X Int)
      /\ \A i \in Cells : <<i \div Height, i % Height>> \in Rectangle <=> Drawn(child, PointOf(i))
  BY <1>1, RectangleIsWindow
<1> DEFINE In(v, i) == Drawn(v, PointOf(i))
<1>3. ASSUME NEW i \in Cells \ Stray
      PROVE  pixels'[i] = IF In(child, i) THEN Colour[child] ELSE pixels[i]
  <2>1. \A p \in Rectangle : p[2] \notin 0 .. Height - 1 => p[1] * Height + p[2] # i
    BY <1>1, <1>3 DEF Stray
  <2>2. Painted(Rectangle, Colour[child])[i]
          = IF <<i \div Height, i % Height>> \in Rectangle THEN Colour[child] ELSE pixels[i]
    BY <1>2, <2>1, PaintedOwn
  <2> QED BY <1>1, <1>2, <2>2
<1>4. \A v \in Window : v > child - 1 <=> v = child \/ v > child
  BY CountAssumption DEF Window
<1>5. child \in Int /\ ~(child > child)
  BY CountAssumption DEF Window
<1> HIDE DEF In
<1>6. ASSUME NEW i \in Cells \ Stray, \A v \in Window : v = child \/ v > child => ~In(v, i)
      PROVE  pixels'[i] = Background
  BY <1>3, <1>6 DEF FrameSoFar, In
<1>7. ASSUME NEW i \in Cells \ Stray, NEW v \in Window, v = child \/ v > child, In(v, i),
             \A u \in Window : (u = child \/ u > child) /\ u < v => ~In(u, i)
      PROVE  pixels'[i] = Colour[v]
  <2>1. CASE v = child
    BY <1>3, <1>7, <2>1
  <2>2. CASE v > child
    <3>1. child < v
      BY <2>2, CountAssumption DEF Window
    <3>2. ~In(child, i)
      BY <1>7, <3>1
    <3>3. pixels'[i] = pixels[i]
      BY <1>3, <3>2
    <3>4. pixels[i] = Colour[v]
      BY <1>7, <2>2 DEF FrameSoFar, In
    <3> QED BY <3>3, <3>4
  <2> QED BY <1>7, <2>1, <2>2
<1>8. /\ \A i \in Cells \ Stray : (\A v \in Window : v > child - 1 => ~In(v, i)) => pixels'[i] = Background
      /\ \A i \in Cells \ Stray, v \in Window :
           /\ v > child - 1 /\ In(v, i)
           /\ \A u \in Window : u > child - 1 /\ u < v => ~In(u, i)
           => pixels'[i] = Colour[v]
  BY <1>4, <1>6, <1>7
<1> QED BY <1>8 DEF FrameSoFar, In

(* Where any window is drawn, one is in front. *)
LEMMA SeenExists ==
  ASSUME NEW p, NEW w \in Window, Drawn(w, p)
  PROVE  Seen(p) # {}
<1> DEFINE T == {v \in Window : Drawn(v, p)}
<1>1. T \in SUBSET Nat /\ w \in T
  BY DEF Window
<1>2. PICK v \in T : \A u \in T : v <= u
  <2> HIDE DEF T
  <2> QED BY <1>1, LeastNatural
<1>3. \A u \in 1 .. v - 1 : ~Drawn(u, p)
  <2> SUFFICES ASSUME NEW u \in 1 .. v - 1, Drawn(u, p) PROVE FALSE
    OBVIOUS
  <2>1. u \in T /\ u < v
    BY CountAssumption DEF Window
  <2> QED BY <1>1, <1>2, <2>1
<1> QED BY <1>2, <1>3 DEF Seen

(* What is seen at a point is what a click there goes to, unless a window  *)
(* that reaches there is over the left or the top border.                  *)
LEMMA SeenIsClicked ==
  ASSUME NEW p,
         \A w \in Window : ContainsCoordinate(pos, w, p) => pos[w].x >= 0 /\ pos[w].y >= 0
  PROVE  Seen(p) = Front(pos, p)
<1>1. \A w \in Window : Drawn(w, p) <=> ContainsCoordinate(pos, w, p)
  BY DEF Drawn
<1>2. \A w \in Window : 1 .. w - 1 \subseteq Window
  BY CountAssumption DEF Window
<1> QED BY <1>1, <1>2 DEF Seen, Front

(* When all windows are right among themselves, each cell has the colour   *)
(* of the window in front there.                                           *)
LEMMA SeenColour ==
  ASSUME FrameSoFar(pixels, 0), NEW i \in Cells \ Stray
  PROVE  pixels[i] = IF Seen(PointOf(i)) = {} THEN Background
                     ELSE Colour[CHOOSE w \in Seen(PointOf(i)) : TRUE]
<1> DEFINE In(v) == Drawn(v, PointOf(i))
<1>1. \A v \in Window : v > 0
  BY CountAssumption DEF Window
<1>2. CASE Seen(PointOf(i)) = {}
  <2>1. \A v \in Window : ~In(v)
    BY <1>2, SeenExists
  <2>2. pixels[i] = Background
    BY <2>1 DEF FrameSoFar
  <2> QED BY <1>2, <2>2
<1>3. CASE Seen(PointOf(i)) # {}
  <2> DEFINE w == CHOOSE v \in Seen(PointOf(i)) : TRUE
  <2>1. w \in Seen(PointOf(i))
    BY <1>3
  <2>2. w \in Window /\ In(w) /\ \A u \in 1 .. w - 1 : ~In(u)
    BY <2>1 DEF Seen
  <2> HIDE DEF w, In
  <2>3. \A u \in Window : u > 0 /\ u < w => ~In(u)
    <3> SUFFICES ASSUME NEW u \in Window, u < w PROVE ~In(u)
      OBVIOUS
    <3>1. u \in 1 .. w - 1
      BY <2>2, CountAssumption DEF Window
    <3> QED BY <2>2, <3>1
  <2>4. w > 0
    BY <1>1, <2>2
  <2>5. pixels[i] = Colour[w]
    BY <2>2, <2>3, <2>4 DEF FrameSoFar, In
  <2> QED BY <1>3, <2>5 DEF w
<1> QED BY <1>2, <1>3

(* The cursor over them completes the picture. *)
LEMMA CursorCompletes ==
  ASSUME WidgetsTypeOK, FrameSoFar(pixels, 0), DrawCursor
  PROVE  \E c \in Blink : \A i \in Cells \ Stray : pixels'[i] = Picture(c)[i]
<1>1. PICK c \in Blink : pixels' = Painted(Cross, c)
  BY DEF DrawCursor
<1>2. Cross \in SUBSET (Int \X Int)
  <2>1. mouse.x \in Int /\ mouse.y \in Int /\ \A i \in 0 .. Arm : i \in Int
    BY SizeAssumption, ArmAssumption DEF WidgetsTypeOK
  <2> QED BY <2>1 DEF Cross
<1>3. ASSUME NEW i \in Cells \ Stray
      PROVE  pixels'[i] = Picture(c)[i]
  <2>1. \A p \in Cross : p[2] \notin 0 .. Height - 1 => p[1] * Height + p[2] # i
    BY <1>3 DEF Stray
  <2>2. pixels'[i] = IF <<i \div Height, i % Height>> \in Cross THEN c ELSE pixels[i]
    BY <1>1, <1>2, <2>1, PaintedOwn
  <2>3. Picture(c)[i]
          = IF <<i \div Height, i % Height>> \in Cross THEN c
            ELSE IF Seen(PointOf(i)) = {} THEN Background
            ELSE Colour[CHOOSE w \in Seen(PointOf(i)) : TRUE]
    BY DEF Picture, PointOf
  <2> QED BY <2>2, <2>3, SeenColour
<1> QED BY <1>3

-----------------------------------------------------------------------------

(* The picture depends on the widgets only. *)
LEMMA SamePicture ==
  ASSUME pos' = pos, mouse' = mouse
  PROVE  /\ Stray' = Stray
         /\ \A w, p : Drawn(w, p)' <=> Drawn(w, p)
         /\ \A c : Picture(c)' = Picture(c)
<1>1. \A w, p : Drawn(w, p)' <=> Drawn(w, p)
  BY DEF Drawn, ContainsCoordinate
<1>2. Cross' = Cross
  BY DEF Cross
<1>3. \A c : Picture(c)' = Picture(c)
  BY DEF Picture, Cross, Seen, Drawn, ContainsCoordinate
<1>4. \A w \in Window : RectangleAt(pos[w].x, w)' = RectangleAt(pos[w].x, w)
  BY DEF RectangleAt
<1>5. Stray' = Stray
  BY <1>2, <1>4 DEF Stray
<1> QED BY <1>1, <1>3, <1>5

LEMMA FrameInvStep ==
  ASSUME TypeOK, FrameInv, [Next]_vars
  PROVE  FrameInv'
<1>1. CASE MouseInterrupt
  <2>1. ~quiet'
    BY <1>1 DEF MouseInterrupt
  <2> QED BY <2>1 DEF FrameInv
<1> SUFFICES ASSUME ~MouseInterrupt, quiet' PROVE FrameInv'
  BY <1>1 DEF FrameInv
<1>2. pos' = pos /\ mouse' = mouse
  BY DEF Next, MainLoop, DrawBackground, ReadX, Fill, DrawCursor, Display, vars, widgets
<1>3. /\ Stray' = Stray
      /\ \A w, p : Drawn(w, p)' <=> Drawn(w, p)
      /\ \A c : Picture(c)' = Picture(c)
  BY <1>2, SamePicture
<1>4. ASSUME NEW c, FrameSoFar(pixels', c) PROVE FrameSoFar(pixels, c)'
  BY <1>3, <1>4 DEF FrameSoFar, PointOf
<1>5. WidgetsTypeOK /\ child \in Window
  BY DEF TypeOK
<1>6. CASE DrawBackground
  <2>1. FrameSoFar(pixels', N)
    BY <1>6, BackgroundRight
  <2>2. at' = "read" /\ child' = N
    BY <1>6 DEF DrawBackground
  <2>3. FrameSoFar(pixels, child)'
    BY <1>4, <2>1, <2>2
  <2> QED BY <2>2, <2>3 DEF FrameInv
<1>7. CASE ReadX
  <2>1. /\ quiet /\ at = "read" /\ at' = "fill" /\ drawX' = pos[child].x
        /\ pixels' = pixels /\ child' = child
    BY <1>7 DEF ReadX
  <2>2. FrameSoFar(pixels', child)
    BY <2>1 DEF FrameInv
  <2>3. FrameSoFar(pixels, child)'
    BY <1>4, <2>1, <2>2
  <2> QED BY <1>2, <2>1, <2>3 DEF FrameInv
<1>8. CASE Fill
  <2>1. quiet /\ at = "fill"
    BY <1>8 DEF Fill
  <2>2. FrameSoFar(pixels, child) /\ drawX = pos[child].x
    BY <2>1 DEF FrameInv
  <2>3. FrameSoFar(pixels', child - 1)
    BY <1>5, <1>8, <2>2, ChildRight
  <2>4. \/ at' = "read" /\ child' = child - 1
        \/ at' = "cursor" /\ child - 1 = 0
    BY <1>5, <1>8, CountAssumption DEF Fill, Window
  <2>5. CASE at' = "read" /\ child' = child - 1
    <3>1. FrameSoFar(pixels', child')
      BY <2>3, <2>5
    <3>2. FrameSoFar(pixels, child)'
      BY <1>4, <3>1
    <3> QED BY <2>5, <3>2 DEF FrameInv
  <2>6. CASE at' = "cursor" /\ child - 1 = 0
    <3>1. FrameSoFar(pixels, 0)'
      BY <1>4, <2>3, <2>6
    <3> QED BY <2>6, <3>1 DEF FrameInv
  <2> QED BY <2>4, <2>5, <2>6
<1>9. CASE DrawCursor
  <2>1. quiet /\ at = "cursor" /\ at' = "display"
    BY <1>9 DEF DrawCursor
  <2>2. FrameSoFar(pixels, 0)
    BY <2>1 DEF FrameInv
  <2>3. \E c \in Blink : \A i \in Cells \ Stray : pixels'[i] = Picture(c)[i]
    BY <1>5, <1>9, <2>2, CursorCompletes
  <2> QED BY <1>3, <2>1, <2>3 DEF FrameInv
<1>10. CASE Display
  <2>1. at' = "background"
    BY <1>10 DEF Display
  <2> QED BY <2>1 DEF FrameInv
<1>11. CASE UNCHANGED vars
  <2>1. UNCHANGED <<pixels, at, child, drawX, quiet>>
    BY <1>11 DEF vars, frame, widgets
  <2>2. quiet
    BY <2>1
  <2>3. at' \in {"read", "fill"} => FrameSoFar(pixels, child)'
    <3> SUFFICES ASSUME at' \in {"read", "fill"} PROVE FrameSoFar(pixels, child)'
      OBVIOUS
    <3>1. FrameSoFar(pixels', child')
      BY <2>1, <2>2 DEF FrameInv
    <3> QED BY <1>4, <3>1
  <2>4. at' = "cursor" => FrameSoFar(pixels, 0)'
    <3> SUFFICES ASSUME at' = "cursor" PROVE FrameSoFar(pixels, 0)'
      OBVIOUS
    <3>1. FrameSoFar(pixels', 0)
      BY <2>1, <2>2 DEF FrameInv
    <3> QED BY <1>4, <3>1
  <2>5. at' = "display" => \E c \in Blink : \A i \in Cells' \ Stray' : pixels'[i] = Picture(c)'[i]
    BY <1>3, <2>1, <2>2 DEF FrameInv, Cells
  <2>6. at' = "fill" => drawX' = pos'[child'].x
    BY <1>2, <2>1, <2>2 DEF FrameInv
  <2> QED BY <2>3, <2>4, <2>5, <2>6 DEF FrameInv
<1> QED BY <1>6, <1>7, <1>8, <1>9, <1>10, <1>11 DEF Next, MainLoop

(* A frame during which no packet came shows at every point the window in  *)
(* front there, of those that are not over the left or the top border      *)
(* (which FillRectangle does not draw, SeenIsClicked): Desktop::Draw and   *)
(* CompositeWidget::Draw draw the children in the opposite order of the    *)
(* one events look for them.  The exception are the cells Stray, onto      *)
(* which points above or below the screen fall.                            *)
THEOREM QuietFrameRightAlways == Spec => []QuietFrameRight
<1>1. Init => FrameInv
  BY DEF Init, FrameInv
<1>2. TypeOK /\ FrameInv /\ [Next]_vars => FrameInv'
  BY FrameInvStep
<1>3. FrameInv => QuietFrameRight
  BY DEF FrameInv, QuietFrameRight
<1> QED BY <1>1, <1>2, <1>3, TypeCorrect, PTL DEF Spec
=============================================================================
