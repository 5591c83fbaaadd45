----------------------------- MODULE DesktopProofs -----------------------------
(***************************************************************************)
(* Proofs about dragging, for any number of windows of any size, any       *)
(* screen, any mouse packets and any number of them.                       *)
(*                                                                         *)
(* The argument: a window under the mouse that is dragged moves as far as  *)
(* the mouse, so it still contains the mouse.  Either it is still the      *)
(* first window that does, or the mouse is over another one, which         *)
(* `covered` records.  A window leaves `covered` only when it gets a       *)
(* button event, so the mouse, which is on the desktop, is over it.        *)
(***************************************************************************)
EXTENDS Desktop, FiniteSetTheorems, TLAPS

(* The places the mouse can be. *)
MousePoint == [x : 0 .. Width - 1, y : 0 .. Height - 1]

(* The border holds whatever the mouse reports. *)
LEMMA ClippedTyped ==
  ASSUME NEW v \in Int, NEW limit \in Nat \ {0}
  PROVE  Clipped(v, limit) \in 0 .. limit - 1
BY DEF Clipped

LEMMA SlowedTyped ==
  ASSUME NEW d \in Int
  PROVE  Slowed(d) \in Int
BY DEF Slowed

LEMMA MouseToTyped ==
  ASSUME mouse \in MousePoint, NEW dx \in Motion, NEW dy \in Motion
  PROVE  MouseTo(dx, dy) \in MousePoint
<1>1. dx \in Int /\ dy \in Int
  BY MotionAssumption
<1>2. Slowed(dx) \in Int /\ Slowed(dy) \in Int
  BY <1>1, SlowedTyped
<1>3. mouse.x \in Int /\ mouse.y \in Int
  BY SizeAssumption DEF MousePoint
<1>4. Clipped(mouse.x + Slowed(dx), Width) \in 0 .. Width - 1
  <2>1. mouse.x + Slowed(dx) \in Int
    BY <1>2, <1>3
  <2> QED BY <2>1, ClippedTyped, SizeAssumption
<1>5. Clipped(mouse.y + Slowed(dy), Height) \in 0 .. Height - 1
  <2>1. mouse.y + Slowed(dy) \in Int
    BY <1>2, <1>3
  <2> QED BY <2>1, ClippedTyped, SizeAssumption
<1> QED BY <1>4, <1>5 DEF MouseTo, MousePoint

LEMMA ShiftedTyped ==
  ASSUME NEW p \in Point, NEW from \in MousePoint, NEW to \in MousePoint
  PROVE  Shifted(p, from, to) \in Point
BY SizeAssumption DEF Shifted, Point, MousePoint

(* A window that is shifted with the mouse goes on containing it. *)
LEMMA ShiftedContains ==
  ASSUME NEW at1 \in [Window -> Point], NEW at2 \in [Window -> Point], NEW w \in Window,
         NEW from \in MousePoint, NEW to \in MousePoint,
         at2[w] = Shifted(at1[w], from, to),
         ContainsCoordinate(at1, w, from)
  PROVE  ContainsCoordinate(at2, w, to)
<1>1. at1[w].x \in Int /\ at1[w].y \in Int
  BY DEF Point
<1>2. from.x \in Int /\ from.y \in Int /\ to.x \in Int /\ to.y \in Int
  BY SizeAssumption DEF MousePoint
<1>3. Size[w].w \in Int /\ Size[w].h \in Int
  BY WindowAssumption
<1>4. at2[w].x = at1[w].x + to.x - from.x /\ at2[w].y = at1[w].y + to.y - from.y
  BY DEF Shifted
<1> QED BY <1>1, <1>2, <1>3, <1>4 DEF ContainsCoordinate

(* A window that contains a place of the mouse is on the desktop. *)
LEMMA ContainsOnDesktop ==
  ASSUME NEW a \in [Window -> Point], NEW w \in Window, NEW p \in MousePoint,
         ContainsCoordinate(a, w, p)
  PROVE  OnDesktop(a[w], w)
<1>1. a[w].x \in Int /\ a[w].y \in Int
  BY DEF Point
<1>2. p.x \in 0 .. Width - 1 /\ p.y \in 0 .. Height - 1
  BY DEF MousePoint
<1>3. Size[w].w \in Int /\ Size[w].h \in Int
  BY WindowAssumption
<1> QED BY <1>1, <1>2, <1>3, SizeAssumption DEF ContainsCoordinate, OnDesktop

(* A window moves at most once, and only if it is dragged; one that is     *)
(* dragged and under the mouse does move.                                  *)
LEMMA MovedOnce ==
  ASSUME pos \in [Window -> Point], dragging \in [Window -> BOOLEAN],
         NEW from \in MousePoint, NEW to \in MousePoint
  PROVE  /\ Moved(pos, from, to) \in [Window -> Point]
         /\ \A w \in Window :
              /\ \/ Moved(pos, from, to)[w] = pos[w]
                 \/ dragging[w] /\ Moved(pos, from, to)[w] = Shifted(pos[w], from, to)
              /\ dragging[w] /\ w \in Front(pos, from)
                   => Moved(pos, from, to)[w] = Shifted(pos[w], from, to)
<1> DEFINE first == Front(pos, from)
           once  == WindowsMoved(pos, first, from, to)
           rest  == Front(once, to) \ first
           twice == WindowsMoved(once, rest, from, to)
<1>1. Moved(pos, from, to) = twice
  BY DEF Moved
<1>2. /\ once = [w \in Window |-> IF w \in first /\ dragging[w] THEN Shifted(pos[w], from, to)
                                  ELSE pos[w]]
      /\ twice = [w \in Window |-> IF w \in rest /\ dragging[w] THEN Shifted(once[w], from, to)
                                   ELSE once[w]]
  BY DEF WindowsMoved
<1>3. rest \cap first = {}
  OBVIOUS
<1>4. \A w \in Window : Shifted(pos[w], from, to) \in Point
  BY ShiftedTyped
<1> HIDE DEF first, once, rest, twice
<1>5. \A w \in Window :
        twice[w] = IF dragging[w] /\ (w \in first \/ w \in rest) THEN Shifted(pos[w], from, to)
                   ELSE pos[w]
  BY <1>2, <1>3
<1>6. twice \in [Window -> Point]
  <2>1. twice = [w \in Window |-> twice[w]]
    BY <1>2
  <2> QED BY <2>1, <1>4, <1>5
<1> QED BY <1>1, <1>5, <1>6 DEF first

(* A set of natural numbers has a least one: the intervals up to its       *)
(* members are finite sets, among which there is one that includes no      *)
(* other.                                                                  *)
LEMMA LeastNatural ==
  ASSUME NEW T \in SUBSET Nat, T # {}
  PROVE  \E x \in T : \A y \in T : x <= y
<1> DEFINE U == {1 .. x : x \in T}
           R == StrictSubsetOrdering(Nat)
           F == FiniteSubsetsOf(Nat)
<1>1. IsWellFoundedOn(R, F)
  BY FS_StrictSubsetOrderingWellFounded
<1>2. U \subseteq F
  BY FS_Interval DEF FiniteSubsetsOf
<1>3. U # {}
  OBVIOUS
<1>4. \A x, y \in T : y < x => <<1 .. y, 1 .. x>> \in R
  <2> SUFFICES ASSUME NEW x \in T, NEW y \in T, y < x PROVE <<1 .. y, 1 .. x>> \in R
    OBVIOUS
  <2>1. 1 .. y \subseteq 1 .. x /\ x \in 1 .. x /\ x \notin 1 .. y
    OBVIOUS
  <2>2. 1 .. y \in SUBSET Nat /\ 1 .. x \in SUBSET Nat
    OBVIOUS
  <2> QED BY <2>1, <2>2 DEF StrictSubsetOrdering
<1> HIDE DEF R, F
<1>5. \E s \in U : \A r \in U : <<r, s>> \notin R
  <2> HIDE DEF U
  <2> QED BY <1>1, <1>2, <1>3, WFMin
<1>6. PICK x \in T : \A y \in T : <<1 .. y, 1 .. x>> \notin R
  BY <1>5
<1>7. ASSUME NEW y \in T PROVE x <= y
  <2>1. ~(y < x)
    BY <1>4, <1>6
  <2> QED BY <2>1
<1> QED BY <1>7

(* So where there is a window, there is a first one. *)
LEMMA FrontExists ==
  ASSUME NEW a, NEW p, NEW w \in Window, ContainsCoordinate(a, w, p)
  PROVE  Front(a, p) # {}
<1> DEFINE T == {v \in Window : ContainsCoordinate(a, v, p)}
<1>1. T \in SUBSET Nat /\ w \in T
  BY DEF Window
<1>2. PICK v \in T : \A u \in T : v <= u
  <2> HIDE DEF T
  <2> QED BY <1>1, LeastNatural
<1>3. \A u \in 1 .. v - 1 : ~ContainsCoordinate(a, u, p)
  <2> SUFFICES ASSUME NEW u \in 1 .. v - 1, ContainsCoordinate(a, u, p) PROVE FALSE
    OBVIOUS
  <2>1. u \in T /\ u < v
    BY CountAssumption DEF Window
  <2> QED BY <1>1, <1>2, <2>1
<1>4. v \in Front(a, p)
  BY <1>3 DEF Front
<1> QED BY <1>4

-----------------------------------------------------------------------------

(* A drag after the comparison of all three buttons is either an old one   *)
(* no button has changed during, with the left one as it was, or it has    *)
(* got its event from a left button that is down.                          *)
AllCompared(ws, now) ==
  Compared(Compared(Compared(dragging, ws, 1, now), ws, 2, now), ws, 3, now)

(* What one round of the loop makes of the flags, window by window. *)
OneRound(drag, after, ws, b, now) ==
  /\ after \in [Window -> BOOLEAN]
  /\ \A w \in Window :
       after[w] = IF w \in ws /\ (b \in now) # (b \in buttons) THEN b \in now /\ b = Left
                  ELSE drag[w]

LEMMA ComparedOnce ==
  ASSUME NEW drag \in [Window -> BOOLEAN], NEW ws, NEW b, NEW now
  PROVE  OneRound(drag, Compared(drag, ws, b, now), ws, b, now)
BY Zenon DEF Compared, OnButton, OneRound

LEMMA ComparedAll ==
  ASSUME dragging \in [Window -> BOOLEAN], NEW ws, NEW now
  PROVE  /\ AllCompared(ws, now) \in [Window -> BOOLEAN]
         /\ \A w \in Window \ ws : AllCompared(ws, now)[w] = dragging[w]
         /\ \A w \in ws \cap Window : AllCompared(ws, now)[w] =>
              Left \in now \/ (dragging[w] /\ Left \notin buttons)
<1> DEFINE d1 == Compared(dragging, ws, 1, now)
           d2 == Compared(d1, ws, 2, now)
           d3 == Compared(d2, ws, 3, now)
<1>1. OneRound(dragging, d1, ws, 1, now)
  BY ComparedOnce
<1>a. d1 \in [Window -> BOOLEAN]
  BY <1>1 DEF OneRound
<1>2. OneRound(d1, d2, ws, 2, now)
  BY <1>a, ComparedOnce
<1>b. d2 \in [Window -> BOOLEAN]
  BY <1>2 DEF OneRound
<1>3. OneRound(d2, d3, ws, 3, now)
  BY <1>b, ComparedOnce
<1>4. AllCompared(ws, now) = d3
  BY DEF AllCompared
<1> HIDE DEF d1, d2, d3
<1>5. \A w \in Window \ ws : d3[w] = dragging[w]
  BY <1>1, <1>2, <1>3 DEF OneRound
<1>6. \A w \in ws \cap Window : d3[w] => Left \in now \/ (dragging[w] /\ Left \notin buttons)
  BY <1>1, <1>2, <1>3 DEF Left, OneRound
<1>c. d3 \in [Window -> BOOLEAN]
  BY <1>3 DEF OneRound
<1> QED BY <1>c, <1>4, <1>5, <1>6

-----------------------------------------------------------------------------

(* History: only a drag is covered. *)
CoveredDragged == \A w \in covered : dragging[w]

(* The inductive invariant of the widgets. *)
WInv ==
  /\ WidgetsTypeOK
  /\ DragFollowsMouse
  /\ FrontNeverCovered
  /\ Reachable
  /\ CoveredDragged

LEMMA WidgetsInitially == WindowsInit => WInv
<1> SUFFICES ASSUME WindowsInit PROVE WInv
  OBVIOUS
<1> USE DEF WindowsInit
<1>1. WidgetsTypeOK
  <2>1. pos \in [Window -> Point]
    BY StartAssumption, SizeAssumption DEF Point
  <2>2. mouse \in [x : 0 .. Width - 1, y : 0 .. Height - 1]
    BY SizeAssumption
  <2>3. dragging \in [Window -> BOOLEAN]
    OBVIOUS
  <2> QED BY <2>1, <2>2, <2>3, BoundAssumption DEF WidgetsTypeOK
<1>2. Reachable
  <2> SUFFICES ASSUME NEW w \in Window PROVE OnDesktop(pos[w], w)
    BY DEF Reachable
  <2>1. Size[w].w \in Nat \ {0} /\ Size[w].h \in Nat \ {0}
    BY WindowAssumption
  <2>2. pos[w].x \in 0 .. Width - 1 /\ pos[w].y \in 0 .. Height - 1
    BY StartAssumption
  <2> QED BY <2>1, <2>2, SizeAssumption DEF OnDesktop
<1> QED BY <1>1, <1>2 DEF WInv, DragFollowsMouse, FrontNeverCovered, CoveredDragged

(* What a packet does to a window, from the invariant before it. *)
LEMMA PacketEffect ==
  ASSUME WInv, NEW dx \in Motion, NEW dy \in Motion, NEW now \in SUBSET Button,
         MousePacket(dx, dy, now)
  PROVE  /\ WidgetsTypeOK'
         /\ \A w \in Window :
              /\ pos'[w] = pos[w] \/ (dragging[w] /\ pos'[w] = Shifted(pos[w], mouse, mouse'))
              /\ dragging[w] /\ w \notin covered => ContainsCoordinate(pos', w, mouse')
         /\ \A w \in Window \ Front(pos', mouse') : dragging'[w] = dragging[w]
         /\ \A w \in Window \cap Front(pos', mouse') :
              dragging'[w] => Left \in buttons' \/ (dragging[w] /\ Left \notin buttons)
<1>1. /\ mouse \in MousePoint /\ pos \in [Window -> Point] /\ dragging \in [Window -> BOOLEAN]
  BY DEF WInv, WidgetsTypeOK, MousePoint
<1>2. mouse' \in MousePoint
  <2>1. MouseTo(dx, dy) \in MousePoint
    BY <1>1, MouseToTyped
  <2> QED BY <2>1 DEF MousePacket
<1>3. /\ pos' \in [Window -> Point]
      /\ \A w \in Window :
           /\ pos'[w] = pos[w] \/ (dragging[w] /\ pos'[w] = Shifted(pos[w], mouse, mouse'))
           /\ dragging[w] /\ w \in Front(pos, mouse) => pos'[w] = Shifted(pos[w], mouse, mouse')
  <2>1. pos' = Moved(pos, mouse, mouse')
    BY DEF MousePacket
  <2> QED BY <1>1, <1>2, <2>1, MovedOnce
<1>4. ASSUME NEW w \in Window, dragging[w], w \notin covered
      PROVE  ContainsCoordinate(pos', w, mouse')
  <2>1. w \in Front(pos, mouse)
    BY <1>4 DEF WInv, DragFollowsMouse
  <2>2. ContainsCoordinate(pos, w, mouse)
    BY <2>1 DEF Front
  <2>3. pos'[w] = Shifted(pos[w], mouse, mouse')
    BY <1>3, <1>4, <2>1
  <2> QED BY <1>1, <1>2, <1>3, <2>2, <2>3, ShiftedContains
<1> DEFINE ws == Front(pos', mouse')
<1>5. dragging' = AllCompared(ws, now)
  BY DEF MousePacket, AllCompared
<1> HIDE DEF ws
<1>6. /\ AllCompared(ws, now) \in [Window -> BOOLEAN]
      /\ \A w \in Window \ ws : AllCompared(ws, now)[w] = dragging[w]
      /\ \A w \in ws \cap Window : AllCompared(ws, now)[w] =>
           Left \in now \/ (dragging[w] /\ Left \notin buttons)
  BY <1>1, ComparedAll
<1>7. buttons' = now
  BY DEF MousePacket
<1>8. packets' \in 0 .. MaxPackets /\ covered' \subseteq Window
  BY BoundAssumption DEF MousePacket, WInv, WidgetsTypeOK
<1>9. WidgetsTypeOK'
  BY <1>2, <1>3, <1>5, <1>6, <1>7, <1>8 DEF WidgetsTypeOK, MousePoint
<1> QED BY <1>3, <1>4, <1>5, <1>6, <1>7, <1>9 DEF ws

(* A packet preserves the invariant. *)
LEMMA PacketStep ==
  ASSUME WInv, NEW dx \in Motion, NEW dy \in Motion, NEW now \in SUBSET Button,
         MousePacket(dx, dy, now)
  PROVE  WInv'
<1> DEFINE ws == Front(pos', mouse')
<1>1. /\ WidgetsTypeOK'
      /\ \A w \in Window :
           /\ pos'[w] = pos[w] \/ (dragging[w] /\ pos'[w] = Shifted(pos[w], mouse, mouse'))
           /\ dragging[w] /\ w \notin covered => ContainsCoordinate(pos', w, mouse')
      /\ \A w \in Window \ ws : dragging'[w] = dragging[w]
      /\ \A w \in Window \cap ws :
           dragging'[w] => Left \in buttons' \/ (dragging[w] /\ Left \notin buttons)
  BY PacketEffect
<1>2. covered' = {w \in Window : /\ dragging[w] /\ dragging'[w]
                                 /\ w \in covered \/ ws \ {w} # {}}
  BY DEF MousePacket
<1>3. mouse' \in MousePoint /\ pos' \in [Window -> Point]
  BY <1>1 DEF WidgetsTypeOK, MousePoint
<1>4. \A w \in ws : w \in Window /\ ContainsCoordinate(pos', w, mouse')
  BY DEF Front
<1>5. \A w \in Window : ContainsCoordinate(pos', w, mouse') => ws # {}
  <2> SUFFICES ASSUME NEW w \in Window, ContainsCoordinate(pos', w, mouse') PROVE ws # {}
    OBVIOUS
  <2> QED BY FrontExists
<1>6. 1 \in Window /\ ContainsCoordinate(pos', 1, mouse') => ws = {1}
  <2> SUFFICES ASSUME 1 \in Window, ContainsCoordinate(pos', 1, mouse'), NEW w \in Window
               PROVE  w \in ws <=> w = 1
    BY DEF Front
  <2>1. 1 \in ws
    BY DEF Front
  <2>2. ASSUME w # 1 PROVE w \notin ws
    <3>1. 1 \in 1 .. w - 1
      BY <2>2, CountAssumption DEF Window
    <3> QED BY <3>1 DEF Front
  <2> QED BY <2>1, <2>2
<1> HIDE DEF ws
<1>7. DragFollowsMouse'
  <2> SUFFICES ASSUME NEW w \in Window, w \notin covered', dragging'[w]
               PROVE  w \in ws /\ Left \in buttons'
    BY DEF DragFollowsMouse, ws
  <2>1. CASE w \in ws
    <3>1. Left \in buttons' \/ (dragging[w] /\ Left \notin buttons)
      BY <1>1, <2>1
    <3>2. dragging[w] => w \notin covered
      BY <1>2
    <3>3. dragging[w] => Left \in buttons
      BY <3>2 DEF WInv, DragFollowsMouse
    <3> QED BY <2>1, <3>1, <3>3
  <2>2. CASE w \notin ws
    <3>1. dragging[w]
      BY <1>1, <2>2
    <3>2. w \notin covered /\ ws \ {w} = {}
      BY <1>2, <3>1
    <3>3. ws # {}
      BY <1>1, <1>5, <3>1, <3>2
    <3> QED BY <2>2, <3>2, <3>3
  <2> QED BY <2>1, <2>2
<1>8. FrontNeverCovered'
  <2> SUFFICES ASSUME 1 \in covered' PROVE FALSE
    BY DEF FrontNeverCovered
  <2>1. 1 \in Window /\ dragging[1] /\ (1 \in covered \/ ws \ {1} # {})
    BY <1>2
  <2>2. 1 \notin covered
    BY DEF WInv, FrontNeverCovered
  <2> QED BY <1>1, <1>6, <2>1, <2>2
<1>9. Reachable'
  <2> SUFFICES ASSUME NEW w \in Window, w \notin covered'
               PROVE  OnDesktop(pos'[w], w)
    BY DEF Reachable, OnDesktop
  <2>1. CASE w \in ws
    BY <1>3, <1>4, <2>1, ContainsOnDesktop
  <2>2. CASE w \notin ws /\ dragging[w]
    <3>1. w \notin covered
      BY <1>1, <1>2, <2>2
    <3>2. ContainsCoordinate(pos', w, mouse')
      BY <1>1, <2>2, <3>1
    <3> QED BY <1>3, <3>2, ContainsOnDesktop
  <2>3. CASE ~dragging[w]
    <3>1. w \notin covered
      BY <2>3 DEF WInv, CoveredDragged
    <3>2. pos'[w] = pos[w]
      BY <1>1, <2>3
    <3> QED BY <3>1, <3>2 DEF WInv, Reachable
  <2> QED BY <2>1, <2>2, <2>3
<1>10. CoveredDragged'
  BY <1>2 DEF CoveredDragged
<1> QED BY <1>1, <1>7, <1>8, <1>9, <1>10 DEF WInv

-----------------------------------------------------------------------------

(* The drawing loop leaves the widgets alone. *)
LEMMA StepKinds ==
  ASSUME [Next]_vars
  PROVE  \/ UNCHANGED widgets
         \/ \E dx, dy \in Motion, now \in SUBSET Button : MousePacket(dx, dy, now)
<1>1. ASSUME MainLoop PROVE UNCHANGED widgets
  BY <1>1 DEF MainLoop, DrawBackground, ReadX, Fill, DrawCursor, Display
<1>2. ASSUME UNCHANGED vars PROVE UNCHANGED widgets
  BY <1>2 DEF vars
<1> QED BY <1>1, <1>2 DEF Next, MouseInterrupt

LEMMA WInvStutter ==
  ASSUME WInv, UNCHANGED widgets
  PROVE  WInv'
BY DEF WInv, widgets, WidgetsTypeOK, DragFollowsMouse, FrontNeverCovered, Reachable,
       CoveredDragged, Front, ContainsCoordinate, OnDesktop

(* The inductive invariant of the widgets, whatever draws meanwhile. *)
THEOREM WidgetsInvariance == Spec => []WInv
<1>1. Init => WInv
  BY WidgetsInitially DEF Init
<1>2. WInv /\ [Next]_vars => WInv'
  <2> SUFFICES ASSUME WInv, [Next]_vars PROVE WInv'
    OBVIOUS
  <2> QED BY StepKinds, WInvStutter, PacketStep
<1> QED BY <1>1, <1>2, PTL DEF Spec

(* The frame's own variables keep their types: every cell of the array has *)
(* a colour, and every cell of the frame buffer an index of one byte.      *)
FrameTypeOK ==
  /\ pixels \in [Cells -> Palette \cup {Junk}] /\ shown \in [Cells -> 0 .. 255]
  /\ at \in {"background", "read", "fill", "cursor", "display"}
  /\ child \in Window /\ drawX \in Int /\ quiet \in BOOLEAN

LEMMA FrameInitially == Init => FrameTypeOK
<1> SUFFICES ASSUME Init PROVE FrameTypeOK
  OBVIOUS
<1>1. N \in Window
  BY CountAssumption DEF Window
<1> QED BY <1>1 DEF Init, FrameTypeOK

LEMMA PaintedTyped ==
  ASSUME pixels \in [Cells -> Palette \cup {Junk}], NEW ps, NEW c \in Palette
  PROVE  Painted(ps, c) \in [Cells -> Palette \cup {Junk}]
BY DEF Painted

LEMMA IndexedTyped ==
  ASSUME NEW picture
  PROVE  Indexed(picture) \in [Cells -> 0 .. 255]
<1>1. \A c : GetColorIndex(c) \in 0 .. 255
  BY DEF GetColorIndex
<1> QED BY <1>1 DEF Indexed

LEMMA FrameStep ==
  ASSUME WInv, FrameTypeOK, [Next]_vars
  PROVE  FrameTypeOK'
<1> USE DEF FrameTypeOK
<1>1. CASE DrawBackground
  <2>1. Background \in Palette
    BY DEF Background, Palette
  <2>2. N \in Window
    BY CountAssumption DEF Window
  <2>3. pixels' \in [Cells -> Palette \cup {Junk}]
    BY <1>1, <2>1, PaintedTyped DEF DrawBackground
  <2> QED BY <1>1, <2>2, <2>3 DEF DrawBackground
<1>2. CASE ReadX
  <2>1. drawX' \in Int
    BY <1>2 DEF ReadX, WInv, WidgetsTypeOK, Point
  <2> QED BY <1>2, <2>1 DEF ReadX
<1>3. CASE Fill
  <2>1. Colour[child] \in Palette
    BY ColourAssumption
  <2>2. pixels' \in [Cells -> Palette \cup {Junk}]
    BY <1>3, <2>1, PaintedTyped DEF Fill
  <2>3. child' \in Window /\ at' \in {"read", "cursor"}
    BY <1>3, CountAssumption DEF Fill, Window
  <2> QED BY <1>3, <2>2, <2>3 DEF Fill
<1>4. CASE DrawCursor
  <2>1. Blink \subseteq Palette
    BY DEF Blink, Palette
  <2>2. pixels' \in [Cells -> Palette \cup {Junk}]
    BY <1>4, <2>1, PaintedTyped DEF DrawCursor
  <2> QED BY <1>4, <2>2 DEF DrawCursor
<1>5. CASE Display
  BY <1>5, IndexedTyped DEF Display
<1>6. CASE MouseInterrupt
  BY <1>6 DEF MouseInterrupt
<1>7. CASE UNCHANGED vars
  BY <1>7 DEF vars, frame
<1> QED BY <1>1, <1>2, <1>3, <1>4, <1>5, <1>6, <1>7 DEF Next, MainLoop

-----------------------------------------------------------------------------

(* Types, and with them the borders of the mouse: it never leaves the      *)
(* desktop, whatever the packets report.                                   *)
THEOREM TypeCorrect == Spec => []TypeOK
<1>1. Init => FrameTypeOK
  BY FrameInitially
<1>2. WInv /\ FrameTypeOK /\ [Next]_vars => FrameTypeOK'
  BY FrameStep
<1>3. WInv /\ FrameTypeOK => TypeOK
  BY DEF WInv, FrameTypeOK, TypeOK
<1> QED BY <1>1, <1>2, <1>3, WidgetsInvariance, PTL DEF Spec

(* A drag follows the mouse and ends with its button, unless another       *)
(* window comes in between (Window::OnMouseDown, OnMouseUp, OnMouseMove).  *)
THEOREM DragFollowsMouseAlways == Spec => []DragFollowsMouse
<1>1. WInv => DragFollowsMouse
  BY DEF WInv
<1> QED BY <1>1, WidgetsInvariance, PTL

(* No window is lost except by a drag left under another one.              *)
THEOREM ReachableAlways == Spec => []Reachable
<1>1. WInv => Reachable
  BY DEF WInv
<1> QED BY <1>1, WidgetsInvariance, PTL

(* The first window added can be trusted without exception: while it is    *)
(* dragged the left button is down and the mouse is over it, and it is     *)
(* never lost.                                                             *)
FrontSound ==
  1 \in Window => /\ dragging[1] => 1 \in Front(pos, mouse) /\ Left \in buttons
                  /\ OnDesktop(pos[1], 1)

THEOREM FrontSoundAlways == Spec => []FrontSound
<1>1. WInv => FrontSound
  BY DEF WInv, FrontSound, FrontNeverCovered, DragFollowsMouse, Reachable
<1> QED BY <1>1, WidgetsInvariance, PTL

(* Windows move only while dragged, and exactly as far as the mouse does   *)
(* (CompositeWidget::OnMouseMove tells a window of a move only once).      *)
THEOREM MovesWithMouseAlways == Spec => MovesWithMouse
<1>1. WInv /\ [Next]_vars =>
        [\A w \in Window : pos'[w] # pos[w] =>
           dragging[w] /\ pos'[w] = Shifted(pos[w], mouse, mouse')]_widgets
  <2> SUFFICES ASSUME WInv, [Next]_vars, ~ UNCHANGED widgets, NEW w \in Window, pos'[w] # pos[w]
               PROVE  dragging[w] /\ pos'[w] = Shifted(pos[w], mouse, mouse')
    OBVIOUS
  <2>1. PICK dx, dy \in Motion, now \in SUBSET Button : MousePacket(dx, dy, now)
    BY StepKinds
  <2> QED BY <2>1, PacketEffect
<1> QED BY <1>1, WidgetsInvariance, PTL DEF Spec, MovesWithMouse
=============================================================================
