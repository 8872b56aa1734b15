------------------------------ MODULE GuiProofs ------------------------------
(***************************************************************************)
(* Proofs about what the windows show, for keys, drawings, sizes and       *)
(* records of any number: the canvas (CanvasInv), the selection with the   *)
(* mouse (SelectionInv) and the log (LogInv).                              *)
(***************************************************************************)
EXTENDS Canvas, Selection, GuiLog, SequenceTheorems, TLAPS

-----------------------------------------------------------------------------
(* The canvas.                                                              *)

USE MaxDrawsAssumption DEF Drawables, Ages, Timers

(* DisplayService starts with no drawings and nothing shown. *)
LEMMA CanvasInitial == CanvasInit => CanvasInv
  <1> SUFFICES ASSUME CanvasInit PROVE CanvasInv
    BY Zenon
  <1>1. CanvasTypeOK
    <2>1. canvasDrawables \in [Keys -> Drawables \cup {0}]
      BY Zenon DEF CanvasInit
    <2>2. age \in [Drawables -> Ages] /\ timer \in [Drawables -> Timers]
      BY Zenon DEF CanvasInit
    <2>3. drawn \in 0 .. MaxDraws /\ shown \in SUBSET Drawables
      BY DEF CanvasInit
    <2> QED BY <2>1, <2>2, <2>3, Zenon DEF CanvasInit, CanvasTypeOK
  <1>2. \A x \in Drawables : age[x] = "unborn" /\ timer[x] = "none" /\ ~InMap(x)
    BY DEF CanvasInit, InMap
  <1>3. CanvasIsCurrent
    BY <1>2, Zenon DEF CanvasInit, CanvasIsCurrent
  <1>4. /\ \A k \in Keys : canvasDrawables[k] = 0
        /\ drawn = 0 /\ shown = {}
    BY Zenon DEF CanvasInit
  <1> QED BY <1>1, <1>2, <1>3, <1>4 DEF CanvasInv, Reminded

(* draw of a new drawable keeps the invariant: the notification it gives in
   the same critical section wakes the daemon or is recorded as missed. *)
LEMMA DrawKeeps ==
  ASSUME CanvasInv, NEW k \in Keys, NEW a \in {"permanent", "timed"}, Draw(k, a)
  PROVE  CanvasInv'
  <1> USE DEF Draw, NotifyCanvas
  <1>1. CanvasTypeOK /\ drawn' = drawn + 1 /\ drawn' \in Drawables
    BY DEF CanvasInv, CanvasTypeOK
  <1>2. CanvasTypeOK'
    BY <1>1 DEF CanvasTypeOK
  <1>3. \A x \in Drawables : /\ x # drawn' => age'[x] = age[x] /\ timer'[x] = timer[x]
                             /\ x = drawn' => age'[x] = a
                             /\ x = drawn' => timer'[x] = IF a = "timed" THEN "due" ELSE "none"
    BY <1>1, Zenon DEF CanvasTypeOK
  <1>4. \A l \in Keys : canvasDrawables'[l] = IF l = k THEN drawn' ELSE canvasDrawables[l]
    BY <1>1, Zenon DEF CanvasTypeOK
  <1>5. missed' \/ daemon' = "woken"
    BY <1>1, Zenon DEF CanvasTypeOK
  <1>6. CanvasIsCurrent'
    BY <1>5, Zenon DEF CanvasIsCurrent
  <1>7. \A x \in Drawables : x > drawn' => age'[x] = "unborn" /\ timer'[x] = "none"
    BY <1>1, <1>3 DEF CanvasInv, CanvasTypeOK
  <1>8. \A l \in Keys : canvasDrawables'[l] <= drawn'
    BY <1>1, <1>4 DEF CanvasInv, CanvasTypeOK
  <1>9. \A x \in shown' : x <= drawn'
    BY <1>1 DEF CanvasInv, CanvasTypeOK
  <1>10. \A i, j \in Keys : canvasDrawables'[i] = canvasDrawables'[j]
                              => i = j \/ canvasDrawables'[i] = 0
    BY <1>1, <1>4 DEF CanvasInv, CanvasTypeOK
  <1>11. \A x \in Drawables :
          /\ age'[x] = "timed" => Reminded(x)'
          /\ timer'[x] # "none" => age'[x] \in {"timed", "expired"}
          /\ age'[x] = "expired" => timer'[x] # "none"
    BY <1>1, <1>3 DEF CanvasInv, Reminded
  <1> QED BY <1>2, <1>6, <1>7, <1>8, <1>9, <1>10, <1>11, Zenon DEF CanvasInv

(* Removing a drawing notifies like drawing one. *)
LEMMA RemoveKeeps ==
  ASSUME CanvasInv, NEW k \in Keys, Remove(k)
  PROVE  CanvasInv'
  <1> USE DEF Remove, NotifyCanvas
  <1>1. CanvasTypeOK' /\ (missed' \/ daemon' = "woken")
    BY Zenon DEF CanvasInv, CanvasTypeOK
  <1>2. \A l \in Keys : canvasDrawables'[l] = IF l = k THEN 0 ELSE canvasDrawables[l]
    BY Zenon DEF CanvasInv, CanvasTypeOK
  <1>3. CanvasIsCurrent'
    BY <1>1, Zenon DEF CanvasIsCurrent
  <1> QED BY <1>1, <1>2, <1>3 DEF CanvasInv, CanvasTypeOK, Reminded

(* The delayed notification of a drawing is scheduled and fires only after
   the drawing has expired. *)
LEMMA TimersKeep ==
  ASSUME CanvasInv, NEW x \in Drawables,
         NotifyCanvasLater(x) \/ Expire(x) \/ Timer(x)
  PROVE  CanvasInv'
  <1>1. CASE NotifyCanvasLater(x)
    <2>1. \A y \in Drawables : timer'[y] = IF y = x THEN "scheduled" ELSE timer[y]
      BY <1>1, Zenon DEF CanvasInv, CanvasTypeOK, NotifyCanvasLater
    <2>2. \A y \in Drawables : Reminded(y)' <=> Reminded(y)
      BY <1>1, <2>1, Zenon DEF Reminded, NotifyCanvasLater
    <2>3. CanvasTypeOK'
      BY <1>1, Zenon DEF CanvasInv, CanvasTypeOK, NotifyCanvasLater
    <2>4. CanvasIsCurrent'
      BY <1>1, <2>2, Zenon DEF CanvasInv, CanvasTypeOK, CanvasIsCurrent, InMap, NotifyCanvasLater
    <2> QED BY <1>1, <2>1, <2>2, <2>3, <2>4 DEF CanvasInv, NotifyCanvasLater
  <1>2. CASE Expire(x)
    <2>1. \A y \in Drawables : age'[y] = IF y = x THEN "expired" ELSE age[y]
      BY <1>2, Zenon DEF CanvasInv, CanvasTypeOK, Expire
    <2>2. Reminded(x) /\ \A y \in Drawables : Reminded(y)' <=> Reminded(y)
      BY <1>2, Zenon DEF CanvasInv, Reminded, Expire
    <2>3. CanvasTypeOK'
      BY <1>2, Zenon DEF CanvasInv, CanvasTypeOK, Expire
    <2>4. CanvasIsCurrent'
      BY <1>2, <2>1, <2>2, Zenon DEF CanvasInv, CanvasTypeOK, CanvasIsCurrent, InMap, Expire
    <2> QED BY <1>2, <2>1, <2>2, <2>3, <2>4 DEF CanvasInv, Reminded, Expire
  <1>3. CASE Timer(x)
    <2>1. \A y \in Drawables : timer'[y] = IF y = x THEN "fired" ELSE timer[y]
      BY <1>3, Zenon DEF CanvasInv, CanvasTypeOK, Timer
    <2>2. CanvasTypeOK' /\ (missed' \/ daemon' = "woken")
      BY <1>3, Zenon DEF CanvasInv, CanvasTypeOK, Timer, NotifyCanvas
    <2>3. CanvasIsCurrent'
      BY <2>2, Zenon DEF CanvasIsCurrent
    <2> QED BY <1>3, <2>1, <2>2, <2>3 DEF CanvasInv, Reminded, Timer
  <1> QED BY <1>1, <1>2, <1>3, Zenon

(* A rendering drops what has expired and shows the rest. *)
LEMMA RenderKeeps ==
  ASSUME CanvasInv, RenderCanvas
  PROVE  CanvasInv'
  <1>1. CASE ~canvas
    BY <1>1, Zenon DEF RenderCanvas, CanvasInv, CanvasTypeOK, CanvasIsCurrent, Reminded
  <1>2. CASE canvas
    <2>1. CanvasTypeOK'
      BY <1>2, Zenon DEF RenderCanvas, CanvasInv, CanvasTypeOK
    <2>2. \A k \in Keys : canvasDrawables'[k] =
             IF canvasDrawables[k] # 0 /\ age[canvasDrawables[k]] = "expired"
             THEN 0 ELSE canvasDrawables[k]
      BY <1>2, Zenon DEF RenderCanvas
    <2>3. /\ shown' = {x \in Drawables : InMap(x) /\ age[x] # "expired"}
          /\ UNCHANGED <<drawn, age, timer>>
      BY <1>2, Zenon DEF RenderCanvas
    <2>4. \A x \in Drawables : x \in shown' <=> InMap(x)'
      <3> TAKE x \in Drawables
      <3>1. x # 0 OBVIOUS
      <3> QED BY <2>2, <2>3, <3>1, Zenon DEF InMap
    <2>5. \A x \in shown' : x <= drawn'
      BY <2>3, Zenon DEF InMap, CanvasInv, CanvasTypeOK
    <2>6. CanvasIsCurrent'
      BY <2>3, <2>4, Zenon DEF CanvasIsCurrent
    <2> QED BY <2>1, <2>2, <2>3, <2>5, <2>6 DEF CanvasInv, CanvasTypeOK, Reminded
  <1> QED BY <1>1, <1>2, Zenon

(* Every step of the display keeps the invariant. *)
LEMMA CanvasInductive == CanvasInv /\ [CanvasNext]_canvasVars => CanvasInv'
  <1> SUFFICES ASSUME CanvasInv, [CanvasNext]_canvasVars PROVE CanvasInv'
    BY Zenon
  <1>1. CASE RegisterCanvas \/ Wait \/ WakeUp \/ UNCHANGED canvasVars
    <2>1. UNCHANGED <<drawn, canvasDrawables, age, timer, shown, missed>>
      BY <1>1, Zenon DEF RegisterCanvas, Wait, WakeUp, canvasVars
    <2>2. CanvasTypeOK' /\ (daemon' = "woken" \/ daemon # "woken")
      BY <1>1, Zenon DEF RegisterCanvas, Wait, WakeUp, canvasVars, CanvasInv, CanvasTypeOK
    <2>3. CanvasIsCurrent'
      BY <2>1, <2>2, Zenon DEF CanvasInv, CanvasIsCurrent, InMap, Reminded
    <2> QED BY <2>1, <2>2, <2>3, Zenon DEF CanvasInv, Reminded
  <1>2. ASSUME NEW k \in Keys, NEW a \in {"permanent", "timed"}, Draw(k, a)
        PROVE  CanvasInv'
    BY <1>2, DrawKeeps, Zenon
  <1>3. ASSUME NEW k \in Keys, Remove(k) PROVE CanvasInv'
    BY <1>3, RemoveKeeps, Zenon
  <1>4. ASSUME NEW x \in Drawables, NotifyCanvasLater(x) \/ Expire(x) \/ Timer(x)
        PROVE  CanvasInv'
    BY <1>4, TimersKeep, Zenon
  <1>5. CASE RenderCanvas
    BY <1>5, RenderKeeps, Zenon
  <1> QED BY <1>1, <1>2, <1>3, <1>4, <1>5, Zenon DEF CanvasNext, Daemon

(* CanvasInv is an invariant of the display, for any keys and drawings. *)
THEOREM CanvasInvariance == CanvasSpec => []CanvasInv
  BY CanvasInitial, CanvasInductive, PTL DEF CanvasSpec

(* Unless a notification met the daemon between two waits, the sleeping
   daemon has left the canvas as it should be (renderCanvas). *)
THEOREM CanvasTheorem == CanvasSpec => []CanvasIsCurrent
  <1>1. CanvasInv => CanvasIsCurrent
    BY Zenon DEF CanvasInv
  <1> QED BY CanvasInvariance, <1>1, PTL

HIDE MaxDrawsAssumption DEF Drawables, Ages, Timers

-----------------------------------------------------------------------------
(* The selection.                                                           *)

(* What division of naturals rounds to. *)
LEMMA Quotient ==
  ASSUME NEW n \in Nat, NEW g \in Nat \ {0}
  PROVE  /\ n \div g \in Nat
         /\ g * (n \div g) <= n
         /\ n < g * (n \div g) + g
  <1>1. n \div g \in Int /\ n % g \in 0 .. g - 1
    OBVIOUS
  <1>2. n = g * (n \div g) + (n % g)
    OBVIOUS
  <1>3. n \div g \in Nat
    OBVIOUS
  <1> QED BY <1>1, <1>2, <1>3

(* Position and width that are rounded down separately stay inside a picture
   which is at least as large as the canvas, and the width stays positive. *)
LEMMA RoundingFits ==
  ASSUME NEW g \in Nat \ {0}, NEW i \in Nat, i >= g,
         NEW x \in Nat, NEW w \in Nat, w > 0, x + w <= g,
         NEW a \in Nat, NEW b \in Nat,
         g * a <= x * i, g * b <= w * i, w * i < g * b + g
  PROVE  b > 0 /\ a + b <= i
  <1>1. w * i >= i
    OBVIOUS
  <1>2. b > 0
    <2> SUFFICES ASSUME b = 0 PROVE FALSE
      OBVIOUS
    <2> QED BY <1>1
  <1>3. g * (a + b) <= (x + w) * i
    OBVIOUS
  <1>4. (x + w) * i <= g * i
    OBVIOUS
  <1>5. a + b <= i
    <2> SUFFICES ASSUME a + b > i PROVE FALSE
      OBVIOUS
    <2>1. g * (a + b) >= g * (i + 1)
      OBVIOUS
    <2> QED BY <2>1, <1>3, <1>4
  <1> QED BY <1>2, <1>5, Zenon

(* A rectangle of the canvas becomes a part of the picture (screenToInput). *)
LEMMA InsideFits ==
  ASSUME NEW x \in Nat, NEW w \in Nat, w > 0, x + w <= GuiSize
  PROVE  IsSubimage(screenToInput([x |-> x, width |-> w]))
  <1> DEFINE a == (x * InputSize) \div GuiSize
             b == (w * InputSize) \div GuiSize
  <1>1. /\ x * InputSize \in Nat /\ w * InputSize \in Nat
        /\ GuiSize \in Nat \ {0} /\ InputSize \in Nat /\ InputSize >= GuiSize
    BY SizeAssumption
  <1>2. a \in Nat /\ GuiSize * a <= x * InputSize
    BY <1>1, Quotient, Zenon
  <1>3. b \in Nat /\ GuiSize * b <= w * InputSize /\ w * InputSize < GuiSize * b + GuiSize
    BY <1>1, Quotient, Zenon
  <1>4. screenToInput([x |-> x, width |-> w]) = [x |-> a, width |-> b]
    BY DEF screenToInput, Scaled
  <1> HIDE DEF a, b
  <1>5. b > 0 /\ a + b <= InputSize
    BY <1>1, <1>2, <1>3, RoundingFits, Zenon
  <1> QED BY <1>2, <1>3, <1>4, <1>5 DEF IsSubimage

(* Two points of the canvas span a rectangle of it, in either order
   (Area.ofPoints). *)
LEMMA PointsSpan ==
  ASSUME NEW p \in 0 .. GuiSize, NEW q \in 0 .. GuiSize, p # q
  PROVE  IsSubimage(screenToInput(ofPoints(p, q)))
  <1> DEFINE x == IF p <= q THEN p ELSE q
             w == (IF p <= q THEN q ELSE p) - x
  <1>1. x \in Nat /\ w \in Nat /\ w > 0 /\ x + w <= GuiSize
    BY SizeAssumption
  <1>2. ofPoints(p, q) = [x |-> x, width |-> w]
    BY Zenon DEF ofPoints
  <1> QED BY <1>1, <1>2, InsideFits, Zenon

-----------------------------------------------------------------------------
(* A rectangle between two points is a rectangle (MainPanel draws nothing
   before there are two points). *)
LEMMA SpanIsArea ==
  ASSUME NEW p \in Around, NEW q \in Around
  PROVE  ofPoints(p, q) # NoArea
  <1>1. ofPoints(p, q).x = IF p <= q THEN p ELSE q
    BY Zenon DEF ofPoints
  <1>2. ofPoints(p, q).x # Nowhere
    BY <1>1, SizeAssumption DEF Around, Nowhere
  <1> QED BY <1>2 DEF NoArea

(* Nothing is selected when the window opens (MainPanel's fields). *)
LEMMA SelectionInitial == SelectionInit => SelectionInv
  BY DEF SelectionInit, SelectionInv, PanelShowsTheHighlight

(* Pressing a button starts a selection and hides the debug window
   (onCanvasMousePressed). *)
LEMMA PressedKeeps ==
  ASSUME SelectionInv, NEW p \in Inside, MousePressed(p)
  PROVE  SelectionInv'
  <1>1. /\ buttons' \in 0 .. 2 /\ buttons' # 0
        /\ pointStart' \in Inside \cup {Nowhere} /\ pointEnd' \in Around \cup {Nowhere}
    BY DEF SelectionInv, MousePressed
  <1>2. ~showing' /\ (~mixed' => pointEnd' = Nowhere)
    BY Zenon DEF MousePressed
  <1>3. ~enableDebug' => UNCHANGED <<pointStart, pointEnd, enableDebug, trouble>>
    BY Zenon DEF MousePressed
  <1> QED BY <1>1, <1>2, <1>3, Zenon DEF SelectionInv, PanelShowsTheHighlight

(* Dragging moves the second point and the highlight together
   (onCanvasMouseDragged). *)
LEMMA DraggedKeeps ==
  ASSUME SelectionInv, NEW p \in Around, MouseDragged(p)
  PROVE  SelectionInv'
  <1>1. /\ buttons' \in 0 .. 2 /\ pointStart' \in Inside \cup {Nowhere}
        /\ pointEnd' \in Around \cup {Nowhere}
    BY Zenon DEF SelectionInv, MouseDragged
  <1>2. /\ enableDebug' /\ buttons' # 0
        /\ showing' => pointStart' = Nowhere
    BY DEF SelectionInv, MouseDragged
  <1>3. pointStart' # Nowhere => highlight' = ofPoints(pointStart', pointEnd')
    BY Zenon DEF MouseDragged
  <1>4. PanelShowsTheHighlight'
    <2>1. CASE pointStart # Nowhere
      BY <2>1, Zenon DEF SelectionInv, MouseDragged, PanelShowsTheHighlight
    <2>2. CASE pointStart = Nowhere
      BY <2>2, Zenon DEF SelectionInv, MouseDragged, PanelShowsTheHighlight
    <2> QED BY <2>1, <2>2, Zenon
  <1> QED BY <1>1, <1>2, <1>3, <1>4, Zenon DEF SelectionInv

(* A release resets the points or is in trouble, and opens the window on the
   highlight if at all (onCanvasMouseReleased, captureCanvasSelection). *)
LEMMA ReleasedKeeps ==
  ASSUME SelectionInv, NEW saved \in BOOLEAN, MouseReleased(saved)
  PROVE  SelectionInv'
  <1>1. buttons' \in 0 .. 2 /\ buttons' = buttons - 1
    BY DEF SelectionInv, MouseReleased
  <1>2. UNCHANGED <<enableDebug, highlight, mixed>>
    BY Zenon DEF MouseReleased
  <1>3. CASE ~enableDebug /\ UNCHANGED <<pointStart, pointEnd, showing, selectedArea, trouble>>
    BY <1>1, <1>2, <1>3, Zenon DEF SelectionInv, PanelShowsTheHighlight
  <1>4. CASE /\ pointStart' = Nowhere /\ pointEnd' = Nowhere
             /\ UNCHANGED <<showing, selectedArea>>
    BY <1>1, <1>2, <1>4, Zenon DEF SelectionInv, PanelShowsTheHighlight
  <1>5. CASE trouble' /\ UNCHANGED <<pointStart, pointEnd, showing, selectedArea>>
    BY <1>1, <1>2, <1>5, Zenon DEF SelectionInv, PanelShowsTheHighlight
  <1>6. CASE /\ pointStart # Nowhere /\ pointEnd # Nowhere
             /\ OpenPanel(screenToInput(ofPoints(pointStart, pointEnd)))
             /\ pointStart' = Nowhere /\ pointEnd' = Nowhere
    <2>1. selectedArea' = screenToInput(ofPoints(pointStart, pointEnd))
      BY <1>6, Zenon DEF SelectionInv, OpenPanel
    <2>2. ofPoints(pointStart, pointEnd) # NoArea
      <3>1. pointStart \in Around /\ pointEnd \in Around
        BY <1>6, SizeAssumption DEF SelectionInv, Inside, Around
      <3> QED BY <3>1, SpanIsArea, Zenon
    <2>3. PanelShowsTheHighlight'
      BY <2>1, <2>2, <1>2, <1>6, Zenon DEF SelectionInv, PanelShowsTheHighlight
    <2> QED BY <1>1, <1>2, <1>6, <2>3, Zenon DEF SelectionInv
  <1> QED BY <1>3, <1>4, <1>5, <1>6, Zenon DEF MouseReleased, Capture

(* Every step of the user-interface thread keeps SelectionInv. *)
LEMMA SelectionInductive ==
  ASSUME SelectionInv, [SelectionNext]_selectionVars
  PROVE  SelectionInv'
  <1>1. CASE Toggle
    <2>1. UNCHANGED <<buttons, pointStart, pointEnd, highlight, showing, selectedArea, mixed>>
      BY <1>1, Zenon DEF Toggle
    <2>2. trouble \/ buttons > 0 => trouble'
      BY <1>1, Zenon DEF Toggle
    <2>3. (pointStart # Nowhere \/ pointEnd # Nowhere) => trouble \/ buttons > 0
      BY DEF SelectionInv
    <2>4. PanelShowsTheHighlight'
      BY <2>1, Zenon DEF SelectionInv, PanelShowsTheHighlight
    <2> QED BY <2>1, <2>2, <2>3, <2>4, Zenon DEF SelectionInv
  <1>2. CASE SetFrame \/ ClosePanel \/ UNCHANGED selectionVars
    BY <1>2 DEF SelectionInv, SetFrame, ClosePanel, PanelShowsTheHighlight, selectionVars
  <1> QED BY <1>1, <1>2, PressedKeeps, DraggedKeeps, ReleasedKeeps, Zenon DEF SelectionNext

(* SelectionInv holds in every reachable state, for every size of canvas and
   picture. *)
THEOREM SelectionInvariance == SelectionSpec => []SelectionInv
  <1>1. SelectionInit => SelectionInv
    BY SelectionInitial, Zenon
  <1>2. SelectionInv /\ [SelectionNext]_selectionVars => SelectionInv'
    BY SelectionInductive, Zenon
  <1> QED BY <1>1, <1>2, PTL DEF SelectionSpec

(* No point of a selection survives for the next one without trouble
   (onCanvasMouseReleased). *)
THEOREM LeftoversTheorem == SelectionSpec => []LeftoversOnlyAfterTrouble
  <1>1. SelectionInv => LeftoversOnlyAfterTrouble
    BY Zenon DEF SelectionInv, LeftoversOnlyAfterTrouble
  <1> QED BY <1>1, SelectionInvariance, PTL

(* The debug window is open on the highlighted rectangle
   (captureCanvasSelection, openPanel). *)
THEOREM PanelTheorem == SelectionSpec => []PanelShowsTheHighlight
  <1>1. SelectionInv => PanelShowsTheHighlight
    BY Zenon DEF SelectionInv
  <1> QED BY <1>1, SelectionInvariance, PTL

(* No selection inside the canvas is refused, for every canvas and every
   picture at least as large (screenToInput, getSubimage). *)
THEOREM InsideTheorem == SelectionSpec => InsideSelectionsOpenThePanel
  <1> DEFINE A == SelectsInside => showing' /\ IsSubimage(selectedArea')
  <1>1. SelectionInv /\ [SelectionNext]_selectionVars => [A]_selectionVars
    <2> SUFFICES ASSUME SelectionInv, SelectionNext, SelectsInside
                 PROVE  showing' /\ IsSubimage(selectedArea')
      BY Zenon
    <2>1. PICK saved \in BOOLEAN : MouseReleased(saved)
      <3>1. buttons' # buttons /\ buttons' # buttons + 1
        BY DEF SelectsInside, SelectionInv
      <3>2. ~Toggle /\ ~SetFrame /\ ~ClosePanel
        BY <3>1, Zenon DEF Toggle, SetFrame, ClosePanel
      <3>3. \A p : ~MousePressed(p) /\ ~MouseDragged(p)
        BY <3>1, Zenon DEF MousePressed, MouseDragged
      <3> QED BY <3>2, <3>3, Zenon DEF SelectionNext
    <2>2. pointStart \in 0 .. GuiSize /\ pointEnd \in 0 .. GuiSize /\ pointStart # pointEnd
      BY SizeAssumption DEF SelectionInv, SelectsInside, Inside
    <2>3. IsSubimage(screenToInput(ofPoints(pointStart, pointEnd)))
      BY <2>2, PointsSpan, Zenon
    <2>4. Capture(saved) /\ frame /\ ~trouble' /\ ~showing
      BY <2>1, <2>2 DEF MouseReleased, SelectsInside, SelectionInv, Nowhere
    <2>5. OpenPanel(screenToInput(ofPoints(pointStart, pointEnd)))
      BY <2>3, <2>4, Zenon DEF Capture
    <2> QED BY <2>3, <2>4, <2>5, Zenon DEF OpenPanel
  <1> QED BY <1>1, SelectionInvariance, PTL DEF SelectionSpec, InsideSelectionsOpenThePanel

-----------------------------------------------------------------------------
(* The log.                                                                 *)

USE LogAssumption

(* Dropping records from the front makes no hole (remove(0, n) and clear()). *)
LEMMA SuffixHasNoHoles ==
  ASSUME NEW s \in Seq(Records), NEW t \in Seq(Records), NEW d \in Nat,
         Len(t) = Len(s) - d, \A i \in 1 .. Len(t) : t[i] = s[i + d],
         NoHoles(s)
  PROVE  NoHoles(t)
  <1> SUFFICES ASSUME NEW i \in 1 .. (Len(t) - 1)
               PROVE  t[i] < t[i + 1] /\ Between(t[i], t[i + 1]) \subseteq lost
    BY Zenon DEF NoHoles
  <1>1. /\ Len(s) \in Nat /\ Len(t) \in Nat /\ i \in 1 .. Len(t) /\ i + 1 \in 1 .. Len(t)
        /\ i + d \in 1 .. (Len(s) - 1) /\ (i + 1) + d = (i + d) + 1
    OBVIOUS
  <1>2. t[i] = s[i + d] /\ t[i + 1] = s[(i + d) + 1]
    <2>1. t[i + 1] = s[(i + 1) + d]
      BY <1>1, Zenon
    <2> QED BY <1>1, <2>1, Zenon
  <1> QED BY <1>1, <1>2, Zenon DEF NoHoles

(* Where a record of the list, the deque and the runLater queue is found. *)
LEMMA ThreeParts ==
  ASSUME NEW a \in Seq(Records), NEW b \in Seq(Records), NEW c \in Seq(Records)
  PROVE  /\ a \o b \o c \in Seq(Records)
         /\ Len(a \o b \o c) = Len(a) + Len(b) + Len(c)
         /\ \A i \in 1 .. Len(a \o b \o c) :
               /\ (a \o b \o c)[i] \in Records
               /\ (a \o b \o c)[i] = IF i <= Len(a) THEN a[i]
                                    ELSE IF i <= Len(a) + Len(b) THEN b[i - Len(a)]
                                    ELSE c[i - Len(a) - Len(b)]
  OBVIOUS

(* Moving the first element of c behind b changes nothing in a, b, c. *)
LEMMA MoveOne ==
  ASSUME NEW a \in Seq(Records), NEW b \in Seq(Records), NEW c \in Seq(Records), c # <<>>
  PROVE  a \o Append(b, Head(c)) \o Tail(c) = a \o b \o c
  <1> DEFINE d == a \o b
  <1>1. d \in Seq(Records) /\ a \o Append(b, Head(c)) = Append(d, Head(c))
    OBVIOUS
  <1> HIDE DEF d
  <1>2. Append(d, Head(c)) \o Tail(c) = d \o c
    <2>1. /\ Append(d, Head(c)) \in Seq(Records) /\ Tail(c) \in Seq(Records)
          /\ Len(c) \in Nat \ {0} /\ Len(Tail(c)) = Len(c) - 1 /\ Len(d) \in Nat
      BY <1>1
    <2>2. Len(Append(d, Head(c)) \o Tail(c)) = Len(d \o c)
      BY <1>1, <2>1
    <2>3. \A i \in 1 .. Len(d \o c) : (Append(d, Head(c)) \o Tail(c))[i] = (d \o c)[i]
      BY <1>1, <2>1
    <2> QED BY <1>1, <2>1, <2>2, <2>3, SeqEqual
  <1> QED BY <1>1, <1>2, Zenon DEF d

(* What taking the first element of c out of d, c leaves. *)
LEMMA DropOne ==
  ASSUME NEW d \in Seq(Records), NEW c \in Seq(Records), c # <<>>
  PROVE  /\ Len(d \o Tail(c)) = Len(d \o c) - 1
         /\ (d \o c)[Len(d) + 1] = Head(c)
         /\ \A i \in 1 .. Len(d \o Tail(c)) :
               (d \o Tail(c))[i] = IF i <= Len(d) THEN (d \o c)[i] ELSE (d \o c)[i + 1]
  OBVIOUS

(* The records on their way to the list are records. *)
LEMMA AllItemsType ==
  ASSUME LogTypeOK
  PROVE  /\ AllItems \in Seq(Records)
         /\ Len(AllItems) = Len(logItems) + Len(log) + Len(posted)
         /\ \A i \in 1 .. Len(AllItems) : AllItems[i] \in Records
  BY ThreeParts DEF AllItems, LogTypeOK

(* A longer suffix of the records keeps LogInv's part about them, when the
   count and the refused records stay. *)
LEMMA SuffixKeeps ==
  ASSUME LogInv, LogTypeOK', UNCHANGED <<logged, lost>>, NEW d \in Nat,
         Len(AllItems') = Len(AllItems) - d,
         \A i \in 1 .. Len(AllItems') : AllItems'[i] = AllItems[i + d]
  PROVE  LogHasNoHoles' /\ \A i \in 1 .. Len(AllItems') : AllItems'[i] <= logged'
  <1>1. AllItems \in Seq(Records) /\ AllItems' \in Seq(Records)
    BY ThreeParts, Zenon DEF LogInv, LogTypeOK, AllItems
  <1>2. NoHoles(AllItems)
    BY Zenon DEF LogInv, LogHasNoHoles
  <1>3. NoHoles(AllItems')
    BY <1>1, <1>2, SuffixHasNoHoles, Zenon
  <1>4. \A i \in 1 .. Len(AllItems') : AllItems'[i] <= logged'
    BY <1>1 DEF LogInv
  <1>5. ASSUME AllItems' # <<>>
        PROVE  Between(AllItems'[Len(AllItems')], logged' + 1) \subseteq lost'
    <2>1. Len(AllItems') \in 1 .. Len(AllItems')
      BY <1>1, <1>5
    <2>2. AllItems # <<>> /\ AllItems'[Len(AllItems')] = AllItems[Len(AllItems)]
      BY <1>1, <2>1
    <2> QED BY <2>2, Zenon DEF LogInv, LogHasNoHoles
  <1>6. LogHasNoHoles'
    <2>1. NoHoles(AllItems)'
      BY <1>3, Zenon DEF NoHoles, Between
    <2> QED BY <2>1, <1>5, Zenon DEF LogHasNoHoles, Between
  <1> QED BY <1>4, <1>6, Zenon

(* The window opens on an empty log. *)
LEMMA LogInitial == ASSUME LogInit PROVE LogInv
  <1>1. LogTypeOK
    <2>1. /\ posted \in Seq(Records) /\ log \in Seq(Records) /\ logItems \in Seq(Records)
          /\ Len(log) = 0 /\ Len(logItems) = 0
      BY DEF LogInit
    <2>2. logged \in 0 .. MaxRecords /\ Len(log) <= MaxLogEntries /\ Len(logItems) <= MaxEntries
      BY <2>1 DEF LogInit
    <2>3. /\ setup \in {"bound", "added", "ready"} /\ paused \in BOOLEAN
          /\ logTransfer \in {"STOPPED", "RUNNING", "PAUSED"} /\ lost \subseteq Records
      BY Zenon DEF LogInit
    <2> QED BY <2>1, <2>2, <2>3, Zenon DEF LogTypeOK
  <1>2. Len(AllItems) = 0 /\ AllItems = <<>>
    BY DEF LogInit, AllItems
  <1> QED BY <1>1, <1>2 DEF LogInit, LogInv, LogHasNoHoles, NoHoles, SwitchRulesTheTimeline

(* A record is numbered after all others and posted behind them (logGUI). *)
LEMMA LogGUIKeeps == ASSUME LogInv, LogGUI PROVE LogInv'
  <1>0. LogTypeOK /\ logged' = logged + 1 /\ posted' = Append(posted, logged')
        /\ UNCHANGED <<log, logItems, setup, paused, logTransfer, lost>>
    BY Zenon DEF LogInv, LogGUI
  <1>1. LogTypeOK'
    <2>1. logged' \in Records /\ logged' \in 0 .. MaxRecords
      BY <1>0 DEF LogTypeOK, LogGUI, Records
    <2> QED BY <1>0, <2>1 DEF LogTypeOK
  <1>2. /\ Len(AllItems') = Len(AllItems) + 1
        /\ \A i \in 1 .. Len(AllItems) : AllItems'[i] = AllItems[i]
        /\ AllItems'[Len(AllItems) + 1] = logged'
        /\ Len(AllItems) \in Nat /\ logged \in Nat
    <2>1. AllItems' = Append(AllItems, logged')
      BY <1>0 DEF LogTypeOK, AllItems
    <2>2. AllItems \in Seq(Records)
      BY <1>0, AllItemsType, Zenon
    <2>3. logged \in Nat
      BY <1>0 DEF LogTypeOK
    <2> QED BY <2>1, <2>2, <2>3
  <1>3. \A i \in 1 .. Len(AllItems) : AllItems[i] \in Records /\ AllItems[i] <= logged
    BY <1>0, AllItemsType, Zenon DEF LogInv
  <1>4. \A i \in 1 .. Len(AllItems') : AllItems'[i] <= logged'
    BY <1>0, <1>2, <1>3 DEF Records
  <1>5. NoHoles(AllItems)'
    <2> SUFFICES ASSUME NEW i \in 1 .. (Len(AllItems') - 1)
                 PROVE  /\ AllItems'[i] < AllItems'[i + 1]
                        /\ Between(AllItems'[i], AllItems'[i + 1]) \subseteq lost
      BY <1>0, Zenon DEF NoHoles, Between
    <2>1. CASE i < Len(AllItems)
      BY <1>2, <2>1 DEF LogInv, LogHasNoHoles, NoHoles
    <2>2. CASE i = Len(AllItems)
      <3>1. AllItems # <<>>
        BY <2>2, <1>2
      <3> QED BY <1>0, <1>2, <1>3, <2>2, <3>1 DEF LogInv, LogHasNoHoles, Records
    <2> QED BY <1>2, <2>1, <2>2
  <1>6. Between(AllItems'[Len(AllItems')], logged' + 1) = {}
    BY <1>0, <1>2 DEF Between, Records
  <1> QED BY <1>0, <1>1, <1>4, <1>5, <1>6, Zenon DEF LogInv, LogHasNoHoles, SwitchRulesTheTimeline, Between

(* A record moves from the runLater queue to the deque, or is refused by a
   full one and noted as lost (offer). *)
LEMMA OfferKeeps == ASSUME LogInv, Offer PROVE LogInv'
  <1>0. /\ LogTypeOK /\ posted # <<>> /\ posted' = Tail(posted)
        /\ UNCHANGED <<logged, logItems, setup, paused, logTransfer>>
    BY Zenon DEF LogInv, Offer
  <1>1. /\ posted \in Seq(Records) /\ log \in Seq(Records) /\ logItems \in Seq(Records)
        /\ Head(posted) \in Records /\ posted' \in Seq(Records)
        /\ Len(posted) \in Nat \ {0} /\ Len(posted') = Len(posted) - 1
        /\ \A i \in 1 .. Len(posted') : posted'[i] = posted[i + 1]
        /\ Head(posted) = posted[1]
    BY <1>0 DEF LogTypeOK
  <1>2. SwitchRulesTheTimeline' /\ (setup' = "bound" => ~paused' /\ logTransfer' = "STOPPED")
        /\ (setup' = "added" => ~paused' /\ logTransfer' = "RUNNING")
    BY <1>0, Zenon DEF LogInv, SwitchRulesTheTimeline
  <1>3. CASE Len(log) < MaxLogEntries /\ log' = Append(log, Head(posted)) /\ UNCHANGED lost
    <2>1. log' \in Seq(Records) /\ Len(log') = Len(log) + 1
      BY <1>1, <1>3
    <2>2. LogTypeOK'
      BY <1>0, <1>1, <1>3, <2>1 DEF LogTypeOK
    <2>3. AllItems' = AllItems
      <3>1. logItems' = logItems /\ log' = Append(log, Head(posted)) /\ posted' = Tail(posted)
        BY <1>0, <1>3, Zenon
      <3>2. /\ logItems \in Seq(Records) /\ log \in Seq(Records) /\ posted \in Seq(Records)
            /\ posted # <<>>
        BY <1>0, <1>1, Zenon
      <3>3. logItems \o Append(log, Head(posted)) \o Tail(posted) = logItems \o log \o posted
        BY <3>2, MoveOne, Zenon
      <3> QED BY <3>1, <3>3, Zenon DEF AllItems
    <2>4. Len(AllItems') = Len(AllItems) - 0
      BY <1>0, <2>3, AllItemsType
    <2>5. \A i \in 1 .. Len(AllItems') : AllItems'[i] = AllItems[i + 0]
      BY <2>3
    <2> QED BY <1>0, <1>2, <1>3, <2>2, <2>4, <2>5, SuffixKeeps, Zenon DEF LogInv
  <1>4. CASE Len(log) = MaxLogEntries /\ lost' = lost \cup {Head(posted)} /\ UNCHANGED log
    <2> DEFINE m == Len(logItems) + Len(log)
    <2>1. LogTypeOK'
      BY <1>0, <1>1, <1>4, Zenon DEF LogTypeOK
    <2> DEFINE d == logItems \o log
    <2>a. /\ d \in Seq(Records) /\ Len(d) = m
          /\ AllItems = d \o posted /\ AllItems' = d \o Tail(posted)
      BY <1>0, <1>1, <1>4 DEF AllItems
    <2> HIDE DEF d
    <2>2. /\ m \in Nat /\ m >= 1
          /\ Len(AllItems) = m + Len(posted)
          /\ Len(AllItems') = Len(AllItems) - 1
          /\ AllItems[m + 1] = Head(posted)
      <3>1. m \in Nat /\ m >= 1
        BY <1>1, <1>4
      <3>2. Len(AllItems) = m + Len(posted)
        BY <1>1, <2>a, ConcatProperties, ZenonT(60)
      <3> QED BY <1>0, <1>1, <2>a, <3>1, <3>2, DropOne
    <2>3. \A i \in 1 .. Len(AllItems') :
             AllItems'[i] = IF i <= m THEN AllItems[i] ELSE AllItems[i + 1]
      BY <1>0, <1>1, <2>a, DropOne
    <2>4. /\ \A i \in 1 .. Len(AllItems) : AllItems[i] \in Nat /\ AllItems[i] <= logged
          /\ Len(AllItems) \in Nat /\ logged \in Nat
      <3>1. logged \in Nat /\ \A i \in 1 .. Len(AllItems) : AllItems[i] <= logged
        BY <1>0 DEF LogInv, LogTypeOK
      <3>2. /\ AllItems \in Seq(Records) /\ Len(AllItems) \in Nat
            /\ \A i \in 1 .. Len(AllItems) : AllItems[i] \in Records
        BY <1>0, AllItemsType
      <3> QED BY <3>1, <3>2 DEF Records
    <2> HIDE DEF m
    <2>5. \A i \in 1 .. Len(AllItems') : AllItems'[i] <= logged'
      BY <1>0, <2>2, <2>3, <2>4
    <2>6. ASSUME NEW i \in 1 .. (Len(AllItems) - 1)
          PROVE  AllItems[i] < AllItems[i + 1] /\ Between(AllItems[i], AllItems[i + 1]) \subseteq lost'
      BY <1>4, <2>6, Zenon DEF LogInv, LogHasNoHoles, NoHoles
    <2>7. NoHoles(AllItems)'
      <3> SUFFICES ASSUME NEW i \in 1 .. (Len(AllItems') - 1)
                   PROVE  /\ AllItems'[i] < AllItems'[i + 1]
                          /\ Between(AllItems'[i], AllItems'[i + 1]) \subseteq lost'
        BY Zenon DEF NoHoles, Between
      <3>0. /\ i \in 1 .. (Len(AllItems) - 1) /\ i + 1 \in 1 .. Len(AllItems)
            /\ i \in 1 .. Len(AllItems') /\ i + 1 \in 1 .. Len(AllItems')
            /\ (i + 1) + 1 = i + 2 /\ i + 1 \in 1 .. (Len(AllItems) - 1)
        BY <2>2, <2>4
      <3>1. CASE i < m
        BY <3>0, <3>1, <2>2, <2>3, <2>6
      <3>2. CASE i = m
        <4>1. AllItems'[i] = AllItems[i] /\ AllItems'[i + 1] = AllItems[i + 2]
          BY <3>0, <3>2, <2>2, <2>3
        <4>2. /\ AllItems[i] < AllItems[i + 1] /\ Between(AllItems[i], AllItems[i + 1]) \subseteq lost'
              /\ AllItems[i + 1] < AllItems[i + 2]
              /\ Between(AllItems[i + 1], AllItems[i + 2]) \subseteq lost'
              /\ AllItems[i] \in Nat /\ AllItems[i + 1] \in Nat /\ AllItems[i + 2] \in Nat
          BY <3>0, <2>6, <2>4, <2>2
        <4>3. AllItems[i + 1] \in lost'
          BY <1>4, <2>2, <3>2, Zenon
        <4> QED BY <4>1, <4>2, <4>3 DEF Between, Records
      <3>3. CASE i > m
        <4>0. ~(i <= m) /\ ~(i + 1 <= m)
          BY <3>3, <2>2
        <4>1. AllItems'[i] = AllItems[i + 1] /\ AllItems'[i + 1] = AllItems[(i + 1) + 1]
          BY <3>0, <4>0, <2>3, Zenon
        <4> QED BY <3>0, <4>1, <2>6, Zenon
      <3> QED BY <3>1, <3>2, <3>3, <2>2
    <2>8. Between(AllItems'[Len(AllItems')], logged' + 1) \subseteq lost'
      <3>1. AllItems # <<>> /\ Between(AllItems[Len(AllItems)], logged + 1) \subseteq lost
        BY <2>2, <1>1 DEF LogInv, LogHasNoHoles
      <3>2. CASE Len(posted) > 1
        <4>1. /\ Len(AllItems') \in 1 .. Len(AllItems') /\ ~(Len(AllItems') <= m)
              /\ Len(AllItems') + 1 = Len(AllItems)
          BY <3>2, <1>1, <2>2
        <4>2. AllItems'[Len(AllItems')] = AllItems[Len(AllItems)]
          BY <4>1, <2>3, Zenon
        <4> QED BY <3>1, <4>2, <1>0, <1>4, Zenon
      <3>3. CASE Len(posted) = 1
        <4>1. /\ Len(AllItems) = m + 1 /\ AllItems'[Len(AllItems')] = AllItems[m]
              /\ m \in 1 .. (Len(AllItems) - 1) /\ m + 1 \in 1 .. Len(AllItems)
              /\ m \in 1 .. Len(AllItems)
          BY <3>3, <2>2, <2>3
        <4>2. /\ AllItems[m] < AllItems[m + 1] /\ Between(AllItems[m], AllItems[m + 1]) \subseteq lost'
              /\ AllItems[m + 1] \in lost' /\ AllItems[m] \in Nat /\ AllItems[m + 1] \in Nat
          BY <4>1, <2>6, <2>4, <2>2, <1>4, Zenon
        <4>3. Between(AllItems[m + 1], logged + 1) \subseteq lost'
          BY <3>1, <4>1, <1>4, Zenon
        <4> QED BY <1>0, <2>4, <4>1, <4>2, <4>3 DEF Between, Records
      <3> QED BY <3>2, <3>3, <1>1
    <2> QED BY <1>2, <2>1, <2>5, <2>7, <2>8, Zenon DEF LogInv, LogHasNoHoles, Between
  <1> QED BY <1>3, <1>4, Zenon DEF Offer

(* What is drained goes behind what is shown, and the list is cut at its old
   end (drainTo, remove(0, size - MAX_ENTRIES)). *)
LEMMA TransferKeeps == ASSUME LogInv, Transfer PROVE LogInv'
  <1> DEFINE s == logItems \o log
             n == Len(s)
             d == IF n > MaxEntries THEN n - MaxEntries ELSE 0
  <1>0. /\ LogTypeOK /\ log' = <<>> /\ logItems' = Trimmed(s)
        /\ UNCHANGED <<logged, posted, setup, paused, logTransfer, lost>>
    BY Zenon DEF LogInv, Transfer
  <1>1. s \in Seq(Records) /\ n \in Nat /\ posted \in Seq(Records) /\ d \in Nat
    BY <1>0 DEF LogTypeOK
  <1>2. AllItems = s \o posted /\ AllItems' = logItems' \o posted
    <2>1. logItems' \in Seq(Records)
      BY <1>0, <1>1 DEF Trimmed
    <2> QED BY <1>0, <2>1 DEF AllItems
  <1> HIDE DEF s
  <1>3. /\ logItems' \in Seq(Records) /\ Len(logItems') = n - d /\ Len(logItems') <= MaxEntries
        /\ \A i \in 1 .. Len(logItems') : logItems'[i] = s[i + d]
    <2>1. CASE n > MaxEntries
      <3>1. logItems' = SubSeq(s, n - MaxEntries + 1, n) /\ d = n - MaxEntries
        BY <1>0, <2>1, Zenon DEF Trimmed
      <3>2. n - MaxEntries + 1 \in 1 .. n
        BY <1>1, <2>1
      <3> QED BY <1>1, <3>1, <3>2, SMTT(30)
    <2>2. CASE ~(n > MaxEntries)
      BY <1>0, <1>1, <2>2 DEF Trimmed
    <2> QED BY <2>1, <2>2, Zenon
  <1>4. LogTypeOK'
    <2>1. log' \in Seq(Records) /\ Len(log') = 0
      BY <1>0
    <2>2. Len(log') <= MaxLogEntries
      BY <2>1
    <2> QED BY <1>0, <1>3, <2>1, <2>2, Zenon DEF LogTypeOK
  <1> HIDE DEF d, n
  <1>5. Len(AllItems') = Len(AllItems) - d
    BY <1>1, <1>2, <1>3, SMTT(30) DEF n
  <1>6. \A i \in 1 .. Len(AllItems') : AllItems'[i] = AllItems[i + d]
    BY <1>1, <1>2, <1>3, <1>5, SMTT(30) DEF n
  <1> QED BY <1>0, <1>1, <1>4, <1>5, <1>6, SuffixKeeps, Zenon DEF LogInv, SwitchRulesTheTimeline

(* Clearing the list drops records from the front (clearLogs). *)
LEMMA ClearLogsKeeps == ASSUME LogInv, ClearLogs PROVE LogInv'
  <1>0. /\ LogTypeOK /\ logItems' = <<>>
        /\ UNCHANGED <<logged, posted, log, setup, paused, logTransfer, lost>>
    BY Zenon DEF LogInv, ClearLogs
  <1>1. LogTypeOK'
    <2>1. logItems' \in Seq(Records) /\ Len(logItems') = 0
      BY <1>0
    <2>2. Len(logItems') <= MaxEntries
      BY <2>1
    <2> QED BY <1>0, <2>1, <2>2, Zenon DEF LogTypeOK
  <1> DEFINE c == log \o posted
  <1>2. /\ c \in Seq(Records) /\ logItems \in Seq(Records)
        /\ AllItems = logItems \o c /\ AllItems' = c
    BY <1>0 DEF LogTypeOK, AllItems
  <1> HIDE DEF c
  <1>3. /\ Len(AllItems') = Len(AllItems) - Len(logItems) /\ Len(logItems) \in Nat
        /\ \A i \in 1 .. Len(AllItems') : AllItems'[i] = AllItems[i + Len(logItems)]
    BY <1>2
  <1> QED BY <1>0, <1>1, <1>3, SuffixKeeps, Zenon DEF LogInv, SwitchRulesTheTimeline

(* Adding the view, restoring the switch and pausing move no record; the
   listeners keep switch and Timeline together. *)
LEMMA SwitchKeeps ==
  ASSUME LogInv, Add \/ (\E p \in BOOLEAN : Restore(p)) \/ Pause \/ UNCHANGED logVars
  PROVE  LogInv'
  <1>1. UNCHANGED <<logged, posted, log, logItems, lost>>
    BY Zenon DEF Add, Restore, Pause, logVars
  <1>2. /\ AllItems' = AllItems /\ LogHasNoHoles'
        /\ \A i \in 1 .. Len(AllItems') : AllItems'[i] <= logged'
    BY <1>1, Zenon DEF LogInv, LogHasNoHoles, AllItems, NoHoles, Between
  <1>3. CASE Add \/ UNCHANGED logVars
    BY <1>1, <1>2, <1>3 DEF LogInv, LogTypeOK, SwitchRulesTheTimeline, Add, logVars
  <1>4. ASSUME NEW p \in BOOLEAN, Restore(p) PROVE LogInv'
    BY <1>1, <1>2, <1>4, Zenon DEF LogInv, LogTypeOK, SwitchRulesTheTimeline, Restore, PausedListener
  <1>5. CASE Pause
    BY <1>1, <1>2, <1>5, Zenon DEF LogInv, LogTypeOK, SwitchRulesTheTimeline, Pause, PausedListener
  <1> QED BY <1>3, <1>4, <1>5, Zenon

(* LogInv holds in every reachable state, for every capacity of the deque,
   length of the list and number of records. *)
THEOREM LogInvariance == LogSpec => []LogInv
  <1>1. LogInit => LogInv
    BY LogInitial, Zenon
  <1>2. LogInv /\ [LogNext]_logVars => LogInv'
    BY LogGUIKeeps, OfferKeeps, TransferKeeps, ClearLogsKeeps, SwitchKeeps, Zenon DEF LogNext
  <1> QED BY <1>1, <1>2, PTL DEF LogSpec

(* The log shows the records in order, and a hole is a record the full deque
   refused (logGUI, offer, drainTo). *)
THEOREM HolesTheorem == LogSpec => []LogHasNoHoles
  <1>1. LogInv => LogHasNoHoles
    BY Zenon DEF LogInv
  <1> QED BY <1>1, LogInvariance, PTL

(* In a window that is set up the Timeline runs exactly when the switch is not
   set (the paused and parent listeners). *)
THEOREM TimelineTheorem == LogSpec => []SwitchRulesTheTimeline
  <1>1. LogInv => SwitchRulesTheTimeline
    BY Zenon DEF LogInv
  <1> QED BY <1>1, LogInvariance, PTL
=============================================================================
