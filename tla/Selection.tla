------------------------------ MODULE Selection ------------------------------
(***************************************************************************)
(* Selecting a part of the picture with the mouse: the three handlers of   *)
(* the canvas in MainPanel, the conversion of the rectangle from screen to *)
(* input pixels, and the debug window that opens on the selection.  All of *)
(* it runs on the user-interface thread.                                   *)
(*                                                                         *)
(* The two coordinates are handled alike and independently; one of them is *)
(* modelled, and an Area is a position x with a width.                     *)
(***************************************************************************)
EXTENDS Integers

CONSTANTS
    GuiSize,      \* width of the canvas in screen pixels
    InputSize     \* width of the input picture

ASSUME SizeAssumption == /\ GuiSize \in Nat \ {0}
                         /\ InputSize \in Nat
                         /\ InputSize >= GuiSize

VARIABLES
    enableDebug,      \* the debug switch
    buttons,          \* mouse buttons that are down on the canvas
    pointStart,       \* MainPanel.pointStart
    pointEnd,         \* MainPanel.pointEnd
    frame,            \* a frame has been cached
    highlight,        \* the last rectangle drawn on the canvas
    showing,          \* the debug window is open
    selectedArea,     \* DebugPanel.selectedArea
    trouble,          \* history: see Toggle and Release
    mixed             \* history: the last press found points of an earlier one

selectionVars == <<enableDebug, buttons, pointStart, pointEnd, frame, highlight, showing,
          selectedArea, trouble, mixed>>

Nowhere == -2                     \* null, for a point
Inside == 0 .. (GuiSize - 1)      \* a button goes down on the canvas,
Around == -1 .. GuiSize           \* and is dragged over its edge
NoArea == [x |-> Nowhere, width |-> 0]
Area == [x : -InputSize .. InputSize, width : 0 .. 3 * InputSize]

-----------------------------------------------------------------------------
ofPoints(p, q) ==
    LET x == IF p <= q THEN p ELSE q
    IN  [x |-> x, width |-> (IF p <= q THEN q ELSE p) - x]

(* Mutant: the product is rounded up. *)
ScaledUp(n) == -((-n * InputSize) \div GuiSize)

(* (int) n * xScale, where xScale is InputSize / GuiSize: Java truncates
   towards zero. *)
Scaled(n) ==
    IF n >= 0 THEN (n * InputSize) \div GuiSize ELSE -((-n * InputSize) \div GuiSize)

screenToInput(screen) == [x |-> Scaled(screen.x), width |-> Scaled(screen.width)]

(* BufferedImage.getSubimage accepts a non-empty rectangle of the picture. *)
IsSubimage(a) == a.width > 0 /\ a.x >= 0 /\ a.x + a.width <= InputSize

-----------------------------------------------------------------------------
SelectionTypeOK ==
    /\ enableDebug \in BOOLEAN
    /\ buttons \in 0 .. 2
    /\ pointStart \in Inside \cup {Nowhere}
    /\ pointEnd \in Around \cup {Nowhere}
    /\ frame \in BOOLEAN
    /\ highlight = NoArea \/ highlight \in [x : Around, width : 0 .. GuiSize]
    /\ showing \in BOOLEAN
    /\ selectedArea = NoArea \/ selectedArea \in Area
    /\ trouble \in BOOLEAN /\ mixed \in BOOLEAN

SelectionInit ==
    /\ enableDebug \in BOOLEAN
    /\ buttons = 0
    /\ pointStart = Nowhere /\ pointEnd = Nowhere
    /\ frame = FALSE
    /\ highlight = NoArea
    /\ showing = FALSE /\ selectedArea = NoArea
    /\ trouble = FALSE /\ mixed = FALSE

(* The debug switch; trouble when a button is down meanwhile. *)
Toggle ==
    /\ enableDebug' = ~enableDebug
    /\ trouble' = (trouble \/ buttons > 0)
    /\ UNCHANGED <<buttons, pointStart, pointEnd, frame, highlight, showing,
                   selectedArea, mixed>>

(* The first frame arrives. *)
SetFrame ==
    /\ ~frame
    /\ frame' = TRUE
    /\ UNCHANGED <<enableDebug, buttons, pointStart, pointEnd, highlight, showing,
                   selectedArea, trouble, mixed>>

(* Mutant: the debug window stays open. *)
PressedKeepsPanel(p) ==
    /\ buttons < 2
    /\ buttons' = buttons + 1
    /\ pointStart' = IF enableDebug THEN p ELSE pointStart
    /\ mixed' = (pointStart # Nowhere \/ pointEnd # Nowhere)
    /\ UNCHANGED <<enableDebug, pointEnd, frame, highlight, showing, selectedArea,
                   trouble>>

(* onCanvasMousePressed, for each button that goes down *)
MousePressed(p) ==
    /\ buttons < 2
    /\ buttons' = buttons + 1
    /\ pointStart' = IF enableDebug THEN p ELSE pointStart
    /\ showing' = FALSE
    /\ mixed' = (pointStart # Nowhere \/ pointEnd # Nowhere)
    /\ UNCHANGED <<enableDebug, pointEnd, frame, highlight, selectedArea, trouble>>

(* onCanvasMouseDragged, and the rectangle it draws *)
MouseDragged(p) ==
    /\ buttons > 0
    /\ enableDebug
    /\ pointEnd' = p
    /\ highlight' = IF pointStart # Nowhere THEN ofPoints(pointStart, p) ELSE highlight
    /\ UNCHANGED <<enableDebug, buttons, pointStart, frame, showing, selectedArea,
                   trouble, mixed>>

(* DebugPanel.openPanel *)
OpenPanel(a) ==
    /\ selectedArea' = IF showing THEN selectedArea ELSE a
    /\ showing' = TRUE

(* onCanvasMouseReleased and captureCanvasSelection.  Without a frame, or
   when the picture cannot be saved, an exception leaves the handler before
   the points are reset; a rectangle that is not part of the picture is
   ignored. *)
Capture(saved) ==
    LET area == screenToInput(ofPoints(pointStart, pointEnd))
    IN  \/ /\ frame /\ IsSubimage(area) /\ saved
           /\ OpenPanel(area)
           /\ pointStart' = Nowhere /\ pointEnd' = Nowhere
           /\ trouble' = FALSE
        \/ /\ frame /\ ~IsSubimage(area)
           /\ pointStart' = Nowhere /\ pointEnd' = Nowhere
           /\ trouble' = FALSE
           /\ UNCHANGED <<showing, selectedArea>>
        \/ /\ ~frame \/ (IsSubimage(area) /\ ~saved)
           /\ trouble' = TRUE
           /\ UNCHANGED <<pointStart, pointEnd, showing, selectedArea>>

(* Mutant: only the first point is reset. *)
ReleasedKeepsEnd(saved) ==
    /\ buttons > 0
    /\ buttons' = buttons - 1
    /\ \/ /\ ~enableDebug
          /\ UNCHANGED <<pointStart, pointEnd, showing, selectedArea, trouble>>
       \/ /\ enableDebug
          /\ pointStart = Nowhere \/ pointEnd = Nowhere
          /\ pointStart' = Nowhere
          /\ trouble' = FALSE
          /\ UNCHANGED <<pointEnd, showing, selectedArea>>
       \/ /\ enableDebug
          /\ pointStart # Nowhere /\ pointEnd # Nowhere
          /\ Capture(saved)
    /\ UNCHANGED <<enableDebug, frame, highlight, mixed>>

MouseReleased(saved) ==
    /\ buttons > 0
    /\ buttons' = buttons - 1
    /\ \/ /\ ~enableDebug
          /\ UNCHANGED <<pointStart, pointEnd, showing, selectedArea, trouble>>
       \/ /\ enableDebug
          /\ pointStart = Nowhere \/ pointEnd = Nowhere
          /\ pointStart' = Nowhere /\ pointEnd' = Nowhere
          /\ trouble' = FALSE
          /\ UNCHANGED <<showing, selectedArea>>
       \/ /\ enableDebug
          /\ pointStart # Nowhere /\ pointEnd # Nowhere
          /\ Capture(saved)
    /\ UNCHANGED <<enableDebug, frame, highlight, mixed>>

(* The user closes the debug window. *)
ClosePanel ==
    /\ showing
    /\ showing' = FALSE
    /\ UNCHANGED <<enableDebug, buttons, pointStart, pointEnd, frame, highlight,
                   selectedArea, trouble, mixed>>

SelectionNext ==
    \/ Toggle
    \/ SetFrame
    \/ \E p \in Inside : MousePressed(p)
    \/ \E p \in Around : MouseDragged(p)
    \/ \E saved \in BOOLEAN : MouseReleased(saved)
    \/ ClosePanel

SelectionSpec == SelectionInit /\ [][SelectionNext]_selectionVars

-----------------------------------------------------------------------------
(* No point of a selection is left behind for the next one, except when the
   debug switch was changed with a button down or the capture threw: then
   one undisturbed release clears them (onCanvasMouseReleased,
   captureCanvasSelection). *)
LeftoversOnlyAfterTrouble ==
    buttons = 0 /\ (pointStart # Nowhere \/ pointEnd # Nowhere) => trouble

(* The debug window is open on the rectangle that was highlighted while
   dragging, converted to input pixels (onCanvasMouseDragged,
   captureCanvasSelection, openPanel), unless the button went down with
   points of an earlier press still set. *)
PanelShowsTheHighlight ==
    showing /\ ~mixed =>
        highlight # NoArea /\ selectedArea = screenToInput(highlight)

(* The release of a button that ends an undisturbed selection on the
   canvas, up to its far edge *)
SelectsInside ==
    /\ buttons' < buttons /\ enableDebug /\ frame /\ ~trouble'
    /\ pointStart # Nowhere /\ pointEnd \in 0 .. GuiSize /\ pointStart # pointEnd

(* In the one coordinate that is modelled, a selection inside the canvas is
   never refused, in whatever direction it was dragged: rounding takes it
   neither out of the picture nor down to nothing (Area.ofPoints,
   screenToInput, getSubimage).  The code treats the other coordinate alike;
   a rectangle has to have an extent in both. *)
InsideSelectionsOpenThePanel ==
    [][SelectsInside => showing' /\ IsSubimage(selectedArea')]_selectionVars

-----------------------------------------------------------------------------
(* The inductive strengthening of the two invariants: points outlive a switch
   or the last button only in trouble, an open window leaves no first point,
   and between drag and release the highlight is what the points say. *)
SelectionInv ==
    /\ buttons \in 0 .. 2
    /\ pointStart \in Inside \cup {Nowhere} /\ pointEnd \in Around \cup {Nowhere}
    /\ (pointStart # Nowhere \/ pointEnd # Nowhere) /\ (~enableDebug \/ buttons = 0)
          => trouble
    /\ showing => pointStart = Nowhere
    /\ ~mixed /\ pointStart # Nowhere /\ pointEnd # Nowhere
          => highlight = ofPoints(pointStart, pointEnd)
    /\ PanelShowsTheHighlight
=============================================================================
