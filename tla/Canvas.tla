------------------------------- MODULE Canvas -------------------------------
(***************************************************************************)
(* The transparent layer over the screen on which scripts and the mouse    *)
(* draw: DisplayService.draw, the RENDER_CANVAS daemon and the delayed     *)
(* notifications that take expired drawings away.                          *)
(*                                                                         *)
(* The daemon waits on the monitor of canvasDrawables without a condition, *)
(* so that a notification given while it is between two waits is lost.     *)
(* Instants are abstracted to their order: a drawing expires at some time, *)
(* and its delayed notification, scheduled NOTIFY_CANVAS_DELAY after its   *)
(* duration, comes later than that.                                        *)
(***************************************************************************)
EXTENDS Naturals

CONSTANTS
    Keys,         \* keys of draw events
    MaxDraws      \* bound on the drawables

ASSUME MaxDrawsAssumption == MaxDraws \in Nat

Drawables == 1 .. MaxDraws

VARIABLES
    canvas,           \* a canvas consumer is registered
    drawn,            \* number of drawables made so far
    canvasDrawables,  \* the drawable under each key, 0 for none
    age,              \* of each drawable: whether and when it expires
    timer,            \* of each drawable: its delayed notification
    daemon,           \* position of RENDER_CANVAS
    shown,            \* what the canvas shows
    missed            \* history: a notification was lost since the last rendering

canvasVars == <<canvas, drawn, canvasDrawables, age, timer, daemon, shown, missed>>

Ages == {"unborn", "permanent", "timed", "expired"}
Timers == {"none", "due", "scheduled", "fired"}

CanvasTypeOK ==
    /\ canvas \in BOOLEAN
    /\ drawn \in 0 .. MaxDraws
    /\ canvasDrawables \in [Keys -> Drawables \cup {0}]
    /\ age \in [Drawables -> Ages]
    /\ timer \in [Drawables -> Timers]
    /\ daemon \in {"outside", "waiting", "woken"}
    /\ shown \in SUBSET Drawables
    /\ missed \in BOOLEAN

CanvasInit ==
    /\ canvas = FALSE
    /\ drawn = 0
    /\ canvasDrawables = [k \in Keys |-> 0]
    /\ age = [x \in Drawables |-> "unborn"]
    /\ timer = [x \in Drawables |-> "none"]
    /\ daemon = "outside"
    /\ shown = {}
    /\ missed = FALSE

InMap(x) == \E k \in Keys : canvasDrawables[k] = x

-----------------------------------------------------------------------------
RegisterCanvas ==
    /\ ~canvas
    /\ canvas' = TRUE
    /\ UNCHANGED <<drawn, canvasDrawables, age, timer, daemon, shown, missed>>

(* notifyAll under the monitor of canvasDrawables *)
NotifyCanvas ==
    /\ daemon' = IF daemon = "waiting" THEN "woken" ELSE daemon
    /\ missed' = (missed \/ daemon = "outside")

(* draw of a new drawable: put and notify in one critical section.  The
   calling thread schedules the delayed notification after leaving it.  The
   callers (DetectService, MainPanel) pass a key, a text and a duration above
   zero, so that no drawing is dropped, expires unannounced, or throws when
   RENDER_CANVAS draws it. *)
Draw(k, a) ==
    /\ drawn < MaxDraws
    /\ drawn' = drawn + 1
    /\ canvasDrawables' = [canvasDrawables EXCEPT ![k] = drawn']
    /\ age' = [age EXCEPT ![drawn'] = a]
    /\ timer' = [timer EXCEPT ![drawn'] = IF a = "timed" THEN "due" ELSE "none"]
    /\ NotifyCanvas
    /\ UNCHANGED <<canvas, shown>>

(* draw of a null drawable *)
Remove(k) ==
    /\ canvasDrawables' = [canvasDrawables EXCEPT ![k] = 0]
    /\ NotifyCanvas
    /\ UNCHANGED <<canvas, drawn, age, timer, shown>>

(* Mutant: the notification is scheduled for the duration alone and comes
   before the drawing has expired. *)
NotifyCanvasLaterTooSoon(x) ==
    /\ timer[x] = "due"
    /\ timer' = [timer EXCEPT ![x] = "fired"]
    /\ NotifyCanvas
    /\ UNCHANGED <<canvas, drawn, canvasDrawables, age, shown>>

NotifyCanvasLater(x) ==
    /\ timer[x] = "due"
    /\ timer' = [timer EXCEPT ![x] = "scheduled"]
    /\ UNCHANGED <<canvas, drawn, canvasDrawables, age, daemon, shown, missed>>

(* BaseDrawable.isExpired becomes true; the clock starts at construction. *)
Expire(x) ==
    /\ age[x] = "timed"
    /\ age' = [age EXCEPT ![x] = "expired"]
    /\ UNCHANGED <<canvas, drawn, canvasDrawables, timer, daemon, shown, missed>>

(* The scheduled notification comes NOTIFY_CANVAS_DELAY after the expiry. *)
Timer(x) ==
    /\ timer[x] = "scheduled"
    /\ age[x] = "expired"
    /\ timer' = [timer EXCEPT ![x] = "fired"]
    /\ NotifyCanvas
    /\ UNCHANGED <<canvas, drawn, canvasDrawables, age, shown>>

-----------------------------------------------------------------------------
(* RENDER_CANVAS.  It enters the monitor and waits, ...                     *)
Wait ==
    /\ daemon = "outside"
    /\ daemon' = "waiting"
    /\ UNCHANGED <<canvas, drawn, canvasDrawables, age, timer, shown, missed>>

(* Object.wait() may return without a notification. *)
WakeUp ==
    /\ daemon = "waiting"
    /\ daemon' = "woken"
    /\ UNCHANGED <<canvas, drawn, canvasDrawables, age, timer, shown, missed>>

(* Mutant: expired drawings are forgotten but still drawn once more. *)
RenderCanvasLate ==
    /\ daemon = "woken"
    /\ daemon' = "outside"
    /\ \/ /\ canvas
          /\ canvasDrawables' = [k \in Keys |->
                IF canvasDrawables[k] # 0 /\ age[canvasDrawables[k]] = "expired"
                THEN 0 ELSE canvasDrawables[k]]
          /\ shown' = {x \in Drawables : InMap(x)}
          /\ missed' = FALSE
       \/ /\ ~canvas
          /\ missed' = TRUE
          /\ UNCHANGED <<canvasDrawables, shown>>
    /\ UNCHANGED <<canvas, drawn, age, timer>>

(* ... and, woken, draws what has not expired and leaves the monitor.  Before
   a canvas is registered the notification is used up for nothing. *)
RenderCanvas ==
    /\ daemon = "woken"
    /\ daemon' = "outside"
    /\ \/ /\ canvas
          /\ canvasDrawables' = [k \in Keys |->
                IF canvasDrawables[k] # 0 /\ age[canvasDrawables[k]] = "expired"
                THEN 0 ELSE canvasDrawables[k]]
          /\ shown' = {x \in Drawables : InMap(x) /\ age[x] # "expired"}
          /\ missed' = FALSE
       \/ /\ ~canvas
          /\ missed' = TRUE
          /\ UNCHANGED <<canvasDrawables, shown>>
    /\ UNCHANGED <<canvas, drawn, age, timer>>

-----------------------------------------------------------------------------
Daemon == Wait \/ RenderCanvas

CanvasNext ==
    \/ RegisterCanvas
    \/ \E k \in Keys, a \in {"permanent", "timed"} : Draw(k, a)
    \/ \E k \in Keys : Remove(k)
    \/ \E x \in Drawables : NotifyCanvasLater(x) \/ Expire(x) \/ Timer(x)
    \/ Daemon \/ WakeUp

CanvasSpec == CanvasInit /\ [][CanvasNext]_canvasVars

(* The daemon and the scheduler have threads of their own, a thread inside
   draw leaves it, and time passes.  Nobody has to draw. *)
CanvasFairSpec ==
    /\ CanvasSpec
    /\ WF_canvasVars(Daemon)
    /\ \A x \in Drawables : WF_canvasVars(NotifyCanvasLater(x) \/ Expire(x) \/ Timer(x))

-----------------------------------------------------------------------------
Reminded(x) == timer[x] \in {"due", "scheduled"}

(* Unless a notification met the daemon between two waits and none came
   since, the sleeping daemon has left the canvas as it should be: it shows
   every drawing that is under a key and has not expired, and nothing else
   but drawings whose delayed notification is still to come (draw,
   notifyCanvasLater, renderCanvas).  A later drawing under the same key,
   whose own notification is later, does not delay it. *)
CanvasIsCurrent ==
    ~missed /\ daemon # "woken" =>
        /\ \A x \in shown : InMap(x) /\ (age[x] = "expired" => Reminded(x))
        /\ \A x \in Drawables : InMap(x) /\ age[x] # "expired" => x \in shown

(* A drawing with a duration leaves the canvas, although its end is announced
   by one notification only, unless that notification is lost or no canvas
   renders it (notifyCanvasLater, renderCanvas). *)
ExpiredDrawingsDisappear ==
    \A x \in Drawables : x \in shown /\ age[x] = "expired" ~> x \notin shown \/ missed

(* The inductive strengthening of CanvasIsCurrent: drawables are numbered as
   they are made, each is put under one key, and a drawing with a duration
   keeps its delayed notification until after it has expired (draw,
   notifyCanvasLater). *)
CanvasInv ==
    /\ CanvasTypeOK
    /\ \A x \in Drawables : x > drawn => age[x] = "unborn" /\ timer[x] = "none"
    /\ \A k \in Keys : canvasDrawables[k] <= drawn
    /\ \A x \in shown : x <= drawn
    /\ \A k, l \in Keys : canvasDrawables[k] = canvasDrawables[l] => k = l \/ canvasDrawables[k] = 0
    /\ \A x \in Drawables :
          /\ age[x] = "timed" => Reminded(x)
          /\ timer[x] # "none" => age[x] \in {"timed", "expired"}
          /\ age[x] = "expired" => timer[x] # "none"
    /\ CanvasIsCurrent
=============================================================================
