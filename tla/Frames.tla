------------------------------- MODULE Frames -------------------------------
(***************************************************************************)
(* How a picture gets from the capture device to the screen and to the     *)
(* scripts: the camera of CameraImageInput, the LOAD_FRAME and             *)
(* RENDER_SCREEN daemons of DisplayService, the hand-over in               *)
(* FrameCacheService, and the two threads that may replace the camera: the *)
(* user-interface thread (a new selection, or the end of the program) and  *)
(* the pool thread that opens the remembered camera at start-up.           *)
(*                                                                         *)
(* imageInput and camera are volatile and are read again at every use, so  *)
(* each use is a step of its own.  Nothing ever sets frozenScreen, which   *)
(* is left out.  A frame is represented by the number of the input it was  *)
(* taken from; inputs are numbered in the order of their creation.         *)
(***************************************************************************)
EXTENDS Naturals, FiniteSets

CONSTANTS
    Devices,      \* capture devices
    MaxInputs     \* bound on the CameraImageInput objects

ASSUME DevicesAssumption == Devices # {}
ASSUME MaxInputsAssumption == MaxInputs \in Nat

Inputs == 1 .. MaxInputs
Openers == {"init", "fx"}

VARIABLES
    screen,       \* a screen consumer is registered
    imageInput,   \* DisplayService.imageInput, 0 for null
    created,      \* number of inputs created so far
    dev,          \* the device of each input
    camera,       \* CameraImageInput.camera is not null
    open,         \* the device is open
    lost,         \* devices that do not deliver pictures any more
    opener,       \* position of a thread inside openCam
    new,          \* the input it is installing, 0 when it only closes
    victim,       \* the input it is closing
    loader,       \* position of LOAD_FRAME
    reading,      \* the input LOAD_FRAME is reading
    cachedFrame,  \* FrameCacheService.cachedFrame, 0 for null
    renderer,     \* position of RENDER_SCREEN
    rendering,    \* the frame it has taken
    shown,        \* the frame on the screen, 0 for the default picture
    exception,    \* DebugPanel.debugException
    thrown,       \* history: what processDebug threw last
    overlapped,   \* history: two threads were inside openCam together
    interrupted   \* history: a camera was closed while LOAD_FRAME read

inputVars == <<imageInput, created, dev, camera, open, lost>>
openerVars == <<opener, new, victim, overlapped, interrupted>>
loaderVars == <<loader, reading, cachedFrame>>
renderVars == <<renderer, rendering, shown, exception, thrown>>
vars == <<screen, inputVars, openerVars, loaderVars, renderVars>>

OpenerSteps == {"idle", "test", "close", "closeCamera", "unset", "forget",
                "assign", "done"}
LoaderSteps == {"start", "read", "isOpen", "getImage", "setFrame", "dead"}
RenderSteps == {"start", "enter", "waiting", "notified", "accept", "debug", "dead"}

(* An exception, by what isSameException looks at: its class, and whether it
   has a message at all. *)
Thrown == [class : {"NullPointerException", "IllegalArgumentException"}, bare : BOOLEAN]
NoException == [class |-> "none", bare |-> FALSE]
Exceptions == Thrown \cup {NoException}

TypeOK ==
    /\ screen \in BOOLEAN
    /\ imageInput \in Inputs \cup {0}
    /\ created \in 0 .. MaxInputs
    /\ dev \in [Inputs -> Devices]
    /\ camera \in [Inputs -> BOOLEAN]
    /\ open \in [Devices -> BOOLEAN]
    /\ lost \subseteq Devices
    /\ opener \in [Openers -> OpenerSteps]
    /\ new \in [Openers -> Inputs \cup {0}]
    /\ victim \in [Openers -> Inputs \cup {0}]
    /\ loader \in LoaderSteps
    /\ reading \in Inputs \cup {0}
    /\ cachedFrame \in Inputs \cup {0}
    /\ renderer \in RenderSteps
    /\ rendering \in Inputs \cup {0}
    /\ shown \in Inputs \cup {0}
    /\ exception \in Exceptions /\ thrown \in Exceptions
    /\ overlapped \in BOOLEAN /\ interrupted \in BOOLEAN

Init ==
    /\ screen = FALSE
    /\ imageInput = 0 /\ created = 0
    /\ dev = [i \in Inputs |-> CHOOSE d \in Devices : TRUE]
    /\ camera = [i \in Inputs |-> FALSE]
    /\ open = [d \in Devices |-> FALSE]
    /\ lost = {}
    /\ opener = [t \in Openers |-> "idle"]
    /\ new = [t \in Openers |-> 0] /\ victim = [t \in Openers |-> 0]
    /\ loader = "start" /\ reading = 0 /\ cachedFrame = 0
    /\ renderer = "start" /\ rendering = 0 /\ shown = 0
    /\ exception = NoException /\ thrown = NoException
    /\ overlapped = FALSE /\ interrupted = FALSE

-----------------------------------------------------------------------------
(* Replacing the camera.                                                    *)

Inside(t) == opener[t] \notin {"idle", "done"}

Goto(t, to) == opener' = [opener EXCEPT ![t] = to]

(* registerScreen, which also paints the default picture. *)
RegisterScreen ==
    /\ ~screen
    /\ screen' = TRUE
    /\ UNCHANGED <<inputVars, openerVars, loaderVars, renderVars>>

(* openCam and the constructor of CameraImageInput: the device is opened
   before DisplayService hears of it.  A device that cannot be opened, which
   includes one that is open already, throws and nothing changes. *)
OpenCam(t, d) ==
    /\ opener[t] = "idle"
    /\ ~open[d]
    /\ d \notin lost
    /\ created < MaxInputs
    /\ created' = created + 1
    /\ dev' = [dev EXCEPT ![created'] = d]
    /\ camera' = [camera EXCEPT ![created'] = TRUE]
    /\ open' = [open EXCEPT ![d] = TRUE]
    /\ new' = [new EXCEPT ![t] = created']
    /\ Goto(t, "test")
    /\ overlapped' = (overlapped \/ \E u \in Openers \ {t} : Inside(u))
    /\ UNCHANGED <<screen, imageInput, lost, victim, interrupted, loaderVars,
                   renderVars>>

(* The end of the program: @PreDestroy close() on the user-interface thread. *)
Exit ==
    /\ opener["fx"] = "idle"
    /\ new' = [new EXCEPT !["fx"] = 0]
    /\ Goto("fx", "test")
    /\ overlapped' = (overlapped \/ \E u \in Openers \ {"fx"} : Inside(u))
    /\ UNCHANGED <<screen, inputVars, victim, interrupted, loaderVars, renderVars>>

(* Where a thread goes after close(), and after an exception in it: the
   start-up thread runs once, the user-interface thread goes on unless it is
   ending the program. *)
Over(t) == IF t = "init" \/ new[t] = 0 THEN "done" ELSE "idle"

AfterClose(t) == IF new[t] = 0 THEN "done" ELSE "assign"

(* Mutant: setImageInput assigns without closing the old camera. *)
TestWithoutClose(t) ==
    /\ opener[t] = "test"
    /\ Goto(t, AfterClose(t))
    /\ UNCHANGED <<screen, inputVars, new, victim, overlapped, interrupted,
                   loaderVars, renderVars>>

(* close(): imageInput != null *)
Test(t) ==
    /\ opener[t] = "test"
    /\ Goto(t, IF imageInput # 0 THEN "close" ELSE AfterClose(t))
    /\ UNCHANGED <<screen, inputVars, new, victim, overlapped, interrupted,
                   loaderVars, renderVars>>

(* imageInput.close(): the field is read again; null throws. *)
Close(t) ==
    /\ opener[t] = "close"
    /\ victim' = [victim EXCEPT ![t] = imageInput]
    /\ Goto(t, IF imageInput # 0 THEN "closeCamera" ELSE Over(t))
    /\ UNCHANGED <<screen, inputVars, new, overlapped, interrupted, loaderVars,
                   renderVars>>

Disturbs == interrupted' = (interrupted \/ loader # "start")

(* camera.close(): a camera that another thread has taken away throws. *)
CloseCamera(t) ==
    /\ opener[t] = "closeCamera"
    /\ \/ /\ camera[victim[t]]
          /\ open' = [open EXCEPT ![dev[victim[t]]] = FALSE]
          /\ Goto(t, "unset")
          /\ Disturbs
       \/ /\ ~camera[victim[t]]
          /\ Goto(t, Over(t))
          /\ UNCHANGED <<open, interrupted>>
    /\ UNCHANGED <<screen, imageInput, created, dev, camera, lost, new, victim,
                   overlapped, loaderVars, renderVars>>

(* camera = null *)
Unset(t) ==
    /\ opener[t] = "unset"
    /\ camera' = [camera EXCEPT ![victim[t]] = FALSE]
    /\ Goto(t, "forget")
    /\ Disturbs
    /\ UNCHANGED <<screen, imageInput, created, dev, open, lost, new, victim,
                   overlapped, loaderVars, renderVars>>

(* Mutant: close() keeps the closed input. *)
ForgetNothing(t) ==
    /\ opener[t] = "forget"
    /\ victim' = [victim EXCEPT ![t] = 0]
    /\ Goto(t, AfterClose(t))
    /\ Disturbs
    /\ UNCHANGED <<screen, inputVars, new, overlapped, loaderVars, renderVars>>

(* imageInput = null *)
Forget(t) ==
    /\ opener[t] = "forget"
    /\ imageInput' = 0
    /\ victim' = [victim EXCEPT ![t] = 0]
    /\ Goto(t, AfterClose(t))
    /\ Disturbs
    /\ UNCHANGED <<screen, created, dev, camera, open, lost, new, overlapped,
                   loaderVars, renderVars>>

(* this.imageInput = imageInput *)
Assign(t) ==
    /\ opener[t] = "assign"
    /\ imageInput' = new[t]
    /\ new' = [new EXCEPT ![t] = 0]
    /\ Goto(t, Over(t))
    /\ UNCHANGED <<screen, created, dev, camera, open, lost, victim,
                   overlapped, interrupted, loaderVars, renderVars>>

(* The capture device is unplugged; its Webcam object stays open. *)
Unplug(d) ==
    /\ open[d]
    /\ d \notin lost
    /\ lost' = lost \cup {d}
    /\ UNCHANGED <<screen, imageInput, created, dev, camera, open, openerVars,
                   loaderVars, renderVars>>

-----------------------------------------------------------------------------
(* The LOAD_FRAME daemon.  An exception ends it for the life of the program
   (DaemonTask).                                                            *)

Load(from, to) ==
    /\ loader = from
    /\ loader' = to
    /\ UNCHANGED <<screen, inputVars, openerVars, renderVars>>

(* Mutant: only the screen is tested. *)
ReadFrameUnchecked ==
    /\ screen
    /\ Load("start", "read")
    /\ UNCHANGED <<reading, cachedFrame>>

(* screen != null && imageInput != null *)
ReadFrame ==
    /\ screen /\ imageInput # 0
    /\ Load("start", "read")
    /\ UNCHANGED <<reading, cachedFrame>>

(* imageInput.read(): the field is read again, null throws; then
   camera != null, else there is no picture. *)
Read ==
    /\ Load("read", IF imageInput = 0 THEN "dead"
                    ELSE IF camera[imageInput] THEN "isOpen" ELSE "start")
    /\ reading' = IF loader' = "isOpen" THEN imageInput ELSE 0
    /\ UNCHANGED cachedFrame

(* camera.isOpen(), on the field read once more *)
IsOpen ==
    /\ Load("isOpen", IF ~camera[reading] THEN "dead"
                      ELSE IF open[dev[reading]] THEN "getImage" ELSE "start")
    /\ reading' = IF loader' = "getImage" THEN reading ELSE 0
    /\ UNCHANGED cachedFrame

(* camera.getImage(), which answers null when the device has been closed or
   has nothing to deliver; image.getWidth() then throws. *)
GetImage ==
    /\ Load("getImage",
            IF camera[reading] /\ open[dev[reading]] /\ dev[reading] \notin lost
            THEN "setFrame" ELSE "dead")
    /\ reading' = IF loader' = "setFrame" THEN reading ELSE 0
    /\ UNCHANGED cachedFrame

(* Mutant: setFrame notifies nobody. *)
SetFrameSilently ==
    /\ loader = "setFrame"
    /\ loader' = "start"
    /\ cachedFrame' = reading
    /\ reading' = 0
    /\ UNCHANGED <<screen, inputVars, openerVars, renderVars>>

(* setFrame: publication and notifyAll in one critical section *)
SetFrame ==
    /\ loader = "setFrame"
    /\ loader' = "start"
    /\ cachedFrame' = reading
    /\ reading' = 0
    /\ renderer' = IF renderer = "waiting" THEN "notified" ELSE renderer
    /\ UNCHANGED <<screen, inputVars, openerVars, rendering, shown,
                   exception, thrown>>

-----------------------------------------------------------------------------
(* The RENDER_SCREEN daemon.                                                *)

Render(from, to) ==
    /\ renderer = from
    /\ renderer' = to
    /\ UNCHANGED <<screen, inputVars, openerVars, loaderVars>>

(* screen != null && imageInput != null *)
RenderScreen ==
    /\ screen /\ imageInput # 0
    /\ Render("start", "enter")
    /\ UNCHANGED <<rendering, shown, exception, thrown>>

(* getNewFrame: wait(), without looking at what has been published *)
Wait ==
    /\ Render("enter", "waiting")
    /\ UNCHANGED <<rendering, shown, exception, thrown>>

(* Object.wait() may return without a notification. *)
WakeUp ==
    /\ Render("waiting", "notified")
    /\ UNCHANGED <<rendering, shown, exception, thrown>>

(* return cachedFrame, and the test for null *)
GetNewFrame ==
    /\ Render("notified", IF cachedFrame # 0 THEN "accept" ELSE "start")
    /\ rendering' = cachedFrame
    /\ UNCHANGED <<shown, exception, thrown>>

(* Mutant: the last picture of a camera that is gone clears the screen. *)
AcceptClearing ==
    /\ Render("accept", "debug")
    /\ shown' = IF rendering = imageInput THEN rendering ELSE 0
    /\ rendering' = 0
    /\ UNCHANGED <<exception, thrown>>

(* screen.accept: the picture is posted to the user interface. *)
Accept ==
    /\ Render("accept", "debug")
    /\ shown' = rendering
    /\ rendering' = 0
    /\ UNCHANGED <<exception, thrown>>

(* isSameException calls equals on the message of e once the class is that of
   the exception before: without a message that is a NullPointerException,
   which nothing catches and which leaves debugException as it was. *)
Escapes(e) == e.bare /\ e.class = exception.class

(* DebugPanel.processDebug, part of the screen consumer: e is the exception
   its body throws, NoException when it throws none or its window is closed. *)
ProcessDebug(e) ==
    /\ Render("debug", IF Escapes(e) THEN "dead" ELSE "start")
    /\ exception' = IF e = NoException \/ Escapes(e) THEN exception ELSE e
    /\ thrown' = IF e = NoException THEN thrown ELSE e
    /\ UNCHANGED <<rendering, shown>>

-----------------------------------------------------------------------------
Opening(t) ==
    \/ Test(t) \/ Close(t) \/ CloseCamera(t) \/ Unset(t) \/ Forget(t) \/ Assign(t)

Loading == ReadFrame \/ Read \/ IsOpen \/ GetImage \/ SetFrame

Rendering ==
    \/ RenderScreen \/ Wait \/ GetNewFrame \/ Accept
    \/ \E e \in Exceptions : ProcessDebug(e)

Next ==
    \/ RegisterScreen
    \/ \E t \in Openers, d \in Devices : OpenCam(t, d)
    \/ Exit
    \/ \E t \in Openers : Opening(t)
    \/ \E d \in Devices : Unplug(d)
    \/ Loading
    \/ Rendering \/ WakeUp

Spec == Init /\ [][Next]_vars

(* Each daemon has a thread of its own that goes on while it can.  Nothing is
   assumed of the user, of the device or of spurious wake-ups. *)
FairSpec == Spec /\ WF_vars(Loading) /\ WF_vars(Rendering)

-----------------------------------------------------------------------------
(* When nobody is changing the camera, the devices that are open are exactly
   the one in use: a replaced camera is closed and the installed one is open
   (setImageInput, close), unless two threads were inside openCam at the
   same time, for which the code has no lock. *)
OnlyTheCameraInUseIsOpen ==
    ~overlapped /\ (\A t \in Openers : ~Inside(t)) =>
        \A d \in Devices : open[d] <=> imageInput # 0 /\ dev[imageInput] = d

(* LOAD_FRAME ends only when a camera is closed between two of its steps or
   a device stops delivering (readFrame, CameraImageInput.read): a change of
   the camera that does not meet it inside readFrame never kills it. *)
LoaderDiesOnlyWhenDisturbed ==
    loader = "dead" => interrupted \/ lost # {}

(* RENDER_SCREEN survives the absence of frames, changes of the camera and
   wake-ups without a frame; only the debug window can end it, by an exception
   without a message of the class of the one thrown before, whether that had a
   message or not (renderScreen, DebugPanel.isSameException). *)
RendererDiesOnlyOfDebugging ==
    renderer = "dead" => Escapes(thrown)

(* Changes of the camera, missing frames and wake-ups without a frame do not
   end a daemon; DaemonTask would not start it again.  What does is stated
   for each of the two above. *)
DaemonsSurvive == LoaderDiesOnlyWhenDisturbed /\ RendererDiesOnlyOfDebugging

(* The camera DisplayService holds is open, unless the thread that closed it
   is about to take it away (close, CameraImageInput.close).  Two threads that
   change the camera together may leave a camera open that nobody holds, but
   they install a closed one only when a device was opened twice, so that the
   late close() of its first input hits the second. *)
HeldCameraIsOpen ==
    LET closing == \E t \in Openers : /\ opener[t] \in {"unset", "forget"}
                                      /\ victim[t] = imageInput
        reopened == \E i \in (1 .. created) \ {imageInput} : dev[i] = dev[imageInput]
    IN  imageInput # 0 /\ ~closing =>
            camera[imageInput] /\ (open[dev[imageInput]] \/ (overlapped /\ reopened))

(* The screen never goes back to a camera that was replaced: a picture
   LOAD_FRAME read before the change may still be published and shown after
   it, but not after one of the new camera (read, setFrame, getNewFrame), as
   long as one thread at a time was inside openCam. *)
ScreenNeverGoesBack == [][~overlapped' => shown <= shown']_vars

(* A camera that stays installed is what the screen ends up showing, although
   getNewFrame waits without looking at what was published before
   (getNewFrame, setFrame), as long as the daemons live and it delivers. *)
ScreenFollowsCamera ==
    \A i \in Inputs :
        <>[](/\ screen /\ imageInput = i
             /\ camera[i] /\ open[dev[i]] /\ dev[i] \notin lost
             /\ loader # "dead" /\ renderer # "dead")
          => <>[](shown = i)

-----------------------------------------------------------------------------
(* The inductive invariant.                                                 *)

(* Inputs are fresh when they are installed: the one a thread is about to
   install has its camera and is not held, closed or read by anybody yet. *)
FreshInv ==
    /\ imageInput <= created /\ reading <= created
    /\ \A t \in Openers :
          /\ new[t] <= created /\ victim[t] <= created
          /\ opener[t] = "assign" => new[t] # 0
          /\ opener[t] \in {"closeCamera", "unset", "forget"} => victim[t] # 0
          /\ Inside(t) /\ new[t] # 0 =>
                /\ camera[new[t]]
                /\ new[t] # imageInput /\ new[t] # reading
                /\ \A u \in Openers : /\ new[t] # victim[u]
                                      /\ u # t /\ Inside(u) => new[t] # new[u]

(* What a thread that is alone in openCam finds at each of its steps. *)
AloneInv ==
    /\ ~overlapped => \A t, u \in Openers : Inside(t) /\ Inside(u) => t = u
    /\ ~overlapped => \A t \in Openers :
          /\ opener[t] \in {"close", "closeCamera", "unset", "forget"} => imageInput # 0
          /\ opener[t] \in {"closeCamera", "unset", "forget"} => victim[t] = imageInput
          /\ opener[t] = "assign" => imageInput = 0
          /\ Inside(t) =>
                \A d \in Devices : open[d] <=>
                    \/ new[t] # 0 /\ dev[new[t]] = d
                    \/ /\ imageInput # 0 /\ opener[t] \notin {"unset", "forget"}
                       /\ dev[imageInput] = d
          /\ Inside(t) /\ new[t] # 0 /\ imageInput # 0 => dev[new[t]] # dev[imageInput]

(* An input about to be installed is open like the held one. *)
NewCameraIsOpen ==
    \A t \in Openers : Inside(t) /\ new[t] # 0 =>
        \/ open[dev[new[t]]]
        \/ overlapped /\ \E i \in (1 .. created) \ {new[t]} : dev[i] = dev[new[t]]

(* What LOAD_FRAME has found out stays true until it is disturbed. *)
LoaderInv ==
    /\ loader \in {"isOpen", "getImage", "setFrame"} => reading # 0
    /\ ~interrupted =>
          /\ loader = "read" => imageInput # 0
          /\ loader \in {"isOpen", "getImage"} => camera[reading]
          /\ loader = "getImage" => open[dev[reading]]

(* Alone in openCam, a thread installs the newest input, and pictures travel
   from the camera to the screen without overtaking each other. *)
OrderInv ==
    /\ cachedFrame <= created
    /\ rendering # 0 <=> renderer = "accept"
    /\ ~overlapped =>
          /\ \A t \in Openers : Inside(t) /\ new[t] # 0 => new[t] = created
          /\ shown <= cachedFrame
          /\ rendering # 0 => shown <= rendering /\ rendering <= cachedFrame
          /\ reading # 0 => cachedFrame <= reading
          /\ imageInput # 0 => reading <= imageInput /\ cachedFrame <= imageInput

(* The inductive strengthening of the four invariants above: it says what
   openCam, the daemons and the camera objects can be doing together. *)
FramesInv ==
    /\ TypeOK
    /\ FreshInv
    /\ AloneInv
    /\ OnlyTheCameraInUseIsOpen
    /\ NewCameraIsOpen
    /\ HeldCameraIsOpen
    /\ LoaderInv
    /\ LoaderDiesOnlyWhenDisturbed
    /\ RendererDiesOnlyOfDebugging
=============================================================================
