---------------------------- MODULE FramesProofs ----------------------------
(***************************************************************************)
(* FramesInv is inductive for any set of devices and any number of camera  *)
(* inputs.  Each action is shown to keep each part of it.                  *)
(***************************************************************************)
EXTENDS Frames, TLAPS

USE MaxInputsAssumption DEF Inputs, Openers

(* The program starts without a camera and with both daemons at their loop. *)
LEMMA FramesInitial == ASSUME Init PROVE FramesInv
  <1>1. (CHOOSE d \in Devices : TRUE) \in Devices
    BY DevicesAssumption, Zenon
  <1>2. TypeOK
    <2>1. dev \in [Inputs -> Devices]
      BY <1>1, Zenon DEF Init
    <2>2. camera \in [Inputs -> BOOLEAN] /\ open \in [Devices -> BOOLEAN]
      BY Zenon DEF Init
    <2>3. /\ opener \in [Openers -> OpenerSteps]
          /\ new \in [Openers -> Inputs \cup {0}]
          /\ victim \in [Openers -> Inputs \cup {0}]
      BY Zenon DEF Init, OpenerSteps
    <2>4. /\ imageInput \in Inputs \cup {0} /\ reading \in Inputs \cup {0}
          /\ cachedFrame \in Inputs \cup {0} /\ rendering \in Inputs \cup {0}
          /\ shown \in Inputs \cup {0} /\ created \in 0 .. MaxInputs
          /\ lost \subseteq Devices
      BY DEF Init
    <2>5. /\ loader \in LoaderSteps /\ renderer \in RenderSteps
          /\ exception \in Exceptions /\ thrown \in Exceptions
      BY Zenon DEF Init, LoaderSteps, RenderSteps, Exceptions
    <2> QED BY <2>1, <2>2, <2>3, <2>4, <2>5, Zenon DEF Init, TypeOK
  <1>3. \A t \in Openers : opener[t] = "idle" /\ new[t] = 0 /\ victim[t] = 0 /\ ~Inside(t)
    BY Zenon DEF Init, Inside
  <1>4. FreshInv /\ AloneInv
    BY <1>3 DEF Init, FreshInv, AloneInv
  <1>5. OnlyTheCameraInUseIsOpen
    BY Zenon DEF Init, OnlyTheCameraInUseIsOpen
  <1>6. NewCameraIsOpen /\ HeldCameraIsOpen
    BY <1>3, Zenon DEF Init, NewCameraIsOpen, HeldCameraIsOpen
  <1> QED BY <1>2, <1>4, <1>5, <1>6, Zenon
      DEF Init, FramesInv, LoaderInv, LoaderDiesOnlyWhenDisturbed,
          RendererDiesOnlyOfDebugging

(* The two daemons and the window do not touch the inputs or the threads that
   replace them, so only what they read about LOAD_FRAME matters. *)
LEMMA OpenersUndisturbed ==
  ASSUME FramesInv, UNCHANGED <<imageInput, created, dev, camera, open>>,
         UNCHANGED openerVars, reading' \in {reading, imageInput, 0}
  PROVE  FreshInv' /\ AloneInv' /\ OnlyTheCameraInUseIsOpen' /\ NewCameraIsOpen'
           /\ HeldCameraIsOpen'
  <1>1. \A t \in Openers : Inside(t)' <=> Inside(t)
    BY Zenon DEF openerVars, Inside
  <1>2. FreshInv'
    BY <1>1 DEF FramesInv, TypeOK, FreshInv, openerVars
  <1>3. AloneInv'
    BY <1>1, Zenon DEF FramesInv, AloneInv, openerVars
  <1>4. OnlyTheCameraInUseIsOpen'
    BY <1>1, Zenon DEF FramesInv, OnlyTheCameraInUseIsOpen, openerVars
  <1>5. NewCameraIsOpen'
    BY <1>1, Zenon DEF FramesInv, NewCameraIsOpen, openerVars
  <1>6. HeldCameraIsOpen'
    BY Zenon DEF FramesInv, HeldCameraIsOpen, openerVars
  <1> QED BY <1>2, <1>3, <1>4, <1>5, <1>6, Zenon

(* RENDER_SCREEN and the registration of the screen. *)
LEMMA RenderingKeeps ==
  ASSUME FramesInv, RegisterScreen \/ Rendering \/ WakeUp
  PROVE  FramesInv'
  <1> USE DEF RegisterScreen, Rendering, RenderScreen, Wait, WakeUp, GetNewFrame,
              Accept, ProcessDebug, Render
  <1>1. UNCHANGED <<inputVars, openerVars, loaderVars>>
    BY Zenon
  <1>2. /\ screen' \in BOOLEAN /\ renderer' \in RenderSteps
        /\ rendering' \in Inputs \cup {0} /\ shown' \in Inputs \cup {0}
        /\ exception' \in Exceptions /\ thrown' \in Exceptions
    BY Zenon DEF FramesInv, TypeOK, RenderSteps, Exceptions, renderVars
  <1>3. TypeOK'
    BY <1>1, <1>2, Zenon DEF FramesInv, TypeOK, inputVars, openerVars, loaderVars
  <1>4. RendererDiesOnlyOfDebugging'
    <2>1. CASE \E e \in Exceptions : ProcessDebug(e)
      <3>1. PICK e \in Exceptions : ProcessDebug(e)
        BY <2>1, Zenon
      <3>2. CASE ~Escapes(e)
        <4>1. renderer' = "start"
          BY <3>1, <3>2, Zenon
        <4> QED BY <4>1, Zenon DEF RendererDiesOnlyOfDebugging
      <3>3. CASE Escapes(e)
        <4>1. e # NoException
          <5>1. NoException.bare = FALSE
            BY DEF NoException
          <5> QED BY <3>3, <5>1, Zenon DEF Escapes
        <4>2. thrown' = e /\ exception' = exception
          BY <3>1, <3>3, <4>1, Zenon
        <4> QED BY <3>3, <4>2, Zenon DEF RendererDiesOnlyOfDebugging, Escapes
      <3> QED BY <3>2, <3>3, Zenon
    <2>2. CASE ~\E e \in Exceptions : ProcessDebug(e)
      <3>1. UNCHANGED <<exception, thrown>> /\ (renderer' = "dead" => renderer = "dead")
        BY <2>2, Zenon DEF renderVars
      <3> QED BY <3>1, Zenon DEF FramesInv, RendererDiesOnlyOfDebugging, Escapes
    <2> QED BY <2>1, <2>2, Zenon
  <1>5. LoaderInv' /\ LoaderDiesOnlyWhenDisturbed'
    BY <1>1, Zenon DEF FramesInv, LoaderInv, LoaderDiesOnlyWhenDisturbed, inputVars, openerVars,
                loaderVars
  <1>6. FreshInv' /\ AloneInv' /\ OnlyTheCameraInUseIsOpen' /\ NewCameraIsOpen'
           /\ HeldCameraIsOpen'
    BY <1>1, OpenersUndisturbed, Zenon DEF inputVars, loaderVars
  <1> QED BY <1>3, <1>4, <1>5, <1>6, Zenon DEF FramesInv

(* LOAD_FRAME: an undisturbed step finds what the one before it found. *)
LEMMA LoadingKeeps ==
  ASSUME FramesInv, Loading
  PROVE  FramesInv'
  <1> USE DEF Loading, ReadFrame, Read, IsOpen, GetImage, SetFrame, Load
  <1>1. UNCHANGED <<inputVars, openerVars>> /\ reading' \in {reading, imageInput, 0}
    BY Zenon
  <1>2. /\ loader' \in LoaderSteps /\ reading' \in Inputs \cup {0}
        /\ cachedFrame' \in Inputs \cup {0} /\ renderer' \in RenderSteps
        /\ UNCHANGED <<screen, rendering, shown, exception, thrown>>
    BY Zenon DEF FramesInv, TypeOK, RenderSteps, LoaderSteps, renderVars
  <1>3. TypeOK'
    BY <1>1, <1>2, Zenon DEF FramesInv, TypeOK, inputVars, openerVars
  <1>4. RendererDiesOnlyOfDebugging'
    BY Zenon DEF FramesInv, RendererDiesOnlyOfDebugging, Escapes, renderVars
  <1>5. LoaderInv' /\ LoaderDiesOnlyWhenDisturbed'
    BY <1>1, Zenon DEF FramesInv, TypeOK, LoaderInv, LoaderDiesOnlyWhenDisturbed, inputVars,
                openerVars
  <1>6. FreshInv' /\ AloneInv' /\ OnlyTheCameraInUseIsOpen' /\ NewCameraIsOpen'
           /\ HeldCameraIsOpen'
    BY <1>1, OpenersUndisturbed, Zenon DEF inputVars
  <1> QED BY <1>3, <1>4, <1>5, <1>6, Zenon DEF FramesInv

(* A device that is lost stays open. *)
LEMMA UnplugKeeps ==
  ASSUME FramesInv, NEW d \in Devices, Unplug(d)
  PROVE  FramesInv'
  <1>1. TypeOK'
    BY Zenon DEF Unplug, FramesInv, TypeOK, openerVars, loaderVars, renderVars
  <1>2. LoaderInv' /\ LoaderDiesOnlyWhenDisturbed' /\ RendererDiesOnlyOfDebugging'
    BY Zenon DEF Unplug, FramesInv, LoaderInv, LoaderDiesOnlyWhenDisturbed,
           RendererDiesOnlyOfDebugging, Escapes, openerVars, loaderVars, renderVars
  <1>3. FreshInv' /\ AloneInv' /\ OnlyTheCameraInUseIsOpen' /\ NewCameraIsOpen'
           /\ HeldCameraIsOpen'
    BY OpenersUndisturbed, Zenon DEF Unplug, loaderVars
  <1> QED BY <1>1, <1>2, <1>3, Zenon DEF FramesInv

(* What every step of openCam leaves to the daemons: RENDER_SCREEN and the
   frames are untouched. *)
LEMMA StepTypes ==
  ASSUME FramesInv, UNCHANGED <<screen, loaderVars, renderVars, lost>>,
         imageInput' \in Inputs \cup {0}, created' \in 0 .. MaxInputs,
         dev' \in [Inputs -> Devices], camera' \in [Inputs -> BOOLEAN],
         open' \in [Devices -> BOOLEAN], opener' \in [Openers -> OpenerSteps],
         new' \in [Openers -> Inputs \cup {0}], victim' \in [Openers -> Inputs \cup {0}],
         overlapped' \in BOOLEAN, interrupted' \in BOOLEAN
  PROVE  TypeOK' /\ RendererDiesOnlyOfDebugging'
  <1>1. TypeOK'
    BY Zenon DEF FramesInv, TypeOK, loaderVars, renderVars
  <1>2. RendererDiesOnlyOfDebugging'
    BY Zenon DEF FramesInv, RendererDiesOnlyOfDebugging, Escapes, renderVars
  <1> QED BY <1>1, <1>2, Zenon

(* openCam creates an input that nobody knows yet. *)
LEMMA OpenCamKeeps ==
  ASSUME FramesInv, NEW t \in Openers, NEW d \in Devices, OpenCam(t, d)
  PROVE  FramesInv'
  <1> USE DEF OpenCam, Goto
  <1>0. TypeOK /\ FreshInv
    BY Zenon DEF FramesInv
  <1>1. created' \in Inputs /\ created' = created + 1 /\ created' \in 0 .. MaxInputs
    BY <1>0 DEF TypeOK
  <1>2. TypeOK' /\ RendererDiesOnlyOfDebugging'
    <2>1. overlapped' \in BOOLEAN /\ interrupted' \in BOOLEAN
      BY <1>0, Zenon DEF TypeOK, Inside
    <2>2. opener' \in [Openers -> OpenerSteps] /\ new' \in [Openers -> Inputs \cup {0}]
      BY <1>0, <1>1, Zenon DEF TypeOK, OpenerSteps
    <2>3. dev' \in [Inputs -> Devices] /\ camera' \in [Inputs -> BOOLEAN]
          /\ open' \in [Devices -> BOOLEAN]
      BY <1>0, <1>1, Zenon DEF TypeOK
    <2> QED BY <1>0, <1>1, <2>1, <2>2, <2>3, StepTypes, Zenon DEF TypeOK
  <1>3. /\ \A i \in Inputs : i <= created => dev'[i] = dev[i] /\ camera'[i] = camera[i]
        /\ dev'[created'] = d /\ camera'[created']
    <2>1. \A i \in Inputs : i <= created => i # created'
      BY <1>0, <1>1 DEF TypeOK
    <2>2. \A i \in Inputs : i # created' => dev'[i] = dev[i]
      BY <1>0, <1>1, Zenon DEF TypeOK
    <2>3. \A i \in Inputs : i # created' => camera'[i] = camera[i]
      BY <1>0, Zenon DEF TypeOK
    <2>4. dev'[created'] = d
      BY <1>0, <1>1, Zenon DEF TypeOK
    <2>5. camera'[created'] = TRUE
      BY <1>0, <1>1, Zenon DEF TypeOK
    <2> QED BY <2>1, <2>2, <2>3, <2>4, <2>5, Zenon
  <1>4. /\ ~open[d] /\ open'[d]
        /\ \A e \in Devices : e # d => open'[e] = open[e]
    BY <1>0, Zenon DEF TypeOK
  <1>5. /\ opener[t] = "idle" /\ opener'[t] = "test" /\ new'[t] = created'
        /\ \A u \in Openers : u # t => opener'[u] = opener[u] /\ new'[u] = new[u]
        /\ UNCHANGED victim
    BY <1>0, Zenon DEF TypeOK
  <1>6. /\ Inside(t)' /\ ~Inside(t)
        /\ \A u \in Openers : u # t => (Inside(u)' <=> Inside(u))
    BY <1>5, Zenon DEF Inside
  <1>7. FreshInv'
    <2>1. imageInput' <= created' /\ reading' <= created'
      BY <1>0, <1>1 DEF FreshInv, TypeOK, loaderVars
    <2>2. \A u \in Openers : new'[u] <= created' /\ victim'[u] <= created'
      BY <1>0, <1>1, <1>5 DEF FreshInv, TypeOK
    <2>3. \A u \in Openers : /\ opener'[u] = "assign" => new'[u] # 0
                             /\ opener'[u] \in {"closeCamera", "unset", "forget"} => victim'[u] # 0
      BY <1>0, <1>5, Zenon DEF FreshInv
    <2>4. ASSUME NEW u \in Openers, Inside(u)', new'[u] # 0
          PROVE  /\ camera'[new'[u]]
                 /\ new'[u] # imageInput' /\ new'[u] # reading'
                 /\ \A v \in Openers : /\ new'[u] # victim'[v]
                                       /\ v # u /\ Inside(v)' => new'[u] # new'[v]
      <3>1. CASE u = t
        BY <3>1, <1>0, <1>1, <1>3, <1>5, <1>6 DEF FreshInv, TypeOK, loaderVars
      <3>2. CASE u # t
        <4>1. Inside(u) /\ new'[u] = new[u] /\ new[u] # 0 /\ new[u] <= created
              /\ new[u] \in Inputs /\ new[u] # created'
          BY <3>2, <2>4, <1>0, <1>1, <1>5, <1>6 DEF FreshInv, TypeOK
        <4>2. camera'[new'[u]]
          BY <4>1, <1>0, <1>3 DEF FreshInv
        <4>3. new'[u] # imageInput' /\ new'[u] # reading'
          BY <4>1, <1>0, Zenon DEF FreshInv, loaderVars
        <4>4. ASSUME NEW v \in Openers PROVE new'[u] # victim'[v]
          BY <4>1, <1>0, <1>5, Zenon DEF FreshInv
        <4>5. ASSUME NEW v \in Openers, v # u, Inside(v)' PROVE new'[u] # new'[v]
          BY <4>1, <4>5, <1>0, <1>5, <1>6, Zenon DEF FreshInv
        <4> QED BY <4>2, <4>3, <4>4, <4>5, Zenon
      <3> QED BY <3>1, <3>2, Zenon
    <2> QED BY <2>1, <2>2, <2>3, <2>4, Zenon DEF FreshInv
  <1>8. overlapped' <=> overlapped \/ \E u \in Openers \ {t} : Inside(u)
    BY Zenon
  <1>9. AloneInv'
    <2> SUFFICES ASSUME ~overlapped' PROVE AloneInv'
      BY Zenon DEF AloneInv
    <2>1. ~overlapped /\ \A u \in Openers : ~Inside(u)
      BY <1>6, <1>8, Zenon
    <2>2. \A u \in Openers : Inside(u)' => u = t
      BY <1>6, <2>1, Zenon
    <2>3. \A e \in Devices : open[e] <=> imageInput # 0 /\ dev[imageInput] = e
      BY <2>1, Zenon DEF FramesInv, OnlyTheCameraInUseIsOpen
    <2>4. imageInput' = imageInput
          /\ (imageInput # 0 => imageInput \in Inputs /\ dev'[imageInput] = dev[imageInput]
                                /\ dev[imageInput] # d)
      BY <2>3, <1>0, <1>3, <1>4, Zenon DEF FreshInv, TypeOK
    <2>5. \A u \in Openers : opener'[u] \notin {"close", "closeCamera", "unset", "forget", "assign"}
      BY <2>1, <1>5, Zenon DEF Inside
    <2>6. ASSUME NEW e \in Devices
          PROVE open'[e] <=> \/ new'[t] # 0 /\ dev'[new'[t]] = e
                             \/ /\ imageInput' # 0 /\ opener'[t] \notin {"unset", "forget"}
                                /\ dev'[imageInput'] = e
      BY <2>3, <2>4, <1>1, <1>3, <1>4, <1>5
    <2>7. imageInput' # 0 => dev'[new'[t]] # dev'[imageInput']
      BY <2>4, <1>3, <1>5, Zenon
    <2> QED BY <2>2, <2>5, <2>6, <2>7 DEF AloneInv
  <1>10. OnlyTheCameraInUseIsOpen'
    BY <1>6, Zenon DEF OnlyTheCameraInUseIsOpen
  <1>11. NewCameraIsOpen'
    <2> SUFFICES ASSUME NEW u \in Openers, Inside(u)', new'[u] # 0
                 PROVE  \/ open'[dev'[new'[u]]]
                        \/ overlapped' /\ \E i \in (1 .. created') \ {new'[u]} : dev'[i] = dev'[new'[u]]
      BY Zenon DEF NewCameraIsOpen
    <2>1. CASE u = t
      BY <2>1, <1>3, <1>4, <1>5
    <2>2. CASE u # t
      <3>1. Inside(u) /\ new'[u] = new[u] /\ new[u] # 0 /\ new[u] <= created /\ new[u] \in Inputs
            /\ dev'[new[u]] = dev[new[u]] /\ dev[new[u]] \in Devices /\ new[u] # created'
        BY <2>2, <1>0, <1>1, <1>3, <1>5, <1>6 DEF FreshInv, TypeOK
      <3>2. overlapped'
        BY <3>1, <2>2, <1>8, Zenon
      <3>3. CASE dev[new[u]] = d
        BY <3>1, <3>3, <1>4, Zenon
      <3>4. CASE dev[new[u]] # d /\ open[dev[new[u]]]
        BY <3>1, <3>4, <1>4
      <3>5. CASE \E i \in (1 .. created) \ {new[u]} : dev[i] = dev[new[u]]
        <4>1. PICK i \in (1 .. created) \ {new[u]} : dev[i] = dev[new[u]]
          BY <3>5, Zenon
        <4>2. i \in (1 .. created') \ {new'[u]} /\ dev'[i] = dev[i]
          BY <4>1, <3>1, <1>0, <1>1, <1>3 DEF TypeOK
        <4> QED BY <4>1, <4>2, <3>1, <3>2, Zenon
      <3> QED BY <3>1, <3>3, <3>4, <3>5, Zenon DEF FramesInv, NewCameraIsOpen
    <2> QED BY <2>1, <2>2, Zenon
  <1>12. HeldCameraIsOpen'
    <2> SUFFICES ASSUME imageInput' # 0,
                        ~ \E u \in Openers : opener'[u] \in {"unset", "forget"} /\ victim'[u] = imageInput'
                 PROVE  /\ camera'[imageInput']
                        /\ \/ open'[dev'[imageInput']]
                           \/ /\ overlapped'
                              /\ \E i \in (1 .. created') \ {imageInput'} : dev'[i] = dev'[imageInput']
      BY Zenon DEF HeldCameraIsOpen
    <2>1. imageInput' = imageInput /\ imageInput \in Inputs /\ imageInput <= created
          /\ camera'[imageInput] = camera[imageInput] /\ dev'[imageInput] = dev[imageInput]
          /\ dev[imageInput] \in Devices
      BY <1>0, <1>3, Zenon DEF FreshInv, TypeOK
    <2>2. ~ \E u \in Openers : opener[u] \in {"unset", "forget"} /\ victim[u] = imageInput
      BY <2>1, <1>5, Zenon
    <2>3. /\ camera[imageInput]
          /\ \/ open[dev[imageInput]]
             \/ overlapped /\ \E i \in (1 .. created) \ {imageInput} : dev[i] = dev[imageInput]
      BY <2>1, <2>2, Zenon DEF FramesInv, HeldCameraIsOpen
    <2>4. CASE open[dev[imageInput]]
      BY <2>1, <2>3, <2>4, <1>4
    <2>5. CASE overlapped /\ \E i \in (1 .. created) \ {imageInput} : dev[i] = dev[imageInput]
      <3>1. PICK i \in (1 .. created) \ {imageInput} : dev[i] = dev[imageInput]
        BY <2>5, Zenon
      <3>2. i \in (1 .. created') \ {imageInput'} /\ dev'[i] = dev[i]
        BY <3>1, <2>1, <1>0, <1>1, <1>3 DEF TypeOK
      <3> QED BY <3>1, <3>2, <2>1, <2>3, <2>5, <1>8, Zenon
    <2> QED BY <2>3, <2>4, <2>5, Zenon
  <1>13. LoaderInv' /\ LoaderDiesOnlyWhenDisturbed'
    <2>1. reading # 0 => reading \in Inputs /\ camera'[reading] = camera[reading]
                         /\ dev'[reading] = dev[reading] /\ dev[reading] \in Devices
      BY <1>0, <1>3, Zenon DEF FreshInv, TypeOK
    <2>2. \A e \in Devices : open[e] => open'[e]
      BY <1>4, Zenon
    <2>3. LoaderInv /\ LoaderDiesOnlyWhenDisturbed
      BY Zenon DEF FramesInv
    <2>4. LoaderInv'
      BY <2>1, <2>2, <2>3, Zenon DEF LoaderInv, loaderVars
    <2>5. LoaderDiesOnlyWhenDisturbed'
      BY <2>3, Zenon DEF LoaderDiesOnlyWhenDisturbed, loaderVars
    <2> QED BY <2>4, <2>5, Zenon
  <1> QED BY <1>2, <1>7, <1>9, <1>10, <1>11, <1>12, <1>13, Zenon DEF FramesInv

(* A step of close() that takes something away counts as a disturbance unless
   LOAD_FRAME is between two rounds. *)
LEMMA DisturbanceIsNoted ==
  ASSUME FramesInv, Disturbs, UNCHANGED loaderVars
  PROVE  LoaderInv' /\ LoaderDiesOnlyWhenDisturbed' /\ interrupted' \in BOOLEAN
  <1>1. interrupted' \in BOOLEAN
    BY Zenon DEF Disturbs, FramesInv, TypeOK
  <1>2. loader # "start" => interrupted'
    BY Zenon DEF Disturbs
  <1>3. LoaderInv'
    BY <1>2, Zenon DEF FramesInv, LoaderInv, loaderVars
  <1>4. LoaderDiesOnlyWhenDisturbed'
    BY <1>2, Zenon DEF LoaderDiesOnlyWhenDisturbed, loaderVars
  <1> QED BY <1>1, <1>3, <1>4, Zenon

(* A step that leaves the inputs alone leaves LOAD_FRAME what it has found. *)
LEMMA LoaderUndisturbed ==
  ASSUME FramesInv, UNCHANGED <<inputVars, loaderVars, interrupted>>
  PROVE  LoaderInv' /\ LoaderDiesOnlyWhenDisturbed'
  BY Zenon DEF FramesInv, LoaderInv, LoaderDiesOnlyWhenDisturbed, inputVars, loaderVars

(* The end of the program begins to close the camera. *)
LEMMA ExitKeeps ==
  ASSUME FramesInv, Exit
  PROVE  FramesInv'
  <1> DEFINE t == "fx"
  <1> USE DEF Exit, Goto
  <1>0. TypeOK /\ FreshInv /\ t \in Openers /\ UNCHANGED <<inputVars, victim, loaderVars>>
    BY Zenon DEF FramesInv
  <1>1. /\ opener[t] = "idle" /\ opener'[t] = "test" /\ new'[t] = 0
        /\ \A u \in Openers : u # t => opener'[u] = opener[u] /\ new'[u] = new[u]
    BY <1>0, Zenon DEF TypeOK
  <1>2. /\ Inside(t)' /\ ~Inside(t)
        /\ \A u \in Openers : u # t => (Inside(u)' <=> Inside(u))
    BY <1>1, Zenon DEF Inside
  <1>3. TypeOK' /\ RendererDiesOnlyOfDebugging'
    <2>1. overlapped' \in BOOLEAN /\ interrupted' \in BOOLEAN
      BY <1>0, Zenon DEF TypeOK, Inside
    <2>2. opener' \in [Openers -> OpenerSteps] /\ new' \in [Openers -> Inputs \cup {0}]
      BY <1>0, Zenon DEF TypeOK, OpenerSteps
    <2> QED BY <1>0, <2>1, <2>2, StepTypes, Zenon DEF TypeOK, inputVars
  <1>4. FreshInv'
    BY <1>0, <1>1, <1>2 DEF FreshInv, TypeOK, inputVars, loaderVars
  <1>5. overlapped' <=> overlapped \/ \E u \in Openers \ {t} : Inside(u)
    BY Zenon
  <1>6. AloneInv'
    <2> SUFFICES ASSUME ~overlapped' PROVE AloneInv'
      BY Zenon DEF AloneInv
    <2>1. ~overlapped /\ \A u \in Openers : ~Inside(u)
      BY <1>2, <1>5, Zenon
    <2>2. \A u \in Openers : Inside(u)' => u = t
      BY <1>2, <2>1, Zenon
    <2>3. \A e \in Devices : open[e] <=> imageInput # 0 /\ dev[imageInput] = e
      BY <2>1, Zenon DEF FramesInv, OnlyTheCameraInUseIsOpen
    <2>4. \A u \in Openers : opener'[u] \notin {"close", "closeCamera", "unset", "forget", "assign"}
      BY <2>1, <1>1, Zenon DEF Inside
    <2> QED BY <2>2, <2>3, <2>4, <1>0, <1>1, Zenon DEF AloneInv, inputVars
  <1>7. OnlyTheCameraInUseIsOpen'
    BY <1>0, <1>2, Zenon DEF OnlyTheCameraInUseIsOpen
  <1>8. NewCameraIsOpen'
    BY <1>0, <1>1, <1>2, <1>5, Zenon DEF FramesInv, NewCameraIsOpen, inputVars
  <1>9. HeldCameraIsOpen'
    BY <1>0, <1>1, <1>5, Zenon DEF FramesInv, HeldCameraIsOpen, inputVars
  <1> QED BY <1>0, <1>3, <1>4, <1>6, <1>7, <1>8, <1>9, LoaderUndisturbed, Zenon DEF FramesInv

(* close() finds a camera to close, or has nothing to do. *)
LEMMA TestKeeps ==
  ASSUME FramesInv, NEW t \in Openers, Test(t)
  PROVE  FramesInv'
  <1> USE DEF Test, Goto
  <1>0. /\ TypeOK /\ FreshInv /\ AloneInv
        /\ UNCHANGED <<inputVars, new, victim, overlapped, interrupted, loaderVars>>
    BY Zenon DEF FramesInv
  <1>1. /\ opener[t] = "test"
        /\ \/ imageInput # 0 /\ opener'[t] = "close"
           \/ imageInput = 0 /\ new[t] = 0 /\ opener'[t] = "done"
           \/ imageInput = 0 /\ new[t] # 0 /\ opener'[t] = "assign"
        /\ \A u \in Openers : u # t => opener'[u] = opener[u]
    BY <1>0, Zenon DEF TypeOK, AfterClose
  <1>2. /\ Inside(t) /\ (Inside(t)' <=> opener'[t] # "done")
        /\ \A u \in Openers : u # t => (Inside(u)' <=> Inside(u))
    BY <1>1, Zenon DEF Inside
  <1>3. TypeOK' /\ RendererDiesOnlyOfDebugging'
    <2>1. opener' \in [Openers -> OpenerSteps]
      BY <1>0, Zenon DEF TypeOK, OpenerSteps, AfterClose
    <2> QED BY <1>0, <2>1, StepTypes, Zenon DEF TypeOK, inputVars
  <1>4. FreshInv'
    BY <1>0, <1>1, <1>2 DEF FreshInv, inputVars, loaderVars
  <1>5. AloneInv'
    <2> SUFFICES ASSUME ~overlapped' PROVE AloneInv'
      BY Zenon DEF AloneInv
    <2>1. \A u \in Openers : u # t => ~Inside(u) /\ ~Inside(u)'
                               /\ opener'[u] \in {"idle", "done"}
      BY <1>0, <1>1, <1>2 DEF AloneInv, Inside
    <2> QED BY <2>1, <1>0, <1>1, <1>2 DEF AloneInv, inputVars
  <1>6. OnlyTheCameraInUseIsOpen'
    <2> SUFFICES ASSUME ~overlapped', \A u \in Openers : ~Inside(u)'
                 PROVE  \A d \in Devices : open'[d] <=> imageInput' # 0 /\ dev'[imageInput'] = d
      BY Zenon DEF OnlyTheCameraInUseIsOpen
    <2>1. imageInput = 0 /\ new[t] = 0
      BY <1>1, <1>2, Zenon
    <2> QED BY <2>1, <1>0, <1>2 DEF AloneInv, inputVars
  <1>7. NewCameraIsOpen'
    BY <1>0, <1>2 DEF FramesInv, NewCameraIsOpen, inputVars
  <1>8. HeldCameraIsOpen'
    BY <1>0, <1>1 DEF FramesInv, HeldCameraIsOpen, inputVars
  <1> QED BY <1>0, <1>3, <1>4, <1>5, <1>6, <1>7, <1>8, LoaderUndisturbed, Zenon DEF FramesInv

(* imageInput.close() is called on what the field holds now. *)
LEMMA CloseKeeps ==
  ASSUME FramesInv, NEW t \in Openers, Close(t)
  PROVE  FramesInv'
  <1> USE DEF Close, Goto
  <1>0. /\ TypeOK /\ FreshInv /\ AloneInv
        /\ UNCHANGED <<inputVars, new, overlapped, interrupted, loaderVars>>
    BY Zenon DEF FramesInv
  <1>1. /\ opener[t] = "close" /\ victim'[t] = imageInput
        /\ \/ imageInput # 0 /\ opener'[t] = "closeCamera"
           \/ imageInput = 0 /\ opener'[t] \in {"idle", "done"}
        /\ \A u \in Openers : u # t => opener'[u] = opener[u] /\ victim'[u] = victim[u]
    BY <1>0, Zenon DEF TypeOK, Over
  <1>2. /\ Inside(t) /\ (Inside(t)' <=> imageInput # 0)
        /\ \A u \in Openers : u # t => (Inside(u)' <=> Inside(u))
    BY <1>1, Zenon DEF Inside
  <1>3. TypeOK' /\ RendererDiesOnlyOfDebugging'
    <2>1. opener' \in [Openers -> OpenerSteps] /\ victim' \in [Openers -> Inputs \cup {0}]
      BY <1>0, Zenon DEF TypeOK, OpenerSteps, Over
    <2> QED BY <1>0, <2>1, StepTypes, Zenon DEF TypeOK, inputVars
  <1>4. FreshInv'
    BY <1>0, <1>1, <1>2 DEF FreshInv, inputVars, loaderVars
  <1>5. ~overlapped => imageInput # 0
    BY <1>0, <1>1, Zenon DEF AloneInv
  <1>6. AloneInv'
    <2> SUFFICES ASSUME ~overlapped' PROVE AloneInv'
      BY Zenon DEF AloneInv
    <2>1. \A u \in Openers : u # t => ~Inside(u) /\ ~Inside(u)'
                               /\ opener'[u] \in {"idle", "done"}
      BY <1>0, <1>1, <1>2 DEF AloneInv, Inside
    <2> QED BY <2>1, <1>0, <1>1, <1>2, <1>5 DEF AloneInv, inputVars
  <1>7. OnlyTheCameraInUseIsOpen'
    BY <1>0, <1>2, <1>5 DEF OnlyTheCameraInUseIsOpen
  <1>8. NewCameraIsOpen'
    BY <1>0, <1>2 DEF FramesInv, NewCameraIsOpen, inputVars
  <1>9. HeldCameraIsOpen'
    BY <1>0, <1>1 DEF FramesInv, HeldCameraIsOpen, inputVars
  <1> QED BY <1>0, <1>3, <1>4, <1>6, <1>7, <1>8, <1>9, LoaderUndisturbed, Zenon DEF FramesInv

(* camera.close() closes the device of the input, whoever opened it last; a
   thread finds the camera gone only after two were in openCam together. *)
LEMMA CloseCameraKeeps ==
  ASSUME FramesInv, NEW t \in Openers, CloseCamera(t)
  PROVE  FramesInv'
  <1> USE DEF CloseCamera, Goto
  <1>0. /\ TypeOK /\ FreshInv /\ AloneInv
        /\ UNCHANGED <<screen, imageInput, created, dev, camera, lost, new, victim,
                       overlapped, loaderVars, renderVars>>
    BY Zenon DEF FramesInv
  <1>1. /\ opener[t] = "closeCamera" /\ victim[t] # 0 /\ victim[t] \in Inputs
        /\ victim[t] \in 1 .. created /\ Inside(t)
    BY <1>0 DEF FreshInv, TypeOK, Inside
  <1>2. CASE /\ camera[victim[t]] /\ Disturbs
             /\ open' = [open EXCEPT ![dev[victim[t]]] = FALSE]
             /\ opener' = [opener EXCEPT ![t] = "unset"]
    <2>1. /\ opener'[t] = "unset"
          /\ \A u \in Openers : u # t => opener'[u] = opener[u]
      BY <1>0, <1>2, Zenon DEF TypeOK
    <2>2. /\ dev[victim[t]] \in Devices /\ ~open'[dev[victim[t]]]
          /\ \A e \in Devices : e # dev[victim[t]] => open'[e] = open[e]
      <3>1. dev[victim[t]] \in Devices
        BY <1>0, <1>1, Zenon DEF TypeOK
      <3>2. open'[dev[victim[t]]] = FALSE
        BY <1>0, <1>2, <3>1, Zenon DEF TypeOK
      <3>3. \A e \in Devices : e # dev[victim[t]] => open'[e] = open[e]
        BY <1>0, <1>2, Zenon DEF TypeOK
      <3> QED BY <3>1, <3>2, <3>3, Zenon
    <2>3. \A u \in Openers : Inside(u)' <=> Inside(u)
      BY <1>1, <2>1, Zenon DEF Inside
    <2>4. LoaderInv' /\ LoaderDiesOnlyWhenDisturbed' /\ interrupted' \in BOOLEAN
      BY <1>0, <1>2, DisturbanceIsNoted, Zenon
    <2>5. TypeOK' /\ RendererDiesOnlyOfDebugging'
      <3>1. opener' \in [Openers -> OpenerSteps] /\ open' \in [Devices -> BOOLEAN]
        BY <1>0, <1>2, Zenon DEF TypeOK, OpenerSteps
      <3> QED BY <1>0, <2>4, <3>1, StepTypes, Zenon DEF TypeOK
    <2>6. FreshInv'
      BY <1>0, <1>1, <2>1, <2>3, Zenon DEF FreshInv, loaderVars
    <2>7. AloneInv'
      <3> SUFFICES ASSUME ~overlapped' PROVE AloneInv'
        BY Zenon DEF AloneInv
      <3>1. \A u \in Openers : u # t => ~Inside(u) /\ ~Inside(u)'
                                 /\ opener'[u] \in {"idle", "done"}
        BY <1>0, <1>1, <2>1, <2>3 DEF AloneInv, Inside
      <3>2. imageInput # 0 /\ victim[t] = imageInput
        BY <1>0, <1>1 DEF AloneInv
      <3>3. ASSUME NEW e \in Devices PROVE open'[e] <=> new[t] # 0 /\ dev[new[t]] = e
        BY <3>2, <1>0, <1>1, <2>2 DEF AloneInv
      <3> QED BY <3>1, <3>2, <3>3, <1>0, <1>1, <2>1, <2>3 DEF AloneInv
    <2>8. OnlyTheCameraInUseIsOpen'
      BY <1>1, <2>3, Zenon DEF OnlyTheCameraInUseIsOpen
    <2>9. NewCameraIsOpen'
      <3> SUFFICES ASSUME NEW u \in Openers, Inside(u), new[u] # 0
                   PROVE  \/ open'[dev[new[u]]]
                          \/ overlapped /\ \E i \in (1 .. created) \ {new[u]} : dev[i] = dev[new[u]]
        BY <1>0, <2>3 DEF NewCameraIsOpen
      <3>1. dev[new[u]] \in Devices /\ new[u] # victim[t]
        BY <1>0, <1>1, Zenon DEF FreshInv, TypeOK
      <3>2. CASE dev[new[u]] # dev[victim[t]]
        BY <3>1, <3>2, <2>2, <1>0, Zenon DEF FramesInv, NewCameraIsOpen
      <3>3. CASE dev[new[u]] = dev[victim[t]]
        <4>1. overlapped
          BY <3>3, <1>0, <1>1, Zenon DEF AloneInv
        <4>2. victim[t] \in (1 .. created) \ {new[u]}
          BY <3>1, <1>1, Zenon
        <4> QED BY <3>3, <4>1, <4>2, Zenon
      <3> QED BY <3>2, <3>3, Zenon
    <2>10. HeldCameraIsOpen'
      <3> SUFFICES ASSUME imageInput # 0,
                          ~ \E u \in Openers : opener'[u] \in {"unset", "forget"} /\ victim[u] = imageInput
                   PROVE  /\ camera[imageInput]
                          /\ \/ open'[dev[imageInput]]
                             \/ /\ overlapped
                                /\ \E i \in (1 .. created) \ {imageInput} : dev[i] = dev[imageInput]
        BY <1>0 DEF HeldCameraIsOpen
      <3>1. victim[t] # imageInput
        BY <2>1, Zenon
      <3>2. ~ \E u \in Openers : opener[u] \in {"unset", "forget"} /\ victim[u] = imageInput
        BY <1>1, <2>1, Zenon
      <3>3. /\ camera[imageInput]
            /\ \/ open[dev[imageInput]]
               \/ overlapped /\ \E i \in (1 .. created) \ {imageInput} : dev[i] = dev[imageInput]
        BY <3>2, Zenon DEF FramesInv, HeldCameraIsOpen
      <3>4. overlapped
        BY <3>1, <1>0, <1>1, Zenon DEF AloneInv
      <3>5. CASE dev[imageInput] = dev[victim[t]]
        <4>1. victim[t] \in (1 .. created) \ {imageInput}
          BY <3>1, <1>1, Zenon
        <4> QED BY <3>3, <3>4, <3>5, <4>1, Zenon
      <3>6. CASE dev[imageInput] # dev[victim[t]]
        <4>1. dev[imageInput] \in Devices
          BY <1>0, Zenon DEF TypeOK
        <4> QED BY <3>3, <3>6, <4>1, <2>2, Zenon
      <3> QED BY <3>5, <3>6, Zenon
    <2> QED BY <2>4, <2>5, <2>6, <2>7, <2>8, <2>9, <2>10, Zenon DEF FramesInv
  <1>3. CASE /\ ~camera[victim[t]] /\ UNCHANGED <<open, interrupted>>
             /\ opener' = [opener EXCEPT ![t] = Over(t)]
    <2>1. /\ opener'[t] \in {"idle", "done"}
          /\ \A u \in Openers : u # t => opener'[u] = opener[u]
      BY <1>0, <1>3, Zenon DEF TypeOK, Over
    <2>2. ~Inside(t)' /\ \A u \in Openers : u # t => (Inside(u)' <=> Inside(u))
      BY <2>1, Zenon DEF Inside
    <2>3. overlapped
      <3> SUFFICES ASSUME ~overlapped PROVE FALSE
        BY <1>0, Zenon DEF TypeOK
      <3>1. imageInput # 0 /\ victim[t] = imageInput
        BY <1>0, <1>1, Zenon DEF AloneInv
      <3>2. ~ \E u \in Openers : opener[u] \in {"unset", "forget"}
        BY <1>0, <1>1, Zenon DEF AloneInv, Inside
      <3> QED BY <3>1, <3>2, <1>3, Zenon DEF FramesInv, HeldCameraIsOpen
    <2>4. TypeOK' /\ RendererDiesOnlyOfDebugging'
      <3>1. opener' \in [Openers -> OpenerSteps]
        BY <1>0, <1>3, Zenon DEF TypeOK, OpenerSteps, Over
      <3> QED BY <1>0, <1>3, <3>1, StepTypes, Zenon DEF TypeOK
    <2>5. FreshInv'
      BY <1>0, <1>1, <2>1, <2>2, Zenon DEF FreshInv, loaderVars
    <2>6. AloneInv' /\ OnlyTheCameraInUseIsOpen'
      BY <1>0, <2>3, Zenon DEF AloneInv, OnlyTheCameraInUseIsOpen
    <2>7. NewCameraIsOpen'
      BY <1>0, <1>3, <2>2 DEF FramesInv, NewCameraIsOpen
    <2>8. HeldCameraIsOpen'
      BY <1>0, <1>1, <1>3, <2>1 DEF FramesInv, HeldCameraIsOpen
    <2>9. LoaderInv' /\ LoaderDiesOnlyWhenDisturbed'
      BY <1>0, <1>3, LoaderUndisturbed, Zenon DEF inputVars
    <2> QED BY <2>4, <2>5, <2>6, <2>7, <2>8, <2>9, Zenon DEF FramesInv
  <1> QED BY <1>2, <1>3, Zenon

(* camera = null hits neither an input about to be installed nor, unless it
   is being closed, the one installed. *)
LEMMA UnsetKeeps ==
  ASSUME FramesInv, NEW t \in Openers, Unset(t)
  PROVE  FramesInv'
  <1> USE DEF Unset, Goto
  <1>0. /\ TypeOK /\ FreshInv /\ AloneInv
        /\ UNCHANGED <<screen, imageInput, created, dev, open, lost, new, victim,
                       overlapped, loaderVars, renderVars>>
    BY Zenon DEF FramesInv
  <1>1. /\ opener[t] = "unset" /\ opener'[t] = "forget"
        /\ \A u \in Openers : u # t => opener'[u] = opener[u]
    BY <1>0, Zenon DEF TypeOK
  <1>2. \A i \in Inputs : i # victim[t] => camera'[i] = camera[i]
    BY <1>0, Zenon DEF TypeOK
  <1>3. \A u \in Openers : Inside(u)' <=> Inside(u)
    BY <1>1, Zenon DEF Inside
  <1>4. LoaderInv' /\ LoaderDiesOnlyWhenDisturbed' /\ interrupted' \in BOOLEAN
    BY <1>0, DisturbanceIsNoted, Zenon
  <1>5. TypeOK' /\ RendererDiesOnlyOfDebugging'
    <2>1. opener' \in [Openers -> OpenerSteps] /\ camera' \in [Inputs -> BOOLEAN]
      BY <1>0, Zenon DEF TypeOK, OpenerSteps
    <2> QED BY <1>0, <1>4, <2>1, StepTypes, Zenon DEF TypeOK
  <1>6. FreshInv'
    <2>1. ASSUME NEW u \in Openers, Inside(u), new[u] # 0 PROVE camera'[new[u]]
      <3>1. new[u] \in Inputs /\ new[u] # victim[t] /\ camera[new[u]]
        BY <2>1, <1>0, Zenon DEF FreshInv, TypeOK
      <3> QED BY <3>1, <1>2, Zenon
    <2> QED BY <2>1, <1>0, <1>1, <1>3, Zenon DEF FreshInv, loaderVars
  <1>7. AloneInv'
    BY <1>0, <1>1, <1>3 DEF AloneInv
  <1>8. OnlyTheCameraInUseIsOpen'
    BY <1>0, <1>3 DEF FramesInv, OnlyTheCameraInUseIsOpen
  <1>9. NewCameraIsOpen'
    BY <1>0, <1>3 DEF FramesInv, NewCameraIsOpen
  <1>10. HeldCameraIsOpen'
    <2> SUFFICES ASSUME imageInput # 0,
                        ~ \E u \in Openers : opener'[u] \in {"unset", "forget"} /\ victim[u] = imageInput
                 PROVE  /\ camera'[imageInput]
                        /\ \/ open[dev[imageInput]]
                           \/ /\ overlapped
                              /\ \E i \in (1 .. created) \ {imageInput} : dev[i] = dev[imageInput]
      BY <1>0 DEF HeldCameraIsOpen
    <2>1. imageInput # victim[t] /\ imageInput \in Inputs
      BY <1>0, <1>1, Zenon DEF TypeOK
    <2>2. ~ \E u \in Openers : opener[u] \in {"unset", "forget"} /\ victim[u] = imageInput
      BY <1>1, <2>1, Zenon
    <2> QED BY <2>1, <2>2, <1>2, Zenon DEF FramesInv, HeldCameraIsOpen
  <1> QED BY <1>4, <1>5, <1>6, <1>7, <1>8, <1>9, <1>10, Zenon DEF FramesInv

(* imageInput = null: with the camera closed and taken away, nothing is in use. *)
LEMMA ForgetKeeps ==
  ASSUME FramesInv, NEW t \in Openers, Forget(t)
  PROVE  FramesInv'
  <1> USE DEF Forget, Goto
  <1>0. /\ TypeOK /\ FreshInv /\ AloneInv
        /\ imageInput' = 0
        /\ UNCHANGED <<screen, created, dev, camera, open, lost, new, overlapped,
                       loaderVars, renderVars>>
    BY Zenon DEF FramesInv
  <1>1. /\ opener[t] = "forget" /\ victim'[t] = 0
        /\ \/ new[t] = 0 /\ opener'[t] = "done"
           \/ new[t] # 0 /\ opener'[t] = "assign"
        /\ \A u \in Openers : u # t => opener'[u] = opener[u] /\ victim'[u] = victim[u]
    BY <1>0, Zenon DEF TypeOK, AfterClose
  <1>2. /\ Inside(t) /\ (Inside(t)' <=> new[t] # 0)
        /\ \A u \in Openers : u # t => (Inside(u)' <=> Inside(u))
    BY <1>1, Zenon DEF Inside
  <1>3. LoaderInv' /\ LoaderDiesOnlyWhenDisturbed' /\ interrupted' \in BOOLEAN
    BY <1>0, DisturbanceIsNoted, Zenon
  <1>4. TypeOK' /\ RendererDiesOnlyOfDebugging'
    <2>1. opener' \in [Openers -> OpenerSteps] /\ victim' \in [Openers -> Inputs \cup {0}]
      BY <1>0, Zenon DEF TypeOK, OpenerSteps, AfterClose
    <2> QED BY <1>0, <1>3, <2>1, StepTypes, Zenon DEF TypeOK
  <1> HIDE DEF Forget, Goto
  <1>5. FreshInv'
    BY <1>0, <1>1, <1>2 DEF FreshInv, TypeOK, loaderVars
  <1>6. ~overlapped => /\ \A u \in Openers : u # t => ~Inside(u) /\ ~Inside(u)'
                                               /\ opener'[u] \in {"idle", "done"}
                       /\ \A d \in Devices : open[d] <=> new[t] # 0 /\ dev[new[t]] = d
    BY <1>0, <1>1, <1>2, ZenonT(60) DEF AloneInv, Inside
  <1>7. AloneInv'
    BY <1>0, <1>1, <1>2, <1>6, ZenonT(60) DEF AloneInv
  <1>8. OnlyTheCameraInUseIsOpen'
    <2>1. ~overlapped /\ ~Inside(t)' => \A d \in Devices : ~open[d]
      BY <1>2, <1>6, Zenon
    <2>2. imageInput' = 0 /\ overlapped' = overlapped /\ open' = open
      BY <1>0, Zenon
    <2> QED BY <2>1, <2>2, Zenon DEF OnlyTheCameraInUseIsOpen
  <1>9. NewCameraIsOpen'
    BY <1>0, <1>2, Zenon DEF FramesInv, NewCameraIsOpen
  <1>10. HeldCameraIsOpen'
    BY <1>0, Zenon DEF HeldCameraIsOpen
  <1> QED BY <1>3, <1>4, <1>5, <1>7, <1>8, <1>9, <1>10, Zenon DEF FramesInv

(* this.imageInput = imageInput: the new input becomes the one in use. *)
LEMMA AssignKeeps ==
  ASSUME FramesInv, NEW t \in Openers, Assign(t)
  PROVE  FramesInv'
  <1> USE DEF Assign, Goto
  <1>0. /\ TypeOK /\ FreshInv /\ AloneInv
        /\ UNCHANGED <<screen, created, dev, camera, open, lost, victim, overlapped,
                       interrupted, loaderVars, renderVars>>
    BY Zenon DEF FramesInv
  <1>1. /\ opener[t] = "assign" /\ opener'[t] \in {"idle", "done"}
        /\ imageInput' = new[t] /\ new[t] # 0 /\ new[t] \in Inputs /\ new'[t] = 0
        /\ \A u \in Openers : u # t => opener'[u] = opener[u] /\ new'[u] = new[u]
    BY <1>0, Zenon DEF TypeOK, FreshInv, Over
  <1>2. /\ Inside(t) /\ ~Inside(t)'
        /\ \A u \in Openers : u # t => (Inside(u)' <=> Inside(u))
    BY <1>1, Zenon DEF Inside
  <1>3. TypeOK' /\ RendererDiesOnlyOfDebugging'
    <2>1. opener' \in [Openers -> OpenerSteps] /\ new' \in [Openers -> Inputs \cup {0}]
      BY <1>0, Zenon DEF TypeOK, OpenerSteps, Over
    <2> QED BY <1>0, <1>1, <2>1, StepTypes, Zenon DEF TypeOK
  <1> HIDE DEF Assign, Goto
  <1>4. FreshInv'
    BY <1>0, <1>1, <1>2 DEF FreshInv, TypeOK, loaderVars
  <1>5. ~overlapped => /\ \A u \in Openers : ~Inside(u)' /\ opener'[u] \in {"idle", "done"}
                       /\ \A d \in Devices : open[d] <=> dev[new[t]] = d
    BY <1>0, <1>1, <1>2, Zenon DEF AloneInv, Inside
  <1>6. AloneInv'
    BY <1>0, <1>5, Zenon DEF AloneInv
  <1>7. OnlyTheCameraInUseIsOpen'
    BY <1>0, <1>1, <1>5, Zenon DEF OnlyTheCameraInUseIsOpen
  <1>8. NewCameraIsOpen'
    BY <1>0, <1>1, <1>2 DEF FramesInv, NewCameraIsOpen
  <1>9. HeldCameraIsOpen'
    <2>1. camera[new[t]]
      BY <1>0, <1>1, <1>2, Zenon DEF FreshInv
    <2>2. \/ open[dev[new[t]]]
          \/ overlapped /\ \E i \in (1 .. created) \ {new[t]} : dev[i] = dev[new[t]]
      BY <1>1, <1>2, Zenon DEF FramesInv, NewCameraIsOpen
    <2> QED BY <2>1, <2>2, <1>0, <1>1, Zenon DEF HeldCameraIsOpen
  <1>10. LoaderInv' /\ LoaderDiesOnlyWhenDisturbed'
    BY <1>0, <1>1, Zenon DEF FramesInv, LoaderInv, LoaderDiesOnlyWhenDisturbed, loaderVars
  <1> QED BY <1>3, <1>4, <1>6, <1>7, <1>8, <1>9, <1>10, Zenon DEF FramesInv

(* Every step of the program keeps the invariant. *)
LEMMA FramesInductive ==
  ASSUME FramesInv, [Next]_vars
  PROVE  FramesInv'
  <1>1. CASE UNCHANGED vars
    <2>1. UNCHANGED <<inputVars, openerVars, loaderVars, renderVars, screen>>
      BY <1>1, Zenon DEF vars
    <2>2. TypeOK' /\ RendererDiesOnlyOfDebugging'
      BY <2>1, Zenon DEF FramesInv, TypeOK, RendererDiesOnlyOfDebugging, Escapes, inputVars, openerVars,
                  loaderVars, renderVars
    <2>3. LoaderInv' /\ LoaderDiesOnlyWhenDisturbed'
      BY <2>1, LoaderUndisturbed, Zenon DEF openerVars
    <2>4. FreshInv' /\ AloneInv' /\ OnlyTheCameraInUseIsOpen' /\ NewCameraIsOpen'
             /\ HeldCameraIsOpen'
      BY <2>1, OpenersUndisturbed, Zenon DEF inputVars, loaderVars
    <2> QED BY <2>2, <2>3, <2>4, Zenon DEF FramesInv
  <1>2. CASE \E t \in Openers, d \in Devices : OpenCam(t, d)
    BY <1>2, OpenCamKeeps, Zenon
  <1>3. CASE Exit
    BY <1>3, ExitKeeps, Zenon
  <1>4. ASSUME NEW t \in Openers, Opening(t) PROVE FramesInv'
    BY <1>4, TestKeeps, CloseKeeps, CloseCameraKeeps, UnsetKeeps, ForgetKeeps, AssignKeeps, Zenon
       DEF Opening
  <1>5. CASE \E d \in Devices : Unplug(d)
    BY <1>5, UnplugKeeps, Zenon
  <1>6. CASE Loading
    BY <1>6, LoadingKeeps, Zenon
  <1>7. CASE RegisterScreen \/ Rendering \/ WakeUp
    BY <1>7, RenderingKeeps, Zenon
  <1> QED BY <1>1, <1>2, <1>3, <1>4, <1>5, <1>6, <1>7, Zenon DEF Next

(* FramesInv holds in every reachable state, for any set of devices and any
   number of camera inputs. *)
THEOREM FramesInvariance == Spec => []FramesInv
  <1>1. Init => FramesInv
    BY FramesInitial, Zenon
  <1>2. FramesInv /\ [Next]_vars => FramesInv'
    BY FramesInductive, Zenon
  <1> QED BY <1>1, <1>2, PTL DEF Spec

(* The open devices are exactly the one in use whenever nobody is changing the
   camera and no two threads ever did so together (setImageInput, close). *)
THEOREM OpenTheorem == Spec => []OnlyTheCameraInUseIsOpen
  <1>1. FramesInv => OnlyTheCameraInUseIsOpen
    BY Zenon DEF FramesInv
  <1> QED BY <1>1, FramesInvariance, PTL

(* The camera DisplayService holds has not been closed behind its back, with
   the one exception the property names (close, CameraImageInput.close). *)
THEOREM HeldTheorem == Spec => []HeldCameraIsOpen
  <1>1. FramesInv => HeldCameraIsOpen
    BY Zenon DEF FramesInv
  <1> QED BY <1>1, FramesInvariance, PTL

(* LOAD_FRAME ends only when a camera is closed under it or a device is lost,
   RENDER_SCREEN only of an exception of the debug window that has no message
   and the class of the one before it (readFrame, renderScreen,
   DebugPanel.isSameException). *)
THEOREM DaemonsTheorem == Spec => []DaemonsSurvive
  <1>1. FramesInv => DaemonsSurvive
    BY Zenon DEF FramesInv, DaemonsSurvive
  <1> QED BY <1>1, FramesInvariance, PTL

-----------------------------------------------------------------------------
(* The order of the pictures.                                               *)

(* Inputs and frames are numbers, none beyond the newest input. *)
LEMMA NumberFacts ==
  ASSUME FramesInv
  PROVE  /\ created \in Nat /\ imageInput \in Nat /\ reading \in Nat
         /\ cachedFrame \in Nat /\ rendering \in Nat /\ shown \in Nat
         /\ imageInput <= created /\ reading <= created
  <1>1. TypeOK /\ imageInput <= created /\ reading <= created
    BY Zenon DEF FramesInv, FreshInv
  <1> QED BY <1>1 DEF TypeOK

(* The threads that replace the camera leave the pictures alone. *)
LEMMA OpenersKeepOrder ==
  ASSUME FramesInv, OrderInv, UNCHANGED <<loaderVars, renderVars>>,
         created' \in Nat, created <= created', ~overlapped' => ~overlapped,
         ~overlapped' => \A t \in Openers : Inside(t)' /\ new'[t] # 0 => new'[t] = created',
         ~overlapped' => imageInput' \in {0, imageInput, created}
  PROVE  OrderInv'
  <1>1. UNCHANGED <<reading, cachedFrame, renderer, rendering, shown>>
    BY Zenon DEF loaderVars, renderVars
  <1>2. cachedFrame' <= created'
    BY <1>1, NumberFacts DEF OrderInv
  <1>3. ~overlapped' /\ imageInput' # 0 => reading' <= imageInput' /\ cachedFrame' <= imageInput'
    BY <1>1, NumberFacts DEF OrderInv
  <1> QED BY <1>1, <1>2, <1>3, Zenon DEF OrderInv

(* The input openCam creates is the newest one. *)
LEMMA OpenCamKeepsOrder ==
  ASSUME FramesInv, OrderInv, NEW t \in Openers, NEW d \in Devices, OpenCam(t, d)
  PROVE  OrderInv'
  <1>1. /\ created' = created + 1 /\ new' = [new EXCEPT ![t] = created']
        /\ opener' = [opener EXCEPT ![t] = "test"] /\ imageInput' = imageInput
        /\ overlapped' = (overlapped \/ \E u \in Openers \ {t} : Inside(u))
        /\ UNCHANGED <<loaderVars, renderVars>>
    BY Zenon DEF OpenCam, Goto
  <1>2. created' \in Nat /\ created <= created'
    BY <1>1, NumberFacts
  <1>3. new'[t] = created' /\ \A u \in Openers \ {t} : Inside(u)' <=> Inside(u)
    BY <1>1, Zenon DEF FramesInv, TypeOK, Inside
  <1>4. ~overlapped' => \A u \in Openers : Inside(u)' /\ new'[u] # 0 => new'[u] = created'
    BY <1>1, <1>3, Zenon
  <1> QED BY <1>1, <1>2, <1>4, OpenersKeepOrder, Zenon

(* A thread inside openCam, or at the end of the program, installs the newest
   input or none. *)
LEMMA OpeningKeepsOrder ==
  ASSUME FramesInv, OrderInv, NEW t \in Openers, Opening(t) \/ (t = "fx" /\ Exit)
  PROVE  OrderInv'
  <1>0. TypeOK
    BY Zenon DEF FramesInv
  <1>1. UNCHANGED <<created, loaderVars, renderVars>>
    BY Zenon DEF Opening, Test, Close, CloseCamera, Unset, Forget, Assign, Exit, inputVars
  <1>2. created' \in Nat /\ created <= created'
    BY <1>1, NumberFacts
  <1>3. ~overlapped' => ~overlapped
    BY Zenon DEF Opening, Test, Close, CloseCamera, Unset, Forget, Assign, Exit
  <1>4. \A u \in Openers : new'[u] # 0 => new'[u] = new[u]
    BY <1>0, Zenon DEF Opening, Test, Close, CloseCamera, Unset, Forget, Assign, Exit, TypeOK
  <1>5. \A u \in Openers : Inside(u)' /\ new'[u] # 0 => Inside(u)
    <2>1. \A u \in Openers \ {t} : opener'[u] = opener[u]
      BY <1>0, Zenon DEF Opening, Test, Close, CloseCamera, Unset, Forget, Assign, Exit, Goto,
                         TypeOK
    <2>2. CASE Opening(t)
      <3>1. Inside(t)
        BY <2>2, Zenon DEF Opening, Test, Close, CloseCamera, Unset, Forget, Assign, Inside
      <3> QED BY <2>1, <3>1, Zenon DEF Inside
    <2>3. CASE t = "fx" /\ Exit
      <3>1. new'[t] = 0
        BY <1>0, <2>3, Zenon DEF Exit, TypeOK
      <3> QED BY <2>1, <3>1, Zenon DEF Inside
    <2> QED BY <2>2, <2>3, Zenon
  <1>6. ~overlapped' => \A u \in Openers : Inside(u)' /\ new'[u] # 0 => new'[u] = created'
    BY <1>1, <1>3, <1>4, <1>5, Zenon DEF OrderInv
  <1>7. ~overlapped' => imageInput' \in {0, imageInput, created}
    <2>1. CASE Assign(t)
      <3>1. Inside(t) /\ new[t] # 0 /\ imageInput' = new[t]
        BY <2>1, Zenon DEF Assign, Inside, FramesInv, FreshInv
      <3> QED BY <1>3, <3>1, Zenon DEF OrderInv
    <2>2. CASE ~Assign(t)
      BY <2>2, Zenon DEF Opening, Test, Close, CloseCamera, Unset, Forget, Exit, inputVars
    <2> QED BY <2>1, <2>2, Zenon
  <1> QED BY <1>1, <1>2, <1>3, <1>6, <1>7, OpenersKeepOrder, Zenon

(* LOAD_FRAME reads the installed input and publishes what it has read. *)
LEMMA LoadingKeepsOrder ==
  ASSUME FramesInv, OrderInv, Loading
  PROVE  OrderInv'
  <1>1. UNCHANGED <<inputVars, openerVars, rendering, shown>>
    BY Zenon DEF Loading, ReadFrame, Read, IsOpen, GetImage, SetFrame, Load, renderVars
  <1>2. /\ UNCHANGED <<created, imageInput, overlapped, new, opener>>
        /\ \A t \in Openers : Inside(t)' <=> Inside(t)
    BY <1>1, Zenon DEF inputVars, openerVars, Inside
  <1>3. renderer' = "accept" <=> renderer = "accept"
    BY Zenon DEF Loading, ReadFrame, Read, IsOpen, GetImage, SetFrame, Load, renderVars
  <1>4. CASE cachedFrame' = cachedFrame /\ reading' \in {0, reading, imageInput}
    <2>1. ~overlapped /\ reading' # 0 => cachedFrame' <= reading'
      BY <1>4, Zenon DEF OrderInv
    <2>2. ~overlapped /\ imageInput # 0 => reading' <= imageInput
      BY <1>4, NumberFacts DEF OrderInv
    <2> QED BY <1>1, <1>2, <1>3, <1>4, <2>1, <2>2, Zenon DEF OrderInv
  <1>5. CASE cachedFrame' = reading /\ reading' = 0 /\ reading # 0
    <2>1. cachedFrame' <= created
      BY <1>5, NumberFacts
    <2>2. ~overlapped => shown <= cachedFrame' /\ (rendering # 0 => rendering <= cachedFrame')
      BY <1>5, NumberFacts DEF OrderInv
    <2>3. ~overlapped /\ imageInput # 0 => reading' <= imageInput /\ cachedFrame' <= imageInput
      BY <1>5, NumberFacts DEF OrderInv
    <2> QED BY <1>1, <1>2, <1>3, <1>5, <2>1, <2>2, <2>3, Zenon DEF OrderInv
  <1>6. loader = "setFrame" => reading # 0
    BY Zenon DEF FramesInv, LoaderInv
  <1> QED BY <1>4, <1>5, <1>6, Zenon DEF Loading, ReadFrame, Read, IsOpen, GetImage, SetFrame

(* RENDER_SCREEN takes the frame published last and shows what it has taken. *)
LEMMA RenderingKeepsOrder ==
  ASSUME FramesInv, OrderInv, RegisterScreen \/ Rendering \/ WakeUp \/ \E d \in Devices : Unplug(d)
  PROVE  OrderInv' /\ (~overlapped' => shown <= shown')
  <1>1. UNCHANGED <<imageInput, created, openerVars, loaderVars>>
    BY Zenon DEF RegisterScreen, Rendering, WakeUp, Unplug, RenderScreen, Wait, GetNewFrame, Accept,
                 ProcessDebug, Render, inputVars
  <1>2. /\ UNCHANGED <<reading, cachedFrame, overlapped, new, opener>>
        /\ \A t \in Openers : Inside(t)' <=> Inside(t)
    BY <1>1, Zenon DEF loaderVars, openerVars, Inside
  <1>3. shown <= shown
    BY NumberFacts
  <1>4. CASE GetNewFrame
    <2>1. cachedFrame <= cachedFrame
      BY NumberFacts
    <2> QED BY <1>1, <1>2, <1>3, <1>4, <2>1, Zenon DEF OrderInv, GetNewFrame, Render
  <1>5. CASE Accept
    BY <1>1, <1>2, <1>5, Zenon DEF OrderInv, Accept, Render
  <1>6. CASE /\ UNCHANGED <<rendering, shown>>
             /\ renderer' = "accept" <=> renderer = "accept"
    BY <1>1, <1>2, <1>3, <1>6, Zenon DEF OrderInv
  <1> QED BY <1>4, <1>5, <1>6, Zenon
      DEF RegisterScreen, Rendering, WakeUp, Unplug, RenderScreen, Wait, ProcessDebug, Render, renderVars

(* Every step keeps the pictures in order, and only RENDER_SCREEN changes what
   is shown. *)
LEMMA OrderInductive ==
  ASSUME FramesInv, OrderInv, [Next]_vars
  PROVE  OrderInv' /\ (~overlapped' => shown <= shown')
  <1>1. shown <= shown
    BY NumberFacts
  <1>2. CASE UNCHANGED vars
    BY <1>1, <1>2, Zenon DEF vars, inputVars, openerVars, loaderVars, renderVars, OrderInv, Inside
  <1>3. ASSUME NEW t \in Openers, NEW d \in Devices, OpenCam(t, d)
        PROVE  OrderInv' /\ shown' = shown
    BY <1>3, OpenCamKeepsOrder, Zenon DEF OpenCam, renderVars
  <1>4. ASSUME NEW t \in Openers, Opening(t) \/ (t = "fx" /\ Exit)
        PROVE  OrderInv' /\ shown' = shown
    BY <1>4, OpeningKeepsOrder, Zenon
       DEF Opening, Test, Close, CloseCamera, Unset, Forget, Assign, Exit, renderVars
  <1>5. CASE Loading
    BY <1>1, <1>5, LoadingKeepsOrder, Zenon
       DEF Loading, ReadFrame, Read, IsOpen, GetImage, SetFrame, Load, renderVars
  <1>6. CASE RegisterScreen \/ Rendering \/ WakeUp \/ \E d \in Devices : Unplug(d)
    BY <1>6, RenderingKeepsOrder, Zenon
  <1> QED BY <1>1, <1>2, <1>3, <1>4, <1>5, <1>6, Zenon DEF Next, Openers

(* OrderInv holds in every reachable state: with one thread at a time in
   openCam, the screen, the cached frame, the frame being read and the
   installed camera are never newer than the one after them. *)
THEOREM OrderInvariance == Spec => []OrderInv
  <1>1. Init => OrderInv
    <2> SUFFICES ASSUME Init PROVE OrderInv
      BY Zenon
    <2>1. \A t \in Openers : ~Inside(t)
      BY Zenon DEF Init, Inside
    <2> QED BY <2>1 DEF Init, OrderInv
  <1>2. FramesInv /\ OrderInv /\ [Next]_vars => OrderInv'
    BY OrderInductive, Zenon
  <1> QED BY <1>1, <1>2, FramesInvariance, PTL DEF Spec

(* A picture of a replaced camera never comes back to the screen once one of
   its successor was shown (read, setFrame, getNewFrame, screen.accept). *)
THEOREM NeverBackTheorem == Spec => ScreenNeverGoesBack
  <1>1. FramesInv /\ OrderInv /\ [Next]_vars => [~overlapped' => shown <= shown']_vars
    BY OrderInductive, Zenon
  <1> QED BY <1>1, FramesInvariance, OrderInvariance, PTL DEF Spec, ScreenNeverGoesBack
=============================================================================
