---------------------------- MODULE ScriptProofs ----------------------------
(***************************************************************************)
(* Proofs about scripts: running them (ScriptRunner, for any number of     *)
(* runs), loading them (ScriptLibrary, for any files, descriptions and     *)
(* properties) and what they look at (Detection, for any picture and  *)
(* number of frames and detections).                                       *)
(***************************************************************************)
EXTENDS ScriptRunner, ScriptLibrary, Detection, TLAPS

-----------------------------------------------------------------------------
(* Running.                                                                 *)

(* Before the first click no run exists and the handler is idle. *)
LEMMA InitInv == Init => RunnerInv
<1> SUFFICES ASSUME Init PROVE RunnerInv
  BY Zenon
<1>1. posted \in Seq(Runs)
  BY DEF Init
<1>2. TypeOK
  BY <1>1, Zenon DEF Init, TypeOK, NoRun, FxSteps, TaskSteps
<1>3. HandlerInv /\ StopInv /\ NoRunIsForgotten /\ ButtonShowsRunner
  BY Zenon DEF Init, HandlerInv, StopInv, NoRunIsForgotten, ButtonShowsRunner, Alive
<1> QED
  BY <1>2, <1>3, Zenon DEF RunnerInv

(* Every step of the user-interface thread, and a failing port, keep the
   invariant. *)
LEMMA FxStepInv ==
    ASSUME RunnerInv, ClickRun \/ ClickStop \/ PrepareFails \/ (\E k \in Runs : Launch(k))
             \/ FxHandler \/ Unplug
    PROVE  RunnerInv'
<1> USE MaxRunsAssumption
           DEF RunnerInv, TypeOK, HandlerInv, StopInv, NoRunIsForgotten,
               ButtonShowsRunner, Runs, FxSteps, TaskSteps, Alive,
               fxVars, taskVars, history
<1>1. CASE ClickRun
  BY <1>1, Zenon DEF ClickRun
<1>2. CASE PrepareFails
  BY <1>2, Zenon DEF PrepareFails
<1>3. CASE \E k \in Runs : Launch(k)
  BY <1>3 DEF Launch
<1>4. CASE ClickStop
  BY <1>4, Zenon DEF ClickStop, TaskStop
<1>5. CASE Callback
  <2>1. posted' \in Seq(Runs)
    BY <1>5 DEF Callback
  <2>2. CASE current # 0
    BY <1>5, <2>1, <2>2, ZenonT(60) DEF Callback, TaskStop
  <2>3. CASE current = 0
    BY <1>5, <2>1, <2>3, Zenon DEF Callback
  <2> QED
    BY <2>2, <2>3, Zenon
<1>6. CASE Cancel
  BY <1>6, Zenon DEF Cancel
<1>7. CASE ClearController
  BY <1>7, Zenon DEF ClearController
<1>8. CASE EnableScripts
  BY <1>8, Zenon DEF EnableScripts
<1>9. CASE Unplug
  BY <1>9, Zenon DEF Unplug
<1> QED
  BY <1>1, <1>2, <1>3, <1>4, <1>5, <1>6, <1>7, <1>8, <1>9, Zenon DEF FxHandler

(* Every step of a script thread keeps the invariant. *)
LEMMA TaskStepInv ==
    ASSUME RunnerInv, NEW k \in Runs, TaskStep(k) \/ Swallow(k)
    PROVE  RunnerInv'
<1> USE MaxRunsAssumption
           DEF RunnerInv, TypeOK, HandlerInv, StopInv, NoRunIsForgotten,
               ButtonShowsRunner, Runs, FxSteps, TaskSteps, Alive,
               fxVars, taskVars, history
<1>1. CASE Begin(k)
  BY <1>1, Zenon DEF Begin, Step
<1>2. CASE SetRunning(k)
  BY <1>2, Zenon DEF SetRunning, Step
<1>3. CASE Iterate(k)
  BY <1>3, Zenon DEF Iterate, Step
<1>4. CASE Complete(k)
  BY <1>4, Zenon DEF Complete, Step
<1>5. CASE Abort(k)
  BY <1>5, ZenonT(60) DEF Abort, Step
<1>6. CASE Swallow(k)
  BY <1>6, Zenon DEF Swallow
<1>7. CASE Test(k)
  <2>1. CASE running[k] /\ ~interrupt[k]
    <3>1. Step(k, "test", "iterate") /\ UNCHANGED interrupt
      BY <1>7, <2>1, Zenon DEF Test
    <3> QED
      BY <1>7, <3>1, Zenon DEF Test, Step
  <2>2. CASE running[k] => interrupt[k]
    <3>1. Step(k, "test", "finally")
      BY <1>7, <2>2, Zenon DEF Test
    <3>2. interrupt' \in [Runs -> BOOLEAN]
      BY <1>7, <2>2, Zenon DEF Test
    <3>3. \A j \in Runs : j # k => interrupt'[j] = interrupt[j]
      BY <1>7, <2>2, Zenon DEF Test
    <3>4. UNCHANGED <<posted, loop, running, reset, history>>
      BY <1>7, Zenon DEF Test
    <3> QED
      BY <3>1, <3>2, <3>3, <3>4, Zenon DEF Step
  <2> QED
    BY <2>1, <2>2, Zenon
<1>8. CASE Finally(k)
  <2>1. posted' \in Seq(Runs)
    BY <1>8 DEF Finally
  <2> QED
    BY <1>8, <2>1, Zenon DEF Finally, Step
<1> QED
  BY <1>1, <1>2, <1>3, <1>4, <1>5, <1>6, <1>7, <1>8, Zenon DEF TaskStep

(* RunnerInv is an invariant of the runner, its button and its tasks. *)
THEOREM RunnerInvariance == Spec => []RunnerInv
<1>1. Init => RunnerInv
  BY InitInv, Zenon
<1>2. RunnerInv /\ [Next]_vars => RunnerInv'
  <2> SUFFICES ASSUME RunnerInv, [Next]_vars PROVE RunnerInv'
    BY Zenon
  <2>1. CASE UNCHANGED vars
    BY <2>1, Zenon DEF vars, fxVars, taskVars, history, RunnerInv, TypeOK, HandlerInv,
       StopInv, NoRunIsForgotten, ButtonShowsRunner
  <2>2. CASE Next
    BY <2>2, FxStepInv, TaskStepInv, Zenon DEF Next
  <2> QED
    BY <2>1, <2>2, Zenon
<1> QED
  BY <1>1, <1>2, PTL DEF Spec

(* However many runs were started and stopped, a script thread the runner has
   let go of only loops on after a late start whose interrupt was consumed. *)
THEOREM StrayTheorem == Spec => []StrayScriptsAreStopping
<1>1. RunnerInv => StrayScriptsAreStopping
  BY Zenon DEF RunnerInv, StopInv, NoRunIsForgotten, StrayScriptsAreStopping
<1> QED
  BY <1>1, RunnerInvariance, PTL

(* No run is ever out of the reach of STOP! without having been told to stop. *)
THEOREM ReachTheorem == Spec => []NoRunIsForgotten
<1>1. RunnerInv => NoRunIsForgotten
  BY Zenon DEF RunnerInv
<1> QED
  BY <1>1, RunnerInvariance, PTL

(* The text of the button agrees with ScriptRunner.isRunning() between
   handlers, as long as the port has not failed. *)
THEOREM ButtonTheorem == Spec => []ButtonShowsRunner
<1>1. RunnerInv => ButtonShowsRunner
  BY Zenon DEF RunnerInv
<1> QED
  BY <1>1, RunnerInvariance, PTL

(* The current script has a protocol. *)
THEOREM CurrentProtocolTheorem == Spec => []CurrentRunHasProtocol
<1>1. RunnerInv => CurrentRunHasProtocol
  BY Zenon DEF RunnerInv, HandlerInv, CurrentRunHasProtocol
<1> QED
  BY <1>1, RunnerInvariance, PTL

(* The callback of an ended run stays in the queue until a handler stops the
   run the runner holds. *)
LEMMA CallbackKept ==
    ASSUME RunnerInv, EndedRunHasItsCallback, [Next]_vars
    PROVE  EndedRunHasItsCallback'
<1> SUFFICES ASSUME NEW k \in Runs, task'[k] = "ended", current' = k
             PROVE  fx' = "cancel" \/ \E i \in 1 .. Len(posted') : posted'[i] = k
  BY Zenon DEF EndedRunHasItsCallback
<1>1. k # 0 /\ posted \in Seq(Runs) /\ task \in [Runs -> TaskSteps]
  BY MaxRunsAssumption DEF RunnerInv, TypeOK, Runs
<1>2. fx \in {"loaded", "clear", "enable"} => current = 0
  BY Zenon DEF RunnerInv, HandlerInv
<1>3. task[k] = "ended" /\ current = k =>
        fx = "cancel" \/ \E i \in 1 .. Len(posted) : posted[i] = k
  BY Zenon DEF EndedRunHasItsCallback
<1>4. CASE ClickRun \/ ClickStop \/ PrepareFails \/ FxHandler
  BY <1>1, <1>2, <1>4, Zenon
     DEF ClickRun, ClickStop, PrepareFails, FxHandler, Callback, TaskStop, Cancel, ClearController,
         EnableScripts
<1>5. CASE \E j \in Runs : Launch(j)
  BY <1>1, <1>5, Zenon DEF Launch
<1>6. CASE Unplug \/ UNCHANGED vars
  BY <1>3, <1>6, Zenon DEF Unplug, vars, fxVars, taskVars
<1>7. ASSUME NEW j \in Runs, TaskStep(j) \/ Swallow(j), ~Finally(j)
      PROVE  task[k] = "ended" /\ current = k /\ fx' = fx /\ posted' = posted
  BY <1>1, <1>7, Zenon
     DEF TaskStep, Swallow, Begin, SetRunning, Iterate, Complete, Abort, Test, Step, fxVars
<1>8. ASSUME NEW j \in Runs, Finally(j)
      PROVE  fx' = "cancel" \/ \E i \in 1 .. Len(posted') : posted'[i] = k
  <2>1. posted' = Append(posted, j) /\ task' = [task EXCEPT ![j] = "ended"]
        /\ current' = current /\ fx' = fx
    BY <1>8, Zenon DEF Finally, Step, fxVars
  <2>2. /\ Len(posted') = Len(posted) + 1 /\ Len(posted) \in Nat
        /\ posted'[Len(posted) + 1] = j
        /\ \A i \in 1 .. Len(posted) : posted'[i] = posted[i] /\ i \in 1 .. Len(posted')
        /\ Len(posted) + 1 \in 1 .. Len(posted')
    BY <1>1, <2>1
  <2>3. CASE j = k
    BY <2>2, <2>3, Zenon
  <2>4. CASE j # k
    <3>1. task[k] = "ended"
      BY <1>1, <2>1, <2>4, Zenon
    <3> QED
      BY <1>3, <2>1, <2>2, <3>1, Zenon
  <2> QED
    BY <2>3, <2>4, Zenon
<1>9. CASE \E j \in Runs : TaskStep(j) \/ Swallow(j)
  BY <1>3, <1>7, <1>8, <1>9, Zenon
<1> QED
  BY <1>4, <1>5, <1>6, <1>9, Zenon DEF Next

(* The callback of an ended run cannot be lost while the runner holds the run:
   the safety half of EndedRunsAreReleased, for any number of runs. *)
THEOREM CallbackTheorem == Spec => []EndedRunHasItsCallback
<1>1. Init => EndedRunHasItsCallback
  BY Zenon DEF Init, EndedRunHasItsCallback
<1>2. RunnerInv /\ EndedRunHasItsCallback /\ [Next]_vars => EndedRunHasItsCallback'
  BY CallbackKept, Zenon
<1> QED
  BY <1>1, <1>2, RunnerInvariance, PTL DEF Spec

(* A stopped run begins another iteration only after a late start, and only
   before cancel(true) or by consuming its interrupt: the safety half of
   StopTakesEffect, for any number of runs. *)
THEOREM LateTheorem == Spec => StoppedRunsStartOnlyLate
<1> DEFINE A == \A k \in Runs : task[k] = "test" /\ task'[k] = "iterate" /\ stopped[k] =>
                  late[k] /\ (current = k \/ swallowed[k])
<1>1. ASSUME RunnerInv, [Next]_vars PROVE A
  <2> SUFFICES ASSUME NEW k \in Runs, task[k] = "test", task'[k] = "iterate", stopped[k]
               PROVE  late[k] /\ (current = k \/ swallowed[k])
    BY Zenon
  <2>1. task \in [Runs -> TaskSteps]
    BY <1>1, Zenon DEF RunnerInv, TypeOK
  <2>2. task' # task
    BY Zenon
  <2>3. ~(\E j \in Runs : Launch(j)) /\ ~Cancel
    BY <2>1, Zenon DEF Launch, Cancel
  <2>4. PICK j \in Runs : TaskStep(j)
    BY <1>1, <2>2, <2>3, Zenon
       DEF Next, ClickRun, ClickStop, PrepareFails, FxHandler, Callback, ClearController,
           EnableScripts, Unplug, Swallow, vars, taskVars
  <2>5. j = k /\ running[k] /\ ~interrupt[k]
    BY <2>1, <2>4, Zenon
       DEF TaskStep, Begin, SetRunning, Iterate, Complete, Abort, Test, Finally, Step
  <2> QED
    BY <1>1, <2>5, Zenon DEF RunnerInv, StopInv, Alive
<1> QED
  BY <1>1, RunnerInvariance, PTL DEF Spec, StoppedRunsStartOnlyLate

-----------------------------------------------------------------------------
(* Loading.                                                                 *)

(* Before loading, no file has been parsed. *)
LEMMA LibraryInitial == ASSUME LibraryInit PROVE LibraryInv
  <1>1. LibraryTypeOK
    BY Zenon DEF LibraryInit, LibraryTypeOK
  <1> QED BY <1>1, Zenon DEF LibraryInit, LibraryInv, FormReachesTheScript

(* The user's edits and switches leave the loaded scripts alone. *)
LEMMA UserKeeps ==
  ASSUME LibraryInv,
         (\E f \in Files, s \in Source : EditFile(f, s)) \/ ToggleDebug \/ StopScript
           \/ UNCHANGED libraryVars
  PROVE  LibraryInv'
  <1>1. UNCHANGED <<description, todo, scriptVars, form, gui, dropped>>
    BY Zenon DEF EditFile, ToggleDebug, StopScript, libraryVars, fileVars
  <1>2. LibraryTypeOK'
    <2>1. source' \in [Files -> Source]
      BY DEF LibraryInv, LibraryTypeOK, EditFile, ToggleDebug, StopScript, libraryVars, fileVars
    <2>2. enableDebug' \in BOOLEAN /\ (given' = None \/ given' \in Files)
      BY Zenon DEF LibraryInv, LibraryTypeOK, EditFile, ToggleDebug, StopScript, libraryVars
    <2> QED BY <1>1, <2>1, <2>2, Zenon DEF LibraryInv, LibraryTypeOK, scriptVars
  <1> QED BY <1>1, <1>2, Zenon DEF LibraryInv, FormReachesTheScript, scriptVars

(* parseScript and putScript: the map keeps an entry for every description. *)
LEMMA ParseKeeps ==
  ASSUME LibraryInv, NEW f \in Files, ParseScript(f)
  PROVE  LibraryInv'
  <1> USE DEF ParseScript
  <1>0. /\ LibraryTypeOK /\ gui = "loading" /\ nameMap = Files \ todo
        /\ UNCHANGED <<fileVars, form, enableDebug, given, dropped>>
    BY Zenon DEF LibraryInv
  <1>1. FormReachesTheScript' /\ gui' # "ready"
    BY Zenon DEF FormReachesTheScript
  <1>2. CASE source[f].compiles
    <2>1. /\ descriptionMap'[description[f]] = f
          /\ \A d \in Descriptions : d # description[f] => descriptionMap'[d] = descriptionMap[d]
      BY <1>0, <1>2, Zenon DEF LibraryTypeOK
    <2>2. LibraryTypeOK'
      <3>1. source[f].config \in SUBSET Properties
        BY <1>0, Zenon DEF LibraryTypeOK, Source
      <3>2. /\ descriptionMap' \in [Descriptions -> Files \cup {None}]
            /\ config' \in [Files -> SUBSET Properties]
        BY <1>0, <1>2, <3>1, Zenon DEF LibraryTypeOK
      <3> QED BY <1>0, <1>2, <3>2, Zenon DEF LibraryTypeOK, fileVars
    <2>3. nameMap' = Files \ todo'
      BY <1>0, <1>2, Zenon
    <2>4. ASSUME NEW d \in Descriptions, descriptionMap'[d] # None
          PROVE  descriptionMap'[d] \in Files /\ description'[descriptionMap'[d]] = d
      <3>1. description' = description
        BY <1>0, Zenon DEF fileVars
      <3>2. CASE d = description[f]
        BY <3>1, <3>2, <2>1, Zenon
      <3>3. CASE d # description[f]
        BY <2>4, <3>1, <3>3, <2>1, Zenon DEF LibraryInv
      <3> QED BY <3>2, <3>3, Zenon
    <2>5. ASSUME NEW g \in nameMap'
          PROVE  /\ descriptionMap'[description'[g]] \in Files
                 /\ description'[descriptionMap'[description'[g]]] = description'[g]
      <3>1. g \in Files /\ description' = description /\ description[g] \in Descriptions
        BY <2>3, <1>0, Zenon DEF LibraryTypeOK, fileVars
      <3>2. CASE description[g] = description[f]
        BY <3>1, <3>2, <2>1, Zenon
      <3>3. CASE description[g] # description[f]
        <4>1. g \in nameMap
          BY <3>3, <1>2, Zenon
        <4> QED BY <3>1, <3>3, <4>1, <2>1, Zenon DEF LibraryInv
      <3> QED BY <3>2, <3>3, Zenon
    <2> QED BY <1>1, <2>2, <2>3, <2>4, <2>5, Zenon DEF LibraryInv
  <1>3. CASE ~source[f].compiles
    <2>1. gui' = "stuck" /\ UNCHANGED scriptVars
      BY <1>3, Zenon
    <2>2. LibraryTypeOK'
      BY <1>0, <2>1, Zenon DEF LibraryTypeOK, fileVars, scriptVars
    <2> QED BY <1>0, <1>1, <2>1, <2>2, Zenon DEF LibraryInv, fileVars, scriptVars
  <1> QED BY <1>2, <1>3, Zenon

(* A form is built on the bean of the script its description leads to. *)
LEMMA InitializeKeeps ==
  ASSUME LibraryInv, InitializeScripts
  PROVE  LibraryInv'
  <1> USE DEF InitializeScripts
  <1>0. /\ LibraryTypeOK /\ todo = {} /\ gui = "loading" /\ gui' = "ready"
        /\ UNCHANGED <<fileVars, todo, descriptionMap, nameMap, config, enableDebug,
                       given, dropped>>
    BY Zenon DEF LibraryInv
  <1>1. LibraryTypeOK'
    <2>1. form' \in [Descriptions -> SUBSET Properties]
      <3> SUFFICES ASSUME NEW d \in Descriptions, descriptionMap[d] # None
                   PROVE  config[descriptionMap[d]] \in SUBSET Properties
        BY Zenon
      <3> QED BY <1>0, Zenon DEF LibraryTypeOK
    <2>2. bound' \in [Files -> SUBSET Properties]
      BY <1>0, Zenon DEF LibraryTypeOK
    <2> QED BY <1>0, <2>1, <2>2, Zenon DEF LibraryTypeOK, fileVars
  <1>2. FormReachesTheScript'
    <2> SUFFICES ASSUME NEW d \in Descriptions, descriptionMap[d] # None
                 PROVE  form'[d] \subseteq bound'[descriptionMap[d]]
      BY <1>0, Zenon DEF FormReachesTheScript
    <2>1. descriptionMap[d] \in Files /\ description[descriptionMap[d]] = d
      BY Zenon DEF LibraryInv
    <2> QED BY <2>1, Zenon
  <1> QED BY <1>0, <1>1, <1>2, Zenon DEF LibraryInv, fileVars

(* RUN, with the reload of debug mode: copyProperties hands the form's
   properties on. *)
LEMMA RunKeeps ==
  ASSUME LibraryInv, NEW d \in Descriptions, RunScript(d)
  PROVE  LibraryInv'
  <1> USE DEF RunScript
  <1> DEFINE f == descriptionMap[d]
  <1>0. /\ LibraryTypeOK /\ gui = "ready" /\ f \in Files /\ given' = f
        /\ UNCHANGED <<fileVars, todo, descriptionMap, nameMap, form, gui, enableDebug>>
    BY Zenon DEF LibraryInv, LibraryTypeOK
  <1>1. CASE enableDebug /\ ReloadScripts(f)
    <2>0. source[f].config \in SUBSET Properties
      BY <1>0, Zenon DEF LibraryTypeOK, Source
    <2>1. /\ \A g \in Files : g # f => /\ config'[g] = config[g] /\ bound'[g] = bound[g]
                                     /\ dropped'[g] = dropped[g]
          /\ config'[f] = source[f].config
          /\ bound'[f] = bound[f] \cap source[f].config
          /\ dropped'[f] = dropped[f] \cup (Properties \ source[f].config)
      BY <1>0, <1>1, Zenon DEF ReloadScripts, CopyProperties, LibraryTypeOK
    <2>2. LibraryTypeOK'
      <3>1. /\ config' \in [Files -> SUBSET Properties]
            /\ bound' \in [Files -> SUBSET Properties]
            /\ dropped' \in [Files -> SUBSET Properties]
        BY <1>0, <1>1, <2>0, Zenon DEF LibraryTypeOK, ReloadScripts, CopyProperties
      <3> QED BY <1>0, <3>1, Zenon DEF LibraryTypeOK, fileVars
    <2>3. FormReachesTheScript'
      <3> SUFFICES ASSUME NEW e \in Descriptions, descriptionMap[e] # None
                   PROVE  form[e] \subseteq bound'[descriptionMap[e]]
                                              \cup dropped'[descriptionMap[e]]
        BY <1>0, Zenon DEF FormReachesTheScript
      <3>1. /\ form[e] \subseteq bound[descriptionMap[e]] \cup dropped[descriptionMap[e]]
            /\ descriptionMap[e] \in Files
        BY <1>0, Zenon DEF LibraryInv, FormReachesTheScript
      <3>2. CASE descriptionMap[e] # f
        BY <3>1, <3>2, <2>1, Zenon
      <3>3. CASE descriptionMap[e] = f
        <4>1. form[e] \subseteq Properties
          BY <1>0, Zenon DEF LibraryTypeOK
        <4> QED BY <3>1, <3>3, <4>1, <2>1, Zenon
      <3> QED BY <3>2, <3>3, Zenon
    <2> QED BY <1>0, <2>2, <2>3, Zenon DEF LibraryInv, fileVars
  <1>2. CASE UNCHANGED <<config, bound, dropped>>
    <2>1. LibraryTypeOK'
      BY <1>0, <1>2, Zenon DEF LibraryTypeOK, fileVars
    <2> QED BY <1>0, <1>2, <2>1, Zenon DEF LibraryInv, FormReachesTheScript, fileVars
  <1> QED BY <1>1, <1>2, Zenon

(* Every step of the program keeps the invariant. *)
LEMMA LibraryInductive ==
  ASSUME LibraryInv, [LibraryNext]_libraryVars
  PROVE  LibraryInv'
  BY UserKeeps, ParseKeeps, InitializeKeeps, RunKeeps, Zenon DEF LibraryNext

(* LibraryInv holds in every reachable state, for any set of files. *)
THEOREM LibraryInvariance == LibrarySpec => []LibraryInv
  <1>1. LibraryInit => LibraryInv
    BY LibraryInitial, Zenon
  <1>2. LibraryInv /\ [LibraryNext]_libraryVars => LibraryInv'
    BY LibraryInductive, Zenon
  <1> QED BY <1>1, <1>2, PTL DEF LibrarySpec

(* A RUN button that works has every file behind it (loadScripts,
   initializeScriptSelection). *)
THEOREM ReadyTheorem == LibrarySpec => []ReadyMeansAllLoaded
  <1>1. LibraryInv => ReadyMeansAllLoaded
    BY Zenon DEF LibraryInv, ReadyMeansAllLoaded, LibraryTypeOK
  <1> QED BY <1>1, LibraryInvariance, PTL

(* The configuration form stays connected to the script through any number of
   reloads (initializeScripts, reloadScripts). *)
THEOREM FormTheorem == LibrarySpec => []FormReachesTheScript
  <1>1. LibraryInv => FormReachesTheScript
    BY Zenon DEF LibraryInv
  <1> QED BY <1>1, LibraryInvariance, PTL

-----------------------------------------------------------------------------
(* Looking at the picture: DetectionInv is inductive for any picture, any  *)
(* areas, any filters and any number of frames and detections.             *)

USE DEF Mats

(* Frames and detections are numbered from 1. *)
LEMMA Numbers == 0 \notin Detections /\ 0 \notin Frames /\ 0 .. MaxFrames = Frames \cup {0}
  BY BoundsAssumption DEF Detections, Frames

(* The parts of the parameter of a detection. *)
LEMMA ParamParts ==
  ASSUME DetectionTypeOK, NEW d \in Detections
  PROVE  /\ param[d].area \in SUBSET Pixels
         /\ param[d].filters \in Seq(Filters)
         /\ Around(param[d].area) \in SUBSET Pixels
  <1>1. param[d] \in Params \/ param[d] = NoParam
    BY Zenon DEF DetectionTypeOK
  <1>2. ASSUME NEW q \in Params PROVE q.area \in SUBSET Pixels /\ q.filters \in Seq(Filters)
    <2>1. q.area \in Areas /\ q.filters \in FilterLists
      BY Zenon DEF Params
    <2> QED BY <2>1, BoundsAssumption, Zenon
  <1>3. NoParam.area = {} /\ NoParam.filters \in Seq(Filters)
    BY DEF NoParam
  <1>4. param[d].area \in SUBSET Pixels /\ param[d].filters \in Seq(Filters)
    BY <1>1, <1>2, <1>3, Zenon
  <1>5. \A p \in Pixels : Near[p] \in SUBSET Pixels
    BY BoundsAssumption, Zenon
  <1> QED BY <1>4, <1>5, Zenon DEF Around

(* A step of detection d. *)
StepOf(d) == (\E p \in Params : Detect(d, p)) \/ Detecting(d)

(* No detection has been asked for. *)
LEMMA DetectionInitial == ASSUME DetectionInit PROVE DetectionInv
  <1>1. DetectionTypeOK
    <2>1. /\ frame \in 0 .. MaxFrames /\ applied \in [Detections -> Nat]
          /\ lock \in Detections \cup {0} /\ image \in Detections \cup {0}
      BY BoundsAssumption DEF DetectionInit
    <2>2. /\ matCache \in [Frames -> Mats \cup {0}]
          /\ memory \in [Mats -> [Pixels -> SUBSET Detections]]
          /\ step \in [Detections -> Steps] /\ param \in [Detections -> Params \cup {NoParam}]
      BY Zenon DEF DetectionInit, Steps
    <2>3. /\ got \in [Detections -> Frames \cup {0}] /\ target \in [Detections -> Mats \cup {0}]
          /\ writing \in [Detections -> SUBSET Pixels] /\ met \in [Detections -> SUBSET Detections]
          /\ text \in [Detections -> Detections \cup {0}]
          /\ confidence \in [Detections -> Detections \cup {0}]
      BY Zenon DEF DetectionInit
    <2> QED BY <2>1, <2>2, <2>3, Zenon DEF DetectionTypeOK
  <1>2. \A d \in Detections : step[d] = "idle"
    BY Zenon DEF DetectionInit
  <1>3. OcrInv /\ OcrAnswersItsOwnImage
    BY <1>2 DEF OcrInv, OcrAnswersItsOwnImage
  <1>4. \A d \in Detections : Working(d)
    <2> TAKE d \in Detections
    <2>1. step[d] = "idle" /\ applied[d] = 0 /\ target[d] = 0 /\ writing[d] = {}
      BY Zenon DEF DetectionInit
    <2>2. ~Past(d)
      BY <2>1, Zenon DEF Past
    <2> QED BY <2>1, <2>2, Zenon DEF Working
  <1>5. CacheInv /\ MemoryInv /\ MetInv /\ OnlyInPlaceFiltersInterfere
    <2>1. /\ \A f \in Frames : matCache[f] = 0
          /\ \A m \in Mats, p \in Pixels : memory[m][p] = {}
          /\ \A d \in Detections : met[d] = {}
      BY Zenon DEF DetectionInit
    <2> QED BY <2>1, Zenon DEF CacheInv, MemoryInv, MetInv, OnlyInPlaceFiltersInterfere
  <1> QED BY <1>1, <1>3, <1>4, <1>5, Zenon DEF DetectionInv

(* Every operation keeps the types. *)
LEMMA DetectionTyped ==
  ASSUME DetectionInv, NEW d \in Detections, StepOf(d)
  PROVE  DetectionTypeOK'
  <1>0. DetectionTypeOK /\ Working(d)
    BY Zenon DEF DetectionInv
  <1>1. ASSUME NEW p \in Params, Detect(d, p) PROVE DetectionTypeOK'
    <2>1. "getImage" \in Steps
      BY Zenon DEF Steps
    <2> QED BY <1>0, <1>1, <2>1, Zenon DEF DetectionTypeOK, Detect, Goto, frameVars, ocrVars
  <1>2. CASE GetImage(d)
    <2>1. frame \in Frames \cup {0}
      BY <1>0, Numbers, Zenon DEF DetectionTypeOK
    <2>2. "failed" \in Steps /\ "getTarget" \in Steps
      BY Zenon DEF Steps
    <2> QED BY <1>0, <1>2, <2>1, <2>2, Zenon
        DEF DetectionTypeOK, GetImage, Goto, frameVars, ocrVars
  <1>3. CASE GetTarget(d)
    <2>1. got[d] \in Frames /\ "filter" \in Steps
      BY <1>0, <1>3, Zenon DEF GetTarget, Goto, Working, Steps
    <2>2. matCache' \in [Frames -> Mats \cup {0}]
      <3>1. matCache' = matCache \/ matCache' = [matCache EXCEPT ![got[d]] = d]
        BY <1>3, Zenon DEF GetTarget
      <3> QED BY <1>0, <3>1, Zenon DEF DetectionTypeOK
    <2>3. target' \in [Detections -> Mats \cup {0}]
      <3>1. matCache[got[d]] \in Mats \cup {0}
        BY <1>0, <2>1, Zenon DEF DetectionTypeOK
      <3>2. d \in Mats \cup {0}
        BY Zenon
      <3>3. \E m \in Mats \cup {0} : target' = [target EXCEPT ![d] = m]
        BY <1>3, <3>1, <3>2, Zenon DEF GetTarget
      <3> QED BY <1>0, <3>3, Zenon DEF DetectionTypeOK
    <2> QED BY <1>0, <1>3, <2>1, <2>2, <2>3, Zenon DEF DetectionTypeOK, GetTarget, Goto, ocrVars
  <1>4. ASSUME applied' = [applied EXCEPT ![d] = @ + 1] PROVE applied' \in [Detections -> Nat]
    BY <1>0, <1>4 DEF DetectionTypeOK
  <1>5. ASSUME NEW P \in SUBSET Pixels, Meets(d, P), target[d] # 0
        PROVE  met' \in [Detections -> SUBSET Detections]
    <2>0. memory[target[d]] \in [Pixels -> SUBSET Detections]
      BY <1>0, <1>5, Zenon DEF DetectionTypeOK
    <2>1. UNION {memory[target[d]][p] : p \in P} \in SUBSET Detections
      BY <2>0, Zenon
    <2> QED BY <1>0, <1>5, <2>1, Zenon DEF DetectionTypeOK, Meets
  <1>6. param[d].area \in SUBSET Pixels
    BY <1>0, ParamParts, Zenon
  <1>7. CASE PreProcessInPlace(d)
    <2>1. applied' \in [Detections -> Nat] /\ met' \in [Detections -> SUBSET Detections]
      BY <1>4, <1>5, <1>6, <1>7, Zenon DEF PreProcessInPlace, NextFilter
    <2>2. "write" \in Steps
      BY Zenon DEF Steps
    <2> QED BY <1>0, <1>6, <1>7, <2>1, <2>2, Zenon
        DEF DetectionTypeOK, PreProcessInPlace, NextFilter, frameVars, ocrVars
  <1>8. CASE WritePixel(d)
    <2>0. PICK p \in writing[d] :
            /\ writing' = [writing EXCEPT ![d] = @ \ {p}]
            /\ Meets(d, {p})
            /\ memory' = [memory EXCEPT ![target[d]][p] = @ \cup {d}]
      BY <1>8, Zenon DEF WritePixel
    <2>1. p \in Pixels /\ {p} \in SUBSET Pixels /\ target[d] # 0 /\ target[d] \in Mats
      <3>1. writing[d] \in SUBSET Pixels /\ target[d] \in Mats \cup {0}
        BY <1>0, Zenon DEF DetectionTypeOK
      <3>2. target[d] # 0
        BY <1>0, <1>8, Zenon DEF WritePixel, Working
      <3> QED BY <3>1, <3>2, Zenon
    <2>2. met' \in [Detections -> SUBSET Detections]
      BY <1>5, <2>0, <2>1, Zenon
    <2>3. step' \in [Detections -> Steps]
      <3>1. "write" \in Steps /\ "filter" \in Steps
        BY Zenon DEF Steps
      <3> QED BY <1>0, <1>8, <3>1, Zenon DEF DetectionTypeOK, WritePixel
    <2>4. memory' \in [Mats -> [Pixels -> SUBSET Detections]]
      <3>1. memory \in [Mats -> [Pixels -> SUBSET Detections]]
        BY <1>0, Zenon DEF DetectionTypeOK
      <3>2. memory[target[d]][p] \cup {d} \in SUBSET Detections
        BY <2>1, <3>1, Zenon
      <3>3. [memory[target[d]] EXCEPT ![p] = memory[target[d]][p] \cup {d}]
              \in [Pixels -> SUBSET Detections]
        BY <2>1, <3>1, <3>2, Zenon
      <3> QED BY <2>0, <2>1, <3>1, <3>3, Zenon
    <2> QED BY <1>0, <1>8, <2>0, <2>2, <2>3, <2>4, Zenon DEF DetectionTypeOK, WritePixel, ocrVars
  <1>9. CASE PreProcessCopying(d)
    <2>1. Around(param[d].area) \in SUBSET Pixels
      BY <1>0, ParamParts, Zenon
    <2>2. applied' \in [Detections -> Nat] /\ met' \in [Detections -> SUBSET Detections]
      BY <1>4, <1>5, <1>6, <1>9, <2>1, Zenon DEF PreProcessCopying, NextFilter
    <2> QED BY <1>0, <1>9, <2>2, Zenon
        DEF DetectionTypeOK, PreProcessCopying, NextFilter, frameVars, ocrVars
  <1>10. CASE PreProcessNothing(d)
    <2>1. applied' \in [Detections -> Nat]
      BY <1>4, <1>10, Zenon DEF PreProcessNothing, NextFilter
    <2> QED BY <1>0, <1>10, <2>1, Zenon
        DEF DetectionTypeOK, PreProcessNothing, NextFilter, frameVars, ocrVars
  <1>11. CASE PreProcessOwnMat(d)
    <2>1. Len(param[d].filters) \in Nat
      <3>1. param[d].filters \in Seq(Filters)
        BY <1>0, ParamParts, Zenon
      <3> QED BY <3>1
    <2> QED BY <1>0, <1>11, <2>1, Zenon DEF DetectionTypeOK, PreProcessOwnMat, frameVars, ocrVars
  <1>12. CASE Read(d)
    <2>1. met' \in [Detections -> SUBSET Detections]
      BY <1>0, <1>5, <1>6, <1>12, Zenon DEF DetectionTypeOK, Read
    <2>2. "getText" \in Steps /\ "done" \in Steps
      BY Zenon DEF Steps
    <2> QED BY <1>0, <1>12, <2>1, <2>2, Zenon DEF DetectionTypeOK, Read, Goto, frameVars, ocrVars
  <1>13. CASE Ocr(d)
    <2>1. \A s \in {"setImage", "getUTF8Text", "meanTextConf", "done"} : s \in Steps
      BY Zenon DEF Steps
    <2>2. step' \in [Detections -> Steps]
      <3>1. \E s \in {"setImage", "getUTF8Text", "meanTextConf", "done"} :
              step' = [step EXCEPT ![d] = s]
        BY <1>13, Zenon DEF Ocr, GetText, SetImage, GetUTF8Text, MeanTextConf, OcrError, Goto
      <3> QED BY <1>0, <2>1, <3>1, Zenon DEF DetectionTypeOK
    <2>3. /\ text' \in [Detections -> Detections \cup {0}]
          /\ confidence' \in [Detections -> Detections \cup {0}]
          /\ lock' \in Detections \cup {0} /\ image' \in Detections \cup {0}
      <3> DEFINE Z == Detections \cup {0}
      <3>0. 0 \in Z /\ d \in Z
        BY Zenon
      <3>1. lock \in Z /\ image \in Z /\ text \in [Detections -> Z] /\ confidence \in [Detections -> Z]
        BY <1>0, Zenon DEF DetectionTypeOK
      <3> HIDE DEF Z
      <3>2. lock' \in Z /\ image' \in Z
        BY <1>13, <3>0, <3>1, Zenon
           DEF Ocr, GetText, SetImage, GetUTF8Text, MeanTextConf, OcrError
      <3>3. /\ text' = text \/ text' = [text EXCEPT ![d] = image] \/ text' = [text EXCEPT ![d] = 0]
            /\ \/ confidence' = confidence \/ confidence' = [confidence EXCEPT ![d] = image]
               \/ confidence' = [confidence EXCEPT ![d] = 0]
        BY <1>13, Zenon DEF Ocr, GetText, SetImage, GetUTF8Text, MeanTextConf, OcrError
      <3>4. text' \in [Detections -> Z] /\ confidence' \in [Detections -> Z]
        BY <3>0, <3>1, <3>3, Zenon
      <3> QED BY <3>2, <3>4, Zenon DEF Z
    <2>4. UNCHANGED <<frameVars, param, got, target, applied, writing, met>>
      BY <1>13, Zenon DEF Ocr, GetText, SetImage, GetUTF8Text, MeanTextConf, OcrError
    <2> QED BY <1>0, <2>2, <2>3, <2>4, Zenon DEF DetectionTypeOK, frameVars
  <1> QED BY <1>1, <1>2, <1>3, <1>7, <1>8, <1>9, <1>10, <1>11, <1>12, <1>13, Zenon
      DEF StepOf, Detecting, PreProcess

(* A detection changes nothing of the others. *)
LEMMA OthersKeep ==
  ASSUME DetectionTypeOK, NEW d \in Detections, StepOf(d), NEW e \in Detections, e # d
  PROVE  /\ step'[e] = step[e] /\ param'[e] = param[e] /\ got'[e] = got[e]
         /\ target'[e] = target[e] /\ applied'[e] = applied[e] /\ writing'[e] = writing[e]
         /\ met'[e] = met[e] /\ text'[e] = text[e] /\ confidence'[e] = confidence[e]
  <1> USE DEF DetectionTypeOK, Goto, Meets, NextFilter, ocrVars, frameVars
  <1>1. CASE \E p \in Params : Detect(d, p)
    BY <1>1, Zenon DEF Detect
  <1>2. CASE GetImage(d)
    BY <1>2, Zenon DEF GetImage
  <1>3. CASE GetTarget(d)
    BY <1>3, Zenon DEF GetTarget
  <1>4. CASE PreProcessInPlace(d)
    BY <1>4, Zenon DEF PreProcessInPlace
  <1>5. CASE WritePixel(d)
    BY <1>5, Zenon DEF WritePixel
  <1>6. CASE PreProcessCopying(d)
    BY <1>6, Zenon DEF PreProcessCopying
  <1>7. CASE PreProcessNothing(d) \/ PreProcessOwnMat(d)
    BY <1>7, Zenon DEF PreProcessNothing, PreProcessOwnMat
  <1>8. CASE Read(d)
    BY <1>8, Zenon DEF Read
  <1>9. CASE GetText(d) \/ SetImage(d)
    BY <1>9, Zenon DEF GetText, SetImage
  <1>10. CASE GetUTF8Text(d) \/ MeanTextConf(d) \/ OcrError(d)
    BY <1>10, Zenon DEF GetUTF8Text, MeanTextConf, OcrError
  <1> QED BY <1>1, <1>2, <1>3, <1>4, <1>5, <1>6, <1>7, <1>8, <1>9, <1>10, Zenon
      DEF StepOf, Detecting, PreProcess, Ocr

(* A detection that has found its Mat keeps its frame and its parameter. *)
LEMMA PastStays ==
  ASSUME DetectionTypeOK, NEW d \in Detections, StepOf(d), NEW e \in Detections, Past(e)
  PROVE  Past(e)' /\ got'[e] = got[e] /\ param'[e] = param[e]
  <1>1. CASE e # d
    BY <1>1, OthersKeep, Zenon DEF Past
  <1>2. CASE e = d
    <2> USE <1>2
    <2>1. step[d] \notin {"idle", "getImage", "getTarget"} /\ step \in [Detections -> Steps]
      BY Zenon DEF Past, DetectionTypeOK
    <2>2. PreProcess(d) \/ Read(d) \/ Ocr(d)
      BY <2>1, Zenon DEF StepOf, Detecting, Detect, GetImage, GetTarget, Goto
    <2>3. got' = got /\ param' = param
      BY <2>2, Zenon DEF PreProcess, PreProcessInPlace, WritePixel, PreProcessCopying,
         PreProcessNothing, PreProcessOwnMat, NextFilter, Read, Ocr, GetText, SetImage,
         GetUTF8Text, MeanTextConf, OcrError
    <2>4. step'[d] \in {step[d], "write", "filter", "getText", "done", "setImage",
                        "getUTF8Text", "meanTextConf"}
      <3>1. CASE PreProcess(d) \/ Read(d)
        BY <2>1, <3>1, Zenon DEF PreProcess, PreProcessInPlace, WritePixel, PreProcessCopying,
           PreProcessNothing, PreProcessOwnMat, Read, Goto
      <3>2. CASE Ocr(d)
        BY <2>1, <3>2, Zenon DEF Ocr, GetText, SetImage, GetUTF8Text, MeanTextConf, OcrError, Goto
      <3> QED BY <2>2, <3>1, <3>2, Zenon
    <2>5. step'[d] \notin {"idle", "getImage", "getTarget", "failed"}
      BY <2>4 DEF Past
    <2> QED BY <2>3, <2>5, Zenon DEF Past
  <1> QED BY <1>1, <1>2, Zenon

(* What a detection writes and reads depends on its frame and parameter. *)
LEMMA SameReach ==
  ASSUME NEW d \in Detections, got'[d] = got[d], param'[d] = param[d]
  PROVE  /\ WritesFrame(d)' <=> WritesFrame(d)
         /\ Reach(d)' = Reach(d)
  <1>1. \A i : OnFrame(d, i)' <=> OnFrame(d, i)
    BY Zenon DEF OnFrame, Copies
  <1>2. WritesFrame(d)' <=> WritesFrame(d)
    BY <1>1, Zenon DEF WritesFrame, InPlace
  <1>3. ReadsAround(d)' <=> ReadsAround(d)
    BY <1>1, Zenon DEF ReadsAround
  <1> QED BY <1>1, <1>2, <1>3, Zenon DEF Reach

(* The other detections go on working on the Mat of their frame. *)
LEMMA OthersWork ==
  ASSUME DetectionInv, NEW d \in Detections, StepOf(d), NEW e \in Detections, e # d
  PROVE  Working(e)'
  <1>0. DetectionTypeOK /\ Working(e)
    BY Zenon DEF DetectionInv
  <1>1. /\ step'[e] = step[e] /\ param'[e] = param[e] /\ got'[e] = got[e]
        /\ target'[e] = target[e] /\ applied'[e] = applied[e] /\ writing'[e] = writing[e]
    BY <1>0, OthersKeep, Zenon
  <1>2. Past(e)' <=> Past(e)
    BY <1>1, Zenon DEF Past
  <1>3. WritesFrame(e)' <=> WritesFrame(e)
    BY <1>1, SameReach, Zenon
  <1>4. ASSUME target[e] # 0
        PROVE  /\ Past(target[e])' /\ got'[target'[e]] = got'[e]
               /\ OnFrame(e, applied[e] + 1)'
    <2>1. PICK m \in Detections : m = target[e] /\ Past(m) /\ got[m] = got[e]
      BY <1>0, <1>4, Zenon DEF DetectionTypeOK, Working
    <2>2. Past(m)' /\ got'[m] = got[m]
      BY <1>0, <2>1, PastStays, Zenon
    <2>3. OnFrame(e, applied[e] + 1)'
      BY <1>0, <1>1, <1>4, Zenon DEF Working, OnFrame, Copies
    <2> QED BY <1>1, <2>1, <2>2, <2>3, Zenon DEF Past
  <1> QED BY <1>0, <1>1, <1>2, <1>3, <1>4, Zenon DEF Working

(* No filter works in place and copies; those that do neither are the others. *)
LEMMA FilterCases ==
  ASSUME NEW f, NEW c, InPlace(f, c) \/ Ignores(f, c)
  PROVE  ~Copies(f, c)
  BY DEF InPlace, Ignores, Copies

(* After a filter that does not copy, the next one is given the same Mat. *)
LEMMA NextOnFrame ==
  ASSUME DetectionTypeOK, NEW d \in Detections, OnFrame(d, applied[d] + 1),
         ~Copies(param[d].filters[applied[d] + 1], Channels[got[d]]),
         applied'[d] = applied[d] + 1, param'[d] = param[d], got'[d] = got[d]
  PROVE  OnFrame(d, applied[d] + 1)'
  <1>1. applied[d] \in Nat
    BY Zenon DEF DetectionTypeOK
  <1>2. \A j \in 1 .. ((applied'[d] + 1) - 1) :
          j \in 1 .. ((applied[d] + 1) - 1) \/ j = applied[d] + 1
    BY <1>1
  <1> SUFFICES ASSUME NEW j \in 1 .. ((applied'[d] + 1) - 1)
               PROVE  ~Copies(param[d].filters[j], Channels[got[d]])
    BY Zenon DEF OnFrame, Copies
  <1>3. CASE j \in 1 .. ((applied[d] + 1) - 1)
    BY <1>3, Zenon DEF OnFrame, Copies
  <1>4. CASE j = applied[d] + 1
    BY <1>4, Zenon
  <1> QED BY <1>2, <1>3, <1>4, Zenon

(* A filter that is applied is one of those of the parameter, so the area is
   not empty. *)
LEMMA CurrentFilter ==
  ASSUME DetectionTypeOK, NEW d \in Detections, applied[d] < Len(param[d].filters)
  PROVE  applied[d] + 1 \in DOMAIN param[d].filters /\ param[d].area # {}
  <1>1. applied[d] \in Nat /\ param[d].filters \in Seq(Filters)
    BY ParamParts, Zenon DEF DetectionTypeOK
  <1>2. applied[d] + 1 \in DOMAIN param[d].filters
    BY <1>1
  <1>3. param[d] # NoParam
    BY <1>1 DEF NoParam
  <1>4. param[d].area \in Areas
    BY <1>3, Zenon DEF DetectionTypeOK, Params
  <1> QED BY <1>2, <1>4, BoundsAssumption, Zenon

(* The detection itself works on the Mat of its frame, until its first copying
   filter. *)
LEMMA OwnWork ==
  ASSUME DetectionInv, NEW d \in Detections, StepOf(d)
  PROVE  Working(d)'
  <1>0. DetectionTypeOK /\ Working(d) /\ CacheInv
    BY Zenon DEF DetectionInv
  <1> USE <1>0
  <1>1. ASSUME NEW p \in Params, Detect(d, p) PROVE Working(d)'
    <2>1. step[d] = "idle" /\ ~Past(d) /\ step'[d] = "getImage"
      BY <1>1, Zenon DEF Detect, Goto, Past, DetectionTypeOK
    <2>2. ~Past(d)' /\ applied'[d] = 0 /\ target'[d] = 0 /\ writing'[d] = {}
      BY <1>1, <2>1 DEF Detect, Past, Working
    <2> QED BY <2>1, <2>2 DEF Working
  <1>2. CASE GetImage(d)
    <2>1. /\ step[d] = "getImage" /\ ~Past(d) /\ got'[d] = frame
          /\ step'[d] = IF frame = 0 THEN "failed" ELSE "getTarget"
      BY <1>2, Zenon DEF GetImage, Goto, Past, DetectionTypeOK
    <2>2. ~Past(d)' /\ applied'[d] = 0 /\ target'[d] = 0 /\ writing'[d] = {}
      BY <1>2, <2>1 DEF GetImage, Past, Working
    <2>3. frame = 0 \/ frame \in Frames
      BY Numbers, Zenon DEF DetectionTypeOK
    <2> QED BY <2>1, <2>2, <2>3 DEF Working
  <1>3. CASE GetTarget(d)
    <2>1. /\ step[d] = "getTarget" /\ step'[d] = "filter" /\ ~Past(d) /\ Past(d)'
          /\ UNCHANGED <<got, param, applied, writing>>
      BY <1>3, Zenon DEF GetTarget, Goto, Past, DetectionTypeOK
    <2>2. applied'[d] = 0 /\ writing'[d] = {} /\ got'[d] \in Frames
      BY <2>1 DEF Working
    <2>3. \E m \in Detections : m = target'[d] /\ Past(m)' /\ got'[m] = got[d]
      <3>1. CASE matCache[got[d]] = 0
        BY <1>3, <2>1, <3>1, Zenon DEF GetTarget, DetectionTypeOK
      <3>2. CASE matCache[got[d]] # 0
        <4>1. PICK m \in Detections : m = matCache[got[d]] /\ Past(m) /\ got[m] = got[d]
          BY <2>1, <2>2, <3>2, Zenon DEF CacheInv, DetectionTypeOK
        <4>2. Past(m)' /\ got'[m] = got[m]
          BY <4>1, PastStays, Zenon
        <4> QED BY <1>3, <3>2, <4>1, <4>2, Zenon DEF GetTarget, DetectionTypeOK
      <3> QED BY <3>1, <3>2, Zenon
    <2>4. OnFrame(d, applied[d] + 1)'
      BY <2>2 DEF OnFrame
    <2>5. step'[d] # "write"
      BY <2>1
    <2> QED BY <2>1, <2>2, <2>3, <2>4, <2>5, Zenon DEF Working, Past
  <1>4. ASSUME Past(d) PROVE Past(d)' /\ got'[d] = got[d] /\ param'[d] = param[d]
    BY <1>4, PastStays, Zenon
  <1>5. ASSUME target[d] # 0, target'[d] = target[d], OnFrame(d, applied[d] + 1)',
               Past(d)
        PROVE  Past(target[d])' /\ got'[target'[d]] = got'[d]
    <2>1. PICK m \in Detections : m = target[d] /\ Past(m) /\ got[m] = got[d]
      BY <1>5, Zenon DEF Working, DetectionTypeOK
    <2>2. Past(m)' /\ got'[m] = got[m]
      BY <2>1, PastStays, Zenon
    <2> QED BY <1>4, <1>5, <2>1, <2>2, Zenon DEF Past
  <1>6. ASSUME Past(d), step'[d] # "write", writing'[d] = {}, target'[d] = 0
        PROVE  Working(d)'
    BY <1>4, <1>6, Zenon DEF Working
  <1>7. CASE PreProcessInPlace(d)
    <2>1. /\ Past(d) /\ target[d] # 0 /\ target'[d] = target[d] /\ step'[d] = "write"
          /\ writing'[d] = param[d].area
          /\ applied[d] < Len(param[d].filters)
          /\ InPlace(param[d].filters[applied[d] + 1], Channels[got[d]])
          /\ applied'[d] = applied[d] + 1
      BY <1>7, Zenon DEF PreProcessInPlace, NextFilter, DetectionTypeOK, Working
    <2>2. OnFrame(d, applied[d] + 1)'
      BY <2>1, <1>4, FilterCases, NextOnFrame, Zenon DEF Working
    <2>3. applied[d] + 1 \in DOMAIN param[d].filters /\ param[d].area # {}
      BY <2>1, CurrentFilter, Zenon
    <2>4. WritesFrame(d)'
      <3>1. WritesFrame(d)
        BY <2>1, <2>3, Zenon DEF WritesFrame, Working
      <3> QED BY <3>1, <2>1, <1>4, SameReach, Zenon
    <2>5. Past(target[d])' /\ got'[target'[d]] = got'[d]
      BY <1>5, <2>1, <2>2, Zenon
    <2> QED BY <1>4, <2>1, <2>2, <2>3, <2>4, <2>5, Zenon DEF Working
  <1>8. CASE WritePixel(d)
    <2>0. /\ Past(d) /\ step[d] = "write" /\ target[d] # 0 /\ target' = target
          /\ applied' = applied
      BY <1>8 DEF WritePixel, Past, Working
    <2>1. /\ writing'[d] \subseteq writing[d]
          /\ step'[d] = IF writing'[d] = {} THEN "filter" ELSE "write"
      <3>1. PICK p \in writing[d] : writing' = [writing EXCEPT ![d] = @ \ {p}]
        BY <1>8, Zenon DEF WritePixel
      <3>2. writing'[d] \subseteq writing[d]
        BY <3>1, Zenon DEF DetectionTypeOK
      <3>3. step'[d] = IF writing'[d] = {} THEN "filter" ELSE "write"
        BY <1>8 DEF WritePixel, DetectionTypeOK
      <3> QED BY <3>2, <3>3, Zenon
    <2>2. OnFrame(d, applied[d] + 1)'
      BY <2>0, <1>4, Zenon DEF Working, OnFrame, Copies
    <2>3. Past(target[d])' /\ got'[target'[d]] = got'[d]
      BY <1>5, <2>0, <2>2, Zenon
    <2>4. WritesFrame(d)'
      BY <2>0, <1>4, SameReach, Zenon DEF Working
    <2>5. writing'[d] \subseteq param'[d].area /\ (step'[d] = "write" <=> writing'[d] # {})
      BY <2>0, <2>1, <1>4 DEF Working
    <2> QED BY <1>4, <2>0, <2>2, <2>3, <2>4, <2>5, Zenon DEF Working
  <1>9. CASE PreProcessCopying(d) \/ PreProcessOwnMat(d) \/ Read(d)
    <2>1. step[d] = "filter" /\ Past(d) /\ target'[d] = 0 /\ writing' = writing
      BY <1>9 DEF PreProcessCopying, PreProcessOwnMat, NextFilter, Read, Goto, Past,
                  DetectionTypeOK
    <2>2. step'[d] \in {"filter", "getText", "done"}
      BY <1>9, <2>1, Zenon DEF PreProcessCopying, PreProcessOwnMat, Read, Goto, DetectionTypeOK
    <2>3. writing'[d] = {} /\ step'[d] # "write"
      BY <2>1, <2>2 DEF Working
    <2> QED BY <1>6, <2>1, <2>3, Zenon
  <1>10. CASE PreProcessNothing(d)
    <2>1. /\ step[d] = "filter" /\ Past(d) /\ target[d] # 0 /\ UNCHANGED <<target, step, writing>>
          /\ Ignores(param[d].filters[applied[d] + 1], Channels[got[d]])
          /\ applied'[d] = applied[d] + 1
      BY <1>10, Zenon DEF PreProcessNothing, NextFilter, DetectionTypeOK, Working
    <2>2. OnFrame(d, applied[d] + 1)'
      BY <2>1, <1>4, FilterCases, NextOnFrame, Zenon DEF Working
    <2>3. Past(target[d])' /\ got'[target'[d]] = got'[d]
      BY <1>5, <2>1, <2>2, Zenon
    <2>4. writing'[d] = {} /\ step'[d] # "write"
      BY <2>1 DEF Working
    <2> QED BY <1>4, <2>1, <2>2, <2>3, <2>4, Zenon DEF Working
  <1>11. CASE Ocr(d)
    <2>1. /\ step[d] \in {"getText", "setImage", "getUTF8Text", "meanTextConf"}
          /\ UNCHANGED <<target, applied, writing>>
      BY <1>11, Zenon DEF Ocr, GetText, SetImage, GetUTF8Text, MeanTextConf, OcrError, Goto
    <2>2. step'[d] \in {"setImage", "getUTF8Text", "meanTextConf", "done"}
      BY <1>11, Zenon DEF Ocr, GetText, SetImage, GetUTF8Text, MeanTextConf, OcrError, Goto,
                          DetectionTypeOK
    <2>3. Past(d) /\ writing'[d] = {} /\ step'[d] # "write"
      BY <2>1, <2>2 DEF Working, Past
    <2>4. ASSUME target[d] # 0
          PROVE  /\ OnFrame(d, applied[d] + 1)'
                 /\ Past(target[d])' /\ got'[target'[d]] = got'[d]
      <3>1. OnFrame(d, applied[d] + 1)'
        BY <2>1, <2>3, <2>4, <1>4, Zenon DEF Working, OnFrame, Copies
      <3> QED BY <1>5, <2>1, <2>3, <2>4, <3>1, Zenon
    <2> QED BY <1>4, <2>1, <2>3, <2>4, Zenon DEF Working
  <1> QED BY <1>1, <1>2, <1>3, <1>7, <1>8, <1>9, <1>10, <1>11, Zenon
      DEF StepOf, Detecting, PreProcess

(* A Mat in the cache stays that of its frame. *)
LEMMA CacheKeeps ==
  ASSUME DetectionInv, NEW d \in Detections, StepOf(d)
  PROVE  CacheInv'
  <1>0. DetectionTypeOK /\ CacheInv
    BY Zenon DEF DetectionInv
  <1> SUFFICES ASSUME NEW f \in Frames, matCache'[f] # 0
               PROVE  Past(matCache[f])' /\ got'[matCache'[f]] = f
    BY Zenon DEF CacheInv
  <1>1. CASE matCache'[f] = matCache[f]
    <2>1. PICK m \in Detections : m = matCache[f] /\ Past(m) /\ got[m] = f
      BY <1>0, <1>1, Zenon DEF CacheInv, DetectionTypeOK
    <2>2. Past(m)' /\ got'[m] = got[m]
      BY <1>0, <2>1, PastStays, Zenon
    <2> QED BY <1>1, <2>1, <2>2, Zenon DEF Past
  <1>2. CASE matCache'[f] # matCache[f]
    <2>1. GetTarget(d)
      BY <1>2, Zenon
         DEF StepOf, Detecting, PreProcess, Ocr, Detect, GetImage, PreProcessInPlace, WritePixel,
             PreProcessCopying, PreProcessNothing, PreProcessOwnMat, NextFilter, Read, GetText,
             SetImage, GetUTF8Text, MeanTextConf, OcrError, frameVars
    <2>2. matCache' = [matCache EXCEPT ![got[d]] = d] /\ got' = got
      BY <1>2, <2>1, Zenon DEF GetTarget
    <2>3. f = got[d] /\ matCache'[f] = d
      BY <1>0, <1>2, <2>2, Zenon DEF DetectionTypeOK
    <2>4. step'[d] = "filter"
      BY <1>0, <2>1, Zenon DEF GetTarget, Goto, DetectionTypeOK
    <2> QED BY <2>2, <2>3, <2>4 DEF Past
  <1> QED BY <1>1, <1>2, Zenon

(* Who has written a pixel had the right to. *)
LEMMA MemoryKeeps ==
  ASSUME DetectionInv, NEW d \in Detections, StepOf(d)
  PROVE  MemoryInv'
  <1>0. DetectionTypeOK /\ DetectionTypeOK' /\ MemoryInv /\ Working(d)
    BY DetectionTyped, Zenon DEF DetectionInv
  <1> SUFFICES ASSUME NEW m \in Detections, NEW p \in Pixels, NEW e \in memory'[m][p]
               PROVE  /\ Past(m)' /\ Past(e)' /\ got'[e] = got'[m]
                      /\ WritesFrame(e)' /\ p \in param'[e].area
    BY Zenon DEF MemoryInv
  <1>1. e \in Detections
    <2>1. memory'[m] \in [Pixels -> SUBSET Detections]
      BY <1>0, Zenon DEF DetectionTypeOK
    <2> QED BY <2>1, Zenon
  <1> SUFFICES Past(m) /\ Past(e) /\ got[e] = got[m] /\ WritesFrame(e) /\ p \in param[e].area
    BY <1>0, <1>1, PastStays, SameReach, Zenon
  <1>2. CASE e \in memory[m][p]
    BY <1>0, <1>2, Zenon DEF MemoryInv
  <1>3. CASE e \notin memory[m][p]
    <2>1. WritePixel(d)
      BY <1>3, Zenon
         DEF StepOf, Detecting, PreProcess, Ocr, Detect, GetImage, GetTarget, PreProcessInPlace,
             PreProcessCopying, PreProcessNothing, PreProcessOwnMat, NextFilter, Read, GetText,
             SetImage, GetUTF8Text, MeanTextConf, OcrError, frameVars
    <2>2. PICK q \in writing[d] : memory' = [memory EXCEPT ![target[d]][q] = @ \cup {d}]
      BY <2>1, Zenon DEF WritePixel
    <2>3. m = target[d] /\ p = q /\ e = d
      <3>1. memory \in [Detections -> [Pixels -> SUBSET Detections]]
        BY <1>0, Zenon DEF DetectionTypeOK
      <3>2. m = target[d]
        BY <1>3, <2>2, <3>1, Zenon
      <3>3. memory'[m] = [memory[m] EXCEPT ![q] = @ \cup {d}]
        BY <2>2, <3>1, <3>2, Zenon
      <3>4. memory[m] \in [Pixels -> SUBSET Detections]
        BY <3>1, Zenon
      <3>5. p = q
        BY <1>3, <3>3, <3>4, Zenon
      <3>6. memory'[m][p] = memory[m][p] \cup {d}
        BY <3>3, <3>4, <3>5, Zenon
      <3> QED BY <1>3, <3>2, <3>5, <3>6, Zenon
    <2>4. step[d] = "write"
      BY <2>1, Zenon DEF WritePixel
    <2>5. Past(d)
      BY <2>4 DEF Past
    <2> QED BY <1>0, <2>2, <2>3, <2>4, <2>5, Zenon DEF Working
  <1> QED BY <1>2, <1>3, Zenon

(* The pixels that a detection reads are within its reach; what others have
   written there interferes with it. *)
LEMMA WhatIsMet ==
  ASSUME DetectionInv, NEW d \in Detections, target[d] # 0, NEW P \in SUBSET Reach(d),
         NEW e \in UNION {memory[target[d]][p] : p \in P}, Reach(d) \subseteq Pixels
  PROVE  Past(d) /\ Past(e) /\ Interferes(e, d)
  <1>0. Working(d) /\ MemoryInv /\ DetectionTypeOK
    BY Zenon DEF DetectionInv
  <1>1. PICK p \in P : e \in memory[target[d]][p]
    BY Zenon
  <1>2. Past(d) /\ target[d] \in Detections /\ got[target[d]] = got[d]
    BY <1>0, Zenon DEF Working, DetectionTypeOK
  <1>3. Past(e) /\ got[e] = got[d] /\ WritesFrame(e) /\ p \in param[e].area
    BY <1>0, <1>1, <1>2, Zenon DEF MemoryInv
  <1>4. got[d] # 0
    BY <1>0, <1>2, Numbers, Zenon DEF Working
  <1> QED BY <1>1, <1>2, <1>3, <1>4, Zenon DEF Interferes

(* Reading keeps to the reach: the area, and around it under smoothing. *)
LEMMA ReachOfReading ==
  ASSUME DetectionInv, NEW d \in Detections, StepOf(d)
  PROVE  \/ met'[d] = met[d]
         \/ /\ target[d] # 0
            /\ \E P \in SUBSET Reach(d) :
                  met'[d] = met[d] \cup UNION {memory[target[d]][p] : p \in P}
  <1>0. DetectionTypeOK /\ Working(d)
    BY Zenon DEF DetectionInv
  <1>1. param[d].area \in SUBSET Reach(d)
    BY Zenon DEF Reach, Around
  <1>2. ASSUME NEW P \in SUBSET Reach(d), Meets(d, P)
        PROVE  met'[d] = met[d] \cup UNION {memory[target[d]][p] : p \in P}
    BY <1>0, <1>2, Zenon DEF Meets, DetectionTypeOK
  <1>3. CASE PreProcessInPlace(d)
    BY <1>1, <1>2, <1>3, Zenon DEF PreProcessInPlace, NextFilter
  <1>4. CASE WritePixel(d)
    <2>1. PICK p \in writing[d] : Meets(d, {p})
      BY <1>4, Zenon DEF WritePixel
    <2>2. target[d] # 0 /\ {p} \in SUBSET Reach(d)
      BY <1>0, <1>1, <1>4, Zenon DEF WritePixel, Working
    <2> QED BY <1>2, <2>1, <2>2, Zenon
  <1>5. CASE PreProcessCopying(d)
    <2>1. CASE param[d].filters[applied[d] + 1] = "blur"
      <3>1. target[d] # 0 /\ Meets(d, Around(param[d].area))
        BY <1>5, <2>1, Zenon DEF PreProcessCopying, NextFilter
      <3>2. applied[d] + 1 \in DOMAIN param[d].filters
        BY <1>0, <1>5, CurrentFilter, Zenon DEF PreProcessCopying, NextFilter
      <3>3. ReadsAround(d)
        BY <1>0, <2>1, <3>1, <3>2, Zenon DEF ReadsAround, Working
      <3>4. Around(param[d].area) \in SUBSET Reach(d)
        BY <3>3, Zenon DEF Reach
      <3> QED BY <1>2, <3>1, <3>4, Zenon
    <2>2. CASE param[d].filters[applied[d] + 1] # "blur"
      BY <1>1, <1>2, <1>5, <2>2, Zenon DEF PreProcessCopying, NextFilter
    <2> QED BY <2>1, <2>2, Zenon
  <1>6. CASE Read(d)
    BY <1>1, <1>2, <1>6, Zenon DEF Read
  <1>7. CASE ~PreProcessInPlace(d) /\ ~WritePixel(d) /\ ~PreProcessCopying(d) /\ ~Read(d)
    BY <1>7, Zenon
       DEF StepOf, Detecting, PreProcess, Ocr, Detect, GetImage, GetTarget, PreProcessNothing,
           PreProcessOwnMat, GetText, SetImage, GetUTF8Text, MeanTextConf, OcrError
  <1> QED BY <1>3, <1>4, <1>5, <1>6, <1>7, Zenon

(* Whatever is met on the way interferes. *)
LEMMA MetKeeps ==
  ASSUME DetectionInv, NEW d \in Detections, StepOf(d)
  PROVE  MetInv' /\ OnlyInPlaceFiltersInterfere'
  <1>0. DetectionTypeOK /\ DetectionTypeOK' /\ MetInv /\ OnlyInPlaceFiltersInterfere
    BY DetectionTyped, Zenon DEF DetectionInv
  <1>1. ASSUME NEW x \in Detections, NEW e \in met'[x]
        PROVE  Past(x) /\ Past(e) /\ (e # x => Interferes(e, x))
    <2>1. CASE e \in met[x]
      BY <1>0, <2>1, Zenon DEF MetInv, OnlyInPlaceFiltersInterfere
    <2>2. CASE e \notin met[x]
      <3>1. x = d
        BY <1>0, <1>1, <2>2, OthersKeep, Zenon
      <3>2. target[d] # 0
        BY <1>1, <2>2, <3>1, ReachOfReading, Zenon
      <3>3. PICK P \in SUBSET Reach(d) :
              met'[d] = met[d] \cup UNION {memory[target[d]][p] : p \in P}
        BY <1>1, <2>2, <3>1, ReachOfReading, Zenon
      <3>4. e \in UNION {memory[target[d]][p] : p \in P}
        BY <1>1, <2>2, <3>1, <3>3, Zenon
      <3>5. Reach(d) \subseteq Pixels
        BY <1>0, ParamParts, Zenon DEF Reach
      <3> QED BY <3>1, <3>2, <3>4, <3>5, WhatIsMet, Zenon
    <2> QED BY <2>1, <2>2, Zenon
  <1>2. ASSUME NEW x \in Detections, NEW e \in met'[x]
        PROVE  /\ e \in Detections
               /\ Past(x)' /\ got'[x] = got[x] /\ param'[x] = param[x]
               /\ Past(e)' /\ got'[e] = got[e] /\ param'[e] = param[e]
    <2>1. e \in Detections
      BY <1>0, <1>2, Zenon DEF DetectionTypeOK
    <2> QED BY <1>0, <1>1, <1>2, <2>1, PastStays, Zenon
  <1>3. MetInv'
    BY <1>2, Zenon DEF MetInv
  <1>4. ASSUME NEW x \in Detections, NEW e \in met'[x], e # x PROVE Interferes(e, x)'
    <2>1. /\ e \in Detections /\ got'[x] = got[x] /\ param'[x] = param[x]
          /\ got'[e] = got[e] /\ param'[e] = param[e]
      BY <1>2, <1>4, Zenon
    <2>2. (WritesFrame(e)' <=> WritesFrame(e)) /\ Reach(x)' = Reach(x)
      BY <2>1, SameReach, Zenon
    <2>3. Interferes(e, x)
      BY <1>1, <1>4, Zenon
    <2> QED BY <2>1, <2>2, <2>3, Zenon DEF Interferes
  <1>5. OnlyInPlaceFiltersInterfere'
    BY <1>4, Zenon DEF OnlyInPlaceFiltersInterfere
  <1> QED BY <1>3, <1>5, Zenon

(* getText is entered by one detection at a time, and its answer is complete
   or empty when it leaves. *)
LEMMA OcrKeeps ==
  ASSUME DetectionInv, NEW d \in Detections, StepOf(d)
  PROVE  OcrInv' /\ OcrAnswersItsOwnImage'
  <1>0. DetectionTypeOK /\ OcrInv /\ OcrAnswersItsOwnImage /\ Working(d)
    BY Zenon DEF DetectionInv
  <1> DEFINE Inside == {"setImage", "getUTF8Text", "meanTextConf"}
             Kept(e) == /\ step[e] \in Inside => lock = e
                        /\ step[e] \in {"getUTF8Text", "meanTextConf"} => image = e
                        /\ step[e] = "meanTextConf" => text[e] = e
                        /\ step[e] = "done" /\ param[e].kind = "ocr" =>
                              text[e] \in {0, e} /\ confidence[e] = text[e]
  <1> SUFFICES \A e \in Detections : Kept(e)'
    BY Zenon DEF OcrInv, OcrAnswersItsOwnImage
  <1>1. \A e \in Detections : Kept(e)
    BY <1>0, Zenon DEF OcrInv, OcrAnswersItsOwnImage
  <1>2. ASSUME NEW e \in Detections, e # d
        PROVE  /\ step'[e] = step[e] /\ param'[e] = param[e]
               /\ text'[e] = text[e] /\ confidence'[e] = confidence[e]
    BY <1>0, <1>2, OthersKeep, Zenon
  <1>3. ASSUME NEW e \in Detections, e # d PROVE Kept(e)'
    <2>1. ASSUME step[e] \in Inside PROVE lock' = lock /\ image' = image
      <3>1. lock = e
        BY <1>1, <1>3, <2>1, Zenon
      <3>2. step[d] \notin Inside /\ lock # 0
        BY <1>1, <1>3, <3>1, Numbers, Zenon
      <3> QED BY <3>2, Zenon
          DEF StepOf, Detecting, PreProcess, Ocr, Detect, GetImage, GetTarget,
              PreProcessInPlace, WritePixel, PreProcessCopying, PreProcessNothing,
              PreProcessOwnMat, NextFilter, Read, GetText, SetImage, GetUTF8Text,
              MeanTextConf, OcrError, Goto, ocrVars
    <2> QED BY <1>1, <1>2, <1>3, <2>1
  <1>4. Kept(d)'
    <2>1. CASE ~Ocr(d)
      <3>1. step'[d] \notin Inside
        BY <1>0, <2>1
           DEF StepOf, Detecting, PreProcess, Detect, GetImage, GetTarget, PreProcessInPlace,
               WritePixel, PreProcessCopying, PreProcessNothing, PreProcessOwnMat, NextFilter,
               Read, Goto, DetectionTypeOK
      <3>2. step'[d] = "done" => Read(d) /\ param[d].kind # "ocr" /\ param' = param
        BY <1>0, <2>1
           DEF StepOf, Detecting, PreProcess, Detect, GetImage, GetTarget, PreProcessInPlace,
               WritePixel, PreProcessCopying, PreProcessNothing, PreProcessOwnMat, NextFilter,
               Read, Goto, DetectionTypeOK
      <3> QED BY <3>1, <3>2
    <2>2. CASE GetText(d)
      <3>1. step'[d] = "setImage" /\ lock' = d
        BY <1>0, <2>2, Zenon DEF GetText, Goto, DetectionTypeOK
      <3> QED BY <3>1
    <2>3. CASE SetImage(d)
      <3>1. step[d] = "setImage" /\ step'[d] = "getUTF8Text" /\ lock' = lock /\ image' = d
        BY <1>0, <2>3, Zenon DEF SetImage, Goto, DetectionTypeOK
      <3> QED BY <1>1, <3>1
    <2>4. CASE GetUTF8Text(d)
      <3>1. /\ step[d] = "getUTF8Text" /\ step'[d] = "meanTextConf"
            /\ lock' = lock /\ image' = image /\ text'[d] = image
        BY <1>0, <2>4, Zenon DEF GetUTF8Text, Goto, DetectionTypeOK
      <3> QED BY <1>1, <3>1
    <2>5. CASE MeanTextConf(d)
      <3>1. /\ step[d] = "meanTextConf" /\ step'[d] = "done"
            /\ text' = text /\ confidence'[d] = image
        BY <1>0, <2>5, Zenon DEF MeanTextConf, Goto, DetectionTypeOK
      <3> QED BY <1>1, <3>1
    <2>6. CASE OcrError(d)
      <3>1. step'[d] = "done" /\ text'[d] = 0 /\ confidence'[d] = 0
        BY <1>0, <2>6, Zenon DEF OcrError, DetectionTypeOK
      <3> QED BY <3>1
    <2> QED BY <2>1, <2>2, <2>3, <2>4, <2>5, <2>6, Zenon DEF Ocr
  <1> QED BY <1>3, <1>4, Zenon

(* A new frame, and an eviction, leave the detections alone. *)
LEMMA FrameStepKeeps ==
  ASSUME DetectionInv,
         SetFrame \/ (\E f \in Frames : Evict(f)) \/ UNCHANGED detectionVars
  PROVE  DetectionInv'
  <1>0. DetectionTypeOK /\ UNCHANGED <<memory, detectVars, ocrVars>>
    BY Zenon DEF DetectionInv, SetFrame, Evict, detectionVars, frameVars
  <1> USE DEF detectVars, ocrVars
  <1>1. \A f \in Frames : matCache'[f] \in {matCache[f], 0}
    BY <1>0, Zenon DEF SetFrame, Evict, DetectionTypeOK, detectionVars, frameVars
  <1>2. DetectionTypeOK'
    <2>1. frame' \in 0 .. MaxFrames
      BY <1>0, BoundsAssumption DEF SetFrame, Evict, DetectionTypeOK, detectionVars, frameVars
    <2>2. matCache' \in [Frames -> Mats \cup {0}]
      BY <1>0, Zenon DEF SetFrame, Evict, DetectionTypeOK, detectionVars, frameVars
    <2> QED BY <1>0, <2>1, <2>2, Zenon DEF DetectionTypeOK
  <1>3. OcrInv' /\ OcrAnswersItsOwnImage' /\ MetInv'
    BY <1>0, Zenon DEF DetectionInv, OcrInv, OcrAnswersItsOwnImage, MetInv, Past
  <1>4. \A d \in Detections : /\ Past(d)' <=> Past(d)
                              /\ WritesFrame(d)' <=> WritesFrame(d)
                              /\ Reach(d)' = Reach(d)
    BY <1>0, SameReach, Zenon DEF Past
  <1>5. ASSUME NEW d \in Detections PROVE Working(d)'
    <2>1. OnFrame(d, applied[d] + 1)' <=> OnFrame(d, applied[d] + 1)
      BY <1>0, Zenon DEF OnFrame, Copies
    <2>2. Past(target[d])' <=> Past(target[d])
      BY <1>0, Zenon DEF Past
    <2> QED BY <1>0, <1>4, <2>1, <2>2, Zenon DEF DetectionInv, Working
  <1>6. CacheInv'
    <2> SUFFICES ASSUME NEW f \in Frames, matCache'[f] # 0
                 PROVE  Past(matCache[f])' /\ got'[matCache'[f]] = f
      BY Zenon DEF CacheInv
    <2>1. matCache'[f] = matCache[f]
      BY <1>1, Zenon
    <2>2. Past(matCache[f]) /\ got[matCache[f]] = f
      BY <2>1, Zenon DEF DetectionInv, CacheInv
    <2> QED BY <1>0, <2>1, <2>2, Zenon DEF Past
  <1>7. MemoryInv'
    <2> SUFFICES ASSUME NEW m \in Detections, NEW p \in Pixels, NEW e \in memory[m][p]
                 PROVE  /\ Past(m)' /\ Past(e)' /\ got[e] = got[m]
                        /\ WritesFrame(e)' /\ p \in param[e].area
      BY <1>0, Zenon DEF MemoryInv
    <2>1. memory[m] \in [Pixels -> SUBSET Detections]
      BY <1>0, Zenon DEF DetectionTypeOK
    <2>2. e \in Detections
      BY <2>1, Zenon
    <2> QED BY <1>4, <2>2, Zenon DEF DetectionInv, MemoryInv
  <1>8. OnlyInPlaceFiltersInterfere'
    <2> SUFFICES ASSUME NEW d \in Detections, NEW e \in met'[d] \ {d} PROVE Interferes(e, d)'
      BY Zenon DEF OnlyInPlaceFiltersInterfere
    <2>1. e \in Detections /\ Interferes(e, d)
      BY <1>0, Zenon DEF DetectionInv, OnlyInPlaceFiltersInterfere, DetectionTypeOK
    <2> QED BY <1>0, <1>4, <2>1, Zenon DEF Interferes
  <1> QED BY <1>2, <1>3, <1>5, <1>6, <1>7, <1>8, Zenon DEF DetectionInv

(* Every step of the program keeps the invariant. *)
LEMMA DetectionInductive ==
  ASSUME DetectionInv, [DetectionNext]_detectionVars
  PROVE  DetectionInv'
  <1>1. ASSUME NEW d \in Detections, StepOf(d) PROVE DetectionInv'
    <2>1. DetectionTypeOK'
      BY <1>1, DetectionTyped, Zenon
    <2>2. \A e \in Detections : Working(e)'
      BY <1>1, OwnWork, OthersWork, Zenon
    <2>3. CacheInv' /\ MemoryInv'
      BY <1>1, CacheKeeps, MemoryKeeps, Zenon
    <2>4. OcrInv' /\ OcrAnswersItsOwnImage' /\ MetInv' /\ OnlyInPlaceFiltersInterfere'
      BY <1>1, OcrKeeps, MetKeeps, Zenon
    <2> QED BY <2>1, <2>2, <2>3, <2>4, Zenon DEF DetectionInv
  <1> QED BY <1>1, FrameStepKeeps, Zenon DEF DetectionNext, StepOf

(* DetectionInv holds in every reachable state. *)
THEOREM DetectionInvariance == DetectionSpec => []DetectionInv
  <1>1. DetectionInit => DetectionInv
    BY DetectionInitial, Zenon
  <1>2. DetectionInv /\ [DetectionNext]_detectionVars => DetectionInv'
    BY DetectionInductive, Zenon
  <1> QED BY <1>1, <1>2, PTL DEF DetectionSpec

(* Only a filter that works in place on the Mat of the same frame, within the
   area or the border that smoothing reads, lets one detection see what
   another has made of the picture (getTarget, preprocessors). *)
THEOREM InterferenceTheorem == DetectionSpec => []OnlyInPlaceFiltersInterfere
  <1>1. DetectionInv => OnlyInPlaceFiltersInterfere
    BY Zenon DEF DetectionInv
  <1> QED BY <1>1, DetectionInvariance, PTL

(* The text and the confidence that getText returns are those of one image,
   the caller's, or both empty. *)
THEOREM OcrTheorem == DetectionSpec => []OcrAnswersItsOwnImage
  <1>1. DetectionInv => OcrAnswersItsOwnImage
    BY Zenon DEF DetectionInv
  <1> QED BY <1>1, DetectionInvariance, PTL

=============================================================================
