--------------------------- MODULE ScriptRunner ---------------------------
(***************************************************************************)
(* The life of a script run: the RUN!/STOP! button of MainPanel, the       *)
(* ScriptRunner behind it and the ScriptTask that executes the script on a *)
(* pool thread and reports its end through Platform.runLater.              *)
(*                                                                         *)
(* The user-interface thread runs one handler at a time; `fx' is where it  *)
(* is inside a handler, and the script threads move between its steps.     *)
(* run, stop and isRunning are only called from that thread, so the        *)
(* ScriptRunner monitor is never contended.  Run k is the k-th ScriptTask  *)
(* that is submitted.                                                      *)
(***************************************************************************)
EXTENDS Naturals, Sequences

CONSTANT MaxRuns      \* bound on the number of runs

ASSUME MaxRunsAssumption == MaxRuns \in Nat

Runs == 1 .. MaxRuns

VARIABLES
    fx,           \* position of the user-interface thread
    button,       \* text of the run button
    current,      \* currentScriptTask, 0 for null
    protocol,     \* a protocol is installed in ControllerService
    broken,       \* its port has failed: writing to it throws
    posted,       \* runs whose callback waits in the runLater queue
    task,         \* position of each run's thread in ScriptTask.run
    loop,         \* ScriptInfo.isLoop of the run's script
    running,      \* ScriptTask.running
    interrupt,    \* the interrupt flag of the run's thread
    reset,        \* a reset handler waits for the next iteration
    stopped,      \* history: ScriptTask.stop() was called
    late,         \* history: running was set after stop() had cleared it
    swallowed     \* history: execute() consumed an interrupt and went on

fxVars == <<fx, button, current, protocol, broken>>
taskVars == <<task, loop, running, interrupt, reset>>
history == <<stopped, late, swallowed>>
vars == <<fxVars, posted, taskVars, history>>

FxSteps == {"idle", "loaded", "cancel", "clear", "enable"}
Alive == {"begun", "iterate", "executing", "test"}
TaskSteps == Alive \cup {"none", "queued", "finally", "ended", "cancelled"}

TypeOK ==
    /\ fx \in FxSteps
    /\ button \in {"RUN!", "STOP!"}
    /\ current \in Runs \cup {0}
    /\ protocol \in BOOLEAN /\ broken \in BOOLEAN
    /\ posted \in Seq(Runs)
    /\ task \in [Runs -> TaskSteps]
    /\ loop \in [Runs -> BOOLEAN]
    /\ running \in [Runs -> BOOLEAN]
    /\ interrupt \in [Runs -> BOOLEAN]
    /\ reset \in [Runs -> BOOLEAN]
    /\ stopped \in [Runs -> BOOLEAN]
    /\ late \in [Runs -> BOOLEAN]
    /\ swallowed \in [Runs -> BOOLEAN]

NoRun == [k \in Runs |-> FALSE]

Init ==
    /\ fx = "idle" /\ button = "RUN!" /\ current = 0
    /\ protocol = FALSE /\ broken = FALSE
    /\ posted = <<>>
    /\ task = [k \in Runs |-> "none"]
    /\ loop = NoRun /\ running = NoRun /\ interrupt = NoRun /\ reset = NoRun
    /\ stopped = NoRun /\ late = NoRun /\ swallowed = NoRun

-----------------------------------------------------------------------------
(* The user-interface thread.                                               *)

(* RUN! is clicked: runScript up to loadProtocol.  With a failed port still
   installed its clear() throws and nothing changes; a device that does not
   answer leaves no protocol and an alert. *)
ClickRun ==
    /\ fx = "idle"
    /\ current = 0
    /\ \/ ~broken /\ protocol' = TRUE /\ fx' = "loaded"
       \/ ~broken /\ protocol' = FALSE /\ UNCHANGED fx
       \/ broken /\ UNCHANGED <<protocol, fx>>
    /\ UNCHANGED <<button, current, broken, posted, taskVars, history>>

(* findScript, reloadScripts or script.load() throws: the alert ends the
   handler, the protocol stays installed. *)
PrepareFails ==
    /\ fx = "loaded"
    /\ fx' = "idle"
    /\ UNCHANGED <<button, current, protocol, broken, posted, taskVars, history>>

(* scriptRunner.run and disableSelections.  The stop() inside run finds no
   task: the handler found isRunning() false and no other thread starts one. *)
Launch(k) ==
    /\ fx = "loaded"
    /\ task[k] = "none"
    /\ \A j \in Runs : j < k => task[j] # "none"
    /\ current' = k
    /\ task' = [task EXCEPT ![k] = "queued"]
    /\ \E l \in BOOLEAN : loop' = [loop EXCEPT ![k] = l]
    /\ button' = "STOP!"
    /\ fx' = "idle"
    /\ UNCHANGED <<protocol, broken, posted, running, interrupt, reset, history>>

(* ScriptRunner.stop(), first statement: currentScriptTask.stop(). *)
TaskStop ==
    /\ running' = [running EXCEPT ![current] = FALSE]
    /\ stopped' = [stopped EXCEPT ![current] = TRUE]
    /\ fx' = "cancel"

(* STOP! is clicked. *)
ClickStop ==
    /\ fx = "idle"
    /\ current # 0
    /\ TaskStop
    /\ UNCHANGED <<button, current, protocol, broken, posted, task, loop,
                   interrupt, reset, late, swallowed>>

(* Mutant: enableScripts does not stop the runner. *)
CallbackWithoutStop ==
    /\ fx = "idle"
    /\ posted # <<>>
    /\ posted' = Tail(posted)
    /\ fx' = "enable"
    /\ UNCHANGED <<button, current, protocol, broken, taskVars, history>>

(* The runLater queue delivers enableScripts for a run that has ended.  Its
   stop() goes to whichever task is current by then. *)
Callback ==
    /\ fx = "idle"
    /\ posted # <<>>
    /\ posted' = Tail(posted)
    /\ \/ current # 0 /\ TaskStop
       \/ current = 0 /\ fx' = "enable" /\ UNCHANGED <<running, stopped>>
    /\ UNCHANGED <<button, current, protocol, broken, task, loop, interrupt,
                   reset, late, swallowed>>

(* Mutant: cancel(false) leaves the thread alone. *)
CancelWithoutInterrupt ==
    /\ fx = "cancel"
    /\ current' = 0
    /\ task' = [task EXCEPT ![current] = IF @ = "queued" THEN "cancelled" ELSE @]
    /\ fx' = "clear"
    /\ UNCHANGED <<button, protocol, broken, posted, loop, running, interrupt,
                   reset, history>>

(* Mutant: the future is not cancelled, only interrupted. *)
CancelLeavesQueue ==
    /\ fx = "cancel"
    /\ current' = 0
    /\ interrupt' = [interrupt EXCEPT ![current] =
                       @ \/ task[current] \in Alive \cup {"finally"}]
    /\ fx' = "clear"
    /\ UNCHANGED <<button, protocol, broken, posted, task, loop, running, reset,
                   history>>

(* currentScriptTask = null and cancel(true): a task no thread has begun is
   never run and never calls back; a thread that has begun is interrupted. *)
Cancel ==
    /\ fx = "cancel"
    /\ current' = 0
    /\ task' = [task EXCEPT ![current] = IF @ = "queued" THEN "cancelled" ELSE @]
    /\ interrupt' = [interrupt EXCEPT ![current] =
                       @ \/ task[current] \in Alive \cup {"finally"}]
    /\ fx' = "clear"
    /\ UNCHANGED <<button, protocol, broken, posted, loop, running, reset,
                   history>>

(* controllerService.clear(), which throws and leaves the handler when the
   port has failed. *)
ClearController ==
    /\ fx = "clear"
    /\ \/ ~broken /\ protocol' = FALSE /\ fx' = "enable"
       \/ broken /\ fx' = "idle" /\ UNCHANGED protocol
    /\ UNCHANGED <<button, current, broken, posted, taskVars, history>>

(* The rest of enableScripts: its own stop() finds no task any more. *)
EnableScripts ==
    /\ fx = "enable"
    /\ button' = "RUN!"
    /\ fx' = "idle"
    /\ UNCHANGED <<current, protocol, broken, posted, taskVars, history>>

(* The adapter is unplugged while its port is open. *)
Unplug ==
    /\ protocol
    /\ ~broken
    /\ broken' = TRUE
    /\ UNCHANGED <<fx, button, current, protocol, posted, taskVars, history>>

-----------------------------------------------------------------------------
(* ScriptTask.run on a pool thread.                                         *)

Step(k, from, to) ==
    /\ task[k] = from
    /\ task' = [task EXCEPT ![k] = to]
    /\ UNCHANGED fxVars

(* A pool thread takes the task; from here cancel(true) interrupts it. *)
Begin(k) ==
    /\ Step(k, "queued", "begun")
    /\ UNCHANGED <<posted, loop, running, interrupt, reset, history>>

(* running.set(script.getInfo().isLoop()) *)
SetRunning(k) ==
    /\ Step(k, "begun", "iterate")
    /\ running' = [running EXCEPT ![k] = loop[k]]
    /\ late' = [late EXCEPT ![k] = stopped[k]]
    /\ UNCHANGED <<posted, loop, interrupt, reset, stopped, swallowed>>

(* reset() and the start of script.execute() *)
Iterate(k) ==
    /\ Step(k, "iterate", "executing")
    /\ reset' = [reset EXCEPT ![k] = FALSE]
    /\ UNCHANGED <<posted, loop, running, interrupt, history>>

(* execute() returns, or throws ResetScriptException with or without a
   handler to run before the next iteration. *)
Complete(k) ==
    /\ Step(k, "executing", "test")
    /\ \E r \in BOOLEAN : reset' = [reset EXCEPT ![k] = r]
    /\ UNCHANGED <<posted, loop, running, interrupt, history>>

(* execute() throws InterruptScriptException or any other exception; the
   InterruptedException of a sleep takes the interrupt flag with it. *)
Abort(k) ==
    /\ Step(k, "executing", "finally")
    /\ \/ interrupt' = [interrupt EXCEPT ![k] = FALSE]
       \/ UNCHANGED interrupt
    /\ UNCHANGED <<posted, loop, running, reset, history>>

(* execute() consumes the interrupt and goes on: the Thread.interrupted() of
   a looping script it runs with script(name), or the catch-all of push(). *)
Swallow(k) ==
    /\ task[k] = "executing"
    /\ interrupt[k]
    /\ interrupt' = [interrupt EXCEPT ![k] = FALSE]
    /\ swallowed' = [swallowed EXCEPT ![k] = TRUE]
    /\ UNCHANGED <<fxVars, posted, task, loop, running, reset, stopped, late>>

(* Mutant: the loop only looks at running. *)
TestWithoutInterrupt(k) ==
    /\ Step(k, "test", IF running[k] THEN "iterate" ELSE "finally")
    /\ UNCHANGED <<posted, loop, running, interrupt, reset, history>>

(* while (running.get() && !Thread.interrupted()): the second test is only
   made if the first holds, and clears the flag. *)
Test(k) ==
    /\ \/ /\ running[k] /\ ~interrupt[k]
          /\ Step(k, "test", "iterate")
          /\ UNCHANGED interrupt
       \/ /\ running[k] => interrupt[k]
          /\ Step(k, "test", "finally")
          /\ interrupt' = [interrupt EXCEPT ![k] = @ /\ ~running[k]]
    /\ UNCHANGED <<posted, loop, running, reset, history>>

(* Mutant: the callback is not called. *)
FinallyWithoutCallback(k) ==
    /\ Step(k, "finally", "ended")
    /\ UNCHANGED <<posted, loop, running, interrupt, reset, history>>

(* script.destroy() and the callback, which posts enableScripts. *)
Finally(k) ==
    /\ Step(k, "finally", "ended")
    /\ posted' = Append(posted, k)
    /\ UNCHANGED <<loop, running, interrupt, reset, history>>

-----------------------------------------------------------------------------
FxHandler == Callback \/ Cancel \/ ClearController \/ EnableScripts

TaskStep(k) ==
    \/ Begin(k) \/ SetRunning(k) \/ Iterate(k) \/ Complete(k) \/ Abort(k)
    \/ Test(k) \/ Finally(k)

Next ==
    \/ ClickRun \/ ClickStop \/ PrepareFails
    \/ \E k \in Runs : Launch(k)
    \/ FxHandler
    \/ Unplug
    \/ \E k \in Runs : TaskStep(k) \/ Swallow(k)

Spec == Init /\ [][Next]_vars

(* The user-interface thread goes on with its handler and with the callbacks
   posted to it, and the pool gives every run a thread that goes on.  Nothing
   is assumed of the user, nor of how long execute() takes. *)
FairSpec ==
    /\ Spec
    /\ WF_vars(FxHandler)
    /\ \A k \in Runs :
          WF_vars(Begin(k) \/ SetRunning(k) \/ Iterate(k) \/ Test(k) \/ Finally(k))

-----------------------------------------------------------------------------
(* A script thread that is no longer the runner's current task can only begin
   another iteration if two things came together: its running.set() came
   after stop() had cleared the flag, and the script then consumed the
   interrupt that cancel(true) sent (ScriptTask.run, ScriptRunner.stop). *)
StrayScriptsAreStopping ==
    \A k \in Runs :
        task[k] \in Alive /\ current # k /\ running[k]
          => late[k] /\ (interrupt[k] \/ swallowed[k])

(* A script that has not been told to stop is the current task, so that STOP!
   reaches it: no run is ever forgotten by ScriptRunner while its thread
   works or waits for a thread. *)
NoRunIsForgotten ==
    \A k \in Runs :
        task[k] \in Alive \cup {"queued"} /\ current # k
          => stopped[k] /\ task[k] # "queued"

(* Between handlers the button says STOP! exactly when there is a task to
   stop, unless the port failed and clear() threw out of the handler. *)
ButtonShowsRunner ==
    fx = "idle" /\ ~broken => (button = "STOP!" <=> current # 0)

(* The runner's current script has a protocol to talk through from the moment
   it is submitted until stop() has let go of it (loadProtocol comes before
   run, clear() after cancel). *)
CurrentRunHasProtocol == current # 0 => protocol

(* The callback of a run that has ended is not lost while the runner still
   holds the run: it waits in the runLater queue, or an earlier stop is about
   to let go of the run (ScriptTask.run's finally, enableScripts). *)
EndedRunHasItsCallback ==
    \A k \in Runs : task[k] = "ended" /\ current = k =>
        fx = "cancel" \/ \E i \in 1 .. Len(posted) : posted[i] = k

(* A run that was told to stop begins another iteration only if its thread
   had set running after stop() had cleared it; once cancel(true) has been
   sent, only if the script also consumed the interrupt (the condition of
   ScriptTask.run's loop). *)
StoppedRunsStartOnlyLate ==
    [][\A k \in Runs : task[k] = "test" /\ task'[k] = "iterate" /\ stopped[k] =>
          late[k] /\ (current = k \/ swallowed[k])]_vars

(* A script that has ended does not stay the current task: its callback, or
   an earlier stop, releases the runner, so that the button works again. *)
EndedRunsAreReleased ==
    \A k \in Runs : task[k] = "ended" ~> current # k

(* STOP! ends a script, provided that each call of its execute() ends:
   whatever the moment of the click, the thread ends or never starts, except
   for the late start whose interrupt was consumed. *)
StopTakesEffect ==
    \A k \in Runs :
        []<>(task[k] # "executing") =>
          (stopped[k] ~> task[k] \in {"ended", "cancelled"}
                           \/ (late[k] /\ swallowed[k]))

-----------------------------------------------------------------------------
(* The inductive invariant.                                                 *)

(* Where the handler is determines what the runner and the button hold. *)
HandlerInv ==
    /\ current # 0 \/ fx = "loaded" \/ broken => protocol
    /\ fx = "loaded" \/ fx = "clear" \/ fx = "enable" => current = 0
    /\ fx = "loaded" /\ ~broken => button = "RUN!"
    /\ fx = "cancel" => current # 0 /\ stopped[current]

(* What became of the flags of a run that was told to stop. *)
StopInv ==
    \A k \in Runs :
        /\ running[k] /\ stopped[k] => late[k]
        /\ task[k] \in Alive /\ current # k => interrupt[k] \/ swallowed[k]

(* The inductive strengthening of the four invariants above: it says where
   MainPanel's handler, ScriptRunner.stop and ScriptTask.run can be together. *)
RunnerInv ==
    /\ TypeOK
    /\ HandlerInv
    /\ StopInv
    /\ NoRunIsForgotten
    /\ ButtonShowsRunner
=============================================================================
