------------------------ MODULE ControllerService ------------------------
(***************************************************************************)
(* ControllerService.java: the object through which every script thread    *)
(* drives the virtual game controller, its CHECK_CONTROLLER daemon, and    *)
(* the user-interface thread that installs and removes the Protocol.       *)
(*                                                                         *)
(* A slot is one index of buttonExpired or of stickExpired: a button that  *)
(* is not a hat direction, the index all hat directions share              *)
(* (getExpireTimeIndex maps them to D_TOP), or a stick.  `expired' is both *)
(* arrays; `direction' is hatDirections and stickDirections; Off is an     *)
(* unpressed button, the null hat direction or a centred stick.            *)
(*                                                                         *)
(* synchronized methods hold `monitor'.  clear() is not synchronized, nor  *)
(* is the daemon's reading of the expiry times, so both interleave with    *)
(* the steps of a call that is inside the monitor: the step that records   *)
(* the expiry, the protocol calls, and the step that records the direction *)
(* and leaves.                                                             *)
(***************************************************************************)
EXTENDS Naturals

CONSTANTS
    Buttons,      \* buttons that are not hat directions
    Hat,          \* the slot shared by the hat directions
    HatDirs,      \* D_TOP, D_BOTTOM, D_LEFT, D_RIGHT
    Sticks,       \* the slots of the two sticks
    StickDirs,    \* stick actions other than the two centres
    Pressed,      \* the value of a button slot that is held
    Off,          \* not pressed, no hat direction, stick centred
    Clients,      \* script threads (a stopped script may overlap the next)
    Daemon,       \* the CHECK_CONTROLLER thread
    Nobody,       \* the monitor is free
    Durations,    \* hold times scripts ask for
    Horizon       \* bound on the clock

Threads == Clients \cup {Daemon}
Slots == Buttons \cup {Hat} \cup Sticks

(* The actions that address a slot; a stick can be held at its centre. *)
Actions(s) == IF s \in Buttons THEN {Pressed}
              ELSE IF s = Hat THEN HatDirs
              ELSE StickDirs \cup {Off}

Values == {Pressed, Off} \cup HatDirs \cup StickDirs

ASSUME DistinctSlots ==
    /\ Hat \notin Buttons \cup Sticks
    /\ Buttons \cap Sticks = {}
ASSUME DistinctValues == Off \notin {Pressed} \cup HatDirs \cup StickDirs
ASSUME DistinctThreads == Daemon \notin Clients /\ Nobody \notin Threads
ASSUME ClockAssumption == Horizon \in Nat \ {0} /\ Durations \subseteq Nat

(* Long.MAX_VALUE: an expiry the clock never reaches. *)
Forever == Horizon + 1
Times == 0 .. Forever

VARIABLES
    now,        \* System.currentTimeMillis()
    expired,    \* buttonExpired and stickExpired; 0 is "not held"
    direction,  \* hatDirections and stickDirections
    protocol,   \* the field and the state of its port, see ProtocolStates
    image,      \* currentBytes of the installed EasyCon protocol
    console,    \* the report the controller hardware received last
    monitor,    \* owner of the ControllerService monitor
    pc,         \* where each thread is inside ControllerService
    args,       \* the slot of its call, the value it gives it, its expiry
    todo,       \* slots autoRelease has still to look at in this round
    clearing,   \* where the user-interface thread is inside clear()
    overlapped, \* history: clear() overlapped a call
    hatFailed,  \* history: a call for the hat ended in an exception
    torn        \* history: clear() overlapped a call, a call failed, or a
                \* protocol was installed over leftovers

histories == <<overlapped, hatFailed, torn>>
vars == <<now, expired, direction, protocol, image, console, monitor, pc,
          args, todo, clearing, histories>>

ProtocolStates == {"none", "open", "closed", "broken"}
PCs == {"idle", "wait", "due", "off", "send", "finish", "dead"}
ClearSteps == {"idle", "close", "unset", "fillSticks", "fillButtons",
               "hat", "sticks"}

Args == [slot : Slots, val : Values, till : Times]
NoArgs == [slot |-> Hat, val |-> Off, till |-> 0]

Neutral == [s \in Slots |-> Off]
NotHeld == [s \in Slots |-> 0]

TypeOK ==
    /\ now \in 1 .. Horizon
    /\ expired \in [Slots -> Times]
    /\ direction \in [Slots -> Values]
    /\ protocol \in ProtocolStates
    /\ image \in [Slots -> Values]
    /\ console \in [Slots -> Values]
    /\ monitor \in Threads \cup {Nobody}
    /\ pc \in [Threads -> PCs]
    /\ args \in [Threads -> Args]
    /\ todo \in SUBSET Slots
    /\ clearing \in ClearSteps
    /\ overlapped \in BOOLEAN /\ hatFailed \in BOOLEAN /\ torn \in BOOLEAN

Init ==
    /\ now = 1
    /\ expired = NotHeld
    /\ direction = Neutral
    /\ protocol = "none"
    /\ image = Neutral
    /\ console = Neutral
    /\ monitor = Nobody
    /\ pc = [t \in Threads |-> "idle"]
    /\ args = [t \in Threads |-> NoArgs]
    /\ todo = Slots
    /\ clearing = "idle"
    /\ overlapped = FALSE /\ hatFailed = FALSE /\ torn = FALSE

Tick == /\ now < Horizon
        /\ now' = now + 1
        /\ UNCHANGED <<expired, direction, protocol, image, console, monitor,
                       pc, args, todo, clearing, histories>>

-----------------------------------------------------------------------------
(* Calls that hold and release.                                             *)

(* A call that clear() overlaps is noted. *)
NoteOverlap ==
    /\ overlapped' = (overlapped \/ clearing # "idle")
    /\ torn' = (torn \/ clearing # "idle")
    /\ UNCHANGED hatFailed

(* Mutant: the field is not compared with null. *)
EnterWithoutNullCheck(t, s, v, first) ==
    /\ monitor' = t
    /\ pc' = [pc EXCEPT ![t] = first]
    /\ args' = [args EXCEPT ![t] = [slot |-> s, val |-> v, till |-> 0]]
    /\ NoteOverlap

(* A call that has something to send goes on to the protocol if it finds
   one installed, and straight to recording the direction otherwise. *)
Enter(t, s, v, first) ==
    /\ monitor' = t
    /\ pc' = [pc EXCEPT ![t] = IF protocol = "none" THEN "finish" ELSE first]
    /\ args' = [args EXCEPT ![t] = [slot |-> s, val |-> v, till |-> 0]]
    /\ NoteOverlap

(* A call that finds nothing to do leaves the monitor in the same step. *)
LeaveAtOnce(t) ==
    /\ pc' = [pc EXCEPT ![t] = "idle"]
    /\ args' = [args EXCEPT ![t] = NoArgs]
    /\ UNCHANGED monitor

(* hatDirections[0] == action or stickDirections[index] == action; a button
   that is not a hat direction has no direction to differ in. *)
SameDirection(s, v) == s \in Buttons \/ direction[s] = v

(* Mutant: a later hold overwrites the expiry. *)
ProlongedBlindly(s, expiredTime) == expiredTime

(* if (buttonExpired[index] < expiredTime) buttonExpired[index] = expiredTime *)
Prolonged(s, expiredTime) ==
    IF expired[s] < expiredTime THEN expiredTime ELSE expired[s]

checkAndHold(t, s, v, expiredTime) ==
    /\ monitor = Nobody
    /\ \/ /\ expired[s] = 0
          /\ expired' = [expired EXCEPT ![s] = expiredTime]
          /\ Enter(t, s, v, "send")
       \/ /\ expired[s] # 0
          /\ SameDirection(s, v)
          /\ expired' = [expired EXCEPT ![s] = Prolonged(s, expiredTime)]
          /\ LeaveAtOnce(t)
          /\ NoteOverlap
       \/ /\ expired[s] # 0
          /\ ~SameDirection(s, v)
          /\ expired' = [expired EXCEPT ![s] = expiredTime]
          /\ Enter(t, s, v, IF s = Hat THEN "off" ELSE "send")
    /\ UNCHANGED <<now, direction, protocol, image, console, todo, clearing>>

(* The expiry times a call made now can ask for: press and hold(action,
   duration) add to the clock, hold(action) asks for Long.MAX_VALUE. *)
ExpiredTimes == {Forever} \cup {now + d : d \in {e \in Durations :
                                                   now + e <= Horizon}}

(* press(Button), hold(Button, int), hold(Button): the clock is read inside
   the monitor. *)
HoldButton(c, s, v) ==
    /\ pc[c] = "idle"
    /\ s \notin Sticks
    /\ \E e \in ExpiredTimes : checkAndHold(c, s, v, e)

(* hold(Stick, int) and hold(Stick) are not synchronized: the expiry is
   computed first and the monitor awaited with it. *)
HoldStick(c, s, v) ==
    /\ pc[c] = "idle"
    /\ s \in Sticks
    /\ \E e \in ExpiredTimes :
          args' = [args EXCEPT ![c] = [slot |-> s, val |-> v, till |-> e]]
    /\ pc' = [pc EXCEPT ![c] = "wait"]
    /\ UNCHANGED <<now, expired, direction, protocol, image, console, monitor,
                   todo, clearing, histories>>

CheckAndHoldStick(c) ==
    /\ pc[c] = "wait"
    /\ checkAndHold(c, args[c].slot, args[c].val, args[c].till)

release(t, s) ==
    /\ monitor = Nobody
    /\ \/ /\ expired[s] # 0
          /\ expired' = [expired EXCEPT ![s] = 0]
          /\ Enter(t, s, Off, "send")
       \/ /\ expired[s] = 0
          /\ LeaveAtOnce(t)
          /\ UNCHANGED <<expired, histories>>
    /\ UNCHANGED <<now, direction, protocol, image, console, todo, clearing>>

Release(c, s) == pc[c] = "idle" /\ release(c, s)

(* The exception of a failed protocol call leaves the monitor.  In a script
   it reaches the script; in the daemon it ends DaemonTask.run for ever. *)
Fail(t) ==
    /\ monitor' = Nobody
    /\ pc' = [pc EXCEPT ![t] = IF t = Daemon THEN "dead" ELSE "idle"]
    /\ args' = [args EXCEPT ![t] = NoArgs]
    /\ hatFailed' = (hatFailed \/ args[t].slot = Hat)
    /\ torn' = TRUE
    /\ UNCHANGED overlapped

(* One call of the installed EasyCon protocol: currentBytes changes, then
   the whole of it is written to the port.  A port that is closed or has
   failed makes the write throw, a field that is null again the call. *)
ProtocolCall(t, v, next) ==
    /\ image' = IF protocol = "none" THEN image
                ELSE [image EXCEPT ![args[t].slot] = v]
    /\ \/ /\ protocol = "open"
          /\ console' = image'
          /\ pc' = [pc EXCEPT ![t] = next]
          /\ UNCHANGED <<monitor, args, histories>>
       \/ /\ protocol # "open"
          /\ Fail(t)
          /\ UNCHANGED console
    /\ UNCHANGED <<now, expired, direction, protocol, todo, clearing>>

(* protocol.release(hatDirections[0]) when the hat changes direction; a null
   direction is a null pointer exception. *)
ReleaseOldHat(t) ==
    /\ pc[t] = "off"
    /\ \/ direction[Hat] # Off /\ ProtocolCall(t, Off, "send")
       \/ /\ direction[Hat] = Off
          /\ Fail(t)
          /\ UNCHANGED <<now, expired, direction, protocol, image, console,
                         todo, clearing>>

(* protocol.hold(action), protocol.release(action) or protocol.set(action) *)
Send(t) == pc[t] = "send" /\ ProtocolCall(t, args[t].val, "finish")

(* Mutant: the new direction is not recorded. *)
FinishForgetsDirection(t) ==
    /\ pc[t] = "finish"
    /\ monitor' = Nobody
    /\ pc' = [pc EXCEPT ![t] = "idle"]
    /\ args' = [args EXCEPT ![t] = NoArgs]
    /\ UNCHANGED <<now, expired, direction, protocol, image, console, todo,
                   clearing, histories>>

Finish(t) ==
    /\ pc[t] = "finish"
    /\ direction' = IF args[t].slot \in Buttons THEN direction
                    ELSE [direction EXCEPT ![args[t].slot] = args[t].val]
    /\ monitor' = Nobody
    /\ pc' = [pc EXCEPT ![t] = "idle"]
    /\ args' = [args EXCEPT ![t] = NoArgs]
    /\ UNCHANGED <<now, expired, protocol, image, console, todo, clearing,
                   histories>>

-----------------------------------------------------------------------------
(* autoRelease, the CHECK_CONTROLLER daemon.                                *)

Due(s) == expired[s] # 0 /\ now >= expired[s]

(* One iteration of its loops: the expiry is read outside the monitor. *)
CheckSlot(s) ==
    /\ pc[Daemon] = "idle"
    /\ s \in todo
    /\ todo' = todo \ {s}
    /\ \/ /\ Due(s)
          /\ pc' = [pc EXCEPT ![Daemon] = "due"]
          /\ args' = [args EXCEPT ![Daemon].slot = s]
       \/ /\ ~Due(s)
          /\ UNCHANGED <<pc, args>>
    /\ UNCHANGED <<now, expired, direction, protocol, image, console, monitor,
                   clearing, histories>>

(* release(BUTTON_ACTIONS[i]) or release(L_CENTER / R_CENTER) looks only at
   whether the slot is held, not at its expiry again. *)
ReleaseDue == pc[Daemon] = "due" /\ release(Daemon, args[Daemon].slot)

(* Mutant: the daemon makes a single round. *)
NextRoundNever ==
    /\ pc[Daemon] = "idle"
    /\ todo = {}
    /\ UNCHANGED vars

(* The sleep of AUTO_RELEASE_DELAY between rounds. *)
NextRound ==
    /\ pc[Daemon] = "idle"
    /\ todo = {}
    /\ todo' = Slots
    /\ UNCHANGED <<now, expired, direction, protocol, image, console, monitor,
                   pc, args, clearing, histories>>

-----------------------------------------------------------------------------
(* The user-interface thread: clear() and MainPanel.loadProtocol.           *)

(* protocol.clear() first writes the neutral report.  If the write throws,
   clear() ends there with everything as it was. *)
ClearSendDefault ==
    /\ clearing = "idle"
    /\ protocol \in {"open", "broken"}
    /\ \/ /\ protocol = "open"
          /\ console' = Neutral
          /\ clearing' = "close"
          /\ overlapped' = (monitor # Nobody)
          /\ hatFailed' = FALSE
          /\ torn' = (monitor # Nobody)
       \/ /\ protocol = "broken"
          /\ UNCHANGED <<console, clearing, histories>>
    /\ UNCHANGED <<now, expired, direction, protocol, image, monitor, pc,
                   args, todo>>

ClearClosePort ==
    /\ clearing = "close"
    /\ protocol' = "closed"
    /\ clearing' = "unset"
    /\ UNCHANGED <<now, expired, direction, image, console, monitor, pc, args, todo, histories>>

ClearUnset ==
    /\ clearing = "unset"
    /\ protocol' = "none"
    /\ clearing' = "fillSticks"
    /\ UNCHANGED <<now, expired, direction, image, console, monitor, pc, args, todo, histories>>

(* Mutant: the buttons' expiry times are not reset. *)
ClearFillForgetsButtons ==
    /\ \/ /\ clearing = "fillSticks"
          /\ expired' = [s \in Slots |-> IF s \in Sticks THEN 0 ELSE expired[s]]
          /\ clearing' = "hat"
          /\ UNCHANGED direction
       \/ /\ clearing = "hat"
          /\ direction' = Neutral
          /\ clearing' = "sticks"
          /\ UNCHANGED expired
       \/ /\ clearing = "sticks"
          /\ clearing' = "idle"
          /\ UNCHANGED <<expired, direction>>
    /\ UNCHANGED <<now, protocol, image, console, monitor, pc, args, todo,
                   histories>>

(* The four writes of the reset, none of them under the monitor. *)
ClearFill ==
    /\ \/ /\ clearing = "fillSticks"
          /\ expired' = [s \in Slots |-> IF s \in Sticks THEN 0 ELSE expired[s]]
          /\ clearing' = "fillButtons"
          /\ UNCHANGED direction
       \/ /\ clearing = "fillButtons"
          /\ expired' = [s \in Slots |-> IF s \in Sticks THEN expired[s] ELSE 0]
          /\ clearing' = "hat"
          /\ UNCHANGED direction
       \/ /\ clearing = "hat"
          /\ direction' = [direction EXCEPT ![Hat] = Off]
          /\ clearing' = "sticks"
          /\ UNCHANGED expired
       \/ /\ clearing = "sticks"
          /\ direction' = [s \in Slots |->
                             IF s \in Sticks THEN Off ELSE direction[s]]
          /\ clearing' = "idle"
          /\ UNCHANGED expired
    /\ UNCHANGED <<now, protocol, image, console, monitor, pc, args,
                   todo, histories>>

(* The record and the console are as they were when the program started. *)
AtRest == /\ monitor = Nobody
          /\ expired = NotHeld
          /\ direction = Neutral
          /\ console = Neutral

(* MainPanel.loadProtocol after its clear() has returned: open the port, ask
   the device whether it is there, then setProtocol, or protocol.clear(),
   which a device that did not answer may still have taken in, and an alert. *)
LoadProtocol ==
    /\ clearing = "idle"
    /\ protocol = "none"
    /\ \/ /\ protocol' = "open"
          /\ image' = Neutral
          /\ overlapped' = (overlapped /\ ~AtRest)
          /\ hatFailed' = (hatFailed /\ ~AtRest)
          /\ torn' = ~AtRest
          /\ UNCHANGED console
       \/ /\ console' \in {console, Neutral}
          /\ UNCHANGED <<protocol, image, histories>>
    /\ UNCHANGED <<now, expired, direction, monitor, pc, args, todo,
                   clearing>>

(* The adapter is pulled out: every later write to this port throws. *)
Unplug ==
    /\ protocol = "open"
    /\ protocol' = "broken"
    /\ UNCHANGED <<now, expired, direction, image, console, monitor, pc, args, todo, clearing, histories>>

-----------------------------------------------------------------------------
ClientCall(c) ==
    \/ \E s \in Slots : \E v \in Actions(s) : HoldButton(c, s, v)
    \/ \E s \in Slots : \E v \in Actions(s) : HoldStick(c, s, v)
    \/ \E s \in Slots : Release(c, s)

InCall(t) == ReleaseOldHat(t) \/ Send(t) \/ Finish(t)

AutoRelease == (\E s \in Slots : CheckSlot(s)) \/ NextRound

Clear == ClearSendDefault \/ ClearClosePort \/ ClearUnset \/ ClearFill

Next ==
    \/ Tick
    \/ \E c \in Clients : ClientCall(c)
    \/ \E c \in Clients : CheckAndHoldStick(c)
    \/ \E t \in Threads : InCall(t)
    \/ AutoRelease
    \/ ReleaseDue
    \/ Clear
    \/ LoadProtocol
    \/ Unplug

Spec == Init /\ [][Next]_vars

(* The clock advances, the daemon's thread is scheduled, a thread inside the
   monitor goes on (the writes it makes do not block), and a monitor that is
   free again and again is granted to the daemon.  Nothing is assumed of the
   scripts or of the user. *)
FairSpec ==
    /\ Spec
    /\ WF_vars(Tick)
    /\ WF_vars(AutoRelease)
    /\ SF_vars(ReleaseDue)
    /\ \A t \in Threads : WF_vars(InCall(t))

-----------------------------------------------------------------------------
(* Properties.                                                              *)

(* A call inside the monitor is working on the slot. *)
Busy(s) == \E t \in Threads : /\ pc[t] \in {"off", "send", "finish"}
                             /\ args[t].slot = s

(* What the console was told of a slot is what the record says of it. *)
Agrees(s) ==
    /\ expired[s] = 0 => console[s] = Off
    /\ s \notin Sticks /\ expired[s] # 0 => console[s] # Off
    /\ s \notin Buttons => console[s] = direction[s]

(* buttonExpired, stickExpired, hatDirections and stickDirections say what
   the console is being shown: nothing is pressed that is not on record to be
   released, and nothing on record is missing on the console, in every
   interleaving of scripts and daemon, as long as no clear() overlapped a call
   and no write failed since the last clear() that ran alone, and the protocol
   was not installed while a script went on without one (MainPanel.loadProtocol
   over leftovers). *)
ConsoleMatchesRecord ==
    ~torn /\ protocol = "open" /\ clearing = "idle"
        => \A s \in Slots : ~Busy(s) => Agrees(s)

(* A call inside the monitor that is about to use the protocol finds a port
   that is not closed and a field that is not null, unless a clear()
   overlapped a call since the last one that ran alone; and, when it changes
   the hat's direction, an old direction to release, unless besides a call for
   the hat has failed since: the hold that fails leaves an expiry without a
   direction, and the next direction is a NullPointerException although no
   clear() was made (checkAndHold, hatDirections). *)
CallsFindTheirProtocol ==
    \A t \in Threads :
        /\ pc[t] \in {"off", "send"} => protocol \in {"open", "broken"} \/ overlapped
        /\ pc[t] = "off" => direction[Hat] # Off \/ hatFailed \/ overlapped

(* A clear() that no call overlaps leaves nothing on record and a neutral
   console, whatever leftovers it started from. *)
ClearAloneRestoresRest ==
    [][clearing = "sticks" /\ clearing' = "idle" /\ ~torn => AtRest']_vars

(* While a slot is held, a second hold only ever prolongs it; the expiry
   shrinks without a release only when the hat or the stick is sent in another
   direction.  In particular hold(action) is not cut short by press(action). *)
HoldsAreOnlyProlonged ==
    [][\A s \in Slots : 0 < expired'[s] /\ expired'[s] < expired[s] =>
          /\ s \notin Buttons
          /\ \E c \in Clients : /\ monitor' = c
                                /\ args'[c].slot = s
                                /\ args'[c].val # direction[s]]_vars

(* A hold with a time limit ends (or is turned into one without) in every
   schedule in which the CHECK_CONTROLLER daemon has not been ended by an
   exception of the protocol. *)
TimedHoldsEnd ==
    \A s \in Slots : expired[s] \in 1 .. Horizon ~>
        \/ expired[s] \notin 1 .. Horizon
        \/ pc[Daemon] = "dead"

-----------------------------------------------------------------------------
(* The inductive invariant behind the safety properties.                    *)

Inside == {"off", "send", "finish"}

(* The monitor is held by the one thread that is inside, and a thread that
   waits or changes the hat's direction has the arguments for it. *)
MonitorInv ==
    \A t \in Threads :
        /\ pc[t] \in Inside <=> monitor = t
        /\ pc[t] = "off" => args[t].slot = Hat
        /\ pc[t] = "wait" => /\ t \in Clients
                            /\ args[t].slot \in Sticks
                            /\ args[t].till # 0

(* The state of the port goes with the progress of clear(). *)
PortInv ==
    /\ protocol = "closed" <=> clearing = "unset"
    /\ clearing = "close" => protocol \in {"open", "broken"}
    /\ clearing \in {"fillSticks", "fillButtons", "hat", "sticks"}
          => protocol = "none"

NoButtonDirection == \A s \in Slots : s \in Buttons => direction[s] = Off

(* A clear() nothing overlaps finds the monitor free and the console neutral,
   and what it has filled stays filled. *)
QuietClearInv ==
    ~torn /\ clearing # "idle" =>
        /\ monitor = Nobody
        /\ console = Neutral
        /\ clearing \in {"fillButtons", "hat", "sticks"}
              => \A s \in Slots : s \in Sticks => expired[s] = 0
        /\ clearing \in {"hat", "sticks"}
              => \A s \in Slots : s \notin Sticks => expired[s] = 0
        /\ clearing = "sticks" => direction[Hat] = Off

(* What the thread inside the monitor has recorded goes with what it sends. *)
HolderOK(t) ==
    /\ expired[args[t].slot] = 0 => args[t].val = Off
    /\ args[t].slot \notin Sticks /\ expired[args[t].slot] # 0
          => args[t].val # Off
    /\ pc[t] = "finish" => console[args[t].slot] = args[t].val

LiveInv ==
    ~torn /\ clearing = "idle" /\ protocol \in {"open", "broken"} =>
        /\ console = image
        /\ \A s \in Slots : Busy(s) \/ Agrees(s)
        /\ \A t \in Threads : pc[t] \in Inside => HolderOK(t)

(* A hat that is held has a direction, or the call inside the monitor is
   giving it one. *)
HatInv ==
    /\ clearing # "idle" /\ ~overlapped => ~torn
    /\ ~overlapped /\ ~hatFailed /\ clearing = "idle" =>
          /\ expired[Hat] # 0 /\ ~Busy(Hat) => direction[Hat] # Off
          /\ \A t \in Threads : pc[t] \in Inside /\ args[t].slot = Hat
                                   /\ expired[Hat] # 0 => args[t].val # Off

IInv ==
    /\ TypeOK
    /\ MonitorInv
    /\ PortInv
    /\ NoButtonDirection
    /\ QuietClearInv
    /\ LiveInv
    /\ HatInv
    /\ CallsFindTheirProtocol
=============================================================================
